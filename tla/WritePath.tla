------------------------------ MODULE WritePath ------------------------------
(***************************************************************************)
(* The write path of one connected client channel: write, close, the       *)
(* pending chunks, the water marks and the WRITE event (channel.py and     *)
(* _send_pending_chunks and _close_channel_internally of eventloop.py).    *)
(*                                                                         *)
(* Everything here runs on the loop thread, so nothing interleaves; what   *)
(* makes it hard is re-entrancy.  A future that is resolved runs its       *)
(* listeners, and a state change runs the handler, in the middle of the    *)
(* code that caused it, and that user code may write and close again.  The *)
(* call stack is therefore part of the state: its top is the code that is  *)
(* running, either a label of the library or a kind of user code.          *)
(***************************************************************************)
EXTENDS Integers, Sequences, FiniteSetsExt, SequencesExt

CONSTANTS
  MaxWrites,   \* bound: calls of write
  MaxMarks,    \* bound: close chunks queued at a time
  MaxDepth,    \* bound: nesting of calls
  Sizes,       \* lengths of the buffers written
  High, Low,   \* the water marks
  Allowed,     \* what user code does where: pairs <<context, call>>
  CloseMark    \* a chunk with close = True

ASSUME WritePathAssumption ==
  /\ MaxWrites \in Nat /\ MaxMarks \in Nat /\ MaxDepth \in Nat
  /\ Sizes \subseteq Nat
  /\ High \in Nat /\ Low \in Nat /\ Low <= High /\ High > 0
  /\ CloseMark \notin Nat

Writes == 1 .. MaxWrites       \* write calls, in the order they are made
Chunks == Writes \cup {CloseMark}

\* User code: a task or a read handler; the listener of a write's future; the
\* handler of channel_writability_changed on a WRITE event; and the callbacks a
\* close runs, where the channel is half closed.
UserContexts == {"listener", "writability", "closing"}
Contexts == UserContexts \cup {"task", "afterClose"}
Labels == UserContexts \cup
  {"round", "complete", "sent",                                 \* a send pass
   "fail", "stale", "socket", "inactive", "unregister"}         \* a close

ASSUME AllowedAssumption == Allowed \subseteq Contexts \X {"write", "close", "force"}

VARIABLES
  pendings,      \* _pendings
  pendingBytes,  \* _pending_bytes
  writable,      \* _writable
  writeFlag,     \* EVENT_WRITE in _flag
  open,          \* the socket is open
  closeDone,     \* _close_future is done
  active,        \* _active
  registered,    \* the channel is in the selector and in _channels
  left,          \* len(chunk.buffer) of each chunk
  future,        \* the future of each write
  stack,         \* the call stack, running code first
  chunks,        \* _send_pending_chunks: its local list ...
  aliased,       \* ... which is the list _pendings names, or a copy
  batch,         \* chunks handed to the socket and not yet accounted for
  bytesLeft,     \* bytes of the batch the socket took, not yet accounted for
  crashed,       \* an exception has left _start: the loop thread is gone
  written,       \* write calls so far
  size, sent     \* history: bytes of each write asked for, taken by the socket

queue == <<pendings, pendingBytes, writable, writeFlag>>
lifecycle == <<open, closeDone, active, registered>>
pass == <<chunks, aliased, batch, bytesLeft>>
writes == <<left, future, written, size, sent>>
vars == <<queue, lifecycle, pass, writes, stack, crashed>>

TypeOK ==
  /\ pendings \in Seq(Chunks) /\ chunks \in Seq(Chunks) /\ batch \in Seq(Writes)
  /\ pendingBytes \in Nat /\ bytesLeft \in Nat
  /\ {writable, writeFlag, open, closeDone, active, registered, aliased, crashed} \subseteq BOOLEAN
  /\ left \in [Chunks -> Nat] /\ size \in [Writes -> Nat] /\ sent \in [Writes -> Nat]
  /\ future \in [Writes -> {"none", "pending", "ok", "failed"}]
  /\ stack \in Seq(Labels)
  /\ written \in 0 .. MaxWrites

Init ==
  /\ pendings = <<>> /\ pendingBytes = 0 /\ writable = TRUE /\ writeFlag = TRUE
  /\ open = TRUE /\ closeDone = FALSE /\ active = TRUE /\ registered = TRUE
  /\ chunks = <<>> /\ aliased = FALSE /\ batch = <<>> /\ bytesLeft = 0
  /\ left = [chunk \in Chunks |-> 0] /\ future = [w \in Writes |-> "none"]
  /\ written = 0
  /\ size = [w \in Writes |-> 0] /\ sent = [w \in Writes |-> 0]
  /\ stack = <<>>
  /\ crashed = FALSE

Done(w) == future[w] \in {"ok", "failed"}
IsActive == active /\ ~closeDone

-----------------------------------------------------------------------------
(* Calls of user code                                                      *)

\* Where the running user code stands; "" if library code is running.
Running == IF stack = <<>> THEN "task" ELSE Head(stack)
Context ==
  IF Running \in {"task", "writability"} /\ closeDone THEN "afterClose"
  ELSE IF Running \in Contexts THEN Running
  ELSE ""

MayCall(call) ==
  /\ ~crashed
  /\ <<Context, call>> \in Allowed
  /\ Len(stack) < MaxDepth

\* add_pending: the list object grows in place, under both of its names, and
\* WRITE interest is added if it is not there already.
AddPending(chunk, bytes) ==
  /\ pendings' = Append(pendings, chunk)
  /\ chunks' = IF aliased THEN Append(chunks, chunk) ELSE chunks
  /\ pendingBytes' = pendingBytes + bytes
  /\ writeFlag' = TRUE
  /\ UNCHANGED writable

Queued(w, bytes, total) ==
  /\ left' = [left EXCEPT ![w] = bytes]
  /\ future' = [future EXCEPT ![w] = "pending"]
  /\ IF bytes = 0 THEN UNCHANGED <<queue, chunks>> ELSE AddPending(w, bytes)
  /\ sent' = [sent EXCEPT ![w] = total - bytes]
  /\ UNCHANGED stack

\* Slip: the socket is tried although chunks are pending.
TrySocketFirstIfActive == IsActive

TrySocketFirst == IsActive /\ pendings = <<>>

\* write: with nothing pending the socket is tried at once.  An empty buffer
\* that is not tried is not queued either.
Write(n) ==
  LET w == written + 1 IN
  /\ MayCall("write")
  /\ written < MaxWrites
  /\ written' = w
  /\ size' = [size EXCEPT ![w] = n]
  /\ IF TrySocketFirst
     THEN \E rest \in 0 .. n :
            /\ open \/ rest = n
            /\ \/ rest > 0 /\ Queued(w, rest, n)
               \/ /\ rest = 0
                  /\ future' = [future EXCEPT ![w] = "ok"]
                  /\ sent' = [sent EXCEPT ![w] = n]
                  /\ stack' = <<"listener">> \o stack
                  /\ UNCHANGED <<queue, chunks, left>>
     ELSE Queued(w, n, n)
  /\ UNCHANGED <<lifecycle, aliased, batch, bytesLeft, crashed>>

\* close_gracefully: nothing happens on an inactive channel.
Close ==
  /\ MayCall("close")
  /\ IsActive
  /\ Quantify(DOMAIN pendings, LAMBDA i : pendings[i] = CloseMark) < MaxMarks
  /\ AddPending(CloseMark, 0)
  /\ UNCHANGED <<lifecycle, aliased, batch, bytesLeft, writes, stack, crashed>>

\* close_forcibly enters _close_channel_internally.
CloseForcibly ==
  /\ MayCall("force")
  /\ stack' = <<"fail">> \o stack
  /\ UNCHANGED <<queue, lifecycle, pass, writes, crashed>>

UserReturns ==
  /\ ~crashed
  /\ Running \in UserContexts
  /\ stack' = Tail(stack)
  /\ UNCHANGED <<queue, lifecycle, pass, writes, crashed>>

-----------------------------------------------------------------------------
(* _check_writability with "bytes" pending: the handler runs on a change.  *)

\* Slip: a full channel never becomes writable again.
CheckWritabilityDown(bytes, context, callers) ==
  LET now == writable /\ bytes < High IN
  /\ writable' = now
  /\ stack' = IF now # writable THEN <<context>> \o callers ELSE callers

CheckWritability(bytes, context, callers) ==
  LET now == IF bytes >= High THEN FALSE ELSE bytes <= Low \/ writable IN
  /\ writable' = now
  /\ stack' = IF now # writable THEN <<context>> \o callers ELSE callers

-----------------------------------------------------------------------------
(* The WRITE event and _send_pending_chunks                                *)

\* The socket of an open channel is writable from time to time.
WriteEvent ==
  /\ ~crashed /\ stack = <<>>
  /\ registered /\ writeFlag
  /\ \/ /\ pendings # <<>>
        /\ chunks' = pendings /\ aliased' = TRUE
        /\ stack' = <<"round">>
        /\ UNCHANGED <<queue, batch, bytesLeft>>
     \/ /\ pendings = <<>>
        /\ writeFlag' = FALSE
        /\ CheckWritability(pendingBytes, "writability", <<>>)
        /\ UNCHANGED <<pendings, pendingBytes, pass>>
  /\ UNCHANGED <<lifecycle, writes, crashed>>

\* Slip: WRITE interest is dropped although chunks are pending.
AfterPassDeaf ==
  /\ ~crashed /\ Running = "sent"
  /\ writeFlag' = FALSE
  /\ CheckWritability(pendingBytes, "writability", Tail(stack))
  /\ UNCHANGED <<pendings, pendingBytes, lifecycle, pass, writes, crashed>>

\* After the pass: drop WRITE interest if nothing is left, then the water marks.
AfterPass ==
  /\ ~crashed /\ Running = "sent"
  /\ writeFlag' = (writeFlag /\ ~(registered /\ pendings = <<>>))
  /\ CheckWritability(pendingBytes, "writability", Tail(stack))
  /\ UNCHANGED <<pendings, pendingBytes, lifecycle, pass, writes, crashed>>

Total(f, seq) ==
  LET upTo[i \in 0 .. Len(seq)] == IF i = 0 THEN 0 ELSE upTo[i - 1] + f[seq[i]]
  IN  upTo[Len(seq)]

Bytes(seq) == Total(left, seq)

\* The first k chunks form a batch if no close chunk is among them, the first
\* k - 1 are below the high water mark, and adding the k-th does not pass it.
IsBatch(k) ==
  /\ \A i \in 1 .. k : chunks[i] # CloseMark
  /\ k > 1 => Bytes(SubSeq(chunks, 1, k - 1)) < High /\ Bytes(SubSeq(chunks, 1, k)) <= High

PendingWriteBatch == SubSeq(chunks, 1, Max({k \in DOMAIN chunks : IsBatch(k)}))

SetPendings(seq) ==
  /\ pendings' = seq
  /\ aliased' = FALSE
  /\ chunks' = <<>>

PassEnds(seq) ==
  /\ SetPendings(seq)
  /\ stack' = <<"sent">> \o Tail(stack)

\* History: how the n bytes the socket takes spread over the writes of a batch.
Taken(seq, n) == [w \in Writes |->
  IF \E i \in DOMAIN seq : seq[i] = w
  THEN LET i == CHOOSE j \in DOMAIN seq : seq[j] = w
       IN Max({0, Min({left[w], n - Bytes(SubSeq(seq, 1, i - 1))})})
  ELSE 0]

\* try_send of the next batch: the socket takes n bytes, none if it is closed.
TrySend(n) ==
  LET next == PendingWriteBatch IN
  /\ open \/ n = 0
  /\ pendingBytes' = pendingBytes - n
  /\ sent' = [w \in Writes |-> sent[w] + Taken(next, n)[w]]
  /\ IF n = 0
     THEN PassEnds(chunks) /\ UNCHANGED <<batch, bytesLeft>>
     ELSE /\ batch' = next /\ bytesLeft' = n
          /\ stack' = <<"complete">> \o Tail(stack)
          /\ UNCHANGED <<pendings, chunks, aliased>>
  /\ UNCHANGED <<writable, writeFlag, lifecycle, left, future, written, size, crashed>>

\* Slip: off by one.
WentOutButOne(w) == bytesLeft + 1 >= left[w]

WentOut(w) == bytesLeft >= left[w]

\* The head of the batch went out as a whole: its future is resolved, which
\* raises InvalidStateError, and ends the loop thread, if it already was.
CompleteChunk ==
  LET w == Head(batch) IN
  /\ ~crashed /\ Running = "complete"
  /\ batch # <<>> /\ WentOut(w)
  /\ IF Done(w)
     THEN crashed' = TRUE /\ UNCHANGED <<pass, future, stack>>
     ELSE /\ future' = [future EXCEPT ![w] = "ok"]
          /\ bytesLeft' = bytesLeft - left[w]
          /\ batch' = Tail(batch) /\ chunks' = Tail(chunks)
          /\ stack' = <<"listener">> \o stack
          /\ UNCHANGED <<aliased, crashed>>
  /\ UNCHANGED <<queue, lifecycle, left, written, size, sent>>

\* Slip: the tail is dropped.
KeepNoTail ==
  LET w == Head(batch) IN
  /\ ~crashed /\ Running = "complete"
  /\ batch # <<>> /\ ~WentOut(w)
  /\ left' = [left EXCEPT ![w] = @ - bytesLeft]
  /\ batch' = <<>> /\ bytesLeft' = 0
  /\ PassEnds(Tail(chunks))
  /\ UNCHANGED <<pendingBytes, writable, writeFlag, lifecycle, future, written, size, sent, crashed>>

\* It went out in part: its tail stays for the next writable event.
KeepTail ==
  LET w == Head(batch) IN
  /\ ~crashed /\ Running = "complete"
  /\ batch # <<>> /\ ~WentOut(w)
  /\ left' = [left EXCEPT ![w] = @ - bytesLeft]
  /\ batch' = <<>> /\ bytesLeft' = 0
  /\ PassEnds(chunks)
  /\ UNCHANGED <<pendingBytes, writable, writeFlag, lifecycle, future, written, size, sent, crashed>>

\* The whole batch went out: the local list becomes a copy without it.
NextRound ==
  /\ ~crashed /\ Running = "complete"
  /\ batch = <<>>
  /\ aliased' = FALSE
  /\ stack' = <<"round">> \o Tail(stack)
  /\ UNCHANGED <<queue, lifecycle, chunks, batch, bytesLeft, writes, crashed>>

AllSent ==
  /\ ~crashed /\ Running = "round"
  /\ chunks = <<>>
  /\ PassEnds(<<>>)
  /\ UNCHANGED <<pendingBytes, writable, writeFlag, lifecycle, batch, bytesLeft, writes, crashed>>

\* Slip: the pass looks for a close chunk before it sends.
ReachAnyCloseMark ==
  /\ ~crashed /\ Running = "round"
  /\ CloseMark \in ToSet(chunks)
  /\ stack' = <<"fail", "sent">> \o Tail(stack)
  /\ chunks' = <<>> /\ aliased' = FALSE
  /\ UNCHANGED <<queue, lifecycle, batch, bytesLeft, writes, crashed>>

ReachCloseMark ==
  /\ ~crashed /\ Running = "round"
  /\ chunks # <<>> /\ Head(chunks) = CloseMark
  /\ stack' = <<"fail", "sent">> \o Tail(stack)
  /\ chunks' = <<>> /\ aliased' = FALSE
  /\ UNCHANGED <<queue, lifecycle, batch, bytesLeft, writes, crashed>>

-----------------------------------------------------------------------------
(* EOF, and _close_channel_internally                                      *)

EndOfFile ==
  /\ ~crashed /\ stack = <<>> /\ registered
  /\ stack' = <<"fail">>
  /\ UNCHANGED <<queue, lifecycle, pass, writes, crashed>>

Unresolved == {i \in DOMAIN pendings : pendings[i] # CloseMark /\ ~Done(pendings[i])}

\* fail_pendings iterates over the list itself, so a listener that adds to it
\* is answered by the same loop.
FailOne ==
  /\ ~crashed /\ Running = "fail"
  /\ Unresolved # {}
  /\ future' = [future EXCEPT ![pendings[Min(Unresolved)]] = "failed"]
  /\ stack' = <<"listener">> \o stack
  /\ UNCHANGED <<queue, lifecycle, pass, left, written, size, sent, crashed>>

\* The list is replaced.  A close further down the stack goes on iterating over
\* the old one, where nothing is left to fail.
ResetPendings ==
  /\ ~crashed
  /\ Running = "stale" \/ (Running = "fail" /\ Unresolved = {})
  /\ pendings' = <<>> /\ pendingBytes' = 0 /\ aliased' = FALSE
  /\ CheckWritability(0, "closing",
       <<"socket">> \o [i \in DOMAIN Tail(stack) |->
                          IF Tail(stack)[i] = "fail" THEN "stale" ELSE Tail(stack)[i]])
  /\ UNCHANGED <<writeFlag, lifecycle, chunks, batch, bytesLeft, writes, crashed>>

\* Slip: a callback cuts the close short.
ThenOnlyCallback(changed, next) ==
  stack' = (IF changed THEN <<"closing">> ELSE next) \o Tail(stack)

\* The step is followed by its callback if the state really changed.
ThenCallback(changed, next) ==
  stack' = (IF changed THEN <<"closing">> ELSE <<>>) \o next \o Tail(stack)

CloseSocket ==
  /\ ~crashed /\ Running = "socket"
  /\ open' = FALSE /\ closeDone' = TRUE
  /\ ThenCallback(~closeDone, <<"inactive">>)
  /\ UNCHANGED <<queue, active, registered, pass, writes, crashed>>

SetInactive ==
  /\ ~crashed /\ Running = "inactive"
  /\ active' = FALSE
  /\ ThenCallback(active, <<"unregister">>)
  /\ UNCHANGED <<queue, open, closeDone, registered, pass, writes, crashed>>

Unregister ==
  /\ ~crashed /\ Running = "unregister"
  /\ registered' = FALSE
  /\ ThenCallback(registered, <<>>)
  /\ UNCHANGED <<queue, open, closeDone, active, pass, writes, crashed>>

-----------------------------------------------------------------------------
UserStep ==
  \/ \E n \in Sizes : Write(n)
  \/ Close
  \/ CloseForcibly

SocketTakes(k) ==
  /\ ~crashed /\ Running = "round"
  /\ chunks # <<>> /\ Head(chunks) # CloseMark
  /\ \E n \in k .. Bytes(PendingWriteBatch) : TrySend(n)

LibraryStep ==
  \/ UserReturns \/ AfterPass \/ CompleteChunk \/ KeepTail \/ NextRound \/ AllSent
  \/ ReachCloseMark \/ FailOne \/ ResetPendings \/ CloseSocket \/ SetInactive \/ Unregister

Next == UserStep \/ WriteEvent \/ SocketTakes(0) \/ LibraryStep \/ EndOfFile

\* Callbacks return, the selector keeps reporting a writable socket, and a peer
\* that goes on reading makes room for at least a byte.
Fairness ==
  /\ WF_vars(LibraryStep) /\ SF_vars(UserReturns) /\ WF_vars(WriteEvent) /\ WF_vars(SocketTakes(0))
  /\ SF_vars(SocketTakes(1))

Spec == Init /\ [][Next]_vars /\ Fairness

-----------------------------------------------------------------------------
(* Whatever user code does inside the callbacks                            *)

\* Bytes leave in the order of the write calls: once the socket has taken a
\* byte of a write, it takes none of an earlier one, however writes are queued,
\* batched, sent in part, failed and made from inside callbacks.
NoOvertaking ==
  [][\A w, v \in Writes : w < v /\ sent[v] > 0 => sent'[w] = sent[w]]_vars

\* A write whose future reports success was taken by the socket to the last byte.
OkMeansSent == \A w \in Writes : future[w] = "ok" => sent[w] = size[w]

\* A graceful close comes in its turn: when a send pass begins to close the open
\* channel, the socket has taken every byte of the writes queued ahead of the close.
CloseInTurn ==
  [][Running = "round" /\ Running' = "fail" /\ open =>
       \A i \in DOMAIN pendings :
         CloseMark \notin ToSet(SubSeq(pendings, 1, i)) => sent[pendings[i]] = size[pendings[i]]]_vars

\* A close that has closed the socket goes through: the channel leaves the
\* selector and the loop's table, whatever its callbacks do on the way.
CloseGoesThrough == ~open ~> ~registered \/ crashed

-----------------------------------------------------------------------------
(* When callbacks of a running send pass or close do not write or close    *)

Queue == ToSet(pendings) \cup ToSet(chunks)

\* No write is forgotten: as long as its future is unresolved, its chunk is in
\* the queue or in the local list of the send pass.
NoWriteForgotten == \A w \in Writes : future[w] = "pending" => w \in Queue

\* Between callbacks the counter behind the water marks is what is queued.
BytesAccountedFor ==
  stack = <<>> => pendingBytes = Bytes(pendings)

\* A channel with something to send is told when its socket is writable.
InterestWhilePending ==
  stack = <<>> /\ registered /\ pendings # <<>> => writeFlag

\* No byte is skipped: the bytes of a later write go out after all of an earlier.
NoGap == \A w, v \in Writes : w < v /\ sent[v] > 0 => sent[w] = size[w]

\* A channel with nothing to send is writable.
WritableWhenDrained ==
  stack = <<>> /\ registered /\ pendings = <<>> /\ ~writeFlag => writable

\* Whatever is put into the queue is answered: a write, with success or with the
\* error of the close, and a graceful close, by the channel being closed.
QueueAnswered ==
  /\ \A w \in Writes : future[w] = "pending" ~> Done(w)
  /\ CloseMark \in Queue ~> closeDone

-----------------------------------------------------------------------------
(* What does not hold when they do                                         *)

\* No exception leaves the loop thread: not even the one that the library raises when
\* it resolves the future of a write that a listener's close has failed meanwhile.
LoopSurvives == ~crashed

\* A closed channel has no unanswered write.
ClosedAnswersWrites ==
  stack = <<>> /\ closeDone => \A w \in Writes : future[w] # "pending"
==============================================================================

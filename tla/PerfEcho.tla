------------------------------ MODULE PerfEcho ------------------------------
(***************************************************************************)
(* The echo performance runner (integration_tests/perf_echo.py): clients   *)
(* of three engines that share one record of the run, and the main thread  *)
(* that connects them, makes them send, waits with a timeout and reports.  *)
(*                                                                         *)
(* py-netty: callbacks on loop threads feed a client's state while the     *)
(* main thread sends through the same state.  threaded: one blocking       *)
(* client per thread of a pool.  asyncio: one task per client, cancelled   *)
(* at the timeout, which waits for its connection to be closed.  The peer  *)
(* need not read: the clients run against servers that are deployed apart  *)
(* too, and a server that echoes reads no more than it can write.          *)
(* A connection is the stream of what the server has echoed and the client *)
(* has not read, in units of a frame's part.                               *)
(***************************************************************************)
EXTENDS Integers, Sequences, FiniteSets

CONSTANTS
  N,         \* connections
  Messages,  \* frames per connection
  Size,      \* payload_size, in units
  Window,    \* units that the sockets and the server of a connection hold
  Cases,     \* pairs of an engine and whether it runs sequentially
  MaxFaults  \* bound: refused or broken connections and wrong echoes

Engines == {"py-netty", "asyncio", "threaded"}

ASSUME PerfAssumption ==
  /\ {N, Messages, Size} \subseteq Nat \ {0} /\ {Window, MaxFaults} \subseteq Nat
  /\ Cases \subseteq Engines \X BOOLEAN

Conns == 1 .. N

VARIABLES
  engine, sequential,  \* the case
  run,       \* _RunState: its event, its counters, and what went wrong
  link,      \* a connection: "none", "open", "failed", "broken" or "closed"
  stream,    \* echoed and not read: units <<sequence, part>>
  buffer,    \* _ClientState.buffer, or what _recv_exact has so far
  sent, received, complete,  \* of _ClientState
  sender,    \* send_next on the main thread and on the loop: its line and locals
  client,    \* a client's task or thread: "none", "send", "receive" or "over"; a task is
             \* "closing" or, with its cancellation still to come out, "cancelling" while
             \* it awaits wait_closed, and may end "cancelled"
  phase, at, \* the main thread: what it does, and for which connection
  timedOut,
  faults, corrupted  \* history: faults so far, and whether an echo was wrong

case == <<engine, sequential>>
states == <<sent, received, complete>>
history == <<faults, corrupted>>
net == <<link, stream, history>>
main == <<phase, at, timedOut>>
vars == <<case, run, net, buffer, states, sender, client, main>>

Callers == {"main", "loop"}
Idle == [line |-> "idle", sequence |-> 0, base |-> 0]

TypeOK ==
  /\ case \in Cases
  /\ run \in [done : BOOLEAN, completed : 0 .. N, received : 0 .. N * Messages,
              errors : SUBSET {"connect", "frame", "client", "timeout"}]
  /\ link \in [Conns -> {"none", "open", "failed", "broken", "closed"}]
  /\ {stream, buffer} \subseteq [Conns -> Seq(Int \X Nat)]
  /\ {sent, received} \subseteq [Conns -> 0 .. Messages]
  /\ complete \in [Conns -> BOOLEAN]
  /\ sender \in [Conns -> [Callers ->
       [line : {"idle", "check", "write", "load", "store"}, sequence : Nat, base : Nat]]]
  /\ client \in [Conns -> {"none", "send", "receive", "closing", "cancelling", "cancelled", "over"}]
  /\ phase \in {"connect", "send", "wait", "cancel", "close", "exit", "built"}
  /\ at \in 1 .. N + 1
  /\ timedOut \in BOOLEAN
  /\ faults \in 0 .. MaxFaults /\ corrupted \in BOOLEAN

Init ==
  /\ \E c \in Cases : engine = c[1] /\ sequential = c[2]
  /\ run = [done |-> FALSE, completed |-> 0, received |-> 0, errors |-> {}]
  /\ link = [c \in Conns |-> "none"]
  /\ stream = [c \in Conns |-> << >>] /\ buffer = [c \in Conns |-> << >>]
  /\ sent = [c \in Conns |-> 0] /\ received = [c \in Conns |-> 0]
  /\ complete = [c \in Conns |-> FALSE]
  /\ sender = [c \in Conns |-> [who \in Callers |-> Idle]]
  /\ client = [c \in Conns |-> "none"]
  /\ phase = "connect" /\ at = 1
  /\ timedOut = FALSE
  /\ faults = 0 /\ corrupted = FALSE

-----------------------------------------------------------------------------
(* _RunState; each method holds its lock                                   *)

RecordError(error) == run' = [run EXCEPT !.errors = @ \cup {error}, !.done = TRUE]

RecordMessage(r) == [r EXCEPT !.received = @ + 1]

\* Slip: any connection ends the wait.
MarkAny(r) == [r EXCEPT !.completed = @ + 1, !.done = TRUE]

MarkComplete(r) ==
  [r EXCEPT !.completed = @ + 1, !.done = @ \/ r.completed + 1 = N]

-----------------------------------------------------------------------------
(* Frames and the server, which sends back what it gets                    *)

Frame(sequence) == [i \in 1 .. Size |-> <<sequence, i>>]

\* Bytes written to a connection that is gone go nowhere.
WriteFrame(c, sequence) ==
  stream' = IF link[c] = "open" THEN [stream EXCEPT ![c] = @ \o Frame(sequence)] ELSE stream

\* Slip: the header is compared, the payload is not.
ValidateLoosely(c, frame) == frame[1] = Frame(received[c])[1]

Validate(c, frame) == frame = Frame(received[c])

Break(c) ==
  /\ link[c] = "open" /\ faults < MaxFaults
  /\ link' = [link EXCEPT ![c] = "broken"]
  /\ stream' = [stream EXCEPT ![c] = << >>]
  /\ faults' = faults + 1
  /\ UNCHANGED <<case, run, corrupted, buffer, states, sender, client, main>>

\* A server that does not echo what it got.
Corrupt(c) ==
  /\ stream[c] # << >> /\ faults < MaxFaults
  /\ stream' = [stream EXCEPT ![c][1] = <<-1, 0>>]
  /\ faults' = faults + 1 /\ corrupted' = TRUE
  /\ UNCHANGED <<case, run, link, buffer, states, sender, client, main>>

-----------------------------------------------------------------------------
(* send_next, on the main thread and from a callback on a loop.  What the  *)
(* main thread writes is a task of the loop; as long as one of the two     *)
(* writes at a time, it may as well be written at once.                    *)

\* The caller goes on: the main thread to the next connection or, in a burst, to
\* the next frame.
Proceed(c, who, again) ==
  /\ sender' = [sender EXCEPT ![c][who] = IF again THEN [Idle EXCEPT !.line = "check"] ELSE Idle]
  /\ at' = IF who = "main" /\ ~again THEN at + 1 ELSE at

SendCheck(c, who) ==
  /\ sender[c][who].line = "check"
  /\ IF sent[c] >= Messages
     THEN Proceed(c, who, FALSE)
     ELSE /\ sender' = [sender EXCEPT ![c][who].line = "write", ![c][who].sequence = sent[c]]
          /\ UNCHANGED at
  /\ UNCHANGED <<case, run, net, buffer, states, client, phase, timedOut>>

SendWrite(c, who) ==
  /\ sender[c][who].line = "write"
  /\ WriteFrame(c, sender[c][who].sequence)
  /\ sender' = [sender EXCEPT ![c][who].line = "load"]
  /\ UNCHANGED <<case, run, link, history, buffer, states, client, main>>

\* sent_messages += 1
SendLoad(c, who) ==
  /\ sender[c][who].line = "load"
  /\ sender' = [sender EXCEPT ![c][who].line = "store", ![c][who].base = sent[c]]
  /\ UNCHANGED <<case, run, net, buffer, states, client, main>>

SendStore(c, who) ==
  /\ sender[c][who].line = "store"
  /\ sent' = [sent EXCEPT ![c] = sender[c][who].base + 1]
  /\ Proceed(c, who, who = "main" /\ ~sequential)
  /\ UNCHANGED <<case, run, net, buffer, received, complete, client, phase, timedOut>>

SendNext(c, who) == SendCheck(c, who) \/ SendWrite(c, who) \/ SendLoad(c, who) \/ SendStore(c, who)

-----------------------------------------------------------------------------
(* py-netty: channel_read on a loop thread                                 *)

InCallback(c) == sender[c]["loop"].line # "idle" \/ Len(buffer[c]) >= Size

\* feed: any bytes that have come, frames or parts of frames.
Feed(c) ==
  /\ engine = "py-netty" /\ link[c] = "open" /\ ~InCallback(c)
  /\ \E n \in 1 .. Len(stream[c]) :
       /\ buffer' = [buffer EXCEPT ![c] = @ \o SubSeq(stream[c], 1, n)]
       /\ stream' = [stream EXCEPT ![c] = SubSeq(@, n + 1, Len(@))]
  /\ UNCHANGED <<case, run, link, history, states, sender, client, main>>

\* Slip: what has been sent is looked at.
FinishedSending(c) == sent[c] = Messages

Finished(c) == received'[c] = Messages /\ ~complete[c]

\* Slip: what follows a frame is dropped with it.
TakeAll(c) == buffer' = [buffer EXCEPT ![c] = << >>]

TakeFrame(c) == buffer' = [buffer EXCEPT ![c] = SubSeq(@, Size + 1, Len(@))]

HandleFrame(c) ==
  /\ engine = "py-netty" /\ Len(buffer[c]) >= Size /\ sender[c]["loop"].line = "idle"
  /\ TakeFrame(c)
  /\ IF ~Validate(c, SubSeq(buffer[c], 1, Size))
     THEN /\ RecordError("frame")
          /\ UNCHANGED <<received, complete, sender>>
     ELSE /\ received' = [received EXCEPT ![c] = @ + 1]
          /\ IF Finished(c)
             THEN /\ complete' = [complete EXCEPT ![c] = TRUE]
                  /\ run' = MarkComplete(RecordMessage(run))
                  /\ UNCHANGED sender
             ELSE /\ run' = RecordMessage(run)
                  /\ sender' = IF sequential THEN [sender EXCEPT ![c]["loop"].line = "check"] ELSE sender
                  /\ UNCHANGED complete
  /\ UNCHANGED <<case, net, sent, client, main>>

-----------------------------------------------------------------------------
(* asyncio and threaded: a client sends one frame or all, then receives    *)

\* A thread closes its socket.  A task closes its writer, which sends what it
\* still has before the connection is closed, and awaits that.
ClientEnds(c) ==
  IF engine = "asyncio"
  THEN client' = [client EXCEPT ![c] = "closing"] /\ UNCHANGED link
  ELSE client' = [client EXCEPT ![c] = "over"] /\ link' = [link EXCEPT ![c] = "closed"]

\* The connection is closed, and wait_closed returns.
WaitClosed(c) ==
  /\ client[c] \in {"closing", "cancelling"}
  /\ client' = [client EXCEPT ![c] = IF @ = "closing" THEN "over" ELSE "cancelled"]
  /\ link' = [link EXCEPT ![c] = "closed"]
  /\ UNCHANGED <<case, run, stream, history, buffer, states, sender, main>>

ClientSends(c) ==
  /\ client[c] = "send" /\ link[c] = "open"
  /\ Len(stream[c]) + Size <= Window
  /\ WriteFrame(c, sent[c])
  /\ sent' = [sent EXCEPT ![c] = @ + 1]
  /\ client' = IF sequential \/ sent'[c] = Messages
               THEN [client EXCEPT ![c] = "receive"] ELSE client
  /\ UNCHANGED <<case, run, link, history, buffer, received, complete, sender, main>>

\* recv returns some of the bytes that are missing.
ClientReceives(c) ==
  /\ client[c] = "receive"
  /\ \E n \in 1 .. Size - Len(buffer[c]) :
       /\ n <= Len(stream[c])
       /\ buffer' = [buffer EXCEPT ![c] = @ \o SubSeq(stream[c], 1, n)]
       /\ stream' = [stream EXCEPT ![c] = SubSeq(@, n + 1, Len(@))]
  /\ UNCHANGED <<case, run, link, history, states, sender, client, main>>

ClientChecks(c) ==
  /\ client[c] = "receive" /\ Len(buffer[c]) = Size
  /\ TakeFrame(c)
  /\ IF ~Validate(c, buffer[c])
     THEN /\ RecordError("frame") /\ ClientEnds(c)
          /\ UNCHANGED <<received, complete>>
     ELSE /\ received' = [received EXCEPT ![c] = @ + 1]
          /\ IF Finished(c)
             THEN /\ complete' = [complete EXCEPT ![c] = TRUE]
                  /\ run' = MarkComplete(RecordMessage(run))
                  /\ ClientEnds(c)
             ELSE /\ run' = RecordMessage(run)
                  /\ client' = [client EXCEPT ![c] = IF sequential THEN "send" ELSE @]
                  /\ UNCHANGED <<complete, link>>
  /\ UNCHANGED <<case, stream, history, sent, sender, main>>

\* Slip: the exception of a client is left to its future, and nobody asks it.
ClientFailsQuietly(c) ==
  /\ client[c] \in {"send", "receive"}
  /\ link[c] = "broken"
  /\ ClientEnds(c)
  /\ UNCHANGED <<case, run, stream, history, buffer, states, sender, main>>

\* The connection breaks under a client, or a blocking call runs into its timeout.
ClientFails(c) ==
  /\ client[c] \in {"send", "receive"}
  /\ \/ link[c] = "broken" /\ RecordError("client")
     \/ link[c] = "open" /\ engine = "threaded" /\ RecordError("timeout")
  /\ ClientEnds(c)
  /\ UNCHANGED <<case, stream, history, buffer, states, sender, main>>

-----------------------------------------------------------------------------
(* The main thread                                                         *)

Become(next) == phase' = next /\ at' = 1

\* A connect is answered.  py-netty connects one after the other, the others all
\* at once.
Connected(c) ==
  /\ phase = "connect" /\ link[c] = "none"
  /\ engine = "py-netty" => at = c
  /\ link' = [link EXCEPT ![c] = "open"]
  /\ at' = IF engine = "py-netty" THEN at + 1 ELSE at
  /\ UNCHANGED <<case, run, stream, history, buffer, states, sender, client, phase, timedOut>>

ConnectFails(c) ==
  /\ phase = "connect" /\ link[c] = "none" /\ faults < MaxFaults
  /\ engine = "py-netty" => at = c
  /\ link' = [link EXCEPT ![c] = "failed"] /\ faults' = faults + 1
  /\ RecordError("connect")
  /\ at' = IF engine = "py-netty" THEN at + 1 ELSE at
  /\ UNCHANGED <<case, stream, corrupted, buffer, states, sender, client, phase, timedOut>>

AllConnected ==
  /\ phase = "connect"
  /\ \A c \in Conns : link[c] # "none"
  /\ Become("send")
  /\ UNCHANGED <<case, run, net, buffer, states, sender, client, timedOut>>

\* as_completed of the threaded engine runs out of time with connects going on ...
ConnectTimesOut ==
  /\ phase = "connect" /\ engine = "threaded"
  /\ \E c \in Conns : link[c] = "none"
  /\ timedOut' = TRUE
  /\ Become("send")
  /\ UNCHANGED <<case, run, net, buffer, states, sender, client>>

\* ... which end later, with a socket that no client is given.
LateConnect(c) ==
  /\ phase # "connect" /\ link[c] = "none"
  /\ link' = [link EXCEPT ![c] = "closed"]
  /\ UNCHANGED <<case, run, stream, history, buffer, states, sender, client, main>>

StartSending ==
  /\ phase = "send" /\ engine = "py-netty" /\ at <= N
  /\ sender[at]["main"].line = "idle"
  /\ IF link[at] \in {"open", "broken"}
     THEN sender' = [sender EXCEPT ![at]["main"].line = "check"] /\ UNCHANGED at
     ELSE at' = at + 1 /\ UNCHANGED sender
  /\ UNCHANGED <<case, run, net, buffer, states, client, phase, timedOut>>

AllSent ==
  /\ phase = "send" /\ engine = "py-netty" /\ at > N
  /\ Become("wait")
  /\ UNCHANGED <<case, run, net, buffer, states, sender, client, timedOut>>

StartClients ==
  /\ phase = "send" /\ engine # "py-netty"
  /\ client' = [c \in Conns |-> IF link[c] \in {"open", "broken"} THEN "send" ELSE "none"]
  /\ Become("wait")
  /\ UNCHANGED <<case, run, net, buffer, states, sender, timedOut>>

Started == {c \in Conns : client[c] # "none"}

\* Slip: the main thread waits for as long as it takes.
WaitForever ==
  /\ phase = "wait" /\ engine = "py-netty" /\ run.done
  /\ Become("close")
  /\ UNCHANGED <<case, run, net, buffer, states, sender, client, timedOut>>

\* run.wait(timeout) of the py-netty engine.
Wait ==
  /\ phase = "wait" /\ engine = "py-netty"
  /\ timedOut' = ~run.done
  /\ Become("close")
  /\ UNCHANGED <<case, run, net, buffer, states, sender, client>>

\* gather and wait_for of the asyncio engine: all tasks have ended.  Without a
\* connection the run has timed out.
Gather ==
  /\ phase = "wait" /\ engine = "asyncio"
  /\ \A c \in Started : client[c] = "over"
  /\ timedOut' = (Started = {})
  /\ Become("exit")
  /\ UNCHANGED <<case, run, net, buffer, states, sender, client>>

Interrupted(state) ==
  CASE state \in {"send", "receive"} -> "cancelling"
    [] state = "closing" -> "cancelled"
    [] OTHER -> state

\* The time is over: wait_for cancels gather, and that every task.  One in its body
\* goes on to close its writer and to wait.
CancelClients ==
  /\ phase = "wait" /\ engine = "asyncio"
  /\ \E c \in Started : client[c] # "over"
  /\ client' = [c \in Conns |-> Interrupted(client[c])]
  /\ timedOut' = TRUE
  /\ Become("cancel")
  /\ UNCHANGED <<case, run, net, buffer, states, sender>>

\* gather ends with the first task that has ended as cancelled, and wait_for raises
\* TimeoutError; then the tasks that still wait are cancelled once more, and end.
CancelAgain ==
  /\ phase = "cancel"
  /\ \E c \in Started : client[c] = "cancelled"
  /\ client' = [c \in Conns |-> IF client[c] = "cancelling" THEN "cancelled" ELSE client[c]]
  /\ Become("exit")
  /\ UNCHANGED <<case, run, net, buffer, states, sender, timedOut>>

\* as_completed and run.wait(0) of the threaded engine.
Collect ==
  /\ phase = "wait" /\ engine = "threaded"
  /\ timedOut' = (timedOut \/ ~run.done \/ \E c \in Started : client[c] # "over")
  /\ Become("exit")
  /\ UNCHANGED <<case, run, net, buffer, states, sender, client>>

\* close(force=True) and close_future().sync(); the loop closes the channel between
\* two callbacks.
CloseChannel ==
  /\ phase = "close" /\ at <= N
  /\ ~InCallback(at)
  /\ link' = [link EXCEPT ![at] = IF @ = "failed" THEN @ ELSE "closed"]
  /\ at' = at + 1
  /\ UNCHANGED <<case, run, stream, history, buffer, states, sender, client, phase, timedOut>>

AllClosed ==
  /\ phase = "close" /\ at > N
  /\ Become("exit")
  /\ UNCHANGED <<case, run, net, buffer, states, sender, client, timedOut>>

\* Slip: the result is built inside the with block of the pool.
BuildEarly ==
  /\ phase = "exit"
  /\ Become("built")
  /\ UNCHANGED <<case, run, net, buffer, states, sender, client, timedOut>>

\* The group or the pool is left, which joins its threads, and the result built.
Build ==
  /\ phase = "exit"
  /\ \A c \in Conns : link[c] # "none" /\ client[c] \in {"none", "cancelled", "over"}
  /\ Become("built")
  /\ UNCHANGED <<case, run, net, buffer, states, sender, client, timedOut>>

MainSteps ==
  \/ AllConnected \/ ConnectTimesOut \/ StartSending \/ AllSent \/ StartClients
  \/ Wait \/ Gather \/ CancelClients \/ CancelAgain \/ Collect
  \/ CloseChannel \/ AllClosed \/ Build

Answers(c) == Connected(c) \/ ConnectFails(c) \/ LateConnect(c)

Progress(c) ==
  \/ Feed(c) \/ HandleFrame(c) \/ SendNext(c, "loop")
  \/ ClientReceives(c) \/ ClientChecks(c) \/ ClientFails(c)

Worker(c) == Progress(c) \/ ClientSends(c) \/ WaitClosed(c)

Next ==
  \/ MainSteps
  \/ \E c \in Conns :
       \/ Answers(c) \/ Worker(c) \/ SendNext(c, "main")
       \/ Break(c) \/ Corrupt(c)

\* Nothing is left to send to a peer that may not take it: every echo has come, or
\* the connection is gone.
Flushed(c) == complete[c] \/ link[c] = "broken"

\* The threads and tasks are scheduled, and timeouts pass.  A connect is answered:
\* py-netty and threaded give it a timeout, for asyncio the kernel gives up.  Nobody
\* has to read what a client sends.
Spec ==
  /\ Init /\ [][Next]_vars
  /\ WF_vars(MainSteps)
  /\ \A c \in Conns :
       /\ WF_vars(Answers(c)) /\ WF_vars(SendNext(c, "main"))
       /\ WF_vars(Progress(c)) /\ WF_vars(WaitClosed(c) /\ Flushed(c))

-----------------------------------------------------------------------------
\* main() exits with 0: no case has an error or has timed out.
Passed == phase = "built" /\ run.errors = {} /\ ~timedOut

\* A run that passes has received every echo of every connection, and none of them
\* was wrong: neither a timeout nor a failure that nobody recorded can hide one.
PassIsEarned ==
  Passed => /\ \A c \in Conns : received[c] = Messages
            /\ run.received = N * Messages
            /\ ~corrupted

\* A run fails for a refused or broken connection, a wrong echo or a timeout, and
\* for nothing that its own threads do to each other ...
OnlyFaultsFail == phase = "built" /\ faults = 0 /\ ~timedOut => run.errors \subseteq {"timeout"}

\* ... in a burst, where only the main thread sends, and in the engines where a
\* client has a thread or a task of its own.
OnlyFaultsFailUnshared == engine # "py-netty" \/ ~sequential => OnlyFaultsFail

\* Nothing is recorded any more once the result is built.
ResultIsFinal == [][phase = "built" => UNCHANGED <<run, timedOut>>]_vars

\* A client in the middle of its burst can go on: the echoes it does not read yet
\* leave room for what it sends.
BurstGoesOn ==
  \A c \in Conns : client[c] = "send" => Len(stream[c]) + Size <= Window

\* The run ends, with a timeout if with nothing else.
RunEnds == <>(phase = "built")

\* It does, or it is an asyncio run whose tasks, cancelled at the timeout, wait for
\* a connection that does not take what they have sent.
RunEndsOrFlushes ==
  \/ RunEnds
  \/ <>[](/\ phase = "cancel"
          /\ \A c \in Started :
               client[c] = "over" \/ (client[c] = "cancelling" /\ ~Flushed(c)))
==============================================================================

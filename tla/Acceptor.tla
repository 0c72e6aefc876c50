------------------------------ MODULE Acceptor ------------------------------
(***************************************************************************)
(* A server: bind, the acceptor on a loop of the parent group, the hand-   *)
(* over of accepted connections to the loops of the child group, and the   *)
(* application that closes the server channel and leaves both groups       *)
(* (bootstrap.py, the server branch of eventloop.py, EventLoopGroup).      *)
(*                                                                         *)
(* A loop is what TaskExecutor promises: tasks in order, and after a stop  *)
(* maybe not all of them.  The acceptor looks at a child loop and puts the *)
(* task in two steps, as submit_task does, and the loop may be stopped in  *)
(* between.  The two groups are different ones.                            *)
(***************************************************************************)
EXTENDS Integers, Sequences, Functions

CONSTANTS
  Conns,      \* connections that clients may make
  Parent,     \* the loop of the server channel
  Children,   \* the loops of the child group, in order
  Secure,     \* whether the server wraps accepted sockets with TLS
  None

ASSUME AcceptorAssumption ==
  /\ Children \in Seq(Range(Children)) /\ Len(Children) > 0
  /\ IsInjective(Children)
  /\ Parent \notin Range(Children)
  /\ None \notin Range(Children)
  /\ Secure \in BOOLEAN
  /\ Conns \cap {"register", "force", "close"} = {}

Loops == Range(Children) \cup {Parent}
Tasks == Conns \cup {"register", "force", "close"}

VARIABLES
  phase,      \* of each loop: "open", "stopping" or "terminated"
  queue,      \* _taskq of each loop; the task that registers a connection is the connection
  table,      \* _channels of each loop: the accepted connections registered with it
  server,     \* the server channel: "none", "bound", "registered", "closed"
  active,     \* its _active
  backlog,    \* the kernel's accept queue
  accepted,   \* what acceptall returned and is not handed over yet
  chosen,     \* the child loop start() has let the acceptor submit to, or None
  turn,       \* _iter of the child group
  socket,     \* the server's end of each connection: "none", "waiting", "open", "closed",
              \* or "refused": open, but referred to by nothing but its own channel
  app,        \* the application: "bind", "serve", "sync", "exit"
  closing,    \* the close it waits for
  exits       \* the groups it has still to leave, in order

loops == <<phase, queue, table>>
serving == <<server, active, backlog, socket>>
acceptor == <<accepted, chosen, turn>>
application == <<app, closing, exits>>
vars == <<loops, serving, acceptor, application>>

Groups == {"parent", "child"}
Members(group) == IF group = "parent" THEN <<Parent>> ELSE Children

TypeOK ==
  /\ phase \in [Loops -> {"open", "stopping", "terminated"}]
  /\ queue \in [Loops -> Seq(Tasks)]
  /\ table \in [Loops -> SUBSET Conns]
  /\ server \in {"none", "bound", "registered", "closed"}
  /\ active \in BOOLEAN
  /\ backlog \in Seq(Conns) /\ accepted \in Seq(Conns)
  /\ chosen \in Range(Children) \cup {None}
  /\ turn \in DOMAIN Children
  /\ socket \in [Conns -> {"none", "waiting", "open", "refused", "closed"}]
  /\ app \in {"bind", "serve", "sync", "exit"}
  /\ closing \in {"none", "force", "close"}
  /\ exits \in Seq(Groups)

Init ==
  /\ phase = [l \in Loops |-> "open"]
  /\ queue = [l \in Loops |-> << >>]
  /\ table = [l \in Loops |-> {}]
  /\ server = "none" /\ active = FALSE
  /\ backlog = << >> /\ accepted = << >>
  /\ chosen = None /\ turn = 1
  /\ socket = [c \in Conns |-> "none"]
  /\ app = "bind" /\ closing = "none"
  /\ exits \in {<<"parent", "child">>, <<"child", "parent">>}

Becomes(cs, how) == [c \in Conns |-> IF c \in cs THEN how ELSE socket[c]]

Submit(l, task) == queue' = [queue EXCEPT ![l] = Append(@, task)]

-----------------------------------------------------------------------------
(* The application                                                         *)

\* bind: listen, and register with a loop of the parent group.
Bind ==
  /\ app = "bind"
  /\ server' = "bound"
  /\ Submit(Parent, "register")
  /\ app' = "serve"
  /\ UNCHANGED <<phase, table, active, backlog, socket, acceptor, closing, exits>>

\* close, by force or not, and close_future().sync().
CloseServer(how) ==
  /\ app = "serve"
  /\ Submit(Parent, how)
  /\ app' = "sync" /\ closing' = how
  /\ UNCHANGED <<phase, table, serving, acceptor, exits>>

Synced ==
  /\ app = "sync" /\ server = "closed"
  /\ app' = "exit"
  /\ UNCHANGED <<loops, serving, acceptor, closing, exits>>

LeaveServerOpen ==
  /\ app = "serve"
  /\ app' = "exit"
  /\ UNCHANGED <<loops, serving, acceptor, closing, exits>>

\* __exit__ of a group stops its loops one after the other ...
Stop(l) ==
  /\ app = "exit" /\ exits # << >>
  /\ LET group == Members(Head(exits)) IN
     \E i \in DOMAIN group :
       /\ l = group[i]
       /\ \A j \in 1 .. i - 1 : phase[group[j]] # "open"
  /\ phase[l] = "open"
  /\ phase' = [phase EXCEPT ![l] = "stopping"]
  /\ UNCHANGED <<queue, table, serving, acceptor, application>>

\* Slip: the pool is shut down without waiting for its threads.
LeaveGroupUnjoined ==
  /\ app = "exit" /\ exits # << >>
  /\ \A l \in Range(Members(Head(exits))) : phase[l] # "open"
  /\ exits' = Tail(exits)
  /\ UNCHANGED <<loops, serving, acceptor, app, closing>>

\* ... and joins the pool.
LeaveGroup ==
  /\ app = "exit" /\ exits # << >>
  /\ \A l \in Range(Members(Head(exits))) : phase[l] = "terminated"
  /\ exits' = Tail(exits)
  /\ UNCHANGED <<loops, serving, acceptor, app, closing>>

-----------------------------------------------------------------------------
(* Clients and the kernel                                                  *)

\* The channel of a refused connection and what it creates refer to each other:
\* its socket is closed when the cyclic garbage collector comes to it, if it ever does.
Collect(c) ==
  /\ socket[c] = "refused"
  /\ socket' = Becomes({c}, "closed")
  /\ UNCHANGED <<loops, server, active, backlog, acceptor, application>>

Connect(c) ==
  /\ socket[c] = "none" /\ server \in {"bound", "registered"}
  /\ socket' = [socket EXCEPT ![c] = "waiting"]
  /\ backlog' = Append(backlog, c)
  /\ UNCHANGED <<loops, server, active, acceptor, application>>

-----------------------------------------------------------------------------
(* The loops.  The parent's thread runs no task while it hands connections *)
(* over.                                                                   *)

Busy(l) == l = Parent /\ accepted # << >>

\* Closing the listening socket resets the connections nobody has accepted.
ServerCloses ==
  /\ server' = "closed" /\ active' = FALSE
  /\ socket' = Becomes(Range(backlog), "closed")
  /\ backlog' = << >>

\* Slip: every close looks whether the channel is active.
RunAnyClose(task) ==
  /\ task \in {"force", "close"}
  /\ IF active /\ server = "registered"
     THEN ServerCloses ELSE UNCHANGED serving
  /\ UNCHANGED table

\* A graceful close looks whether the channel is active, and a server channel is
\* not before its first connection.
RunClose(task) ==
  /\ task \in {"force", "close"}
  /\ IF task = "force" \/ active
     THEN ServerCloses ELSE UNCHANGED serving
  /\ UNCHANGED table

\* register begins with start(), which refuses on the loop's own thread too: the
\* task fails, and nobody closes the accepted socket.
RunRegister(l, task) ==
  \/ /\ task = "register"
     /\ server' = IF phase[l] = "open" THEN "registered" ELSE server
     /\ UNCHANGED <<table, active, backlog, socket>>
  \/ /\ task \in Conns /\ phase[l] = "open"
     /\ table' = [table EXCEPT ![l] = @ \cup {task}]
     /\ UNCHANGED serving
  \/ /\ task \in Conns /\ phase[l] # "open"
     /\ socket' = Becomes({task}, "refused")
     /\ UNCHANGED <<table, server, active, backlog>>

RunTask(l) ==
  /\ phase[l] # "terminated" /\ ~Busy(l)
  /\ queue[l] # << >>
  /\ queue' = [queue EXCEPT ![l] = Tail(@)]
  /\ RunClose(Head(queue[l])) \/ RunRegister(l, Head(queue[l]))
  /\ UNCHANGED <<phase, acceptor, application>>

\* A loop that is stopping closes what is registered with it; what is still in
\* its queue stays there.
Terminate(l) ==
  /\ phase[l] = "stopping" /\ ~Busy(l)
  /\ phase' = [phase EXCEPT ![l] = "terminated"]
  /\ table' = [table EXCEPT ![l] = {}]
  /\ IF l = Parent /\ server = "registered"
     THEN ServerCloses
     ELSE /\ socket' = Becomes(table[l], "closed")
          /\ UNCHANGED <<server, active, backlog>>
  /\ UNCHANGED <<queue, acceptor, application>>

-----------------------------------------------------------------------------
(* The acceptor                                                            *)

\* The server channel becomes active with its first event; acceptall takes all
\* that wait.
AcceptAll ==
  /\ phase[Parent] # "terminated" /\ ~Busy(Parent)
  /\ server = "registered" /\ backlog # << >>
  /\ active' = TRUE
  /\ accepted' = backlog /\ backlog' = << >>
  /\ socket' = Becomes(Range(backlog), "open")
  /\ UNCHANGED <<loops, server, chosen, turn, application>>

\* Slip: the cycle ends.
TurnsOut == turn + 1

NextTurn == IF turn = Len(Children) THEN 1 ELSE turn + 1

\* Slip: the exception ends the loop over the accepted connections.
DropAll(how) ==
  /\ socket' = Becomes({Head(accepted)}, how)
  /\ accepted' = << >>

\* channel_read of the initializer failed: the exception is caught for this
\* connection, and nothing else happens to it.
DropFirst(how) ==
  /\ socket' = Becomes({Head(accepted)}, how)
  /\ accepted' = Tail(accepted)

\* wrap_socket takes the descriptor over, and closes it when it refuses it.
WrapFails ==
  /\ accepted # << >> /\ chosen = None
  /\ Secure
  /\ DropFirst("closed")
  /\ UNCHANGED <<loops, server, active, backlog, chosen, turn, application>>

\* get_eventloop, and start() in register: a loop that is stopping refuses, and
\* nobody closes the socket.
Choose ==
  /\ accepted # << >> /\ chosen = None
  /\ turn' = NextTurn
  /\ IF phase[Children[turn]] = "open"
     THEN /\ chosen' = Children[turn]
          /\ UNCHANGED <<socket, accepted>>
     ELSE /\ DropFirst("refused")
          /\ UNCHANGED chosen
  /\ UNCHANGED <<loops, server, active, backlog, application>>

\* Slip: the connection is not taken off the list it was accepted in.
HandOverTwice ==
  /\ chosen # None
  /\ Submit(chosen, Head(accepted))
  /\ chosen' = None
  /\ accepted' = IF Len(queue[chosen]) > 0 THEN accepted ELSE Tail(accepted)
  /\ UNCHANGED <<phase, table, serving, turn, application>>

\* The rest of register: the task goes into the queue of the child loop.
HandOver ==
  /\ chosen # None
  /\ Submit(chosen, Head(accepted))
  /\ chosen' = None /\ accepted' = Tail(accepted)
  /\ UNCHANGED <<phase, table, serving, turn, application>>

AcceptorStep == AcceptAll \/ WrapFails \/ Choose \/ HandOver
LoopStep(l) == RunTask(l) \/ Terminate(l)

Next ==
  \/ Bind \/ Synced \/ LeaveServerOpen \/ LeaveGroup
  \/ \E how \in {"force", "close"} : CloseServer(how)
  \/ \E l \in Loops : Stop(l) \/ LoopStep(l)
  \/ \E c \in Conns : Connect(c) \/ Collect(c)
  \/ AcceptorStep

\* The loop threads are scheduled, and the selector reports a listening socket
\* with connections in its queue again and again; the application goes on once
\* it has decided to close.  Nobody has to connect, and nothing says when garbage
\* is collected.
Spec ==
  /\ Init /\ [][Next]_vars
  /\ \A l \in Loops : WF_vars(RunTask(l)) /\ WF_vars(Terminate(l))
  /\ SF_vars(AcceptAll) /\ WF_vars(WrapFails \/ Choose \/ HandOver)
  /\ WF_vars(Synced) /\ WF_vars(LeaveGroup) /\ \A l \in Loops : WF_vars(Stop(l))

-----------------------------------------------------------------------------
\* What the queue and the table of a loop hold of the accepted connections.
Holding(l) == (Range(queue[l]) \cap Conns) \cup table[l]

\* An accepted connection is in one place and one only until it is closed or
\* refused: in the list of the acceptor, in the queue of one loop, or registered
\* with one loop.  In two, two threads would serve it; none may lose it in
\* between.  One that a stopping loop has refused is in no place, and still open:
\* NoRefusedSocket.
OneHolder ==
  /\ IsInjective(accepted)
  /\ \A l \in Loops :
       /\ IsInjective(queue[l])
       /\ Range(queue[l]) \cap table[l] = {}
       /\ Holding(l) \cap Range(accepted) = {}
       /\ \A k \in Loops \ {l} : Holding(k) \cap Holding(l) = {}
  /\ {c \in Conns : socket[c] = "open"} = Range(accepted) \cup UNION {Holding(l) : l \in Loops}

\* Once the application has left both groups, nothing is registered with a loop
\* any more and nobody is handing connections over.
NothingOutlivesItsGroup ==
  exits = << >> =>
    /\ \A l \in Loops : table[l] = {}
    /\ server # "registered"
    /\ accepted = << >>

\* A client that connects is served by a loop of the child group, or told that it
\* is not, unless the groups are being left.
ConnectionServed ==
  \A c \in Conns :
    socket[c] = "waiting" ~>
      \/ socket[c] = "closed"
      \/ \E l \in Range(Children) : c \in table[l]
      \/ app = "exit"

\* close(force=True) and close_future().sync() return, whatever the server is
\* doing; it may not have been registered or connected to.
ForcedCloseReturns == app = "sync" /\ closing = "force" ~> app = "exit"

\* The same of a graceful close.
CloseReturns == app = "sync" ~> app = "exit"

\* Once the application has left both groups, no accepted connection is open.
NoneStranded == exits = << >> => \A c \in Conns : socket[c] # "open"

\* No accepted connection is left open by everybody: what a loop refuses is closed.
NoRefusedSocket == \A c \in Conns : socket[c] # "refused"
==============================================================================

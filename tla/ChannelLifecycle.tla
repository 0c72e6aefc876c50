-------------------------- MODULE ChannelLifecycle --------------------------
(***************************************************************************)
(* The client channels of one event loop from connect to unregister:       *)
(* register, the WRITE and READ events, activation with or without TLS,    *)
(* the connect deadline, and close (eventloop.py, channel.py).             *)
(*                                                                         *)
(* A channel is known by its file descriptor in three places that are not  *)
(* updated together: the selector, _channels and _connect_timeout_due_     *)
(* millis.  Descriptors are reused as soon as a socket is closed, and user *)
(* code runs between the updates.  As in WritePath the call stack of the   *)
(* loop thread is part of the state.  What a channel sends is reduced here *)
(* to whether chunks are pending.                                          *)
(***************************************************************************)
EXTENDS Integers, Sequences, FiniteSets, SequencesExt, Functions

CONSTANTS
  Channels,
  Fds,        \* descriptors of the process
  NoFd,       \* what fileno() says of a closed socket: -1
  Secure,     \* the channels that shake hands
  Outcomes,   \* how a non-blocking connect may begin
  Allowed,    \* what user code does where: pairs <<context, call>>
  MaxDepth    \* bound: nesting of callbacks that make calls

Handlers == {"channel_registered", "channel_handshake_complete", "channel_active",
             "channel_read", "channel_inactive", "channel_unregistered"}
Callbacks == Handlers \cup {"connect listener", "close listener"}
Contexts == Callbacks \cup {"task"}

\* "stale" stands for any call on a channel that is closed already.
Calls == {"register", "force", "close", "write", "auto_read", "stale"}

ASSUME LifecycleAssumption ==
  /\ IsFiniteSet(Fds) /\ NoFd \notin Fds
  /\ Secure \subseteq Channels
  /\ Outcomes \subseteq {"connecting", "connected", "unconnected"}
  /\ Allowed \subseteq Contexts \X Calls

VARIABLES
  sock,        \* "none", "new" (not registered), "open", "orphan" (refused), "closed"
  fd,          \* _fileno
  net,         \* the TCP connection under the socket
  flag,        \* _flag
  autoRead,    \* _auto_read
  active,      \* _active
  everActive,  \* _ever_active
  closeDone,   \* _close_future is done
  future,      \* _channel_future
  secured,     \* _ssl_handshake_complete
  pending,     \* _pendings: none, data, or data up to a close chunk
  selector,    \* the keys of _selector: descriptor to channel and events
  table,       \* _channels
  due,         \* _connect_timeout_due_millis; a deadline is known by its channel
  batch,       \* events polled and not yet handled
  expired,     \* _process_connection_timeout: deadlines still to look at ...
  overdue,     \* ... and to_delete
  stack,       \* the call stack of the loop thread, running code first
  heard        \* history: the handler methods invoked on each channel, reads aside

sockets == <<sock, fd, net>>
activity == <<active, everActive, closeDone, future, secured>>
interest == <<flag, autoRead, pending, selector>>
tables == <<table, due>>
rounds == <<batch, expired, overdue>>
vars == <<sockets, activity, interest, tables, rounds, stack, heard>>

Labels == Callbacks \cup
  {"enter", "writable", "readable", "send", "sent", "recv",
   "activate", "answer", "undue", "more", "refused",
   "fail", "shut", "deactivate", "unregister", "forget"}
Events == {"R", "W"}

TypeOK ==
  /\ sock \in [Channels -> {"none", "new", "open", "orphan", "closed"}]
  /\ fd \in [Channels -> Fds \cup {NoFd}]
  /\ net \in [Channels -> {"none", "connecting", "connected", "failed", "unconnected"}]
  /\ flag \in [Channels -> SUBSET Events]
  /\ pending \in [Channels -> {"none", "data", "close"}]
  /\ future \in [Channels -> {"pending", "ok", "failed"}]
  /\ {active, everActive, closeDone, secured, autoRead} \subseteq [Channels -> BOOLEAN]
  /\ DOMAIN selector \subseteq Fds
  /\ \A f \in DOMAIN selector :
       selector[f] \in [channel : Channels, events : (SUBSET Events) \ {{}}]
  /\ DOMAIN table \cup DOMAIN due \subseteq Fds \cup {NoFd}
  /\ Range(table) \cup Range(due) \subseteq Channels
  /\ batch \in Seq([fd : Fds, events : SUBSET Events])
  /\ expired \subseteq (Fds \cup {NoFd}) \X Channels
  /\ overdue \subseteq Fds \cup {NoFd}
  /\ stack \in Seq(Labels \X Channels)
  /\ heard \in [Channels -> Seq(Handlers)]

Init ==
  /\ sock = [c \in Channels |-> "none"]
  /\ fd = [c \in Channels |-> NoFd]
  /\ net = [c \in Channels |-> "none"]
  /\ flag = [c \in Channels |-> {}]
  /\ autoRead = [c \in Channels |-> TRUE]
  /\ active = [c \in Channels |-> FALSE]
  /\ everActive = [c \in Channels |-> FALSE]
  /\ closeDone = [c \in Channels |-> FALSE]
  /\ future = [c \in Channels |-> "pending"]
  /\ secured = [c \in Channels |-> c \notin Secure]
  /\ pending = [c \in Channels |-> "none"]
  /\ selector = << >> /\ table = << >> /\ due = << >>
  /\ batch = << >> /\ expired = {} /\ overdue = {}
  /\ stack = << >>
  /\ heard = [c \in Channels |-> << >>]

Open(c) == sock[c] \in {"new", "open", "orphan"}
Fileno(c) == IF Open(c) THEN fd[c] ELSE NoFd
IsActive(c) == active[c] /\ ~closeDone[c]
Drop(map, keys) == Restrict(map, DOMAIN map \ keys)
Put(map, key, value) ==
  [k \in DOMAIN map \cup {key} |-> IF k = key THEN value ELSE map[k]]

-----------------------------------------------------------------------------
(* The call stack                                                          *)

At(label) == stack # << >> /\ Head(stack)[1] = label
Current == Head(stack)[2]

\* The running frame is replaced by frames for channel c.
Continue(c, labels) == stack' = [i \in DOMAIN labels |-> <<labels[i], c>>] \o Tail(stack)
Return == stack' = Tail(stack)

\* "continue" in the loop over the events: what was left of this event is dropped.
NextEvent(c, labels) == stack' = [i \in DOMAIN labels |-> <<labels[i], c>>]

Hear(c, handler) == heard' = [heard EXCEPT ![c] = Append(@, handler)]

Idle == stack = << >> /\ batch = << >> /\ expired = {} /\ overdue = {}

-----------------------------------------------------------------------------
(* modify_flag, with what the epoll selector of the standard library does: *)
(* no events, no key; a key whose socket is closed is dropped with an      *)
(* error when its events change; a missing key is registered afresh.       *)

Interest(c, events) ==
  IF events = {} THEN Drop(selector, {fd[c]})
  ELSE IF fd[c] \in DOMAIN selector
  THEN IF events = selector[fd[c]].events \/ Open(selector[fd[c]].channel)
       THEN [selector EXCEPT ![fd[c]].events = events]
       ELSE Drop(selector, {fd[c]})
  ELSE IF Open(c) THEN Put(selector, fd[c], [channel |-> c, events |-> events])
  ELSE selector

\* add_flag and remove_flag: nothing is done for a flag that is there already.
SetFlag(c, events) ==
  /\ flag' = [flag EXCEPT ![c] = events]
  /\ selector' = IF events = flag[c] THEN selector ELSE Interest(c, events)

-----------------------------------------------------------------------------
(* The world outside the loop                                              *)

\* A thread makes a socket and begins to connect it; any free descriptor may
\* be its own.
OpenSocket(c) ==
  /\ sock[c] = "none"
  /\ sock' = [sock EXCEPT ![c] = "new"]
  /\ \E f \in Fds :
       /\ \A d \in Channels : Open(d) => fd[d] # f
       /\ fd' = [fd EXCEPT ![c] = f]
  /\ \E outcome \in Outcomes : net' = [net EXCEPT ![c] = outcome]
  /\ UNCHANGED <<activity, interest, tables, rounds, stack, heard>>

NetworkAnswers(c) ==
  /\ net[c] = "connecting" /\ Open(c)
  /\ \E answer \in {"connected", "failed"} : net' = [net EXCEPT ![c] = answer]
  /\ UNCHANGED <<sock, fd, activity, interest, tables, rounds, stack, heard>>

-----------------------------------------------------------------------------
(* Calls of user code                                                      *)

Context == IF stack = << >> THEN (IF Idle THEN "task" ELSE "") ELSE Head(stack)[1]

MayCall(call) ==
  /\ <<Context, call>> \in Allowed
  /\ Len(SelectSeq(stack, LAMBDA frame : frame[1] \in Callbacks)) <= MaxDepth

MayCallOn(call, c) ==
  /\ heard[c] # << >>
  /\ MayCall(IF closeDone[c] THEN "stale" ELSE call)

\* register: a descriptor that still has a key is refused with a KeyError.
Register(c) ==
  /\ MayCall("register")
  /\ sock[c] = "new"
  /\ flag' = [flag EXCEPT ![c] = Events]
  /\ IF fd[c] \in DOMAIN selector
     THEN /\ sock' = [sock EXCEPT ![c] = "orphan"]
          /\ UNCHANGED <<selector, stack, heard>>
     ELSE /\ sock' = [sock EXCEPT ![c] = "open"]
          /\ selector' = Put(selector, fd[c], [channel |-> c, events |-> Events])
          /\ Hear(c, "channel_registered")
          /\ stack' = <<<<"channel_registered", c>>, <<"enter", c>>>> \o stack
  /\ UNCHANGED <<fd, net, activity, autoRead, pending, tables, rounds>>

\* Slip: no deadline is set.
EnterUntimed ==
  /\ At("enter")
  /\ table' = Put(table, Fileno(Current), Current)
  /\ Return
  /\ UNCHANGED <<sockets, activity, interest, due, rounds, heard>>

\* The rest of register, after its callback.
Enter ==
  /\ At("enter")
  /\ table' = Put(table, Fileno(Current), Current)
  /\ due' = Put(due, Fileno(Current), Current)
  /\ Return
  /\ UNCHANGED <<sockets, activity, interest, rounds, heard>>

CloseForcibly(c) ==
  /\ MayCallOn("force", c)
  /\ stack' = <<<<"fail", c>>>> \o stack
  /\ UNCHANGED <<sockets, activity, interest, tables, rounds, heard>>

\* close_gracefully does nothing to a channel that is not active (yet).
CloseGracefully(c) ==
  /\ MayCallOn("close", c)
  /\ IsActive(c)
  /\ pending' = [pending EXCEPT ![c] = "close"]
  /\ SetFlag(c, flag[c] \cup {"W"})
  /\ UNCHANGED <<sockets, activity, autoRead, tables, rounds, stack, heard>>

\* A write that the socket does not take at once.
Write(c) ==
  /\ MayCallOn("write", c)
  /\ pending' = [pending EXCEPT ![c] = IF @ = "none" THEN "data" ELSE @]
  /\ SetFlag(c, flag[c] \cup {"W"})
  /\ UNCHANGED <<sockets, activity, autoRead, tables, rounds, stack, heard>>

SetAutoRead(c) ==
  /\ MayCallOn("auto_read", c)
  /\ autoRead' = [autoRead EXCEPT ![c] = ~@]
  /\ SetFlag(c, IF autoRead[c] THEN flag[c] \ {"R"} ELSE flag[c] \cup {"R"})
  /\ UNCHANGED <<sockets, activity, pending, tables, rounds, stack, heard>>

UserReturns ==
  /\ stack # << >> /\ Head(stack)[1] \in Callbacks
  /\ Return
  /\ UNCHANGED <<sockets, activity, interest, tables, rounds, heard>>

-----------------------------------------------------------------------------
(* The event loop: poll, events, connect deadlines                         *)

\* Nothing is ready on a socket that is still connecting; a socket that failed
\* or never began to connect is ready for everything.
Ready == {f \in DOMAIN selector :
            Open(selector[f].channel) /\ net[selector[f].channel] # "connecting"}

Poll ==
  /\ Idle
  /\ \E fs \in (SUBSET Ready) \ {{}} : \E order \in SetToSeqs(fs) :
       \E events \in [DOMAIN order -> (SUBSET Events) \ {{}}] :
         /\ \A i \in DOMAIN order : events[i] \subseteq selector[order[i]].events
         /\ batch' = [i \in DOMAIN order |-> [fd |-> order[i], events |-> events[i]]]
  /\ UNCHANGED <<sockets, activity, interest, tables, expired, overdue, stack, heard>>

\* The channel is looked up when the turn of the event comes.
HandleEvent ==
  /\ stack = << >> /\ batch # << >>
  /\ batch' = Tail(batch)
  /\ LET event == Head(batch) IN
     IF event.fd \in DOMAIN table
     THEN NextEvent(table[event.fd],
            (IF "W" \in event.events THEN <<"writable">> ELSE << >>) \o
            (IF "R" \in event.events THEN <<"readable">> ELSE << >>))
     ELSE UNCHANGED stack
  /\ UNCHANGED <<sockets, activity, interest, tables, expired, overdue, heard>>

\* The deadlines of fds have passed.
Expire(fds) ==
  /\ Idle /\ fds # {}
  /\ expired' = {<<f, due[f]>> : f \in fds}
  /\ UNCHANGED <<sockets, activity, interest, tables, batch, overdue, stack, heard>>

ExpireOne ==
  /\ stack = << >>
  /\ \E deadline \in expired :
       LET f == deadline[1] IN
       /\ expired' = expired \ {deadline}
       /\ overdue' = overdue \cup {f}
       /\ IF f \in DOMAIN table /\ ~everActive[table[f]]
          THEN NextEvent(table[f], <<"fail">>)
          ELSE UNCHANGED stack
  /\ UNCHANGED <<sockets, activity, interest, tables, batch, heard>>

DropOverdue ==
  /\ stack = << >> /\ expired = {} /\ overdue # {}
  /\ due' = Drop(due, overdue)
  /\ overdue' = {}
  /\ UNCHANGED <<sockets, activity, interest, table, batch, expired, stack, heard>>

-----------------------------------------------------------------------------
(* _check_channel_active, on the way to sending or receiving               *)

MustCheck ==
  \/ At("writable")
  \/ At("readable") /\ fd[Current] \in DOMAIN table /\ ~IsActive(Current)

Checked == IF At("writable") THEN "send" ELSE "recv"

\* Nothing to read for: the descriptor has left the table, or it is active.
SkipCheck ==
  /\ At("readable") /\ ~MustCheck
  /\ Continue(Current, IF fd[Current] \in DOMAIN table THEN <<"recv">> ELSE << >>)
  /\ UNCHANGED <<sockets, activity, interest, tables, rounds, heard>>

WasActive ==
  /\ MustCheck /\ everActive[Current]
  /\ Continue(Current, <<Checked>>)
  /\ UNCHANGED <<sockets, activity, interest, tables, rounds, heard>>

Refuse ==
  /\ future' = [future EXCEPT ![Current] = IF @ = "pending" THEN "failed" ELSE @]
  /\ NextEvent(Current, IF future[Current] = "pending"
                        THEN <<"connect listener", "refused", "fail">>
                        ELSE <<"refused", "fail">>)
  /\ UNCHANGED <<sockets, active, everActive, closeDone, secured, interest, tables, rounds, heard>>

\* Slip: SO_ERROR is not asked for.
SocketErrorIgnored(c) == ~Open(c)

SocketError(c) == ~Open(c) \/ net[c] = "failed"

ConnectFailed ==
  /\ MustCheck /\ ~everActive[Current] /\ SocketError(Current)
  /\ Refuse

Refused ==
  /\ At("refused")
  /\ due' = Drop(due, {fd[Current]})
  /\ Return
  /\ UNCHANGED <<sockets, activity, interest, table, rounds, heard>>

MayActivate == MustCheck /\ ~everActive[Current] /\ ~SocketError(Current)

Connected ==
  /\ MayActivate /\ secured[Current]
  /\ Continue(Current, <<"activate", Checked>>)
  /\ UNCHANGED <<sockets, activity, interest, tables, rounds, heard>>

\* do_handshake wants to read or to write more before it goes on.
HandshakeWants ==
  /\ MayActivate /\ ~secured[Current] /\ net[Current] = "connected"
  /\ \E events \in {{"R"}, flag[Current] \cup {"W"}} : SetFlag(Current, events)
  /\ NextEvent(Current, << >>)
  /\ UNCHANGED <<sockets, activity, autoRead, pending, tables, rounds, heard>>

HandshakeFails == MayActivate /\ ~secured[Current] /\ Refuse

HandshakeCompletes ==
  /\ MayActivate /\ ~secured[Current] /\ net[Current] = "connected"
  /\ secured' = [secured EXCEPT ![Current] = TRUE]
  /\ Hear(Current, "channel_handshake_complete")
  /\ Continue(Current, <<"channel_handshake_complete", "activate", "more", Checked>>)
  /\ UNCHANGED <<sockets, active, everActive, closeDone, future, interest, tables, rounds>>

\* _activate_channel: set_active(True), the connect future, the deadline.
Activate ==
  /\ At("activate")
  /\ active' = [active EXCEPT ![Current] = TRUE]
  /\ IF active[Current]
     THEN Continue(Current, <<"answer">>) /\ UNCHANGED <<everActive, heard>>
     ELSE /\ everActive' = [everActive EXCEPT ![Current] = TRUE]
          /\ Hear(Current, "channel_active")
          /\ Continue(Current, <<"channel_active", "answer">>)
  /\ UNCHANGED <<sockets, closeDone, future, secured, interest, tables, rounds>>

Answer ==
  /\ At("answer")
  /\ future' = [future EXCEPT ![Current] = IF @ = "pending" THEN "ok" ELSE @]
  /\ Continue(Current, IF future[Current] = "pending"
                       THEN <<"connect listener", "undue">> ELSE <<"undue">>)
  /\ UNCHANGED <<sockets, active, everActive, closeDone, secured, interest, tables, rounds, heard>>

Undue ==
  /\ At("undue")
  /\ due' = Drop(due, {Fileno(Current)})
  /\ Return
  /\ UNCHANGED <<sockets, activity, interest, table, rounds, heard>>

\* After a handshake: what was written during it is to be sent.
More ==
  /\ At("more")
  /\ SetFlag(Current, IF pending[Current] = "none" THEN flag[Current]
                      ELSE flag[Current] \cup {"W"})
  /\ Return
  /\ UNCHANGED <<sockets, activity, autoRead, pending, tables, rounds, heard>>

-----------------------------------------------------------------------------
(* The events of an active channel                                         *)

\* The rest is sent, some of it, or nothing of it.
Send(rest) ==
  /\ At("send") /\ pending[Current] # "close"
  /\ rest = pending[Current] \/ (rest = "none" /\ net[Current] = "connected" /\ Open(Current))
  /\ pending' = [pending EXCEPT ![Current] = rest]
  /\ SetFlag(Current,
       IF rest = "none" /\ (pending[Current] = "none" \/ fd[Current] \in DOMAIN table)
       THEN flag[Current] \ {"W"} ELSE flag[Current])
  /\ Return
  /\ UNCHANGED <<sockets, activity, autoRead, tables, rounds, heard>>

SendUpToClose(labels) ==
  /\ At("send") /\ pending[Current] = "close"
  /\ Continue(Current, labels)
  /\ UNCHANGED <<sockets, activity, interest, tables, rounds, heard>>

Sent ==
  /\ At("sent")
  /\ SetFlag(Current, IF pending[Current] = "none" /\ fd[Current] \in DOMAIN table
                      THEN flag[Current] \ {"W"} ELSE flag[Current])
  /\ Return
  /\ UNCHANGED <<sockets, activity, autoRead, pending, tables, rounds, heard>>

\* recvall: data, nothing, or the end of the stream.
Recv ==
  /\ At("recv")
  /\ \/ /\ net[Current] = "connected" /\ Open(Current)
        /\ \/ Continue(Current, <<"channel_read">>)
           \/ NextEvent(Current, <<"fail">>)
     \/ Return
  /\ UNCHANGED <<sockets, activity, interest, tables, rounds, heard>>

-----------------------------------------------------------------------------
(* _close_channel_internally and unregister                                *)

Fail ==
  /\ At("fail")
  /\ future' = [future EXCEPT ![Current] = IF @ = "pending" THEN "failed" ELSE @]
  /\ Continue(Current, IF future[Current] = "pending"
                       THEN <<"connect listener", "shut">> ELSE <<"shut">>)
  /\ UNCHANGED <<sockets, active, everActive, closeDone, secured, interest, tables, rounds, heard>>

Shut ==
  /\ At("shut")
  /\ pending' = [pending EXCEPT ![Current] = "none"]
  /\ sock' = [sock EXCEPT ![Current] = "closed"]
  /\ closeDone' = [closeDone EXCEPT ![Current] = TRUE]
  /\ Continue(Current, IF closeDone[Current] THEN <<"deactivate">>
                       ELSE <<"close listener", "deactivate">>)
  /\ UNCHANGED <<fd, net, active, everActive, future, secured, flag, autoRead, selector,
                 tables, rounds, heard>>

\* Slip: channel_inactive whether or not the channel was active.
DeactivateAlways ==
  /\ At("deactivate")
  /\ active' = [active EXCEPT ![Current] = FALSE]
  /\ Hear(Current, "channel_inactive")
  /\ Continue(Current, <<"channel_inactive", "unregister">>)
  /\ UNCHANGED <<sockets, everActive, closeDone, future, secured, interest, tables, rounds>>

Deactivate ==
  /\ At("deactivate")
  /\ active' = [active EXCEPT ![Current] = FALSE]
  /\ IF active[Current]
     THEN Hear(Current, "channel_inactive") /\ Continue(Current, <<"channel_inactive", "unregister">>)
     ELSE Continue(Current, <<"unregister">>) /\ UNCHANGED heard
  /\ UNCHANGED <<sockets, everActive, closeDone, future, secured, interest, tables, rounds>>

\* Without a key there is an error, and no callback.
Unregister ==
  /\ At("unregister")
  /\ selector' = Drop(selector, {fd[Current]})
  /\ IF fd[Current] \in DOMAIN selector
     THEN /\ Hear(Current, "channel_unregistered")
          /\ Continue(Current, <<"channel_unregistered", "forget">>)
     ELSE Continue(Current, <<"forget">>) /\ UNCHANGED heard
  /\ UNCHANGED <<sockets, activity, flag, autoRead, pending, tables, rounds>>

\* Slip: the channel stays in the table.
ForgetDeadline ==
  /\ At("forget")
  /\ due' = Drop(due, {fd[Current]})
  /\ Return
  /\ UNCHANGED <<sockets, activity, interest, table, rounds, heard>>

Forget ==
  /\ At("forget")
  /\ table' = Drop(table, {fd[Current]})
  /\ due' = Drop(due, {fd[Current]})
  /\ Return
  /\ UNCHANGED <<sockets, activity, interest, rounds, heard>>

-----------------------------------------------------------------------------
UserStep(c) ==
  \/ Register(c) \/ CloseForcibly(c) \/ CloseGracefully(c) \/ Write(c) \/ SetAutoRead(c)

World(c) == OpenSocket(c) \/ NetworkAnswers(c)

LibraryStep ==
  \/ UserReturns \/ Enter
  \/ HandleEvent \/ ExpireOne \/ DropOverdue
  \/ SkipCheck \/ WasActive \/ ConnectFailed \/ Refused \/ Connected
  \/ HandshakeWants \/ HandshakeFails \/ HandshakeCompletes
  \/ Activate \/ Answer \/ Undue \/ More
  \/ Send("none") \/ Send("data") \/ Sent \/ Recv
  \/ SendUpToClose(<<"fail", "sent">>) \/ SendUpToClose(<< >>)
  \/ Fail \/ Shut \/ Deactivate \/ Unregister \/ Forget

Next ==
  \/ \E c \in Channels : UserStep(c) \/ World(c)
  \/ Poll
  \/ \E fds \in SUBSET DOMAIN due : Expire(fds)
  \/ LibraryStep

\* Callbacks return, and deadlines pass.
Fairness ==
  /\ WF_vars(LibraryStep) /\ SF_vars(UserReturns)
  /\ SF_vars(Expire(DOMAIN due))

Spec == Init /\ [][Next]_vars /\ Fairness

-----------------------------------------------------------------------------
Registered(c) == heard[c] # << >>

\* Handler methods are invoked in this order, each at most once.
Life == <<"channel_registered", "channel_handshake_complete", "channel_active",
          "channel_inactive", "channel_unregistered">>
Stage(handler) == CHOOSE i \in DOMAIN Life : Life[i] = handler
CallbackOrder == \A c \in Channels :
  LET told == heard[c] IN
  /\ \A i, j \in DOMAIN told : i < j => Stage(told[i]) < Stage(told[j])
  /\ "channel_inactive" \in ToSet(told) => "channel_active" \in ToSet(told)
  /\ "channel_unregistered" \in ToSet(told) /\ "channel_active" \in ToSet(told)
       => "channel_inactive" \in ToSet(told)

\* channel_active is invoked on a channel that is open, and neither while its
\* connect is under way nor after it failed.
ActiveIsOpen ==
  [][\A c \in Channels : heard'[c] = Append(heard[c], "channel_active")
       => Open(c) /\ net[c] \notin {"connecting", "failed"}]_vars

\* channel_active means that there is a connection ("TCP connection ready" in the
\* project's README).  It does not hold where the result of connect_ex is not
\* looked at, nor when a handler closes its channel as the handshake completes.
ActiveIsConnected ==
  [][\A c \in Channels : heard'[c] = Append(heard[c], "channel_active")
       => Open(c) /\ net[c] = "connected"]_vars

\* Between callbacks the selector and _channels know the same channels, by
\* their own descriptors, and the selector watches each for what it is told to.
ViewsAgree == Idle =>
  /\ \A f \in DOMAIN table :
       /\ fd[table[f]] = f /\ Open(table[f])
       /\ flag[table[f]] # {} => f \in DOMAIN selector
  /\ \A f \in DOMAIN selector :
       /\ f \in DOMAIN table /\ selector[f].channel = table[f]
       /\ selector[f].events = flag[table[f]]

\* A channel that was closed has been told that it is unregistered.
ClosedIsTold == Idle =>
  \A c \in Channels : closeDone[c] => "channel_unregistered" \in ToSet(heard[c])

\* Every connect is answered: at the latest when its deadline passes.
ConnectAnswered == \A c \in Channels : Registered(c) ~> future[c] # "pending"
=============================================================================

------------------------- MODULE MCChannelLifecycle -------------------------
(* Two or three channels on one or two descriptors, and what user code     *)
(* does where.                                                             *)
EXTENDS ChannelLifecycle, TLC
CONSTANTS a, b, c

Pair == {a, b}
Three == {a, b, c}
Symmetry == Permutations(Three)
OneSecure == {a}
Nobody == {}
Descriptors == {1, 2}
OneDescriptor == {1}
Minus == -1
Connecting == {"connecting"}
AnyOutcome == {"connecting", "connected", "unconnected"}
AtOnce == {"connected", "unconnected"}

\* Connecting is left to tasks (a connect on another thread is one), a channel
\* is not closed by force before it is active, and one that is closed is left
\* alone.  Everything else may be done from any callback.
Disciplined ==
  ({"task"} \X (Calls \ {"stale"}))
    \cup (Callbacks \X {"close", "write", "auto_read"})
    \cup ((Callbacks \ {"channel_registered", "channel_handshake_complete"}) \X {"force"})

Connects == {<<"task", "register">>}

\* User code closes as soon as the handshake is complete.
HandshakeCloses == Connects \cup {<<"channel_handshake_complete", "force">>}

\* A channel is closed, and later closed again.
ClosesTwice == {"task"} \X {"register", "force", "stale"}

\* A handler connects anew when its channel is unregistered.
Reconnects == ({"task", "channel_unregistered"} \X {"register"}) \cup {<<"task", "force">>}

\* The handler of one channel closes another and connects anew.
Replaces == Connects \cup ({"channel_read"} \X {"register", "force"})

\* A listener told that its connect failed connects anew.
Retries == {"task", "connect listener"} \X {"register"}

\* Reading is paused, and the channel closed.
Pauses == {"task"} \X {"register", "auto_read", "force"}

\* Tasks connect; tasks and callbacks close.
Closes ==
  Connects \cup ((Contexts \ {"channel_registered", "channel_handshake_complete"}) \X {"force"})

\* A network that answers nothing: only deadlines end a connect.
SilentSpec ==
  Init /\ [][Next /\ \A ch \in Channels : net[ch] # "none" => net'[ch] = net[ch]]_vars /\ Fairness
=============================================================================

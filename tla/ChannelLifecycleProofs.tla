----------------------- MODULE ChannelLifecycleProofs -----------------------
(***************************************************************************)
(* That callbacks come in order, that the selector and _channels agree     *)
(* between callbacks, and that a channel is open when it becomes active,   *)
(* proved for any channels and descriptors, secure or not, however their   *)
(* connects begin, and for any nesting of callbacks, for user code that    *)
(* keeps the discipline below.                                             *)
(*                                                                         *)
(* The two tables are not updated together, and user code runs between the *)
(* updates.  The argument is about the call stack: which frame may lie     *)
(* under which (Nesting), what each frame can rely on (FrameInv), and      *)
(* which frames still owe the tables an update (Views).                    *)
(***************************************************************************)
EXTENDS ChannelLifecycle, SequenceTheorems, FiniteSetTheorems, TLAPS

\* What user code keeps to.  Connecting is left to tasks, a channel is closed by
\* force neither from channel_registered nor from channel_handshake_complete, and
\* one that is closed is left alone.
Discipline ==
  \A p \in Allowed :
    /\ p[2] = "register" => p[1] = "task"
    /\ p[2] = "force" => p[1] \notin {"channel_registered", "channel_handshake_complete"}
    /\ p[2] # "stale"

Frame == Labels \X Channels
FramesIn(s) == {s[i] : i \in DOMAIN s}
Frames == FramesIn(stack)

-----------------------------------------------------------------------------
\* As much of the types as the argument needs.
Shape ==
  /\ sock \in [Channels -> {"none", "new", "open", "orphan", "closed"}]
  /\ fd \in [Channels -> Fds \cup {NoFd}]
  /\ \A c \in Channels : sock[c] \in {"new", "open", "orphan"} => fd[c] \in Fds
  /\ net \in [Channels -> {"none", "connecting", "connected", "failed"} \cup Outcomes]
  /\ \A c \in Channels : sock[c] # "none" => net[c] # "none"
  /\ flag \in [Channels -> SUBSET Events]
  /\ pending \in [Channels -> {"none", "data", "close"}]
  /\ {active, everActive, closeDone, secured, autoRead} \subseteq [Channels -> BOOLEAN]
  /\ DOMAIN heard = Channels
  /\ DOMAIN selector \subseteq Fds
  /\ selector \in [DOMAIN selector -> [channel : Channels, events : SUBSET Events]]
  /\ \A f \in DOMAIN table : table[f] \in Channels
  /\ batch \in Seq([fd : Fds, events : SUBSET Events])
  /\ stack \in Seq(Frame)

\* Two sockets that are open have descriptors of their own.
Apart == \A c, d \in Channels : Open(c) /\ Open(d) /\ fd[c] = fd[d] => c = d

-----------------------------------------------------------------------------
(* Which frame may lie under which                                         *)

\* What is left of an event once its channel has been checked.
Rest == {"undue", "more", "send", "sent", "recv", "readable"}

Under(label) ==
  IF label \in {"readable", "recv", "enter"} THEN {}
  ELSE IF label = "writable" THEN {"readable"}
  ELSE IF label = "channel_registered" THEN {"enter"}
  ELSE IF label = "activate" THEN {"more", "send", "recv", "readable"}
  ELSE IF label = "channel_handshake_complete" THEN {"activate", "more", "send", "recv", "readable"}
  ELSE IF label \in {"answer", "undue", "more", "send", "sent"} THEN Rest
  ELSE Labels \ {"activate", "enter", "writable"}

Nested(s) == \A i, j \in DOMAIN s : i < j => s[j][1] \in Under(s[i][1])
Nesting == Nested(stack)

-----------------------------------------------------------------------------
(* What a frame relies on                                                  *)

\* Whatever the tables hold under the descriptor of a channel that is on the stack
\* is this channel.
Owns(c) ==
  /\ sock[c] \in {"open", "closed"}
  /\ fd[c] \in DOMAIN table => table[fd[c]] = c
  /\ fd[c] \in DOMAIN selector => selector[fd[c]].channel = c

Relies(label, c) ==
  /\ Owns(c)
  /\ label \in {"deactivate", "unregister", "forget"} => sock[c] = "closed"
  /\ label \in {"writable", "readable"} => net[c] # "connecting"
  /\ label = "activate" => sock[c] = "open" /\ net[c] \notin {"connecting", "failed"}
  /\ label = "enter" =>
       /\ sock[c] = "open" /\ batch = << >>
       /\ \A frame \in Frames : frame[2] = c

Finds(label, c) ==
  /\ label = "unregister" => ~active[c]
  /\ label = "activate" => ~everActive[c] /\ secured[c]

FrameInv == \A frame \in Frames : Relies(frame[1], frame[2]) /\ Finds(frame[1], frame[2])

-----------------------------------------------------------------------------
(* The tables                                                              *)

Owes(labels, c) == \E label \in labels : <<label, c>> \in Frames

Views ==
  /\ \A f \in DOMAIN selector : LET c == selector[f].channel IN
       /\ fd[c] = f
       /\ selector[f].events = flag[c] /\ flag[c] # {}
       /\ sock[c] = "open" \/ (sock[c] = "closed" /\ Owes({"deactivate", "unregister"}, c))
  /\ \A f \in DOMAIN table : LET c == table[f] IN
       /\ fd[c] = f
       /\ sock[c] = "open"
          \/ (sock[c] = "closed" /\ Owes({"deactivate", "unregister", "forget"}, c))
  /\ \A c \in Channels : sock[c] = "open" =>
       /\ (fd[c] \in DOMAIN table /\ table[fd[c]] = c) \/ Owes({"enter"}, c)
       /\ flag[c] # {} => fd[c] \in DOMAIN selector /\ selector[fd[c]].channel = c

\* An event is of a channel that has an answer from the network.
Polled == \A i \in DOMAIN batch :
  batch[i].fd \in DOMAIN table => net[table[batch[i].fd]] # "connecting"

-----------------------------------------------------------------------------
(* The callbacks                                                           *)

Registrations == {<<"channel_registered">>, <<"channel_registered", "channel_handshake_complete">>}
Activations ==
  {<<"channel_registered", "channel_active">>,
   <<"channel_registered", "channel_handshake_complete", "channel_active">>}
Endings ==
  {<<"channel_registered", "channel_active", "channel_inactive">>,
   <<"channel_registered", "channel_handshake_complete", "channel_active", "channel_inactive">>}
Farewells ==
  {<<"channel_registered", "channel_unregistered">>,
   <<"channel_registered", "channel_handshake_complete", "channel_unregistered">>,
   <<"channel_registered", "channel_active", "channel_inactive", "channel_unregistered">>,
   <<"channel_registered", "channel_handshake_complete", "channel_active", "channel_inactive",
     "channel_unregistered">>}

Heard == \A c \in Channels :
  /\ closeDone[c] <=> sock[c] = "closed"
  /\ active[c] => everActive[c]
  /\ pending[c] # "none" => sock[c] = "open"
  /\ IF sock[c] \in {"none", "new", "orphan"} THEN heard[c] = << >> /\ ~everActive[c]
     ELSE heard[c] \in IF ~everActive[c] THEN Registrations \cup Farewells
                       ELSE IF active[c] THEN Activations ELSE Endings \cup Farewells
  /\ ~secured[c] => everActive[c]
       \/ heard[c] \in {<< >>, <<"channel_registered">>,
                        <<"channel_registered", "channel_unregistered">>}
  /\ heard[c] \in Farewells =>
       sock[c] = "closed" /\ \A f \in DOMAIN selector : selector[f].channel # c

LifecycleInv == Shape /\ Apart /\ Nesting /\ FrameInv /\ Views /\ Polled /\ Heard

-----------------------------------------------------------------------------
(* Stacks                                                                  *)

LEMMA Popped ==
  ASSUME NEW s \in Seq(Frame), s # << >>, Nested(s)
  PROVE /\ Head(s) \in Frame /\ Tail(s) \in Seq(Frame) /\ Nested(Tail(s))
        /\ FramesIn(s) = {Head(s)} \cup FramesIn(Tail(s))
        /\ \A frame \in FramesIn(Tail(s)) : frame[1] \in Under(Head(s)[1])
<1>1. Head(s) = s[1] /\ Head(s) \in Frame /\ Tail(s) \in Seq(Frame) /\ Len(s) \in Nat \ {0}
  BY HeadTailProperties, LenProperties, EmptySeq
<1>2. Len(Tail(s)) = Len(s) - 1 /\ \A i \in 1 .. Len(s) - 1 : Tail(s)[i] = s[i + 1]
  BY HeadTailProperties
<1>d. DOMAIN s = 1 .. Len(s) /\ DOMAIN Tail(s) = 1 .. Len(s) - 1
  BY <1>1, <1>2, LenProperties
<1>3. \A i \in DOMAIN Tail(s) : i + 1 \in DOMAIN s /\ Tail(s)[i] = s[i + 1] /\ 1 < i + 1
  BY <1>1, <1>2, <1>d
<1>4. Nested(Tail(s))
  BY <1>1, <1>3, <1>d DEF Nested
<1>5. \A frame \in FramesIn(Tail(s)) : frame \in FramesIn(s) /\ frame[1] \in Under(Head(s)[1])
  <2>1. 1 \in DOMAIN s
    BY <1>1, <1>d
  <2> QED
    BY <1>1, <1>3, <2>1 DEF Nested, FramesIn
<1>6. \A frame \in FramesIn(s) : frame = Head(s) \/ frame \in FramesIn(Tail(s))
  <2> SUFFICES ASSUME NEW i \in DOMAIN s, i # 1 PROVE s[i] \in FramesIn(Tail(s))
    BY <1>1 DEF FramesIn
  <2>1. i - 1 \in DOMAIN Tail(s) /\ Tail(s)[i - 1] = s[i]
    BY <1>1, <1>2, <1>d
  <2> QED
    BY <2>1 DEF FramesIn
<1>7. Head(s) \in FramesIn(s)
  BY <1>1, <1>d DEF FramesIn
<1> QED
  BY <1>1, <1>4, <1>5, <1>6, <1>7

LEMMA Stacked ==
  ASSUME NEW rest \in Seq(Frame), Nested(rest), NEW c \in Channels, NEW labels \in Seq(Labels),
         \A i, j \in DOMAIN labels : i < j => labels[j] \in Under(labels[i]),
         \A i \in DOMAIN labels : \A frame \in FramesIn(rest) : frame[1] \in Under(labels[i])
  PROVE LET new == [i \in DOMAIN labels |-> <<labels[i], c>>] \o rest IN
        /\ new \in Seq(Frame) /\ Nested(new)
        /\ FramesIn(new) = {<<labels[i], c>> : i \in DOMAIN labels} \cup FramesIn(rest)
<1> DEFINE top == [i \in DOMAIN labels |-> <<labels[i], c>>]
           new == top \o rest
<1>1. DOMAIN labels = 1 .. Len(labels) /\ Len(labels) \in Nat
  BY LenProperties
<1>2. \A i \in DOMAIN labels : labels[i] \in Labels
  BY ElementOfSeq, <1>1
<1>3. top \in Seq(Frame) /\ Len(top) = Len(labels)
  <2>1. top \in [1 .. Len(labels) -> Frame]
    BY <1>1, <1>2 DEF Frame
  <2> QED
    BY <1>1, <2>1, SeqDef, LenProperties
<1>4. \A i \in DOMAIN labels : top[i] = <<labels[i], c>>
  OBVIOUS
<1> HIDE DEF top
<1>5. /\ new \in Seq(Frame) /\ Len(new) = Len(labels) + Len(rest)
      /\ \A i \in 1 .. Len(new) : new[i] = IF i <= Len(labels) THEN top[i] ELSE rest[i - Len(labels)]
  <2>1. \A s, t \in Seq(Frame) :
          /\ s \o t \in Seq(Frame) /\ Len(s \o t) = Len(s) + Len(t)
          /\ \A i \in 1 .. Len(s) + Len(t) :
               (s \o t)[i] = IF i <= Len(s) THEN s[i] ELSE t[i - Len(s)]
    BY ConcatProperties
  <2>2. top \in Seq(Frame)
    BY <1>3
  <2>3. /\ new \in Seq(Frame) /\ Len(new) = Len(top) + Len(rest)
        /\ \A i \in 1 .. Len(top) + Len(rest) :
             new[i] = IF i <= Len(top) THEN top[i] ELSE rest[i - Len(top)]
    BY <2>1, <2>2, Zenon
  <2> HIDE DEF new
  <2> QED
    BY <1>3, <2>3
<1>6. DOMAIN rest = 1 .. Len(rest) /\ Len(rest) \in Nat /\ DOMAIN new = 1 .. Len(labels) + Len(rest)
  BY <1>5, LenProperties
<1> HIDE DEF new
<1>7. \A i \in DOMAIN new :
        \/ i \in DOMAIN labels /\ new[i] = <<labels[i], c>>
        \/ i > Len(labels) /\ i - Len(labels) \in DOMAIN rest /\ new[i] = rest[i - Len(labels)]
  BY <1>1, <1>4, <1>5, <1>6
<1>8. Nested(new)
  <2> SUFFICES ASSUME NEW i \in DOMAIN new, NEW j \in DOMAIN new, i < j
               PROVE new[j][1] \in Under(new[i][1])
    BY DEF Nested
  <2>n. i \in Nat /\ j \in Nat
    BY <1>6
  <2>1. CASE j \in DOMAIN labels
    <3>1. i \in DOMAIN labels
      BY <1>1, <1>6, <2>1
    <3>2. new[i] = <<labels[i], c>> /\ new[j] = <<labels[j], c>>
      BY <1>1, <1>7, <2>1, <3>1
    <3> QED
      BY <2>1, <3>1, <3>2
  <2>2. CASE j > Len(labels) /\ i \in DOMAIN labels
    <3>1. new[j] \in FramesIn(rest) /\ new[i] = <<labels[i], c>>
      BY <1>1, <1>7, <2>2 DEF FramesIn
    <3> QED
      BY <2>2, <3>1
  <2>3. CASE i > Len(labels)
    <3>1. /\ i - Len(labels) \in DOMAIN rest /\ new[i] = rest[i - Len(labels)]
          /\ j - Len(labels) \in DOMAIN rest /\ new[j] = rest[j - Len(labels)]
          /\ i - Len(labels) < j - Len(labels)
      BY <1>1, <1>7, <2>n, <2>3
    <3> QED
      BY <3>1 DEF Nested
  <2> QED
    BY <1>1, <1>7, <2>1, <2>2, <2>3
<1>9. FramesIn(new) = {<<labels[i], c>> : i \in DOMAIN labels} \cup FramesIn(rest)
  <2>1. \A frame \in FramesIn(new) :
          frame \in {<<labels[i], c>> : i \in DOMAIN labels} \cup FramesIn(rest)
    BY <1>7 DEF FramesIn
  <2>2. \A i \in DOMAIN labels : <<labels[i], c>> \in FramesIn(new)
    <3> TAKE i \in DOMAIN labels
    <3>1. i \in DOMAIN new /\ new[i] = <<labels[i], c>>
      BY <1>1, <1>6, <1>7
    <3> QED
      BY <3>1 DEF FramesIn
  <2>3. \A k \in DOMAIN rest : rest[k] \in FramesIn(new)
    <3> TAKE k \in DOMAIN rest
    <3>1. k + Len(labels) \in DOMAIN new /\ new[k + Len(labels)] = rest[k]
      BY <1>1, <1>5, <1>6
    <3> QED
      BY <3>1 DEF FramesIn
  <2>4. \A frame \in FramesIn(rest) : frame \in FramesIn(new)
    BY <2>3 DEF FramesIn
  <2> QED
    BY <2>1, <2>2, <2>4
<1> QED
  BY <1>5, <1>8, <1>9 DEF new, top

\* What Return, Continue and NextEvent make of the stack.
Stackable(labels) ==
  /\ labels \in Seq(Labels)
  /\ \A i, j \in DOMAIN labels : i < j => labels[j] \in Under(labels[i])

LEMMA Returned ==
  ASSUME stack \in Seq(Frame), Nesting, stack # << >>, Return
  PROVE /\ stack' \in Seq(Frame) /\ Nesting' /\ Head(stack) \in Frame
        /\ Frames' = FramesIn(Tail(stack))
        /\ Frames = {Head(stack)} \cup FramesIn(Tail(stack))
        /\ \A frame \in FramesIn(Tail(stack)) : frame[1] \in Under(Head(stack)[1])
BY Popped DEF Nesting, Frames, Return, Nested, FramesIn

LEMMA Continued ==
  ASSUME stack \in Seq(Frame), Nesting, stack # << >>, NEW c \in Channels, NEW labels,
         Stackable(labels), Continue(c, labels),
         \A l \in Range(labels) : Under(Head(stack)[1]) \subseteq Under(l)
  PROVE /\ stack' \in Seq(Frame) /\ Nesting' /\ Head(stack) \in Frame
        /\ Frames' = (Range(labels) \X {c}) \cup FramesIn(Tail(stack))
        /\ Frames = {Head(stack)} \cup FramesIn(Tail(stack))
        /\ \A frame \in FramesIn(Tail(stack)) : frame[1] \in Under(Head(stack)[1])
<1> DEFINE rest == Tail(stack)
           new == [i \in DOMAIN labels |-> <<labels[i], c>>] \o rest
<1>1. /\ rest \in Seq(Frame) /\ Nested(rest) /\ Head(stack) \in Frame
      /\ Frames = {Head(stack)} \cup FramesIn(rest)
      /\ \A frame \in FramesIn(rest) : frame[1] \in Under(Head(stack)[1])
  BY Popped DEF Nesting, Frames
<1>2. \A i \in DOMAIN labels : \A frame \in FramesIn(rest) : frame[1] \in Under(labels[i])
  BY <1>1 DEF Range
<1>3. /\ new \in Seq(Frame) /\ Nested(new)
      /\ FramesIn(new) = {<<labels[i], c>> : i \in DOMAIN labels} \cup FramesIn(rest)
  <2> HIDE DEF rest
  <2> QED
    BY <1>1, <1>2, Stacked DEF Stackable
<1>4. {<<labels[i], c>> : i \in DOMAIN labels} = Range(labels) \X {c}
  BY DEF Range
<1>5. stack' = new
  BY DEF Continue
<1>6. Nesting' = Nested(stack') /\ Frames' = FramesIn(stack')
  BY DEF Nesting, Frames, Nested, FramesIn
<1> HIDE DEF new, rest
<1>7. stack' \in Seq(Frame) /\ Nesting' /\ Frames' = (Range(labels) \X {c}) \cup FramesIn(rest)
  BY <1>3, <1>4, <1>5, <1>6
<1> QED
  BY <1>1, <1>7 DEF rest

LEMMA Replaced ==
  ASSUME NEW c \in Channels, NEW labels, Stackable(labels), NextEvent(c, labels)
  PROVE stack' \in Seq(Frame) /\ Nesting' /\ Frames' = Range(labels) \X {c}
<1> DEFINE new == [i \in DOMAIN labels |-> <<labels[i], c>>]
<1>1. labels \in Seq(Labels) /\ DOMAIN labels = 1 .. Len(labels) /\ Len(labels) \in Nat
  BY LenProperties DEF Stackable
<1>2. \A i \in DOMAIN labels : labels[i] \in Labels
  BY ElementOfSeq, <1>1
<1>3. new \in [1 .. Len(labels) -> Frame]
  BY <1>1, <1>2 DEF Frame
<1>4. stack' = new /\ new \in Seq(Frame)
  BY <1>1, <1>3, SeqDef DEF NextEvent
<1>5. DOMAIN stack' = DOMAIN labels /\ \A i \in DOMAIN labels : stack'[i] = <<labels[i], c>>
  BY DEF NextEvent
<1>6. Nesting'
  BY <1>5 DEF Nesting, Nested, Stackable
<1>7. Frames' = Range(labels) \X {c}
  BY <1>5 DEF Frames, FramesIn, Range
<1> QED
  BY <1>4, <1>6, <1>7

LEMMA Pushed ==
  ASSUME stack \in Seq(Frame), Nesting, NEW c \in Channels, NEW label \in Labels,
         \A frame \in Frames : frame[1] \in Under(label),
         stack' = <<<<label, c>>>> \o stack
  PROVE stack' \in Seq(Frame) /\ Nesting' /\ Frames' = {<<label, c>>} \cup Frames
<1> DEFINE labels == <<label>>
<1>1. labels \in Seq(Labels) /\ DOMAIN labels = {1} /\ labels[1] = label
  OBVIOUS
<1>2. [i \in DOMAIN labels |-> <<labels[i], c>>] = <<<<label, c>>>>
  OBVIOUS
<1>3. /\ \A i, j \in DOMAIN labels : i < j => labels[j] \in Under(labels[i])
      /\ \A i \in DOMAIN labels : \A frame \in FramesIn(stack) : frame[1] \in Under(labels[i])
  BY <1>1 DEF Frames
<1>4. stack' = [i \in DOMAIN labels |-> <<labels[i], c>>] \o stack
  BY <1>2
<1>5. {<<labels[i], c>> : i \in DOMAIN labels} = {<<label, c>>}
  BY <1>1
<1> HIDE DEF labels
<1>6. /\ stack' \in Seq(Frame) /\ Nested(stack')
      /\ FramesIn(stack') = {<<labels[i], c>> : i \in DOMAIN labels} \cup FramesIn(stack)
  BY <1>1, <1>3, <1>4, Stacked DEF Nesting
<1> QED
  BY <1>5, <1>6 DEF Nesting, Frames, Nested, FramesIn

\* The lists of labels that the loop thread goes on with.
LEMMA Lists ==
  /\ Stackable(<< >>) /\ Range(<< >>) = {}
  /\ \A l \in Labels : Stackable(<<l>>) /\ Range(<<l>>) = {l}
  /\ \A l, m \in Labels : m \in Under(l) => Stackable(<<l, m>>) /\ Range(<<l, m>>) = {l, m}
  /\ \A l, m, n \in Labels : {m, n} \subseteq Under(l) /\ n \in Under(m) =>
       Stackable(<<l, m, n>>) /\ Range(<<l, m, n>>) = {l, m, n}
  /\ \A l, m, n, o \in Labels : {m, n, o} \subseteq Under(l) /\ {n, o} \subseteq Under(m) /\ o \in Under(n) =>
       Stackable(<<l, m, n, o>>) /\ Range(<<l, m, n, o>>) = {l, m, n, o}
<1>0. Stackable(<< >>) /\ Range(<< >>) = {}
  BY DEF Stackable, Range
<1>1. ASSUME NEW l \in Labels PROVE Stackable(<<l>>) /\ Range(<<l>>) = {l}
  BY DEF Stackable, Range
<1>2. ASSUME NEW l \in Labels, NEW m \in Labels, m \in Under(l)
      PROVE Stackable(<<l, m>>) /\ Range(<<l, m>>) = {l, m}
  BY <1>2 DEF Stackable, Range
<1>3. ASSUME NEW l \in Labels, NEW m \in Labels, NEW n \in Labels,
             {m, n} \subseteq Under(l), n \in Under(m)
      PROVE Stackable(<<l, m, n>>) /\ Range(<<l, m, n>>) = {l, m, n}
  BY <1>3 DEF Stackable, Range
<1>4. ASSUME NEW l \in Labels, NEW m \in Labels, NEW n \in Labels, NEW o \in Labels,
             {m, n, o} \subseteq Under(l), {n, o} \subseteq Under(m), o \in Under(n)
      PROVE Stackable(<<l, m, n, o>>) /\ Range(<<l, m, n, o>>) = {l, m, n, o}
  BY <1>4 DEF Stackable, Range
<1> QED
  BY <1>0, <1>1, <1>2, <1>3, <1>4

-----------------------------------------------------------------------------
(* The selector and what it is told                                        *)

\* A step that keeps the selector in line with the flags: a key is that of a channel
\* that is open, or one that was there.
Tidy ==
  /\ flag' \in [Channels -> SUBSET Events]
  /\ DOMAIN selector' \subseteq Fds
  /\ selector' \in [DOMAIN selector' -> [channel : Channels, events : SUBSET Events]]
  /\ \A f \in DOMAIN selector' : LET d == selector'[f].channel IN
       /\ fd[d] = f /\ selector'[f].events = flag'[d] /\ flag'[d] # {}
       /\ sock[d] = "open" \/ (f \in DOMAIN selector /\ selector[f].channel = d)
  /\ \A d \in Channels : sock[d] = "open" /\ flag'[d] # {} =>
       fd[d] \in DOMAIN selector' /\ selector'[fd[d]].channel = d

LEMMA Untouched ==
  ASSUME LifecycleInv, UNCHANGED <<flag, selector>>
  PROVE Tidy
BY DEF Tidy, LifecycleInv, Shape, Views

Owing == {"deactivate", "unregister", "forget"}

\* An open channel has what the tables hold under its descriptor to itself, on the
\* stack too.
LEMMA OpenOwns ==
  ASSUME LifecycleInv, NEW c \in Channels, sock[c] = "open"
  PROVE /\ \A frame \in Frames : fd[frame[2]] = fd[c] => frame[2] = c
        /\ Owns(c)
<1> USE DEF LifecycleInv
<1>1. ASSUME NEW frame \in Frames, fd[frame[2]] = fd[c] PROVE frame[2] = c
  <2>1. Relies(frame[1], frame[2])
    BY DEF FrameInv
  <2>2. CASE fd[c] \in DOMAIN table /\ table[fd[c]] = c
    BY <1>1, <2>1, <2>2 DEF Relies, Owns
  <2>3. CASE Owes({"enter"}, c)
    <3>1. <<"enter", c>> \in Frames
      BY <2>3 DEF Owes
    <3>2. Relies("enter", c)
      BY <3>1 DEF FrameInv
    <3> QED
      BY <3>2 DEF Relies
  <2> QED
    BY <2>2, <2>3 DEF Views
<1>2. \A d \in Channels : \A label : Owes(Owing, d) /\ fd[d] = fd[c] => d = c
  BY <1>1 DEF Owes
<1>3. ASSUME fd[c] \in DOMAIN table PROVE table[fd[c]] = c
  <2> DEFINE d == table[fd[c]]
  <2>1. d \in Channels /\ fd[d] = fd[c] /\ (sock[d] = "open" \/ Owes(Owing, d))
    BY <1>3 DEF Views, Shape, Owing
  <2> QED
    BY <1>2, <2>1 DEF Apart, Open
<1>4. ASSUME fd[c] \in DOMAIN selector PROVE selector[fd[c]].channel = c
  <2> DEFINE d == selector[fd[c]].channel
  <2>1. d \in Channels /\ fd[d] = fd[c] /\ (sock[d] = "open" \/ Owes({"deactivate", "unregister"}, d))
    BY <1>4 DEF Views, Shape
  <2>2. Owes({"deactivate", "unregister"}, d) => Owes(Owing, d)
    BY DEF Owes, Owing
  <2> HIDE DEF d
  <2>3. d = c
    BY <1>2, <2>1, <2>2 DEF Apart, Open
  <2> QED
    BY <2>3 DEF d
<1> QED
  BY <1>1, <1>3, <1>4 DEF Owns

\* add_flag and remove_flag for an open channel.
LEMMA FlagSet ==
  ASSUME LifecycleInv, NEW c \in Channels, sock[c] = "open", NEW events \in SUBSET Events,
         SetFlag(c, events)
  PROVE Tidy
<1> USE DEF LifecycleInv
<1>1. fd[c] \in Fds /\ Open(c)
  BY DEF Shape, Open
<1>2. fd[c] \in DOMAIN selector => selector[fd[c]].channel = c /\ selector[fd[c]].events = flag[c]
  BY OpenOwns DEF Owns, Views
<1>3. fd[c] \in DOMAIN selector <=> flag[c] # {}
  BY <1>2 DEF Views
<1>4. flag' = [flag EXCEPT ![c] = events] /\ flag \in [Channels -> SUBSET Events]
  BY DEF SetFlag, Shape
<1>5. /\ DOMAIN selector' \subseteq DOMAIN selector \cup {fd[c]}
      /\ \A f \in DOMAIN selector : f # fd[c] => f \in DOMAIN selector' /\ selector'[f] = selector[f]
      /\ fd[c] \in DOMAIN selector' <=> events # {}
      /\ fd[c] \in DOMAIN selector' => selector'[fd[c]] = [channel |-> c, events |-> events]
  <2>t. fd[c] \in DOMAIN selector => selector[fd[c]] = [channel |-> c, events |-> flag[c]]
    BY <1>2 DEF Shape
  <2>1. CASE events = flag[c]
    BY <1>3, <2>1, <2>t DEF SetFlag
  <2>2. CASE events # flag[c] /\ events = {}
    <3>1. selector' = Drop(selector, {fd[c]})
      BY <2>2 DEF SetFlag, Interest
    <3> QED
      BY <2>2, <3>1 DEF Drop, Restrict
  <2>3. CASE events # flag[c] /\ events # {} /\ fd[c] \in DOMAIN selector
    <3>1. selector' = [selector EXCEPT ![fd[c]].events = events]
      BY <1>1, <1>2, <2>3 DEF SetFlag, Interest
    <3> QED
      BY <2>3, <2>t, <3>1
  <2>4. CASE events # flag[c] /\ events # {} /\ fd[c] \notin DOMAIN selector
    <3>1. selector' = Put(selector, fd[c], [channel |-> c, events |-> events])
      BY <1>1, <2>4 DEF SetFlag, Interest
    <3> QED
      BY <2>4, <3>1 DEF Put
  <2> QED
    BY <2>1, <2>2, <2>3, <2>4
<1>6. \A f \in DOMAIN selector' : f # fd[c] =>
        f \in DOMAIN selector /\ selector'[f] = selector[f] /\ selector[f].channel # c
  BY <1>5 DEF Views
<1>7. \A d \in Channels : d # c /\ sock[d] = "open" => fd[d] # fd[c]
  BY <1>1 DEF Apart, Open
<1>8. flag'[c] = events /\ \A d \in Channels : d # c => flag'[d] = flag[d]
  BY <1>4
<1>9. /\ flag' \in [Channels -> SUBSET Events] /\ DOMAIN selector' \subseteq Fds
      /\ selector' = [f \in DOMAIN selector' |-> selector'[f]]
  <2>1. selector = [f \in DOMAIN selector |-> selector[f]]
    BY DEF Shape
  <2>2. selector' = [f \in DOMAIN selector' |-> selector'[f]]
    BY <2>1 DEF SetFlag, Interest, Drop, Restrict, Put
  <2> QED
    BY <1>1, <1>4, <1>5, <2>2 DEF Shape
<1>10. ASSUME NEW f \in DOMAIN selector'
       PROVE /\ selector'[f] \in [channel : Channels, events : SUBSET Events]
             /\ LET d == selector'[f].channel IN
                /\ fd[d] = f /\ selector'[f].events = flag'[d] /\ flag'[d] # {}
                /\ sock[d] = "open" \/ (f \in DOMAIN selector /\ selector[f].channel = d)
  <2>1. CASE f = fd[c]
    BY <1>5, <1>8, <2>1
  <2>2. CASE f # fd[c]
    <3>1. f \in DOMAIN selector /\ selector'[f] = selector[f] /\ selector[f].channel # c
      BY <1>6, <2>2
    <3>2. /\ selector[f] \in [channel : Channels, events : SUBSET Events]
          /\ fd[selector[f].channel] = f
          /\ selector[f].events = flag[selector[f].channel] /\ flag[selector[f].channel] # {}
      BY <3>1 DEF Shape, Views
    <3> QED
      BY <1>8, <3>1, <3>2
  <2> QED
    BY <2>1, <2>2
<1>11. ASSUME NEW d \in Channels, sock[d] = "open", flag'[d] # {}
       PROVE fd[d] \in DOMAIN selector' /\ selector'[fd[d]].channel = d
  <2>1. CASE d = c
    BY <1>5, <1>8, <1>11, <2>1
  <2>2. CASE d # c
    <3>1. fd[d] \in DOMAIN selector /\ selector[fd[d]].channel = d /\ fd[d] # fd[c]
      BY <1>7, <1>8, <1>11, <2>2 DEF Views
    <3> QED
      BY <1>5, <3>1
  <2> QED
    BY <2>1, <2>2
<1> QED
  BY <1>9, <1>10, <1>11 DEF Tidy

\* The same for a channel that is closed and has no key any more: its flag alone
\* changes.
LEMMA FlagSetLate ==
  ASSUME LifecycleInv, NEW c \in Channels, sock[c] = "closed", Owns(c),
         ~Owes({"deactivate", "unregister"}, c),
         NEW events \in SUBSET Events, SetFlag(c, events)
  PROVE Tidy
<1> USE DEF LifecycleInv
<1>1. \A f \in DOMAIN selector : selector[f].channel # c
  BY DEF Views
<1>2. fd[c] \notin DOMAIN selector /\ ~Open(c)
  BY <1>1 DEF Owns, Open
<1>3. selector' = selector
  <2>1. Drop(selector, {fd[c]}) = selector
    <3>1. DOMAIN selector \ {fd[c]} = DOMAIN selector /\ selector = [f \in DOMAIN selector |-> selector[f]]
      BY <1>2 DEF Shape
    <3> QED
      BY <3>1 DEF Drop, Restrict
  <2> QED
    BY <1>2, <2>1 DEF SetFlag, Interest
<1>4. /\ flag' \in [Channels -> SUBSET Events]
      /\ \A d \in Channels : d # c => flag'[d] = flag[d]
  BY DEF SetFlag, Shape
<1> QED
  BY <1>1, <1>3, <1>4 DEF Tidy, Shape, Views

-----------------------------------------------------------------------------
(* Steps of the loop thread                                                *)

\* The frames of a step that goes on with other frames than there were.
Onward ==
  /\ stack' \in Seq(Frame) /\ Nesting'
  /\ \A frame \in Frames' \ Frames : frame[1] # "enter" /\ Relies(frame[1], frame[2])
  /\ (\A frame \in Frames : frame[1] # "enter") \/ (Frames' \subseteq Frames /\ batch' = batch)
  /\ \A frame \in Frames : frame[1] = "enter" => frame \in Frames'

WillOwe(labels, c) == \E label \in labels : <<label, c>> \in Frames'

\* It leaves no channel in the tables that is closed and owes them nothing.
Paid ==
  /\ \A f \in DOMAIN selector' : LET c == selector'[f].channel IN
       sock[c] = "open" \/ (sock[c] = "closed" /\ WillOwe({"deactivate", "unregister"}, c))
  /\ \A f \in DOMAIN table : LET c == table[f] IN
       sock[c] = "open" \/ (sock[c] = "closed" /\ WillOwe(Owing, c))

Fewer ==
  /\ batch' \in Seq([fd : Fds, events : SUBSET Events])
  /\ \A i \in DOMAIN batch' : \E j \in DOMAIN batch : batch'[i] = batch[j]

Wants ==
  /\ pending' \in [Channels -> {"none", "data", "close"}]
  /\ \A c \in Channels : pending'[c] # "none" => sock[c] = "open"
  /\ autoRead' \in [Channels -> BOOLEAN]

\* A step that leaves sockets and _channels alone.
LEMMA LoopStep ==
  ASSUME LifecycleInv, Tidy, Onward, Paid, Fewer, Wants,
         UNCHANGED <<sock, fd, net, table>>,
         {active, everActive, closeDone, secured}' \subseteq [Channels -> BOOLEAN],
         DOMAIN heard' = Channels, Heard',
         \A frame \in Frames' : Finds(frame[1], frame[2])'
  PROVE LifecycleInv'
<1> USE DEF LifecycleInv
<1>1. Shape'
  BY DEF Shape, Tidy, Onward, Fewer, Wants
<1>2. Apart'
  BY DEF Apart, Open
<1>3. Nesting'
  BY DEF Onward
<1>4. \A label, c : Owes({"enter"}, c) => WillOwe({"enter"}, c)
  BY DEF Owes, WillOwe, Onward
<1>6. FrameInv'
  <2> SUFFICES ASSUME NEW frame \in Frames' PROVE Relies(frame[1], frame[2])'
    BY DEF FrameInv
  <2> DEFINE c == frame[2]
  <2>1. Relies(frame[1], c)
    BY DEF FrameInv, Onward
  <2>2. Owns(c)'
    <3>1. sock'[c] \in {"open", "closed"} /\ (fd'[c] \in DOMAIN table' => table'[fd'[c]] = c)
      BY <2>1 DEF Relies, Owns
    <3>2. ASSUME fd[c] \in DOMAIN selector' PROVE selector'[fd[c]].channel = c
      <4> DEFINE d == selector'[fd[c]].channel
      <4>1. /\ d \in Channels /\ fd[d] = fd[c]
            /\ sock[d] = "open" \/ (fd[c] \in DOMAIN selector /\ selector[fd[c]].channel = d)
        BY <3>2 DEF Tidy
      <4>2. CASE fd[c] \in DOMAIN selector /\ selector[fd[c]].channel = d
        BY <2>1, <4>2 DEF Relies, Owns
      <4>3. CASE sock[d] = "open" /\ frame \in Frames
        BY <4>1, <4>3, OpenOwns
      <4>4. CASE sock[d] = "open" /\ frame \notin Frames
        <5>1. \A other \in Frames : other[1] # "enter"
          BY <4>4 DEF Onward
        <5>2. ~Owes({"enter"}, d)
          BY <5>1 DEF Owes
        <5>3. fd[d] \in DOMAIN table /\ table[fd[d]] = d
          BY <4>1, <4>4, <5>2 DEF Views
        <5> QED
          BY <2>1, <4>1, <5>3 DEF Relies, Owns
      <4> QED
        BY <4>1, <4>2, <4>3, <4>4
    <3> QED
      BY <3>1, <3>2 DEF Owns
  <2>3. ASSUME frame[1] = "enter"
        PROVE sock'[c] = "open" /\ batch' = << >> /\ \A other \in Frames' : other[2] = c
    <3>1. frame \in Frames /\ Frames' \subseteq Frames /\ batch' = batch
      BY <2>3 DEF Onward
    <3> QED
      BY <2>1, <2>3, <3>1 DEF Relies
  <2> QED
    BY <2>1, <2>2, <2>3 DEF Relies
<1>7. Views'
  <2>1. \A f \in DOMAIN selector' : LET c == selector'[f].channel IN
          /\ fd[c] = f
          /\ selector'[f].events = flag'[c] /\ flag'[c] # {}
    BY DEF Tidy
  <2>2. \A f \in DOMAIN selector' : LET c == selector'[f].channel IN
          sock'[c] = "open" \/ (sock'[c] = "closed" /\ WillOwe({"deactivate", "unregister"}, c))
    BY DEF Paid
  <2>3. \A f \in DOMAIN table' : LET c == table'[f] IN
          /\ fd'[c] = f
          /\ sock'[c] = "open"
             \/ (sock'[c] = "closed" /\ WillOwe({"deactivate", "unregister", "forget"}, c))
    BY DEF Views, Paid, Owing
  <2>4. \A c \in Channels : sock'[c] = "open" =>
          /\ (fd'[c] \in DOMAIN table' /\ table'[fd'[c]] = c) \/ WillOwe({"enter"}, c)
          /\ flag'[c] # {} => fd'[c] \in DOMAIN selector' /\ selector'[fd'[c]].channel = c
    BY <1>4 DEF Views, Tidy
  <2>5. fd' = fd
    OBVIOUS
  <2> QED
    BY <2>1, <2>2, <2>3, <2>4, <2>5 DEF Views, Owes, WillOwe
<1>8. Polled'
  BY DEF Polled, Fewer
<1> QED
  BY <1>1, <1>2, <1>3, <1>6, <1>7, <1>8

\* One that leaves what is known of the channels alone as well.
LEMMA TurnStep ==
  ASSUME LifecycleInv, Tidy, Onward, Fewer, Wants,
         \A frame \in Frames : frame[1] \in Owing => frame \in Frames',
         \A frame \in Frames' \ Frames : Finds(frame[1], frame[2]),
         UNCHANGED <<sock, fd, net, active, everActive, closeDone, secured, table, heard>>
  PROVE LifecycleInv'
<1>1. \A labels \in SUBSET Owing : \A c : Owes(labels, c) => WillOwe(labels, c)
  BY DEF Owes, WillOwe
<1>2. {"deactivate", "unregister"} \subseteq Owing /\ {"deactivate", "unregister", "forget"} = Owing
  BY DEF Owing
<1>3. Paid
  <2>1. \A f \in DOMAIN table : LET c == table[f] IN
          sock[c] = "open" \/ (sock[c] = "closed" /\ WillOwe(Owing, c))
    BY <1>1, <1>2 DEF LifecycleInv, Views
  <2>2. \A f \in DOMAIN selector' : LET c == selector'[f].channel IN
          sock[c] = "open" \/ (sock[c] = "closed" /\ WillOwe({"deactivate", "unregister"}, c))
    <3>1. \A c : Owes({"deactivate", "unregister"}, c) => WillOwe({"deactivate", "unregister"}, c)
      BY <1>1, <1>2
    <3> QED
      BY <3>1 DEF LifecycleInv, Views, Tidy
  <2> QED
    BY <2>1, <2>2 DEF Paid
<1>4. Heard'
  <2>1. \A c \in Channels : heard[c] \in Farewells =>
          sock[c] = "closed" /\ \A f \in DOMAIN selector' : selector'[f].channel # c
    BY DEF LifecycleInv, Heard, Tidy
  <2> QED
    BY <2>1 DEF LifecycleInv, Heard, Wants
<1>5. \A frame \in Frames' : Finds(frame[1], frame[2])'
  BY DEF LifecycleInv, FrameInv, Finds
<1>6. {active, everActive, closeDone, secured}' \subseteq [Channels -> BOOLEAN] /\ DOMAIN heard' = Channels
  BY DEF LifecycleInv, Shape
<1> QED
  BY <1>3, <1>4, <1>5, <1>6, LoopStep

LEMMA SameBatch == ASSUME LifecycleInv, batch' = batch PROVE Fewer
BY DEF LifecycleInv, Shape, Fewer

LEMMA SameWants == ASSUME LifecycleInv, UNCHANGED <<pending, autoRead>> PROVE Wants
BY DEF LifecycleInv, Shape, Heard, Wants

\* What there is under a running frame that is neither "enter" nor about to be.
LEMMA NoEnter ==
  ASSUME LifecycleInv, stack # << >>, Head(stack)[1] \notin {"enter", "channel_registered"}
  PROVE \A frame \in Frames : frame[1] # "enter"
<1>1. /\ Frames = {Head(stack)} \cup FramesIn(Tail(stack))
      /\ \A frame \in FramesIn(Tail(stack)) : frame[1] \in Under(Head(stack)[1])
  BY Popped DEF LifecycleInv, Shape, Nesting, Frames
<1>2. \A label : label \notin {"enter", "channel_registered"} => "enter" \notin Under(label)
  BY DEF Under, Rest
<1> QED
  BY <1>1, <1>2

\* The running frame is replaced by others that can rely on what they need.
LEMMA ContinueOnward ==
  ASSUME LifecycleInv, stack # << >>, Head(stack)[1] \notin {"enter", "channel_registered"},
         NEW c \in Channels, NEW labels, Stackable(labels), Continue(c, labels),
         \A l \in Range(labels) : /\ Under(Head(stack)[1]) \subseteq Under(l)
                                  /\ l # "enter" /\ Relies(l, c)
  PROVE /\ Onward
        /\ Frames' = (Range(labels) \X {c}) \cup FramesIn(Tail(stack))
        /\ Frames = {Head(stack)} \cup FramesIn(Tail(stack))
<1>1. /\ stack' \in Seq(Frame) /\ Nesting'
      /\ Frames' = (Range(labels) \X {c}) \cup FramesIn(Tail(stack))
      /\ Frames = {Head(stack)} \cup FramesIn(Tail(stack))
  BY Continued DEF LifecycleInv, Shape
<1>2. \A frame \in Frames : frame[1] # "enter"
  BY NoEnter
<1>3. \A frame \in Frames' \ Frames : frame[1] \in Range(labels) /\ frame[2] = c
  BY <1>1
<1> QED
  BY <1>1, <1>2, <1>3 DEF Onward

LEMMA ReturnOnward ==
  ASSUME LifecycleInv, stack # << >>, Head(stack)[1] # "enter", Return, batch' = batch
  PROVE /\ Onward
        /\ Frames' = FramesIn(Tail(stack))
        /\ Frames = {Head(stack)} \cup FramesIn(Tail(stack))
<1>1. /\ stack' \in Seq(Frame) /\ Nesting'
      /\ Frames' = FramesIn(Tail(stack))
      /\ Frames = {Head(stack)} \cup FramesIn(Tail(stack))
  BY Returned DEF LifecycleInv, Shape
<1> QED
  BY <1>1 DEF Onward

\* What is left of an event is dropped: nothing lies under it that owes an update.
LEMMA NextEventOnward ==
  ASSUME LifecycleInv,
         stack = << >> \/ Head(stack)[1] \in {"writable", "readable", "recv"},
         NEW c \in Channels, NEW labels, Stackable(labels), NextEvent(c, labels),
         \A l \in Range(labels) : l # "enter" /\ Relies(l, c)
  PROVE /\ Onward
        /\ Frames' = Range(labels) \X {c}
        /\ \A frame \in Frames : frame[1] \in {"writable", "readable", "recv"}
<1>1. stack' \in Seq(Frame) /\ Nesting' /\ Frames' = Range(labels) \X {c}
  BY Replaced
<1>2. \A frame \in Frames : frame[1] \in {"writable", "readable", "recv"}
  <2>1. CASE stack = << >>
    BY <2>1 DEF Frames, FramesIn
  <2>2. CASE stack # << >>
    <3>1. /\ Frames = {Head(stack)} \cup FramesIn(Tail(stack))
          /\ \A frame \in FramesIn(Tail(stack)) : frame[1] \in Under(Head(stack)[1])
      BY <2>2, Popped DEF LifecycleInv, Shape, Nesting, Frames
    <3>2. \A l \in {"writable", "readable", "recv"} : Under(l) \subseteq {"readable"}
      BY DEF Under
    <3> QED
      BY <2>2, <3>1, <3>2
  <2> QED
    BY <2>1, <2>2
<1> QED
  BY <1>1, <1>2 DEF Onward

LEMMA Running ==
  ASSUME LifecycleInv, stack # << >>
  PROVE /\ Current \in Channels /\ Head(stack)[1] \in Labels /\ Head(stack) \in Frames
        /\ Relies(Head(stack)[1], Current) /\ Finds(Head(stack)[1], Current)
        /\ Owns(Current) /\ sock[Current] \in {"open", "closed"}
        /\ Head(stack) = <<Head(stack)[1], Current>>
<1>1. Head(stack) \in Frame /\ Head(stack) \in Frames
  BY Popped DEF LifecycleInv, Shape, Nesting, Frames
<1> QED
  BY <1>1 DEF LifecycleInv, FrameInv, Relies, Owns, Frame, Current

\* Under what is left of an event nothing owes the tables an update.
LEMMA NothingOwed ==
  ASSUME LifecycleInv, stack # << >>, Head(stack)[1] \in Rest \cup {"writable", "activate"}
  PROVE \A labels \in SUBSET Owing : \A c : ~Owes(labels, c)
<1>1. /\ Frames = {Head(stack)} \cup FramesIn(Tail(stack))
      /\ \A frame \in FramesIn(Tail(stack)) : frame[1] \in Under(Head(stack)[1])
  BY Popped DEF LifecycleInv, Shape, Nesting, Frames
<1>2. \A l \in Rest \cup {"writable", "activate"} : Under(l) \subseteq Rest
  BY DEF Under, Rest
<1>3. \A frame \in Frames : frame[1] \notin Owing
  BY <1>1, <1>2 DEF Rest, Owing
<1> QED
  BY <1>3 DEF Owes

LEMMA FlagTidy ==
  ASSUME LifecycleInv, NEW c \in Channels, Owns(c), NEW events \in SUBSET Events, SetFlag(c, events),
         sock[c] = "open" \/ \A labels \in SUBSET Owing : \A d : ~Owes(labels, d)
  PROVE Tidy
<1>1. {"deactivate", "unregister"} \in SUBSET Owing
  BY DEF Owing
<1>2. sock[c] \in {"open", "closed"}
  BY DEF Owns
<1> QED
  BY <1>1, <1>2, FlagSet, FlagSetLate

-----------------------------------------------------------------------------
(* User code, and the control flow of the loop thread                      *)

LEMMA LabelFacts ==
  /\ {"enter", "writable", "readable", "send", "sent", "recv", "activate", "answer", "undue", "more",
      "refused", "fail", "shut", "deactivate", "unregister", "forget"} \subseteq Labels
  /\ Callbacks \subseteq Labels
  /\ {"channel_registered", "channel_handshake_complete", "channel_active", "channel_read",
      "channel_inactive", "channel_unregistered", "connect listener", "close listener"} \subseteq Callbacks
  /\ "task" \notin Labels /\ "" \notin Contexts
BY DEF Labels, Callbacks, Handlers, Contexts

\* What lies under the frames of a close may lie under a callback that may close.
LEMMA UnderFail ==
  /\ \A l \in Callbacks \ {"channel_registered", "channel_handshake_complete"} :
       Under(l) = Under("fail") /\ l \in Under("fail")
  /\ \A l \in {"fail", "shut", "deactivate", "unregister", "forget", "refused"} :
       Under(l) = Under("fail") /\ l \in Under("fail")
  /\ Rest \subseteq Under("fail")
BY DEF Under, Rest, Labels, Callbacks, Handlers

\* A call of user code on a channel that it has been given and that is not closed.
LEMMA CallOn ==
  ASSUME LifecycleInv, LifecycleAssumption, Discipline, NEW call \in Calls, NEW c \in Channels,
         MayCallOn(call, c)
  PROVE /\ sock[c] = "open" /\ Owns(c)
        /\ <<Context, call>> \in Allowed
<1>1. ~closeDone[c]
  BY DEF MayCallOn, MayCall, Discipline
<1>2. sock[c] = "open"
  BY <1>1 DEF MayCallOn, LifecycleInv, Heard, Shape
<1> QED
  BY <1>1, <1>2, OpenOwns DEF MayCallOn, MayCall

LEMMA SameStack ==
  ASSUME LifecycleInv, UNCHANGED <<stack, batch>>
  PROVE Onward /\ Frames' = Frames
<1>1. Frames' = Frames /\ Nesting'
  BY DEF LifecycleInv, Frames, FramesIn, Nesting, Nested
<1> QED
  BY <1>1 DEF LifecycleInv, Shape, Onward

LEMMA CloseForciblyStep ==
  ASSUME LifecycleInv, LifecycleAssumption, Discipline, NEW c \in Channels, CloseForcibly(c)
  PROVE LifecycleInv'
<1>1. sock[c] = "open" /\ Owns(c) /\ <<Context, "force">> \in Allowed
  BY CallOn DEF CloseForcibly, Calls
<1>2. \A frame \in Frames : frame[1] \in Under("fail")
  <2>1. CASE stack = << >>
    BY <2>1 DEF Frames, FramesIn
  <2>2. CASE stack # << >>
    <3>1. Head(stack)[1] \in Callbacks \ {"channel_registered", "channel_handshake_complete"}
      <4>1. Context = Head(stack)[1] /\ Head(stack)[1] \in Labels
        BY <2>2, Running DEF Context
      <4>2. Context \in Contexts
        BY <1>1 DEF LifecycleAssumption
      <4> QED
        BY <1>1, <4>1, <4>2, LabelFacts DEF Discipline, Contexts
    <3>2. /\ Frames = {Head(stack)} \cup FramesIn(Tail(stack))
          /\ \A frame \in FramesIn(Tail(stack)) : frame[1] \in Under(Head(stack)[1])
      BY <2>2, Popped DEF LifecycleInv, Shape, Nesting, Frames
    <3> QED
      BY <3>1, <3>2, UnderFail
  <2> QED
    BY <2>1, <2>2
<1>3. stack' \in Seq(Frame) /\ Nesting' /\ Frames' = {<<"fail", c>>} \cup Frames
  BY <1>2, Pushed, LabelFacts DEF CloseForcibly, LifecycleInv, Shape
<1>4. \A frame \in Frames : frame[1] # "enter"
  BY <1>2 DEF Under
<1>5. Relies("fail", c) /\ Finds("fail", c)
  BY <1>1 DEF Relies, Finds
<1>6. Onward
  BY <1>3, <1>4, <1>5 DEF Onward
<1>7. \A frame \in Frames' \ Frames : Finds(frame[1], frame[2])
  BY <1>3, <1>5
<1>8. Tidy /\ Fewer /\ Wants
  BY Untouched, SameBatch, SameWants DEF CloseForcibly, interest, rounds
<1> QED
  BY <1>3, <1>6, <1>7, <1>8, TurnStep DEF CloseForcibly, sockets, activity, tables

\* Calls that change what the selector watches for.
LEMMA InterestStep ==
  ASSUME LifecycleInv, LifecycleAssumption, Discipline, NEW c \in Channels,
         CloseGracefully(c) \/ Write(c) \/ SetAutoRead(c)
  PROVE LifecycleInv'
<1>1. sock[c] = "open" /\ Owns(c)
  BY CallOn DEF CloseGracefully, Write, SetAutoRead, Calls
<1>2. flag[c] \in SUBSET Events /\ {"R", "W"} \subseteq Events
  BY DEF LifecycleInv, Shape, Events
<1>3. PICK events \in SUBSET Events : SetFlag(c, events)
  BY <1>2 DEF CloseGracefully, Write, SetAutoRead
<1>4. Tidy
  BY <1>1, <1>3, FlagSet
<1>5. Wants
  <2>1. /\ pending \in [Channels -> {"none", "data", "close"}] /\ autoRead \in [Channels -> BOOLEAN]
        /\ \A d \in Channels : pending[d] # "none" => sock[d] = "open"
    BY DEF LifecycleInv, Shape, Heard
  <2>2. CASE CloseGracefully(c)
    BY <1>1, <2>1, <2>2 DEF CloseGracefully, Wants
  <2>3. CASE Write(c)
    BY <1>1, <2>1, <2>3 DEF Write, Wants
  <2>4. CASE SetAutoRead(c)
    BY <1>1, <2>1, <2>4 DEF SetAutoRead, Wants
  <2> QED
    BY <2>2, <2>3, <2>4
<1>6. /\ UNCHANGED <<stack, batch>>
      /\ UNCHANGED <<sock, fd, net, active, everActive, closeDone, secured, table, heard>>
  BY DEF CloseGracefully, Write, SetAutoRead, rounds, sockets, activity, tables
<1>7. Onward /\ Frames' = Frames /\ Fewer
  BY <1>6, SameStack, SameBatch
<1> QED
  BY <1>4, <1>5, <1>6, <1>7, TurnStep

\* The running frame goes, and with it nothing that owes an update.
LEMMA ReturnStep ==
  ASSUME LifecycleInv, stack # << >>, Head(stack)[1] \notin Owing \cup {"enter"}, Return,
         batch' = batch, Tidy, Wants,
         UNCHANGED <<sock, fd, net, active, everActive, closeDone, secured, table, heard>>
  PROVE LifecycleInv'
<1>1. /\ Onward
      /\ Frames' = FramesIn(Tail(stack))
      /\ Frames = {Head(stack)} \cup FramesIn(Tail(stack))
  BY ReturnOnward
<1>2. \A frame \in Frames : frame[1] \in Owing => frame \in Frames'
  BY <1>1
<1>3. Frames' \subseteq Frames
  BY <1>1
<1> QED
  BY <1>1, <1>2, <1>3, SameBatch, TurnStep

\* The running frame goes on as others.
LEMMA ContinueStep ==
  ASSUME LifecycleInv, stack # << >>,
         Head(stack)[1] \notin Owing \cup {"enter", "channel_registered"},
         NEW labels, Stackable(labels), Continue(Current, labels),
         \A l \in Range(labels) : /\ Under(Head(stack)[1]) \subseteq Under(l)
                                  /\ l # "enter" /\ Relies(l, Current) /\ Finds(l, Current),
         batch' = batch, Tidy, Wants,
         UNCHANGED <<sock, fd, net, active, everActive, closeDone, secured, table, heard>>
  PROVE LifecycleInv'
<1>1. /\ Onward
      /\ Frames' = (Range(labels) \X {Current}) \cup FramesIn(Tail(stack))
      /\ Frames = {Head(stack)} \cup FramesIn(Tail(stack))
  BY Running, ContinueOnward
<1>2. \A frame \in Frames : frame[1] \in Owing => frame \in Frames'
  BY <1>1
<1>3. \A frame \in Frames' \ Frames : Finds(frame[1], frame[2])
  BY <1>1
<1> QED
  BY <1>1, <1>2, <1>3, SameBatch, TurnStep

LEMMA NextEventStep ==
  ASSUME LifecycleInv, stack = << >> \/ Head(stack)[1] \in {"writable", "readable", "recv"},
         NEW c \in Channels, NEW labels, Stackable(labels), NextEvent(c, labels),
         \A l \in Range(labels) : l # "enter" /\ Relies(l, c) /\ Finds(l, c),
         Fewer, Tidy, Wants,
         UNCHANGED <<sock, fd, net, active, everActive, closeDone, secured, table, heard>>
  PROVE LifecycleInv'
<1>1. /\ Onward
      /\ Frames' = Range(labels) \X {c}
      /\ \A frame \in Frames : frame[1] \in {"writable", "readable", "recv"}
  BY NextEventOnward
<1>2. \A frame \in Frames : frame[1] \in Owing => frame \in Frames'
  BY <1>1 DEF Owing
<1>3. \A frame \in Frames' \ Frames : Finds(frame[1], frame[2])
  BY <1>1
<1> QED
  BY <1>1, <1>2, <1>3, TurnStep

\* The lists that are used where there is a choice.
LEMMA ListsChosen ==
  /\ \A labels \in {<<"recv">>, << >>} : Stackable(labels) /\ Range(labels) \subseteq {"recv"}
  /\ \A labels \in {<<"connect listener", "shut">>, <<"shut">>} :
       Stackable(labels) /\ Range(labels) \subseteq {"connect listener", "shut"}
  /\ \A labels \in {<<"connect listener", "undue">>, <<"undue">>} :
       Stackable(labels) /\ Range(labels) \subseteq {"connect listener", "undue"}
  /\ \A labels \in {<<"connect listener", "refused", "fail">>, <<"refused", "fail">>} :
       Stackable(labels) /\ Range(labels) \subseteq {"connect listener", "refused", "fail"}
  /\ Under("connect listener") = Under("fail") /\ Under("shut") = Under("fail")
<1>1. {"shut", "undue", "refused", "fail", "recv", "connect listener"} \subseteq Labels
  BY LabelFacts
<1>2. /\ Under("connect listener") = Under("fail") /\ Under("shut") = Under("fail")
      /\ Under("refused") = Under("fail")
  <2>1. "connect listener" \in Callbacks \ {"channel_registered", "channel_handshake_complete"}
    BY LabelFacts
  <2> QED
    BY <2>1, UnderFail
<1>3. {"shut", "undue", "refused", "fail"} \subseteq Under("fail")
  BY UnderFail DEF Rest
<1>4. Stackable(<<"recv">>) /\ Range(<<"recv">>) = {"recv"}
  BY <1>1, Lists
<1>5. Stackable(<< >>) /\ Range(<< >>) = {}
  BY Lists
<1>6. /\ Stackable(<<"connect listener", "shut">>)
      /\ Range(<<"connect listener", "shut">>) = {"connect listener", "shut"}
  BY <1>1, <1>2, <1>3, Lists
<1>7. /\ Stackable(<<"connect listener", "undue">>)
      /\ Range(<<"connect listener", "undue">>) = {"connect listener", "undue"}
  BY <1>1, <1>2, <1>3, Lists
<1>8. /\ Stackable(<<"connect listener", "refused", "fail">>)
      /\ Range(<<"connect listener", "refused", "fail">>) = {"connect listener", "refused", "fail"}
  <2>1. {"refused", "fail"} \subseteq Under("connect listener") /\ "fail" \in Under("refused")
    BY <1>2, <1>3
  <2>2. "connect listener" \in Labels /\ "refused" \in Labels /\ "fail" \in Labels
    BY <1>1
  <2>3. \A l, m, n \in Labels : {m, n} \subseteq Under(l) /\ n \in Under(m) =>
          Stackable(<<l, m, n>>) /\ Range(<<l, m, n>>) = {l, m, n}
    BY Lists
  <2> QED
    BY <2>1, <2>2, <2>3
<1>9. /\ Stackable(<<"refused", "fail">>)
      /\ Range(<<"refused", "fail">>) = {"refused", "fail"}
  BY <1>1, <1>2, <1>3, Lists
<1>10. /\ Stackable(<<"shut">>) /\ Range(<<"shut">>) = {"shut"}
       /\ Stackable(<<"undue">>) /\ Range(<<"undue">>) = {"undue"}
  BY <1>1, Lists
<1>a. \A labels \in {<<"recv">>, << >>} : Stackable(labels) /\ Range(labels) \subseteq {"recv"}
  BY <1>4, <1>5
<1>b. \A labels \in {<<"connect listener", "shut">>, <<"shut">>} :
        Stackable(labels) /\ Range(labels) \subseteq {"connect listener", "shut"}
  BY <1>6, <1>10
<1>c. \A labels \in {<<"connect listener", "undue">>, <<"undue">>} :
        Stackable(labels) /\ Range(labels) \subseteq {"connect listener", "undue"}
  BY <1>7, <1>10
<1>d. \A labels \in {<<"connect listener", "refused", "fail">>, <<"refused", "fail">>} :
        Stackable(labels) /\ Range(labels) \subseteq {"connect listener", "refused", "fail"}
  BY <1>8, <1>9
<1> QED
  BY <1>2, <1>a, <1>b, <1>c, <1>d

\* The library's steps that are control flow alone.
LEMMA UserReturnsStep == ASSUME LifecycleInv, UserReturns PROVE LifecycleInv'
<1>1. Head(stack)[1] \notin Owing \cup {"enter"}
  BY DEF UserReturns, Owing, Callbacks, Handlers
<1> QED
  BY <1>1, Untouched, SameWants, ReturnStep
  DEF UserReturns, interest, rounds, sockets, activity, tables

LEMMA LeaveStep == ASSUME LifecycleInv, Refused \/ Undue PROVE LifecycleInv'
<1>1. stack # << >> /\ Head(stack)[1] \notin Owing \cup {"enter"}
  BY DEF Refused, Undue, At, Owing
<1> QED
  BY <1>1, Untouched, SameWants, ReturnStep
  DEF Refused, Undue, interest, rounds, sockets, activity

\* The check of a channel that is to be sent to or received from.
LEMMA Checking ==
  ASSUME LifecycleInv, MustCheck
  PROVE /\ stack # << >> /\ Head(stack)[1] \in {"writable", "readable"}
        /\ Head(stack)[1] \notin Owing \cup {"enter", "channel_registered"}
        /\ Checked \in {"send", "recv"}
        /\ Under(Head(stack)[1]) \subseteq Under(Checked)
        /\ Under(Head(stack)[1]) \subseteq {"readable"}
        /\ Head(stack)[1] = "readable" => Under(Head(stack)[1]) = {}
        /\ Checked = "recv" => Head(stack)[1] = "readable"
        /\ Relies(Checked, Current) /\ Finds(Checked, Current)
        /\ net[Current] # "connecting"
<1>1. stack # << >> /\ Head(stack)[1] \in {"writable", "readable"}
  BY DEF MustCheck, At
<1>2. Owns(Current) /\ net[Current] # "connecting"
  BY <1>1, Running DEF Relies
<1>3. Checked = IF Head(stack)[1] = "writable" THEN "send" ELSE "recv"
  BY <1>1 DEF Checked, At
<1>4. Relies(Checked, Current) /\ Finds(Checked, Current)
  BY <1>2, <1>3 DEF Relies, Finds
<1> QED
  BY <1>1, <1>2, <1>3, <1>4 DEF Under, Rest, Owing

LEMMA SkipCheckStep == ASSUME LifecycleInv, SkipCheck PROVE LifecycleInv'
<1>1. /\ stack # << >> /\ Head(stack)[1] = "readable"
      /\ Head(stack)[1] \notin Owing \cup {"enter", "channel_registered"}
  BY DEF SkipCheck, At, Owing
<1>2. Relies("recv", Current) /\ Finds("recv", Current) /\ Under("readable") = {}
  BY <1>1, Running DEF Relies, Finds, Under
<1>3. PICK labels \in {<<"recv">>, << >>} : Continue(Current, labels)
  BY DEF SkipCheck
<1>4. Stackable(labels) /\ Range(labels) \subseteq {"recv"}
  BY <1>3, ListsChosen
<1> QED
  BY <1>1, <1>2, <1>3, <1>4, Untouched, SameWants, ContinueStep
  DEF SkipCheck, interest, rounds, sockets, activity, tables

LEMMA WasActiveStep == ASSUME LifecycleInv, WasActive PROVE LifecycleInv'
<1>1. Stackable(<<Checked>>) /\ Range(<<Checked>>) = {Checked}
  BY Checking, Lists, LabelFacts DEF WasActive
<1> QED
  BY <1>1, Checking, Untouched, SameWants, ContinueStep
  DEF WasActive, interest, rounds, sockets, activity, tables

LEMMA ConnectedStep == ASSUME LifecycleInv, Connected PROVE LifecycleInv'
<1>0. MustCheck
  BY DEF Connected, MayActivate
<1>1. /\ Stackable(<<"activate", Checked>>) /\ Range(<<"activate", Checked>>) = {"activate", Checked}
  <2>1. Checked \in Under("activate") /\ Checked \in Labels
    BY <1>0, Checking, LabelFacts DEF Under
  <2> QED
    BY <2>1, Lists, LabelFacts
<1>2. Under(Head(stack)[1]) \subseteq Under("activate")
  BY <1>0, Checking DEF Under
<1>3. Owns(Current) /\ Current \in Channels /\ sock[Current] \in {"open", "closed"}
  BY <1>0, Checking, Running
<1>4. sock[Current] = "open" /\ net[Current] \notin {"connecting", "failed"}
  BY <1>0, <1>3, Checking DEF Connected, MayActivate, SocketError, Open, LifecycleInv, Shape
<1>5. Relies("activate", Current) /\ Finds("activate", Current)
  BY <1>3, <1>4 DEF Relies, Finds, Connected, MayActivate
<1> QED
  BY <1>0, <1>1, <1>2, <1>5, Checking, Untouched, SameWants, ContinueStep
  DEF Connected, interest, rounds, sockets, activity, tables

LEMMA RefuseStep == ASSUME LifecycleInv, ConnectFailed \/ HandshakeFails PROVE LifecycleInv'
<1>0. MustCheck /\ Refuse
  BY DEF ConnectFailed, HandshakeFails, MayActivate
<1>1. PICK labels \in {<<"connect listener", "refused", "fail">>, <<"refused", "fail">>} :
        NextEvent(Current, labels)
  BY <1>0 DEF Refuse
<1>2. Stackable(labels) /\ Range(labels) \subseteq {"connect listener", "refused", "fail"}
  BY ListsChosen
<1>3. Owns(Current) /\ Current \in Channels
  BY <1>0, Checking, Running
<1>4. \A l \in {"connect listener", "refused", "fail"} :
        l # "enter" /\ Relies(l, Current) /\ Finds(l, Current)
  BY <1>3 DEF Relies, Finds
<1>5. Head(stack)[1] \in {"writable", "readable", "recv"}
  BY <1>0, Checking
<1>6. Fewer /\ Tidy /\ Wants
  BY <1>0, SameBatch, Untouched, SameWants DEF Refuse, interest, rounds
<1> QED
  BY <1>0, <1>1, <1>2, <1>3, <1>4, <1>5, <1>6, NextEventStep DEF Refuse, sockets, tables

LEMMA HandshakeWantsStep == ASSUME LifecycleInv, HandshakeWants PROVE LifecycleInv'
<1>0. MustCheck /\ NextEvent(Current, << >>)
  BY DEF HandshakeWants, MayActivate
<1>1. Current \in Channels /\ Owns(Current) /\ sock[Current] = "open"
  BY <1>0, Checking, Running DEF HandshakeWants, MayActivate, SocketError, Open
<1>2. PICK events \in SUBSET Events : SetFlag(Current, events)
  BY <1>1 DEF HandshakeWants, LifecycleInv, Shape, Events
<1>3. Tidy
  BY <1>1, <1>2, FlagSet
<1>4. Fewer /\ Wants
  BY SameBatch, SameWants DEF HandshakeWants, rounds
<1>5. Head(stack)[1] \in {"writable", "readable", "recv"}
  BY <1>0, Checking
<1> QED
  BY <1>0, <1>1, <1>3, <1>4, <1>5, Lists, NextEventStep
  DEF HandshakeWants, sockets, activity, tables

LEMMA AnswerStep == ASSUME LifecycleInv, Answer PROVE LifecycleInv'
<1>1. /\ stack # << >> /\ Head(stack)[1] = "answer"
      /\ Head(stack)[1] \notin Owing \cup {"enter", "channel_registered"}
  BY DEF Answer, At, Owing
<1>2. PICK labels \in {<<"connect listener", "undue">>, <<"undue">>} : Continue(Current, labels)
  BY DEF Answer
<1>3. Stackable(labels) /\ Range(labels) \subseteq {"connect listener", "undue"}
  BY ListsChosen
<1>4. Under("answer") \subseteq Under("connect listener") /\ Under("answer") = Under("undue")
  BY UnderFail, LabelFacts DEF Under
<1>5. \A l \in {"connect listener", "undue"} :
        l # "enter" /\ Relies(l, Current) /\ Finds(l, Current)
  BY <1>1, Running DEF Relies, Finds
<1>6. \A l \in Range(labels) : /\ Under(Head(stack)[1]) \subseteq Under(l)
                               /\ l # "enter" /\ Relies(l, Current) /\ Finds(l, Current)
  BY <1>1, <1>3, <1>4, <1>5
<1> QED
  BY <1>1, <1>2, <1>3, <1>6, Untouched, SameWants, ContinueStep
  DEF Answer, interest, rounds, sockets, tables

LEMMA FailStep == ASSUME LifecycleInv, Fail PROVE LifecycleInv'
<1>1. /\ stack # << >> /\ Head(stack)[1] = "fail"
      /\ Head(stack)[1] \notin Owing \cup {"enter", "channel_registered"}
  BY DEF Fail, At, Owing
<1>2. PICK labels \in {<<"connect listener", "shut">>, <<"shut">>} : Continue(Current, labels)
  BY DEF Fail
<1>3. Stackable(labels) /\ Range(labels) \subseteq {"connect listener", "shut"}
  BY ListsChosen
<1>4. \A l \in {"connect listener", "shut"} : Under("fail") = Under(l)
  BY ListsChosen
<1>5. \A l \in {"connect listener", "shut"} :
        l # "enter" /\ Relies(l, Current) /\ Finds(l, Current)
  BY <1>1, Running DEF Relies, Finds
<1>6. \A l \in Range(labels) : /\ Under(Head(stack)[1]) \subseteq Under(l)
                               /\ l # "enter" /\ Relies(l, Current) /\ Finds(l, Current)
  BY <1>1, <1>3, <1>4, <1>5
<1> QED
  BY <1>1, <1>2, <1>3, <1>6, Untouched, SameWants, ContinueStep
  DEF Fail, interest, rounds, sockets, tables

\* Sending and receiving.
LEMMA Resting ==
  ASSUME LifecycleInv, NEW label \in Rest, At(label)
  PROVE /\ stack # << >> /\ Head(stack)[1] = label /\ label \notin Owing \cup {"enter"}
        /\ label # "channel_registered"
        /\ Current \in Channels /\ Owns(Current)
        /\ \A labels \in SUBSET Owing : \A c : ~Owes(labels, c)
<1>1. stack # << >> /\ Head(stack)[1] = label
  BY DEF At
<1> QED
  BY <1>1, Running, NothingOwed DEF Rest, Owing

\* A step that sets the flags of the running channel once an event has been handled.
LEMMA FlagReturnStep ==
  ASSUME LifecycleInv, NEW label \in Rest, At(label), NEW events \in SUBSET Events,
         SetFlag(Current, events), Return, Wants, batch' = batch,
         UNCHANGED <<sock, fd, net, active, everActive, closeDone, secured, table, heard>>
  PROVE LifecycleInv'
<1>1. Tidy
  BY Resting, FlagTidy
<1> QED
  BY <1>1, Resting, ReturnStep

LEMMA MoreStep == ASSUME LifecycleInv, More PROVE LifecycleInv'
<1>0. At("more") /\ "more" \in Rest
  BY DEF More, Rest
<1>1. flag[Current] \in SUBSET Events /\ "W" \in Events
  BY <1>0, Resting DEF LifecycleInv, Shape, Events
<1>2. PICK events \in SUBSET Events : SetFlag(Current, events)
  BY <1>1 DEF More
<1> QED
  BY <1>0, <1>2, SameWants, FlagReturnStep DEF More, sockets, activity, tables, rounds

LEMMA SendStep == ASSUME LifecycleInv, NEW rest \in {"none", "data"}, Send(rest) PROVE LifecycleInv'
<1>0. At("send") /\ "send" \in Rest
  BY DEF Send, Rest
<1>1. flag[Current] \in SUBSET Events /\ Current \in Channels
  BY <1>0, Resting DEF LifecycleInv, Shape
<1>2. PICK events \in SUBSET Events : SetFlag(Current, events)
  BY <1>1 DEF Send
<1>3. Wants
  <2>1. /\ pending \in [Channels -> {"none", "data", "close"}] /\ autoRead' \in [Channels -> BOOLEAN]
        /\ \A d \in Channels : pending[d] # "none" => sock[d] = "open"
    BY DEF LifecycleInv, Shape, Heard, Send
  <2>2. pending' = [pending EXCEPT ![Current] = rest] /\ (rest = pending[Current] \/ rest = "none")
    BY DEF Send
  <2> QED
    BY <1>1, <2>1, <2>2 DEF Wants
<1> QED
  BY <1>0, <1>2, <1>3, FlagReturnStep DEF Send, sockets, activity, tables, rounds

LEMMA SentStep == ASSUME LifecycleInv, Sent PROVE LifecycleInv'
<1>0. At("sent") /\ "sent" \in Rest
  BY DEF Sent, Rest
<1>1. flag[Current] \in SUBSET Events
  BY <1>0, Resting DEF LifecycleInv, Shape
<1>2. PICK events \in SUBSET Events : SetFlag(Current, events)
  BY <1>1 DEF Sent
<1> QED
  BY <1>0, <1>2, SameWants, FlagReturnStep DEF Sent, sockets, activity, tables, rounds

LEMMA SendUpToCloseStep ==
  ASSUME LifecycleInv, NEW labels \in {<<"fail", "sent">>, << >>}, SendUpToClose(labels)
  PROVE LifecycleInv'
<1>0. /\ At("send") /\ "send" \in Rest /\ Continue(Current, labels)
      /\ UNCHANGED <<sockets, activity, interest, tables, rounds, heard>>
  BY DEF SendUpToClose, Rest
<1>1. Stackable(labels) /\ Range(labels) \subseteq {"fail", "sent"}
  <2>1. "sent" \in Under("fail") /\ "fail" \in Labels /\ "sent" \in Labels
    BY UnderFail, LabelFacts DEF Rest
  <2>2. Stackable(<<"fail", "sent">>) /\ Range(<<"fail", "sent">>) = {"fail", "sent"}
    BY <2>1, Lists
  <2>3. Stackable(<< >>) /\ Range(<< >>) = {}
    BY Lists
  <2> QED
    BY <2>2, <2>3
<1>2. Under("send") = Rest /\ Under("sent") = Rest /\ Rest \subseteq Under("fail")
  BY UnderFail DEF Under
<1>3. Owns(Current) /\ Head(stack)[1] = "send" /\ stack # << >>
      /\ Head(stack)[1] \notin Owing \cup {"enter", "channel_registered"}
  BY <1>0, Resting
<1>4. \A l \in {"fail", "sent"} :
        l # "enter" /\ Relies(l, Current) /\ Finds(l, Current)
  BY <1>3 DEF Relies, Finds
<1>5. \A l \in Range(labels) : /\ Under(Head(stack)[1]) \subseteq Under(l)
                               /\ l # "enter" /\ Relies(l, Current) /\ Finds(l, Current)
  BY <1>1, <1>2, <1>3, <1>4
<1>6. Tidy /\ Wants
  BY <1>0, Untouched, SameWants DEF interest
<1> QED
  BY <1>0, <1>1, <1>3, <1>5, <1>6, ContinueStep DEF sockets, activity, tables, rounds

LEMMA RecvStep == ASSUME LifecycleInv, Recv PROVE LifecycleInv'
<1>0. /\ stack # << >> /\ Head(stack)[1] = "recv"
      /\ Head(stack)[1] \notin Owing \cup {"enter", "channel_registered"}
      /\ UNCHANGED <<sockets, activity, interest, tables, rounds, heard>>
  BY DEF Recv, At, Owing
<1>1. Owns(Current) /\ Current \in Channels /\ Under("recv") = {}
  BY <1>0, Running DEF Under
<1>2. /\ Relies("channel_read", Current) /\ Finds("channel_read", Current)
      /\ Relies("fail", Current) /\ Finds("fail", Current)
  BY <1>1 DEF Relies, Finds
<1>3. "channel_read" \in Labels /\ "fail" \in Labels
  BY LabelFacts
<1>4. /\ Stackable(<<"channel_read">>) /\ Range(<<"channel_read">>) = {"channel_read"}
      /\ Stackable(<<"fail">>) /\ Range(<<"fail">>) = {"fail"}
  BY <1>3, Lists
<1>5. Tidy /\ Wants /\ Fewer /\ batch' = batch
      /\ UNCHANGED <<sock, fd, net, active, everActive, closeDone, secured, table, heard>>
  BY <1>0, Untouched, SameWants, SameBatch DEF interest, rounds, sockets, activity, tables
<1>6. CASE Continue(Current, <<"channel_read">>)
  BY <1>0, <1>1, <1>2, <1>4, <1>5, <1>6, ContinueStep
<1>7. CASE NextEvent(Current, <<"fail">>)
  BY <1>0, <1>1, <1>2, <1>4, <1>5, <1>7, NextEventStep
<1>8. CASE Return
  BY <1>0, <1>5, <1>8, ReturnStep
<1> QED
  BY <1>6, <1>7, <1>8 DEF Recv

-----------------------------------------------------------------------------
(* The rounds of the event loop                                            *)

LEMMA BatchTail ==
  ASSUME LifecycleInv, batch # << >>
  PROVE /\ Head(batch) \in [fd : Fds, events : SUBSET Events] /\ 1 \in DOMAIN batch /\ Head(batch) = batch[1]
        /\ batch' = Tail(batch) => Fewer
<1> DEFINE E == [fd : Fds, events : SUBSET Events]
<1>1. batch \in Seq(E)
  BY DEF LifecycleInv, Shape
<1> HIDE DEF E
<1>2. Len(batch) \in Nat \ {0} /\ DOMAIN batch = 1 .. Len(batch)
  BY <1>1, LenProperties, EmptySeq
<1>3. /\ Head(batch) = batch[1] /\ Head(batch) \in E /\ Tail(batch) \in Seq(E)
      /\ Len(Tail(batch)) = Len(batch) - 1 /\ \A i \in 1 .. Len(batch) - 1 : Tail(batch)[i] = batch[i + 1]
  BY <1>1, <1>2, HeadTailProperties
<1>4. DOMAIN Tail(batch) = 1 .. Len(batch) - 1
  BY <1>3, LenProperties
<1>5. \A i \in DOMAIN Tail(batch) : \E j \in DOMAIN batch : Tail(batch)[i] = batch[j]
  BY <1>2, <1>3, <1>4
<1> QED
  BY <1>2, <1>3, <1>5 DEF Fewer, E

\* Between the frames of two events or deadlines, what _channels holds is open.
LEMMA TableOpen ==
  ASSUME LifecycleInv, stack = << >>
  PROVE /\ Frames = {}
        /\ \A f \in DOMAIN table : /\ table[f] \in Channels /\ sock[table[f]] = "open"
                                   /\ fd[table[f]] = f /\ Owns(table[f])
        /\ \A f \in DOMAIN selector :
             /\ selector[f].channel \in Channels /\ sock[selector[f].channel] = "open"
             /\ f \in DOMAIN table /\ table[f] = selector[f].channel
<1>1. Frames = {}
  BY DEF Frames, FramesIn
<1>2. \A labels, c : ~Owes(labels, c)
  BY <1>1 DEF Owes
<1>3. \A f \in DOMAIN table : table[f] \in Channels /\ sock[table[f]] = "open" /\ fd[table[f]] = f
  BY <1>2 DEF LifecycleInv, Views, Shape
<1>4. \A f \in DOMAIN table : Owns(table[f])
  BY <1>3, OpenOwns
<1>5. \A f \in DOMAIN selector :
        /\ selector[f].channel \in Channels /\ sock[selector[f].channel] = "open"
        /\ f \in DOMAIN table /\ table[f] = selector[f].channel
  BY <1>2 DEF LifecycleInv, Views, Shape
<1> QED
  BY <1>1, <1>3, <1>4, <1>5

LEMMA HandleEventStep == ASSUME LifecycleInv, HandleEvent PROVE LifecycleInv'
<1>0. stack = << >> /\ batch # << >> /\ batch' = Tail(batch)
      /\ UNCHANGED <<sockets, activity, interest, tables, heard>>
  BY DEF HandleEvent
<1>1. Fewer /\ Tidy /\ Wants
  BY <1>0, BatchTail, Untouched, SameWants DEF interest
<1> DEFINE f == Head(batch).fd
<1>2. CASE f \in DOMAIN table
  <2> DEFINE c == table[f]
  <2>1. c \in Channels /\ Owns(c)
    BY <1>0, <1>2, TableOpen
  <2>2. net[c] # "connecting"
    BY <1>0, <1>2, BatchTail DEF LifecycleInv, Polled
  <2>3. PICK labels \in {<< >>, <<"writable">>, <<"readable">>, <<"writable", "readable">>} :
          NextEvent(c, labels)
    <3>1. PICK w \in {<<"writable">>, << >>}, r \in {<<"readable">>, << >>} :
            NextEvent(c, w \o r)
      BY <1>2 DEF HandleEvent
    <3>2. <<"writable">> \o <<"readable">> = <<"writable", "readable">>
      <4> DEFINE s == <<"writable">>
                 t == <<"readable">>
                 u == <<"writable", "readable">>
      <4>0. "writable" \in Labels /\ "readable" \in Labels
        BY LabelFacts
      <4>1. s \in Seq(Labels) /\ t \in Seq(Labels) /\ u \in Seq(Labels)
        BY <4>0
      <4>2. Len(s) = 1 /\ Len(t) = 1 /\ Len(u) = 2 /\ s[1] = u[1] /\ t[1] = u[2]
        OBVIOUS
      <4> HIDE DEF s, t, u
      <4>3. /\ s \o t \in Seq(Labels) /\ Len(s \o t) = Len(s) + Len(t)
            /\ \A i \in 1 .. Len(s) + Len(t) :
                 (s \o t)[i] = IF i <= Len(s) THEN s[i] ELSE t[i - Len(s)]
        BY <4>1, ConcatProperties
      <4>4. \A i \in 1 .. 2 : (s \o t)[i] = u[i]
        BY <4>2, <4>3
      <4>5. s \o t = u
        BY <4>1, <4>2, <4>3, <4>4, SeqEqual
      <4> QED
        BY <4>5 DEF s, t, u
    <3>3. <<"writable">> \o << >> = <<"writable">>
      OBVIOUS
    <3>4. << >> \o <<"readable">> = <<"readable">>
      OBVIOUS
    <3>5. << >> \o << >> = << >>
      OBVIOUS
    <3>6. w \o r \in {<< >>, <<"writable">>, <<"readable">>, <<"writable", "readable">>}
      BY <3>2, <3>3, <3>4, <3>5, Zenon
    <3> QED
      BY <3>1, <3>6
  <2>4. Stackable(labels) /\ Range(labels) \subseteq {"writable", "readable"}
    <3>1. "readable" \in Under("writable") /\ "readable" \in Labels /\ "writable" \in Labels
      BY LabelFacts DEF Under
    <3>2. /\ Stackable(<<"writable", "readable">>)
          /\ Range(<<"writable", "readable">>) = {"writable", "readable"}
      BY <3>1, Lists
    <3>3. /\ Stackable(<<"writable">>) /\ Range(<<"writable">>) = {"writable"}
          /\ Stackable(<<"readable">>) /\ Range(<<"readable">>) = {"readable"}
      BY <3>1, Lists
    <3>4. Stackable(<< >>) /\ Range(<< >>) = {}
      BY Lists
    <3> QED
      BY <3>2, <3>3, <3>4
  <2>5. \A l \in {"writable", "readable"} : l # "enter" /\ Relies(l, c) /\ Finds(l, c)
    BY <2>1, <2>2 DEF Relies, Finds
  <2> HIDE DEF c
  <2> QED
    BY <1>0, <1>1, <2>1, <2>3, <2>4, <2>5, NextEventStep DEF sockets, activity, tables
<1>3. CASE f \notin DOMAIN table
  <2>1. stack' = stack
    BY <1>3 DEF HandleEvent
  <2>2. Frames = {} /\ Frames' = {}
    BY <1>0, <2>1, TableOpen DEF Frames, FramesIn
  <2>3. Onward
    BY <1>0, <2>1, <2>2 DEF Onward, LifecycleInv, Shape, Nesting, Nested
  <2> QED
    BY <1>0, <1>1, <2>2, <2>3, TurnStep DEF sockets, activity, tables
<1> QED
  BY <1>2, <1>3

LEMMA ExpireOneStep == ASSUME LifecycleInv, ExpireOne PROVE LifecycleInv'
<1>0. stack = << >> /\ batch' = batch
      /\ UNCHANGED <<sockets, activity, interest, tables, heard>>
  BY DEF ExpireOne
<1>1. Fewer /\ Tidy /\ Wants
  BY <1>0, SameBatch, Untouched, SameWants DEF interest
<1>2. CASE stack' = stack
  BY <1>0, <1>1, <1>2, SameStack, TurnStep DEF sockets, activity, tables
<1>3. ASSUME NEW f \in DOMAIN table, NextEvent(table[f], <<"fail">>)
      PROVE LifecycleInv'
  <2>1. table[f] \in Channels /\ Owns(table[f])
    BY <1>0, TableOpen
  <2>2. Stackable(<<"fail">>) /\ Range(<<"fail">>) = {"fail"}
    BY Lists, LabelFacts
  <2>3. Relies("fail", table[f]) /\ Finds("fail", table[f])
    BY <2>1 DEF Relies, Finds
  <2> QED
    BY <1>0, <1>1, <1>3, <2>1, <2>2, <2>3, NextEventStep DEF sockets, activity, tables
<1> QED
  BY <1>2, <1>3 DEF ExpireOne

\* Deadlines are none of the other tables' business.
LEMMA DeadlineStep ==
  ASSUME LifecycleInv, UNCHANGED <<sockets, activity, interest, table, batch, stack, heard>>
  PROVE LifecycleInv'
<1>1. Fewer /\ Tidy /\ Wants
  BY SameBatch, Untouched, SameWants DEF interest
<1> QED
  BY <1>1, SameStack, TurnStep DEF sockets, activity

LEMMA PollStep == ASSUME LifecycleInv, LifecycleAssumption, Poll PROVE LifecycleInv'
<1>0. /\ stack = << >> /\ batch = << >>
      /\ UNCHANGED <<sockets, activity, interest, tables, stack, heard>>
  BY DEF Poll, Idle
<1>1. PICK fs \in (SUBSET Ready) \ {{}} : \E order \in SetToSeqs(fs) :
        \E events \in [DOMAIN order -> (SUBSET Events) \ {{}}] :
          /\ \A i \in DOMAIN order : events[i] \subseteq selector[order[i]].events
          /\ batch' = [i \in DOMAIN order |-> [fd |-> order[i], events |-> events[i]]]
  BY DEF Poll
<1>o. PICK order \in SetToSeqs(fs) : \E events \in [DOMAIN order -> (SUBSET Events) \ {{}}] :
        batch' = [i \in DOMAIN order |-> [fd |-> order[i], events |-> events[i]]]
  BY <1>1
<1>2. PICK events \in [DOMAIN order -> (SUBSET Events) \ {{}}] :
        batch' = [i \in DOMAIN order |-> [fd |-> order[i], events |-> events[i]]]
  BY <1>o
<1>3. Cardinality(fs) \in Nat
  <2>1. fs \subseteq Fds
    BY DEF Ready, LifecycleInv, Shape
  <2>2. IsFiniteSet(fs)
    BY <2>1, FS_Subset DEF LifecycleAssumption
  <2> QED
    BY <2>2, FS_CardinalityType
<1>4. order \in [1 .. Cardinality(fs) -> fs]
  BY DEF SetToSeqs
<1>5. batch' \in Seq([fd : Fds, events : SUBSET Events])
  <2>1. fs \subseteq Fds
    BY DEF Ready, LifecycleInv, Shape
  <2> DEFINE E == [fd : Fds, events : SUBSET Events]
  <2>2. batch' \in [1 .. Cardinality(fs) -> E]
    BY <1>2, <1>4, <2>1
  <2> HIDE DEF E
  <2>3. batch' \in Seq(E)
    BY <1>3, <2>2, SeqDef
  <2> QED
    BY <2>3 DEF E
<1>6. \A i \in DOMAIN batch' : batch'[i].fd \in fs
  BY <1>2, <1>4
<1>7. \A f \in fs : f \in DOMAIN table => net[table[f]] # "connecting"
  BY <1>0, TableOpen DEF Ready
<1>8. Polled'
  BY <1>0, <1>6, <1>7 DEF Polled, tables, sockets
<1>9. Frames' = Frames /\ Frames = {}
  BY <1>0, TableOpen DEF Frames, FramesIn
<1>10. Shape' /\ Apart' /\ Nesting'
  BY <1>0, <1>5 DEF LifecycleInv, Shape, Apart, Open, Nesting, Nested, sockets, activity, interest, tables
<1>11. FrameInv'
  BY <1>9 DEF FrameInv
<1>12. Views' /\ Heard'
  BY <1>0, <1>9 DEF LifecycleInv, Views, Owes, Heard, sockets, activity, interest, tables
<1> QED
  BY <1>8, <1>10, <1>11, <1>12 DEF LifecycleInv

-----------------------------------------------------------------------------
(* Steps that change what a channel is                                     *)

LEMMA OpenSocketStep ==
  ASSUME LifecycleInv, LifecycleAssumption, Discipline, NEW c \in Channels, OpenSocket(c)
  PROVE LifecycleInv'
<1> USE DEF LifecycleInv
<1>0. /\ sock[c] = "none" /\ sock' = [sock EXCEPT ![c] = "new"]
      /\ UNCHANGED <<activity, interest, tables, rounds, stack, heard>>
  BY DEF OpenSocket
<1>1. PICK f \in Fds : fd' = [fd EXCEPT ![c] = f] /\ \A d \in Channels : Open(d) => fd[d] # f
  BY DEF OpenSocket
<1>2. PICK outcome \in Outcomes : net' = [net EXCEPT ![c] = outcome]
  BY DEF OpenSocket
<1>3. outcome \in Outcomes /\ outcome # "none"
  BY <1>2 DEF LifecycleAssumption
<1>4. Frames' = Frames /\ \A labels, d : Owes(labels, d)' <=> Owes(labels, d)
  BY <1>0 DEF Frames, FramesIn, Owes
<1>5. \A d \in Channels \ {c} : sock'[d] = sock[d] /\ fd'[d] = fd[d] /\ net'[d] = net[d]
  BY <1>0, <1>1, <1>2 DEF Shape
<1>6. sock'[c] = "new" /\ fd'[c] = f /\ net'[c] = outcome
  BY <1>0, <1>1, <1>2 DEF Shape
<1>7. Shape'
  BY <1>0, <1>1, <1>2, <1>3, <1>5, <1>6 DEF Shape, activity, interest, tables, rounds
<1>8. Apart'
  BY <1>1, <1>5, <1>6 DEF Apart, Open
<1>9. Nesting' /\ Polled'
  <2>1. \A g \in DOMAIN table : table[g] \in Channels \ {c}
    BY <1>0 DEF Views, Shape
  <2> QED
    BY <1>0, <1>5, <2>1 DEF Nesting, Nested, Polled, tables, rounds
<1>10. FrameInv'
  <2>1. \A frame \in Frames : frame[2] \in Channels \ {c}
    <3>1. \A frame \in Frames : frame \in Frame
      BY ElementOfSeq, LenProperties DEF Shape, Frames, FramesIn
    <3> QED
      BY <1>0, <3>1 DEF Frame, FrameInv, Relies, Owns
  <2>2. ASSUME NEW frame \in Frames
        PROVE Relies(frame[1], frame[2])' /\ Finds(frame[1], frame[2])'
    <3>1. Relies(frame[1], frame[2]) /\ Finds(frame[1], frame[2]) /\ frame[2] \in Channels \ {c}
      BY <2>1 DEF FrameInv
    <3> QED
      BY <1>0, <1>4, <1>5, <3>1
      DEF Relies, Finds, Owns, tables, interest, activity, rounds
  <2> QED
    BY <1>4, <2>2 DEF FrameInv
<1>11. Views'
  <2>1. \A g \in DOMAIN table : table[g] \in Channels \ {c}
    BY <1>0 DEF Views, Shape
  <2>2. \A g \in DOMAIN selector : selector[g].channel \in Channels \ {c}
    BY <1>0 DEF Views, Shape
  <2> QED
    BY <1>0, <1>4, <1>5, <1>6, <2>1, <2>2 DEF Views, tables, interest, Shape
<1>12. Heard'
  BY <1>0, <1>5, <1>6 DEF Heard, activity, interest
<1> QED
  BY <1>7, <1>8, <1>9, <1>10, <1>11, <1>12

LEMMA NetworkAnswersStep ==
  ASSUME LifecycleInv, NEW c \in Channels, NetworkAnswers(c)
  PROVE LifecycleInv'
<1> USE DEF LifecycleInv
<1>0. /\ UNCHANGED <<sock, fd, activity, interest, tables, rounds, stack, heard>>
      /\ net[c] = "connecting"
      /\ net' \in [Channels -> {"none", "connecting", "connected", "failed"} \cup Outcomes]
      /\ \A d \in Channels : net'[d] = net[d] \/ (net[d] = "connecting" /\ net'[d] \in {"connected", "failed"})
  BY DEF NetworkAnswers, Shape
<1>1. Frames' = Frames /\ \A labels, d : Owes(labels, d)' <=> Owes(labels, d)
  BY <1>0 DEF Frames, FramesIn, Owes
<1>2. Shape' /\ Apart' /\ Nesting'
  BY <1>0 DEF Shape, Apart, Open, Nesting, Nested, activity, interest, tables, rounds
<1>3. FrameInv'
  <2>1. ASSUME NEW frame \in Frames
        PROVE Relies(frame[1], frame[2])' /\ Finds(frame[1], frame[2])'
    <3>1. Relies(frame[1], frame[2]) /\ Finds(frame[1], frame[2])
      BY DEF FrameInv
    <3>2. frame[2] \in Channels
      <4>1. frame \in Frame
        BY ElementOfSeq, LenProperties DEF Shape, Frames, FramesIn
      <4> QED
        BY <4>1 DEF Frame
    <3> QED
      BY <1>0, <1>1, <3>1, <3>2 DEF Relies, Finds, Owns, tables, interest, activity, rounds
  <2> QED
    BY <1>1, <2>1 DEF FrameInv
<1>4. Views' /\ Heard'
  BY <1>0, <1>1 DEF Views, Heard, Shape, tables, interest, activity
<1>5. Polled'
  BY <1>0 DEF Polled, Shape, tables, rounds
<1> QED
  BY <1>2, <1>3, <1>4, <1>5

\* Registered from a task, a socket finds no key under its descriptor.
LEMMA RegisterStep ==
  ASSUME LifecycleInv, Discipline, NEW c \in Channels, Register(c)
  PROVE LifecycleInv'
<1> USE DEF LifecycleInv
<1>0. /\ sock[c] = "new" /\ flag' = [flag EXCEPT ![c] = Events]
      /\ UNCHANGED <<fd, net, activity, autoRead, pending, tables, rounds>>
  BY DEF Register
<1>1. Idle /\ stack = << >> /\ batch = << >>
  <2>1. Context = "task"
    BY DEF Register, MayCall, Discipline
  <2>2. stack # << >> => Context \in Labels
    BY Running DEF Context
  <2> QED
    BY <2>1, <2>2, LabelFacts DEF Context, Idle
<1>2. fd[c] \in Fds /\ \A d \in Channels : sock[d] = "open" => d # c /\ fd[d] # fd[c]
  BY <1>0 DEF Shape, Apart, Open
<1>3. /\ Frames = {} /\ fd[c] \notin DOMAIN selector /\ fd[c] \notin DOMAIN table
      /\ \A f \in DOMAIN table : table[f] \in Channels \ {c} /\ sock[table[f]] = "open"
      /\ \A f \in DOMAIN selector : selector[f].channel \in Channels \ {c} /\ sock[selector[f].channel] = "open"
  BY <1>1, <1>2, TableOpen DEF Views
<1>4. /\ sock' = [sock EXCEPT ![c] = "open"]
      /\ selector' = Put(selector, fd[c], [channel |-> c, events |-> Events])
      /\ heard' = [heard EXCEPT ![c] = Append(@, "channel_registered")]
      /\ stack' = <<<<"channel_registered", c>>, <<"enter", c>>>> \o stack
  BY <1>3 DEF Register, Hear
<1>5. /\ stack' \in Seq(Frame) /\ Nesting'
      /\ Frames' = {<<"channel_registered", c>>, <<"enter", c>>}
  <2> DEFINE labels == <<"channel_registered", "enter">>
             new == [i \in DOMAIN labels |-> <<labels[i], c>>] \o stack
  <2>1. "channel_registered" \in Labels /\ "enter" \in Labels /\ "enter" \in Under("channel_registered")
    BY LabelFacts DEF Under
  <2>2. Stackable(labels) /\ Range(labels) = {"channel_registered", "enter"}
    BY <2>1, Lists
  <2>3. [i \in DOMAIN labels |-> <<labels[i], c>>] = <<<<"channel_registered", c>>, <<"enter", c>>>>
    OBVIOUS
  <2>4. stack' = new
    BY <1>4, <2>3
  <2>5. {<<labels[i], c>> : i \in DOMAIN labels} = Range(labels) \X {c}
    BY DEF Range
  <2>6. /\ new \in Seq(Frame) /\ Nested(new)
        /\ FramesIn(new) = {<<labels[i], c>> : i \in DOMAIN labels} \cup FramesIn(stack)
    <3> HIDE DEF labels
    <3>1. stack \in Seq(Frame) /\ Nested(stack) /\ FramesIn(stack) = {}
      BY <1>3 DEF Shape, Nesting, Frames
    <3> QED
      BY <2>2, <3>1, Stacked DEF Stackable
  <2> HIDE DEF new, labels
  <2>7. stack' \in Seq(Frame) /\ Nested(stack') /\ FramesIn(stack') = {"channel_registered", "enter"} \X {c}
    BY <1>3, <2>2, <2>4, <2>5, <2>6 DEF Frames
  <2> QED
    BY <2>7 DEF Nesting, Frames, Nested, FramesIn
<1>6. /\ sock'[c] = "open" /\ \A d \in Channels \ {c} : sock'[d] = sock[d]
      /\ flag'[c] = Events /\ \A d \in Channels \ {c} : flag'[d] = flag[d]
  BY <1>0, <1>4 DEF Shape
<1>7. /\ DOMAIN selector' = DOMAIN selector \cup {fd[c]}
      /\ selector'[fd[c]] = [channel |-> c, events |-> Events]
      /\ \A f \in DOMAIN selector : f # fd[c] /\ selector'[f] = selector[f]
      /\ selector' \in [DOMAIN selector' -> [channel : Channels, events : SUBSET Events]]
  BY <1>3, <1>4 DEF Put, Shape
<1>8. Shape'
  <2>1. flag' \in [Channels -> SUBSET Events] /\ DOMAIN heard' = Channels
        /\ sock' \in [Channels -> {"none", "new", "open", "orphan", "closed"}]
    BY <1>0, <1>4 DEF Shape
  <2> QED
    BY <1>0, <1>2, <1>5, <1>6, <1>7, <2>1 DEF Shape, activity, tables, rounds
<1>9. Apart'
  BY <1>0, <1>6 DEF Apart, Open
<1>10. FrameInv'
  <2>1. Owns(c)'
    BY <1>0, <1>3, <1>6, <1>7 DEF Owns, tables
  <2>2. Relies("channel_registered", c)' /\ Finds("channel_registered", c)'
    BY <2>1 DEF Relies, Finds
  <2>3. Relies("enter", c)' /\ Finds("enter", c)'
    BY <1>0, <1>1, <1>5, <1>6, <2>1 DEF Relies, Finds, rounds
  <2> QED
    BY <1>5, <2>2, <2>3 DEF FrameInv
<1>11. Views'
  <2>1. \A f \in DOMAIN selector' :
          /\ fd[selector'[f].channel] = f
          /\ selector'[f].events = flag'[selector'[f].channel] /\ flag'[selector'[f].channel] # {}
          /\ sock'[selector'[f].channel] = "open"
    <3>1. Events # {}
      BY DEF Events
    <3> QED
      BY <1>3, <1>6, <1>7, <3>1 DEF Views
  <2>2. \A f \in DOMAIN table : fd[table[f]] = f /\ sock'[table[f]] = "open"
    BY <1>3, <1>6 DEF Views
  <2>3. Owes({"enter"}, c)'
    BY <1>5 DEF Owes
  <2>4. \A d \in Channels \ {c} : sock[d] = "open" =>
          /\ fd[d] \in DOMAIN table /\ table[fd[d]] = d
          /\ flag[d] # {} => fd[d] \in DOMAIN selector /\ selector[fd[d]].channel = d
    BY <1>3 DEF Views, Owes
  <2>5. \A d \in Channels : sock'[d] = "open" =>
          /\ (fd[d] \in DOMAIN table /\ table[fd[d]] = d) \/ Owes({"enter"}, d)'
          /\ flag'[d] # {} => fd[d] \in DOMAIN selector' /\ selector'[fd[d]].channel = d
    BY <1>6, <1>7, <2>3, <2>4
  <2> QED
    BY <1>0, <2>1, <2>2, <2>5 DEF Views, tables
<1>12. Polled'
  BY <1>0, <1>1 DEF Polled, rounds
<1>13. Heard'
  <2>1. heard[c] = << >> /\ heard'[c] = <<"channel_registered">> /\ ~everActive[c] /\ ~active[c]
    <3>1. heard[c] = << >> /\ ~everActive[c]
      BY <1>0 DEF Heard
    <3>2. ~active[c]
      BY <3>1 DEF Heard
    <3>3. heard'[c] = Append(heard[c], "channel_registered")
      BY <1>4 DEF Shape
    <3>4. Append(<< >>, "channel_registered") = <<"channel_registered">>
      OBVIOUS
    <3> QED
      BY <3>1, <3>2, <3>3, <3>4
  <2>2. \A d \in Channels \ {c} : heard'[d] = heard[d]
    BY <1>4 DEF Shape
  <2>3. heard'[c] \in Registrations /\ heard'[c] \notin Farewells
    BY <2>1 DEF Registrations, Farewells
  <2>4. ASSUME NEW d \in Channels \ {c}, heard'[d] \in Farewells
        PROVE sock'[d] = "closed" /\ \A f \in DOMAIN selector' : selector'[f].channel # d
    BY <1>6, <1>7, <2>2, <2>4 DEF Heard
  <2>5. pending[c] = "none" /\ ~closeDone[c]
    BY <1>0 DEF Heard, Shape
  <2>6. ASSUME NEW d \in Channels \ {c}
        PROVE /\ closeDone'[d] <=> sock'[d] = "closed"
              /\ active'[d] => everActive'[d]
              /\ pending'[d] # "none" => sock'[d] = "open"
              /\ IF sock'[d] \in {"none", "new", "orphan"} THEN heard'[d] = << >> /\ ~everActive'[d]
                 ELSE heard'[d] \in IF ~everActive'[d] THEN Registrations \cup Farewells
                                   ELSE IF active'[d] THEN Activations ELSE Endings \cup Farewells
              /\ ~secured'[d] => everActive'[d]
                   \/ heard'[d] \in {<< >>, <<"channel_registered">>,
                                    <<"channel_registered", "channel_unregistered">>}
    BY <1>0, <1>6, <2>2 DEF Heard, activity
  <2>7. /\ closeDone'[c] <=> sock'[c] = "closed"
        /\ active'[c] => everActive'[c]
        /\ pending'[c] # "none" => sock'[c] = "open"
        /\ IF sock'[c] \in {"none", "new", "orphan"} THEN heard'[c] = << >> /\ ~everActive'[c]
           ELSE heard'[c] \in IF ~everActive'[c] THEN Registrations \cup Farewells
                             ELSE IF active'[c] THEN Activations ELSE Endings \cup Farewells
        /\ ~secured'[c] => everActive'[c]
             \/ heard'[c] \in {<< >>, <<"channel_registered">>,
                              <<"channel_registered", "channel_unregistered">>}
    BY <1>0, <1>6, <2>1, <2>3, <2>5 DEF activity
  <2> QED
    BY <2>3, <2>4, <2>6, <2>7 DEF Heard
<1> QED
  BY <1>5, <1>8, <1>9, <1>10, <1>11, <1>12, <1>13

LEMMA EnterStep == ASSUME LifecycleInv, Enter PROVE LifecycleInv'
<1> USE DEF LifecycleInv
<1> DEFINE c == Current
<1>0. /\ stack # << >> /\ Head(stack)[1] = "enter" /\ Return
      /\ UNCHANGED <<sockets, activity, interest, rounds, heard>>
  BY DEF Enter, At
<1>1. /\ c \in Channels /\ Relies("enter", c) /\ Head(stack) = <<"enter", c>>
  BY <1>0, Running
<1>2. sock[c] = "open" /\ batch = << >>
  BY <1>1 DEF Relies
<1>3. stack' \in Seq(Frame) /\ Nesting' /\ Frames' = {} /\ Frames = {<<"enter", c>>}
  <2>1. /\ stack' \in Seq(Frame) /\ Nesting' /\ Frames' = FramesIn(Tail(stack))
        /\ Frames = {Head(stack)} \cup FramesIn(Tail(stack))
        /\ \A frame \in FramesIn(Tail(stack)) : frame[1] \in Under("enter")
    BY <1>0, Returned DEF Shape
  <2>2. FramesIn(Tail(stack)) = {}
    BY <2>1 DEF Under
  <2> QED
    BY <1>1, <2>1, <2>2
<1>4. table' = Put(table, fd[c], c)
  BY <1>2 DEF Enter, Fileno, Open
<1> HIDE DEF c
<1>5. /\ DOMAIN table' = DOMAIN table \cup {fd[c]} /\ table'[fd[c]] = c
      /\ \A f \in DOMAIN table : f # fd[c] => table'[f] = table[f]
  BY <1>4 DEF Put
<1>6. Shape' /\ Apart' /\ Heard'
  BY <1>0, <1>1, <1>3, <1>5
  DEF Shape, Apart, Open, Heard, sockets, activity, interest, rounds
<1>7. FrameInv'
  BY <1>3 DEF FrameInv
<1>8. Polled'
  BY <1>0, <1>2 DEF Polled, rounds
<1>9. Views'
  <2>1. \A labels \in SUBSET Owing : \A d : ~Owes(labels, d)
    BY <1>3 DEF Owes, Owing
  <2>2. \A f \in DOMAIN selector : sock[selector[f].channel] = "open"
    BY <2>1 DEF Views, Owing
  <2>3. \A f \in DOMAIN table : sock[table[f]] = "open" /\ fd[table[f]] = f
    BY <2>1 DEF Views, Owing
  <2>4. \A d \in Channels : sock[d] = "open" /\ d # c =>
          fd[d] # fd[c] /\ fd[d] \in DOMAIN table /\ table[fd[d]] = d
    BY <1>1, <1>2, <1>3 DEF Views, Owes, Apart, Open
  <2>5. \A f \in DOMAIN table' : sock[table'[f]] = "open" /\ fd[table'[f]] = f
    BY <1>2, <1>5, <2>3
  <2>6. \A d \in Channels : sock[d] = "open" => fd[d] \in DOMAIN table' /\ table'[fd[d]] = d
    BY <1>5, <2>4
  <2> QED
    BY <1>0, <2>2, <2>5, <2>6 DEF Views, sockets, interest
<1> QED
  BY <1>3, <1>6, <1>7, <1>8, <1>9

\* What it is to append, for lists that are written out.
LEMMA AppendIs ==
  ASSUME NEW s \in Seq(Handlers), NEW e \in Handlers, NEW t \in Seq(Handlers), Len(t) = Len(s) + 1,
         \A i \in 1 .. Len(s) : t[i] = s[i], t[Len(t)] = e
  PROVE Append(s, e) = t
<1>1. /\ Append(s, e) \in Seq(Handlers) /\ Len(Append(s, e)) = Len(s) + 1
      /\ \A i \in 1 .. Len(s) : Append(s, e)[i] = s[i]
      /\ Append(s, e)[Len(s) + 1] = e
  BY AppendProperties
<1>2. Len(s) \in Nat
  BY LenProperties
<1>3. \A i \in 1 .. Len(s) + 1 : Append(s, e)[i] = t[i]
  BY <1>1, <1>2
<1> QED
  BY <1>1, <1>3, SeqEqual

LEMMA Appended ==
  /\ \A a, b \in Handlers : Append(<<a>>, b) = <<a, b>>
  /\ \A a, b, c \in Handlers : Append(<<a, b>>, c) = <<a, b, c>>
  /\ \A a, b, c, d \in Handlers : Append(<<a, b, c>>, d) = <<a, b, c, d>>
  /\ \A a, b, c, d, e \in Handlers : Append(<<a, b, c, d>>, e) = <<a, b, c, d, e>>
<1>0. \A s, t \in Seq(Handlers), e \in Handlers :
        /\ Len(t) = Len(s) + 1 /\ t[Len(t)] = e
        /\ \A i \in 1 .. Len(s) : t[i] = s[i]
        => Append(s, e) = t
  BY AppendIs
<1>1. ASSUME NEW a \in Handlers, NEW b \in Handlers
      PROVE Append(<<a>>, b) = <<a, b>>
  <2> DEFINE s == <<a>>
             t == <<a, b>>
  <2>1. s \in Seq(Handlers) /\ t \in Seq(Handlers) /\ Len(s) = 1 /\ Len(t) = 2
    OBVIOUS
  <2>2. t[1] = s[1] /\ t[2] = b
    OBVIOUS
  <2> HIDE DEF s, t
  <2>3. \A i \in 1 .. Len(s) : t[i] = s[i]
    BY <2>1, <2>2
  <2>4. Len(t) = Len(s) + 1 /\ t[Len(t)] = b
    BY <2>1, <2>2
  <2>5. Append(s, b) = t
    BY <1>0, <2>1, <2>3, <2>4, Zenon
  <2> QED
    BY <2>5 DEF s, t
<1>2. ASSUME NEW a \in Handlers, NEW b \in Handlers, NEW c \in Handlers
      PROVE Append(<<a, b>>, c) = <<a, b, c>>
  <2> DEFINE s == <<a, b>>
             t == <<a, b, c>>
  <2>1. s \in Seq(Handlers) /\ t \in Seq(Handlers) /\ Len(s) = 2 /\ Len(t) = 3
    OBVIOUS
  <2>2. t[1] = s[1] /\ t[2] = s[2] /\ t[3] = c
    OBVIOUS
  <2> HIDE DEF s, t
  <2>3. \A i \in 1 .. Len(s) : t[i] = s[i]
    BY <2>1, <2>2
  <2>4. Len(t) = Len(s) + 1 /\ t[Len(t)] = c
    BY <2>1, <2>2
  <2>5. Append(s, c) = t
    BY <1>0, <2>1, <2>3, <2>4, Zenon
  <2> QED
    BY <2>5 DEF s, t
<1>3. ASSUME NEW a \in Handlers, NEW b \in Handlers, NEW c \in Handlers, NEW d \in Handlers
      PROVE Append(<<a, b, c>>, d) = <<a, b, c, d>>
  <2> DEFINE s == <<a, b, c>>
             t == <<a, b, c, d>>
  <2>1. s \in Seq(Handlers) /\ t \in Seq(Handlers) /\ Len(s) = 3 /\ Len(t) = 4
    OBVIOUS
  <2>2. t[1] = s[1] /\ t[2] = s[2] /\ t[3] = s[3] /\ t[4] = d
    OBVIOUS
  <2> HIDE DEF s, t
  <2>3. \A i \in 1 .. Len(s) : t[i] = s[i]
    BY <2>1, <2>2
  <2>4. Len(t) = Len(s) + 1 /\ t[Len(t)] = d
    BY <2>1, <2>2
  <2>5. Append(s, d) = t
    BY <1>0, <2>1, <2>3, <2>4, Zenon
  <2> QED
    BY <2>5 DEF s, t
<1>4. ASSUME NEW a \in Handlers, NEW b \in Handlers, NEW c \in Handlers, NEW d \in Handlers, NEW e \in Handlers
      PROVE Append(<<a, b, c, d>>, e) = <<a, b, c, d, e>>
  <2> DEFINE s == <<a, b, c, d>>
             t == <<a, b, c, d, e>>
  <2>1. s \in Seq(Handlers) /\ t \in Seq(Handlers) /\ Len(s) = 4 /\ Len(t) = 5
    OBVIOUS
  <2>2. t[1] = s[1] /\ t[2] = s[2] /\ t[3] = s[3] /\ t[4] = s[4] /\ t[5] = e
    OBVIOUS
  <2> HIDE DEF s, t
  <2>3. \A i \in 1 .. Len(s) : t[i] = s[i]
    BY <2>1, <2>2
  <2>4. Len(t) = Len(s) + 1 /\ t[Len(t)] = e
    BY <2>1, <2>2
  <2>5. Append(s, e) = t
    BY <1>0, <2>1, <2>3, <2>4, Zenon
  <2> QED
    BY <2>5 DEF s, t
<1> QED
  BY <1>1, <1>2, <1>3, <1>4

\* What a handler method adds to what a channel has been told.
LEMMA Told ==
  /\ Append(<<"channel_registered">>, "channel_handshake_complete") \in Registrations
  /\ \A s \in Registrations : /\ Append(s, "channel_active") \in Activations
                              /\ Append(s, "channel_unregistered") \in Farewells
  /\ \A s \in Activations : Append(s, "channel_inactive") \in Endings
  /\ \A s \in Endings : Append(s, "channel_unregistered") \in Farewells
  /\ Append(<<"channel_registered">>, "channel_unregistered")
       = <<"channel_registered", "channel_unregistered">>
<1>1. {"channel_registered", "channel_handshake_complete", "channel_active", "channel_inactive",
       "channel_unregistered"} \subseteq Handlers
  BY DEF Handlers
<1>2. Append(<<"channel_registered">>, "channel_active")
         = <<"channel_registered", "channel_active">>
  BY <1>1, Appended
<1>3. Append(<<"channel_registered", "channel_handshake_complete">>, "channel_active")
         = <<"channel_registered", "channel_handshake_complete", "channel_active">>
  BY <1>1, Appended
<1>4. Append(<<"channel_registered">>, "channel_unregistered")
         = <<"channel_registered", "channel_unregistered">>
  BY <1>1, Appended
<1>5. Append(<<"channel_registered", "channel_handshake_complete">>, "channel_unregistered")
         = <<"channel_registered", "channel_handshake_complete", "channel_unregistered">>
  BY <1>1, Appended
<1>6. Append(<<"channel_registered", "channel_active">>, "channel_inactive")
         = <<"channel_registered", "channel_active", "channel_inactive">>
  BY <1>1, Appended
<1>7. Append(<<"channel_registered", "channel_handshake_complete", "channel_active">>, "channel_inactive")
         = <<"channel_registered", "channel_handshake_complete", "channel_active", "channel_inactive">>
  BY <1>1, Appended
<1>8. Append(<<"channel_registered", "channel_active", "channel_inactive">>, "channel_unregistered")
         = <<"channel_registered", "channel_active", "channel_inactive", "channel_unregistered">>
  BY <1>1, Appended
<1>9. Append(<<"channel_registered", "channel_handshake_complete", "channel_active", "channel_inactive">>, "channel_unregistered")
         = <<"channel_registered", "channel_handshake_complete", "channel_active", "channel_inactive", "channel_unregistered">>
  BY <1>1, Appended
<1>11. Append(<<"channel_registered">>, "channel_handshake_complete") \in Registrations
  BY <1>1, Appended DEF Registrations
<1>12. \A s \in Registrations : Append(s, "channel_active") \in Activations
  BY <1>2, <1>3 DEF Registrations, Activations
<1>13. \A s \in Registrations : Append(s, "channel_unregistered") \in Farewells
  BY <1>4, <1>5 DEF Registrations, Farewells
<1>14. \A s \in Activations : Append(s, "channel_inactive") \in Endings
  BY <1>6, <1>7 DEF Activations, Endings
<1>15. \A s \in Endings : Append(s, "channel_unregistered") \in Farewells
  BY <1>8, <1>9 DEF Endings, Farewells
<1> QED
  BY <1>4, <1>11, <1>12, <1>13, <1>14, <1>15

\* Who is told farewell has heard nothing like it before.
LEMMA NoFarewell ==
  \A s \in Registrations \cup Activations \cup Endings \cup {<< >>} : s \notin Farewells
<1>1. \A s \in Farewells : Len(s) > 1 /\ s[Len(s)] = "channel_unregistered"
  BY DEF Farewells
<1>2. \A s \in Registrations \cup Activations \cup Endings :
        Len(s) > 0 /\ s[Len(s)] # "channel_unregistered"
  BY DEF Registrations, Activations, Endings
<1>3. Len(<< >>) = 0
  OBVIOUS
<1> QED
  BY <1>1, <1>2, <1>3

\* What Heard says of one channel.
HeardOf(c) ==
  /\ closeDone[c] <=> sock[c] = "closed"
  /\ active[c] => everActive[c]
  /\ pending[c] # "none" => sock[c] = "open"
  /\ IF sock[c] \in {"none", "new", "orphan"} THEN heard[c] = << >> /\ ~everActive[c]
     ELSE heard[c] \in IF ~everActive[c] THEN Registrations \cup Farewells
                       ELSE IF active[c] THEN Activations ELSE Endings \cup Farewells
  /\ ~secured[c] => everActive[c]
       \/ heard[c] \in {<< >>, <<"channel_registered">>,
                        <<"channel_registered", "channel_unregistered">>}
  /\ heard[c] \in Farewells =>
       sock[c] = "closed" /\ \A f \in DOMAIN selector : selector[f].channel # c

LEMMA StillHeard ==
  ASSUME NEW d \in Channels, HeardOf(d), UNCHANGED selector,
         UNCHANGED <<sock[d], heard[d], active[d], everActive[d], closeDone[d], secured[d], pending[d]>>
  PROVE HeardOf(d)'
BY DEF HeardOf

LEMMA HeardByChannel == Heard <=> \A c \in Channels : HeardOf(c)
BY DEF Heard, HeardOf

\* An open channel that was never active has been told no more than that its
\* handshake is complete.
LEMMA BeforeActive ==
  ASSUME LifecycleInv, NEW c \in Channels, sock[c] = "open", ~everActive[c]
  PROVE /\ heard[c] \in Registrations /\ ~active[c]
        /\ ~secured[c] => heard[c] = <<"channel_registered">>
<1>1. HeardOf(c)
  BY HeardByChannel DEF LifecycleInv
<1>2. heard[c] \in Registrations
  BY <1>1 DEF HeardOf
<1>3. heard[c] # << >> /\ heard[c] \notin Farewells
  <2>1. heard[c] \notin Farewells
    BY <1>2, NoFarewell
  <2>2. \A s \in Registrations : Len(s) > 0
    <3>1. Len(<<"channel_registered">>) = 1
      OBVIOUS
    <3>2. Len(<<"channel_registered", "channel_handshake_complete">>) = 2
      OBVIOUS
    <3>3. SUFFICES ASSUME NEW s \in Registrations PROVE Len(s) > 0
      OBVIOUS
    <3>4. CASE s = <<"channel_registered">>
      BY <3>1, <3>4
    <3>5. CASE s = <<"channel_registered", "channel_handshake_complete">>
      BY <3>2, <3>5
    <3> QED
      BY <3>4, <3>5 DEF Registrations
  <2>3. Len(<< >>) = 0
    OBVIOUS
  <2> QED
    BY <1>2, <2>1, <2>2, <2>3
<1>4. <<"channel_registered", "channel_unregistered">> \in Farewells
  BY DEF Farewells
<1> QED
  BY <1>1, <1>2, <1>3, <1>4 DEF HeardOf

LEMMA HandshakeCompletesStep == ASSUME LifecycleInv, HandshakeCompletes PROVE LifecycleInv'
<1> USE DEF LifecycleInv
<1>a. MustCheck /\ Current \in Channels
  BY Checking, Running DEF HandshakeCompletes, MayActivate
<1>c. PICK c \in Channels : c = Current
  BY <1>a
<1> DEFINE labels == <<"channel_handshake_complete", "activate", "more", Checked>>
<1>0. /\ MustCheck /\ ~everActive[c] /\ Open(c) /\ ~secured[c] /\ net[c] = "connected"
      /\ secured' = [secured EXCEPT ![c] = TRUE]
      /\ heard' = [heard EXCEPT ![c] = Append(@, "channel_handshake_complete")]
      /\ Continue(c, labels)
      /\ UNCHANGED <<sockets, active, everActive, closeDone, interest, tables, rounds>>
  BY <1>c DEF HandshakeCompletes, MayActivate, SocketError, Hear
<1>1. c \in Channels /\ Owns(c) /\ sock[c] = "open"
  BY <1>0, <1>c, Checking, Running DEF Open
<1>2. heard[c] = <<"channel_registered">> /\ ~active[c]
  BY <1>0, <1>1, BeforeActive
<1>3. Stackable(labels) /\ Range(labels) = {"channel_handshake_complete", "activate", "more", Checked}
  <2>1. /\ "channel_handshake_complete" \in Labels /\ "activate" \in Labels /\ "more" \in Labels
        /\ Checked \in Labels
    BY <1>0, Checking, LabelFacts
  <2>2. /\ {"activate", "more", Checked} \subseteq Under("channel_handshake_complete")
        /\ {"more", Checked} \subseteq Under("activate") /\ Checked \in Under("more")
    BY <1>0, Checking DEF Under, Rest
  <2> QED
    BY <2>1, <2>2, Lists
<1>4. \A l \in Range(labels) : Under(Head(stack)[1]) \subseteq Under(l)
  <2>1. Under(Head(stack)[1]) \subseteq {"readable"} /\ Under(Head(stack)[1]) \subseteq Under(Checked)
    BY <1>0, Checking
  <2>2. \A l \in {"channel_handshake_complete", "activate", "more"} : "readable" \in Under(l)
    BY DEF Under, Rest
  <2> QED
    BY <1>3, <2>1, <2>2
<1>5. \A l \in Range(labels) : l # "enter" /\ Relies(l, c)
  <2>1. Checked \in {"send", "recv"}
    BY <1>0, Checking
  <2> QED
    BY <1>0, <1>1, <1>3, <2>1 DEF Relies
<1> HIDE DEF labels
<1>6. /\ Onward
      /\ Frames' = (Range(labels) \X {c}) \cup FramesIn(Tail(stack))
      /\ Frames = {Head(stack)} \cup FramesIn(Tail(stack))
  BY <1>0, <1>1, <1>3, <1>4, <1>5, Checking, ContinueOnward
<1>7. \A frame \in FramesIn(Tail(stack)) : frame[1] = "readable"
  <2>1. \A frame \in FramesIn(Tail(stack)) : frame[1] \in Under(Head(stack)[1])
    BY <1>0, Checking, Popped DEF Shape, Nesting
  <2> QED
    BY <1>0, <2>1, Checking
<1>8. Paid
  <2>1. \A labs \in SUBSET Owing : \A d : ~Owes(labs, d)
    <3>1. \A frame \in Frames : frame[1] \in {"writable", "readable"}
      BY <1>0, <1>6, <1>7, Checking
    <3> QED
      BY <3>1 DEF Owes, Owing
  <2>2. {"deactivate", "unregister"} \in SUBSET Owing /\ {"deactivate", "unregister", "forget"} \in SUBSET Owing
    BY DEF Owing
  <2> QED
    BY <1>0, <2>1, <2>2 DEF Paid, Views, interest, Owing
<1>9. Tidy /\ Wants /\ Fewer
  BY <1>0, Untouched, SameWants, SameBatch DEF interest, rounds
<1>10. \A frame \in Frames' : Finds(frame[1], frame[2])'
  <2>1. secured'[c]
    BY <1>0, <1>1 DEF Shape
  <2>2. \A l : l # "unregister" => Finds(l, c)'
    <3>1. everActive'[c] = everActive[c]
      BY <1>0 DEF activity
    <3> QED
      BY <1>0, <2>1, <3>1 DEF Finds
  <2>3. \A d : Finds("readable", d)'
    BY DEF Finds
  <2>4. "unregister" \notin Range(labels)
    BY <1>0, <1>3, Checking
  <2> QED
    BY <1>6, <1>7, <2>2, <2>3, <2>4
<1>11. Heard'
  <2>1. ASSUME NEW d \in Channels PROVE HeardOf(d)'
    <3>0. HeardOf(d)
      BY HeardByChannel
    <3>1. CASE d = c
      <4>1. heard'[c] = Append(<<"channel_registered">>, "channel_handshake_complete")
        BY <1>0, <1>1, <1>2 DEF Shape
      <4>2. heard'[c] \in Registrations
        BY <4>1, Told
      <4>3. heard'[c] \notin Farewells
        BY <4>2, NoFarewell
      <4>4. secured'[c]
        BY <1>0 DEF Shape
      <4> QED
        BY <1>0, <1>1, <3>0, <3>1, <4>2, <4>3, <4>4 DEF HeardOf, sockets, interest
    <3>2. CASE d # c
      <4>1. heard'[d] = heard[d] /\ secured'[d] = secured[d]
        BY <1>0, <3>2 DEF Shape
      <4> QED
        BY <1>0, <3>0, <4>1, StillHeard DEF sockets, interest
    <3> QED
      BY <3>1, <3>2
  <2> QED
    BY <2>1 DEF Heard, HeardOf
<1>12. {active, everActive, closeDone, secured}' \subseteq [Channels -> BOOLEAN] /\ DOMAIN heard' = Channels
  <2>1. secured' \in [Channels -> BOOLEAN]
    BY <1>0 DEF Shape
  <2> QED
    BY <1>0, <2>1 DEF Shape
<1> QED
  BY <1>0, <1>6, <1>8, <1>9, <1>10, <1>11, <1>12, LoopStep DEF sockets, tables

LEMMA Kinds ==
  ASSUME LifecycleInv
  PROVE \A frame \in Frames : frame \in Frame /\ frame[1] \in Labels /\ frame[2] \in Channels
<1>1. \A i \in DOMAIN stack : stack[i] \in Frame
  BY ElementOfSeq, LenProperties DEF LifecycleInv, Shape
<1> QED
  BY <1>1 DEF Frames, FramesIn, Frame

LEMMA ActivateStep == ASSUME LifecycleInv, Activate PROVE LifecycleInv'
<1> USE DEF LifecycleInv
<1> DEFINE labels == <<"channel_active", "answer">>
<1>a. stack # << >> /\ Head(stack)[1] = "activate"
  BY DEF Activate, At
<1>c. PICK c \in Channels : c = Current
  BY <1>a, Running
<1>1. /\ Owns(c) /\ sock[c] = "open" /\ ~everActive[c] /\ secured[c]
  BY <1>a, <1>c, Running DEF Relies, Finds
<1>2. heard[c] \in Registrations /\ ~active[c]
  BY <1>1, BeforeActive
<1>0. /\ active' = [active EXCEPT ![c] = TRUE] /\ everActive' = [everActive EXCEPT ![c] = TRUE]
      /\ heard' = [heard EXCEPT ![c] = Append(@, "channel_active")]
      /\ Continue(c, labels)
      /\ UNCHANGED <<sockets, closeDone, secured, interest, tables, rounds>>
  BY <1>c, <1>2 DEF Activate, Hear
<1>3. Stackable(labels) /\ Range(labels) = {"channel_active", "answer"}
  <2>1. "channel_active" \in Labels /\ "answer" \in Labels
    BY LabelFacts
  <2>2. "answer" \in Under("channel_active")
    BY LabelFacts DEF Under
  <2> QED
    BY <2>1, <2>2, Lists
<1>4. \A l \in {"channel_active", "answer"} : Under("activate") \subseteq Under(l)
  BY LabelFacts DEF Under, Rest
<1>5. \A l \in Range(labels) : l # "enter" /\ Relies(l, c)
  BY <1>1, <1>3 DEF Relies
<1> HIDE DEF labels
<1>6. /\ Onward
      /\ Frames' = (Range(labels) \X {c}) \cup FramesIn(Tail(stack))
  BY <1>0, <1>a, <1>3, <1>4, <1>5, ContinueOnward
<1>7. \A frame \in Frames' : frame[1] \notin {"unregister", "activate"}
  <2>1. \A frame \in FramesIn(Tail(stack)) : frame[1] \in Under("activate")
    BY <1>a, Popped DEF Shape, Nesting
  <2> QED
    BY <1>3, <1>6, <2>1 DEF Under
<1>8. Paid
  <2>1. \A labs \in SUBSET Owing : \A d : ~Owes(labs, d)
    BY <1>a, NothingOwed
  <2>2. {"deactivate", "unregister"} \in SUBSET Owing /\ {"deactivate", "unregister", "forget"} \in SUBSET Owing
    BY DEF Owing
  <2> QED
    BY <1>0, <2>1, <2>2 DEF Paid, Views, interest
<1>9. Tidy /\ Wants /\ Fewer
  BY <1>0, Untouched, SameWants, SameBatch DEF interest, rounds
<1>10. \A frame \in Frames' : Finds(frame[1], frame[2])'
  BY <1>7 DEF Finds
<1>11. /\ active'[c] /\ everActive'[c] /\ heard'[c] = Append(heard[c], "channel_active")
       /\ \A d \in Channels \ {c} :
            active'[d] = active[d] /\ everActive'[d] = everActive[d] /\ heard'[d] = heard[d]
  BY <1>0 DEF Shape
<1>12. Heard'
  <2>1. ASSUME NEW d \in Channels PROVE HeardOf(d)'
    <3>0. HeardOf(d)
      BY HeardByChannel
    <3>1. CASE d = c
      <4>1. heard'[c] \in Activations
        BY <1>2, <1>11, Told
      <4>2. heard'[c] \notin Farewells
        BY <4>1, NoFarewell
      <4> QED
        BY <1>0, <1>1, <1>11, <3>0, <3>1, <4>1, <4>2 DEF HeardOf, sockets, interest
    <3>2. CASE d # c
      BY <1>0, <1>11, <3>0, <3>2, StillHeard DEF sockets, interest
    <3> QED
      BY <3>1, <3>2
  <2> QED
    BY <2>1 DEF Heard, HeardOf
<1>13. {active, everActive, closeDone, secured}' \subseteq [Channels -> BOOLEAN] /\ DOMAIN heard' = Channels
  <2>1. active' \in [Channels -> BOOLEAN] /\ everActive' \in [Channels -> BOOLEAN]
    BY <1>0 DEF Shape
  <2> QED
    BY <1>0, <2>1 DEF Shape
<1> QED
  BY <1>0, <1>6, <1>8, <1>9, <1>10, <1>12, <1>13, LoopStep DEF sockets, tables

LEMMA DeactivateStep == ASSUME LifecycleInv, Deactivate PROVE LifecycleInv'
<1> USE DEF LifecycleInv
<1> DEFINE labels == IF active[Current] THEN <<"channel_inactive", "unregister">> ELSE <<"unregister">>
<1>a. stack # << >> /\ Head(stack)[1] = "deactivate"
  BY DEF Deactivate, At
<1>c. PICK c \in Channels : c = Current
  BY <1>a, Running
<1>1. Owns(c) /\ sock[c] = "closed"
  BY <1>a, <1>c, Running DEF Relies
<1>0. /\ active' = [active EXCEPT ![c] = FALSE]
      /\ heard' = IF active[c] THEN [heard EXCEPT ![c] = Append(@, "channel_inactive")] ELSE heard
      /\ Continue(c, labels)
      /\ UNCHANGED <<sockets, everActive, closeDone, secured, interest, tables, rounds>>
  BY <1>c DEF Deactivate, Hear
<1>3. Stackable(labels) /\ "unregister" \in Range(labels)
      /\ Range(labels) \subseteq {"channel_inactive", "unregister"}
  <2>1. "channel_inactive" \in Labels /\ "unregister" \in Labels
    BY LabelFacts
  <2>2. "unregister" \in Under("channel_inactive")
    BY LabelFacts DEF Under
  <2>3. /\ Stackable(<<"channel_inactive", "unregister">>)
        /\ Range(<<"channel_inactive", "unregister">>) = {"channel_inactive", "unregister"}
    BY <2>1, <2>2, Lists
  <2>4. Stackable(<<"unregister">>) /\ Range(<<"unregister">>) = {"unregister"}
    BY <2>1, Lists
  <2> QED
    BY <2>3, <2>4
<1>4. \A l \in {"channel_inactive", "unregister"} : Under("deactivate") = Under(l)
  BY LabelFacts DEF Under, Rest
<1>5. \A l \in Range(labels) : l # "enter" /\ Relies(l, c)
  BY <1>1, <1>3 DEF Relies
<1> HIDE DEF labels
<1>6. /\ Onward
      /\ Frames' = (Range(labels) \X {c}) \cup FramesIn(Tail(stack))
      /\ Frames = {Head(stack)} \cup FramesIn(Tail(stack))
  BY <1>0, <1>a, <1>3, <1>4, <1>5, ContinueOnward
<1>7. Head(stack) = <<"deactivate", c>>
  BY <1>a, <1>c, Running
<1>8. Paid
  <2>1. \A d \in Channels : \A l : <<l, d>> \in Frames /\ l # "deactivate" => <<l, d>> \in Frames'
    BY <1>6, <1>7
  <2>2. <<"unregister", c>> \in Frames'
    BY <1>3, <1>6
  <2>3. \A d \in Channels : <<"deactivate", d>> \in Frames =>
          <<"deactivate", d>> \in Frames' \/ <<"unregister", d>> \in Frames'
    BY <1>6, <1>7, <2>2
  <2>4. \A d \in Channels : /\ Owes({"deactivate", "unregister"}, d) => WillOwe({"deactivate", "unregister"}, d)
                            /\ Owes({"deactivate", "unregister", "forget"}, d) => WillOwe(Owing, d)
    BY <2>1, <2>3 DEF Owes, WillOwe, Owing
  <2> QED
    BY <1>0, <2>4 DEF Paid, Views, interest, Shape
<1>9. Tidy /\ Wants /\ Fewer
  BY <1>0, Untouched, SameWants, SameBatch DEF interest, rounds
<1>11. /\ ~active'[c] /\ \A d \in Channels \ {c} : active'[d] = active[d] /\ heard'[d] = heard[d]
       /\ heard'[c] = IF active[c] THEN Append(heard[c], "channel_inactive") ELSE heard[c]
  BY <1>0 DEF Shape
<1>10. \A frame \in Frames' : Finds(frame[1], frame[2])'
  <2>1. \A frame \in Frames : Finds(frame[1], frame[2])
    BY DEF FrameInv
  <2>2. \A frame \in Frames : frame[2] \in Channels /\ Finds(frame[1], frame[2])'
    <3>1. \A frame \in Frames : frame[2] \in Channels
      BY Kinds
    <3>2. UNCHANGED <<everActive, secured>> /\ \A d \in Channels : active'[d] => active[d]
      BY <1>0, <1>11
    <3> QED
      BY <2>1, <3>1, <3>2 DEF Finds
  <2>3. \A l \in {"channel_inactive", "unregister"} : Finds(l, c)'
    BY <1>11 DEF Finds
  <2> QED
    BY <1>3, <1>6, <2>2, <2>3
<1>12. Heard'
  <2>1. ASSUME NEW d \in Channels PROVE HeardOf(d)'
    <3>0. HeardOf(d)
      BY HeardByChannel
    <3>1. CASE d = c /\ active[c]
      <4>1. heard[c] \in Activations /\ everActive[c]
        BY <1>1, <3>0, <3>1 DEF HeardOf
      <4>2. heard'[c] \in Endings
        BY <1>11, <3>1, <4>1, Told
      <4>3. heard'[c] \notin Farewells
        BY <4>2, NoFarewell
      <4> QED
        BY <1>0, <1>1, <1>11, <3>0, <3>1, <4>1, <4>2, <4>3 DEF HeardOf, sockets, interest
    <3>2. CASE d # c \/ ~active[c]
      <4>1. heard'[d] = heard[d] /\ (active'[d] <=> active[d])
        BY <1>11, <3>2
      <4> QED
        BY <1>0, <3>0, <4>1 DEF HeardOf, sockets, interest
    <3> QED
      BY <3>1, <3>2
  <2> QED
    BY <2>1 DEF Heard, HeardOf
<1>13. {active, everActive, closeDone, secured}' \subseteq [Channels -> BOOLEAN] /\ DOMAIN heard' = Channels
  <2>1. active' \in [Channels -> BOOLEAN]
    BY <1>0 DEF Shape
  <2> QED
    BY <1>0, <2>1 DEF Shape
<1> QED
  BY <1>0, <1>6, <1>8, <1>9, <1>10, <1>12, <1>13, LoopStep DEF sockets, tables

LEMMA StillHeardFewer ==
  ASSUME NEW d \in Channels, HeardOf(d),
         \A f \in DOMAIN selector' : f \in DOMAIN selector /\ selector'[f] = selector[f],
         UNCHANGED <<sock[d], heard[d], active[d], everActive[d], closeDone[d], secured[d], pending[d]>>
  PROVE HeardOf(d)'
BY DEF HeardOf

\* A channel that is taken out of the tables takes no open channel with it.
LEMMA Leaving ==
  ASSUME LifecycleInv, stack # << >>, sock[Current] = "closed"
  PROVE \A d \in Channels : sock[d] = "open" => fd[d] # fd[Current]
<1> SUFFICES ASSUME NEW d \in Channels, sock[d] = "open", fd[Current] = fd[d] PROVE FALSE
  OBVIOUS
<1>1. Head(stack) \in Frames /\ Head(stack)[2] = Current
  BY Running DEF Current
<1>2. Current = d
  BY <1>1, OpenOwns
<1> QED
  BY <1>2

LEMMA UnregisterStep == ASSUME LifecycleInv, Unregister PROVE LifecycleInv'
<1> USE DEF LifecycleInv
<1> DEFINE labels == IF fd[Current] \in DOMAIN selector
                     THEN <<"channel_unregistered", "forget">> ELSE <<"forget">>
<1>a. stack # << >> /\ Head(stack)[1] = "unregister"
  BY DEF Unregister, At
<1>c. PICK c \in Channels : c = Current
  BY <1>a, Running
<1>1. Owns(c) /\ sock[c] = "closed" /\ ~active[c] /\ \A d \in Channels : sock[d] = "open" => fd[d] # fd[c]
  BY <1>a, <1>c, Running, Leaving DEF Relies, Finds
<1>0. /\ selector' = Drop(selector, {fd[c]})
      /\ heard' = IF fd[c] \in DOMAIN selector
                  THEN [heard EXCEPT ![c] = Append(@, "channel_unregistered")] ELSE heard
      /\ Continue(c, labels)
      /\ UNCHANGED <<sockets, activity, flag, autoRead, pending, tables, rounds>>
  BY <1>c DEF Unregister, Hear
<1>3. Stackable(labels) /\ "forget" \in Range(labels)
      /\ Range(labels) \subseteq {"channel_unregistered", "forget"}
  <2>1. "channel_unregistered" \in Labels /\ "forget" \in Labels
    BY LabelFacts
  <2>2. "forget" \in Under("channel_unregistered")
    BY LabelFacts DEF Under
  <2>3. /\ Stackable(<<"channel_unregistered", "forget">>)
        /\ Range(<<"channel_unregistered", "forget">>) = {"channel_unregistered", "forget"}
    BY <2>1, <2>2, Lists
  <2>4. Stackable(<<"forget">>) /\ Range(<<"forget">>) = {"forget"}
    BY <2>1, Lists
  <2> QED
    BY <2>3, <2>4
<1>4. \A l \in {"channel_unregistered", "forget"} : Under("unregister") = Under(l)
  BY LabelFacts DEF Under, Rest
<1>5. \A l \in Range(labels) : l # "enter" /\ Relies(l, c)
  BY <1>1, <1>3 DEF Relies
<1> HIDE DEF labels
<1>6. /\ Onward
      /\ Frames' = (Range(labels) \X {c}) \cup FramesIn(Tail(stack))
      /\ Frames = {Head(stack)} \cup FramesIn(Tail(stack))
  BY <1>0, <1>a, <1>3, <1>4, <1>5, ContinueOnward
<1>7. Head(stack) = <<"unregister", c>>
  BY <1>a, <1>c, Running
<1>8. /\ DOMAIN selector' = DOMAIN selector \ {fd[c]}
      /\ \A f \in DOMAIN selector' : f \in DOMAIN selector /\ f # fd[c] /\ selector'[f] = selector[f]
                                     /\ selector[f].channel \in Channels \ {c}
      /\ selector' = [f \in DOMAIN selector' |-> selector'[f]]
  <2>1. \A f \in DOMAIN selector : fd[selector[f].channel] = f /\ selector[f].channel \in Channels
    BY DEF Views, Shape
  <2> QED
    BY <1>0, <2>1 DEF Drop, Restrict
<1>9. Tidy
  <2>1. \A f \in DOMAIN selector : /\ selector[f] \in [channel : Channels, events : SUBSET Events]
                                   /\ fd[selector[f].channel] = f
                                   /\ selector[f].events = flag[selector[f].channel]
                                   /\ flag[selector[f].channel] # {}
    BY DEF Shape, Views
  <2>2. \A d \in Channels : sock[d] = "open" /\ flag[d] # {} =>
          fd[d] \in DOMAIN selector /\ selector[fd[d]].channel = d
    BY DEF Views
  <2>3. flag' = flag /\ flag \in [Channels -> SUBSET Events] /\ DOMAIN selector \subseteq Fds
    BY <1>0 DEF Shape
  <2> QED
    BY <1>1, <1>8, <2>1, <2>2, <2>3 DEF Tidy
<1>10. Paid
  <2>1. \A d \in Channels : \A l : <<l, d>> \in Frames /\ d # c => <<l, d>> \in Frames'
    BY <1>6, <1>7
  <2>2. <<"forget", c>> \in Frames'
    BY <1>3, <1>6
  <2>3. \A d \in Channels \ {c} :
          /\ Owes({"deactivate", "unregister"}, d) => WillOwe({"deactivate", "unregister"}, d)
          /\ Owes({"deactivate", "unregister", "forget"}, d) => WillOwe(Owing, d)
    BY <2>1 DEF Owes, WillOwe, Owing
  <2>4. WillOwe(Owing, c)
    BY <2>2 DEF WillOwe, Owing
  <2>5. \A f \in DOMAIN selector' : LET d == selector'[f].channel IN
          sock[d] = "open" \/ (sock[d] = "closed" /\ WillOwe({"deactivate", "unregister"}, d))
    BY <1>8, <2>3 DEF Views
  <2>6. \A f \in DOMAIN table : LET d == table[f] IN
          sock[d] = "open" \/ (sock[d] = "closed" /\ WillOwe(Owing, d))
    BY <1>1, <2>3, <2>4 DEF Views, Shape
  <2> QED
    BY <2>5, <2>6 DEF Paid
<1>11. Wants /\ Fewer
  BY <1>0, SameWants, SameBatch DEF rounds
<1>12. \A frame \in Frames' : Finds(frame[1], frame[2])'
  <2>1. \A frame \in Frames' : frame \in Frames \/ frame[1] \in {"channel_unregistered", "forget"}
    BY <1>3, <1>6
  <2> QED
    BY <1>0, <2>1 DEF FrameInv, Finds, activity
<1>13. Heard'
  <2>1. ASSUME NEW d \in Channels PROVE HeardOf(d)'
    <3>0. HeardOf(d)
      BY HeardByChannel
    <3>1. CASE d = c /\ fd[c] \in DOMAIN selector
      <4>1. heard[c] \notin Farewells
        BY <1>1, <3>0, <3>1 DEF HeardOf, Owns
      <4>2. heard[c] \in IF everActive[c] THEN Endings ELSE Registrations
        BY <1>1, <3>0, <3>1, <4>1 DEF HeardOf
      <4>3. heard'[c] = Append(heard[c], "channel_unregistered")
        BY <1>0, <3>1 DEF Shape
      <4>4. heard'[c] \in Farewells
        BY <4>2, <4>3, Told
      <4>5. ~secured[c] /\ ~everActive[c] => heard'[c] = <<"channel_registered", "channel_unregistered">>
        <5>1. heard[c] \in Registrations => heard[c] # << >>
          <6>1. \A s \in Registrations : Len(s) > 0
            BY DEF Registrations
          <6>2. Len(<< >>) = 0
            OBVIOUS
          <6> QED
            BY <6>1, <6>2
        <5>2. <<"channel_registered", "channel_unregistered">> \in Farewells
          BY DEF Farewells
        <5>3. ~secured[c] /\ ~everActive[c] => heard[c] = <<"channel_registered">>
          BY <3>0, <3>1, <4>1, <4>2, <5>1, <5>2 DEF HeardOf
        <5> QED
          BY <4>3, <5>3, Told
      <4>6. sock'[c] = "closed" /\ \A f \in DOMAIN selector' : selector'[f].channel # c
        BY <1>0, <1>1, <1>8 DEF sockets
      <4>7. ~active'[c] /\ UNCHANGED <<sock, closeDone, everActive, secured, pending>>
        BY <1>0, <1>1 DEF sockets, activity
      <4> QED
        BY <1>1, <3>0, <3>1, <4>4, <4>5, <4>6, <4>7 DEF HeardOf
    <3>2. CASE d # c \/ fd[c] \notin DOMAIN selector
      <4>1. heard'[d] = heard[d]
        BY <1>0, <3>2 DEF Shape
      <4> QED
        BY <1>0, <1>8, <3>0, <4>1, StillHeardFewer DEF sockets, activity
    <3> QED
      BY <3>1, <3>2
  <2> QED
    BY <2>1 DEF Heard, HeardOf
<1>14. {active, everActive, closeDone, secured}' \subseteq [Channels -> BOOLEAN] /\ DOMAIN heard' = Channels
  BY <1>0 DEF Shape, activity
<1> QED
  BY <1>0, <1>6, <1>9, <1>10, <1>11, <1>12, <1>13, <1>14, LoopStep DEF sockets, tables

LEMMA ForgetStep == ASSUME LifecycleInv, Forget PROVE LifecycleInv'
<1> USE DEF LifecycleInv
<1>a. stack # << >> /\ Head(stack)[1] = "forget"
  BY DEF Forget, At
<1>c. PICK c \in Channels : c = Current
  BY <1>a, Running
<1>1. Owns(c) /\ sock[c] = "closed" /\ \A d \in Channels : sock[d] = "open" => fd[d] # fd[c]
  BY <1>a, <1>c, Running, Leaving DEF Relies
<1>0. /\ table' = Drop(table, {fd[c]}) /\ Return
      /\ UNCHANGED <<sockets, activity, interest, rounds, heard>>
  BY <1>c DEF Forget
<1>2. /\ stack' \in Seq(Frame) /\ Nesting'
      /\ Frames' = FramesIn(Tail(stack)) /\ Frames = {<<"forget", c>>} \cup FramesIn(Tail(stack))
  BY <1>a, <1>c, <1>0, Returned, Running DEF Shape
<1>3. /\ DOMAIN table' = DOMAIN table \ {fd[c]}
      /\ \A f \in DOMAIN table' : f \in DOMAIN table /\ f # fd[c] /\ table'[f] = table[f]
                                  /\ table[f] \in Channels \ {c}
  <2>1. \A f \in DOMAIN table : fd[table[f]] = f /\ table[f] \in Channels
    BY DEF Views, Shape
  <2> QED
    BY <1>0, <2>1 DEF Drop, Restrict
<1>s. UNCHANGED <<sockets, activity, interest, rounds, heard>>
  BY <1>0
<1>4. Shape' /\ Apart' /\ Heard'
  <2>1. Shape'
    BY <1>s, <1>2, <1>3 DEF Shape, sockets, activity, interest, rounds
  <2>2. Apart'
    BY <1>s DEF Apart, Open, sockets
  <2>3. Heard'
    BY <1>s DEF Heard, sockets, activity, interest
  <2> QED
    BY <2>1, <2>2, <2>3
<1>5. FrameInv'
  <2> SUFFICES ASSUME NEW frame \in Frames' PROVE (Relies(frame[1], frame[2]) /\ Finds(frame[1], frame[2]))'
    BY DEF FrameInv
  <2>1. frame \in Frames /\ Relies(frame[1], frame[2]) /\ Finds(frame[1], frame[2])
    BY <1>2 DEF FrameInv
  <2>2. Owns(frame[2])'
    BY <1>0, <1>3, <2>1 DEF Relies, Owns, sockets, interest
  <2>3. \A other \in Frames' : other \in Frames
    BY <1>2
  <2> QED
    BY <1>0, <2>1, <2>2, <2>3 DEF Relies, Finds, sockets, activity, rounds
<1>6. Views'
  <2>1. \A d \in Channels : \A l : <<l, d>> \in Frames /\ (d # c \/ l # "forget") => <<l, d>> \in Frames'
    BY <1>2
  <2>2. \A d \in Channels : Owes({"deactivate", "unregister"}, d) => WillOwe({"deactivate", "unregister"}, d)
    BY <2>1 DEF Owes, WillOwe
  <2>3. \A d \in Channels \ {c} : Owes({"deactivate", "unregister", "forget"}, d)
          => WillOwe({"deactivate", "unregister", "forget"}, d)
    BY <2>1 DEF Owes, WillOwe
  <2>4. \A d \in Channels : Owes({"enter"}, d) => WillOwe({"enter"}, d)
    BY <2>1 DEF Owes, WillOwe
  <2>5. \A f \in DOMAIN selector : LET d == selector[f].channel IN
          /\ fd[d] = f
          /\ selector[f].events = flag[d] /\ flag[d] # {}
          /\ sock[d] = "open" \/ (sock[d] = "closed" /\ WillOwe({"deactivate", "unregister"}, d))
    BY <2>2 DEF Views, Shape
  <2>6. \A f \in DOMAIN table' : LET d == table'[f] IN
          /\ fd[d] = f
          /\ sock[d] = "open" \/ (sock[d] = "closed" /\ WillOwe({"deactivate", "unregister", "forget"}, d))
    BY <1>3, <2>3 DEF Views
  <2>7. \A d \in Channels : sock[d] = "open" =>
          /\ (fd[d] \in DOMAIN table' /\ table'[fd[d]] = d) \/ WillOwe({"enter"}, d)
          /\ flag[d] # {} => fd[d] \in DOMAIN selector /\ selector[fd[d]].channel = d
    BY <1>1, <1>3, <2>4 DEF Views
  <2>8. UNCHANGED <<sock, fd, flag, selector>>
    BY <1>0 DEF sockets, interest
  <2> QED
    BY <2>5, <2>6, <2>7, <2>8 DEF Views, Owes, WillOwe
<1>7. Polled'
  BY <1>0, <1>3 DEF Polled, sockets, rounds
<1> QED
  BY <1>2, <1>4, <1>5, <1>6, <1>7

LEMMA ShutStep == ASSUME LifecycleInv, Shut PROVE LifecycleInv'
<1> USE DEF LifecycleInv
<1> DEFINE labels == IF closeDone[Current] THEN <<"deactivate">> ELSE <<"close listener", "deactivate">>
<1>a. stack # << >> /\ Head(stack)[1] = "shut"
  BY DEF Shut, At
<1>c. PICK c \in Channels : c = Current
  BY <1>a, Running
<1>1. Owns(c) /\ sock[c] \in {"open", "closed"} /\ Head(stack) = <<"shut", c>>
  BY <1>a, <1>c, Running
<1>0. /\ pending' = [pending EXCEPT ![c] = "none"] /\ sock' = [sock EXCEPT ![c] = "closed"]
      /\ closeDone' = [closeDone EXCEPT ![c] = TRUE]
      /\ Continue(c, labels)
      /\ UNCHANGED <<fd, net, active, everActive, secured, flag, autoRead, selector, tables, rounds, heard>>
  BY <1>c DEF Shut
<1>2. Stackable(labels) /\ "deactivate" \in Range(labels)
      /\ Range(labels) \subseteq {"close listener", "deactivate"}
  <2>1. "close listener" \in Labels /\ "deactivate" \in Labels
    BY LabelFacts
  <2>2. "deactivate" \in Under("close listener")
    BY LabelFacts DEF Under
  <2>3. /\ Stackable(<<"close listener", "deactivate">>)
        /\ Range(<<"close listener", "deactivate">>) = {"close listener", "deactivate"}
    BY <2>1, <2>2, Lists
  <2>4. Stackable(<<"deactivate">>) /\ Range(<<"deactivate">>) = {"deactivate"}
    BY <2>1, Lists
  <2> QED
    BY <2>3, <2>4
<1>3. \A l \in {"close listener", "deactivate"} : Under("shut") \subseteq Under(l)
  BY LabelFacts DEF Under, Rest
<1> HIDE DEF labels
<1>4. /\ stack' \in Seq(Frame) /\ Nesting'
      /\ Frames' = (Range(labels) \X {c}) \cup FramesIn(Tail(stack))
      /\ Frames = {<<"shut", c>>} \cup FramesIn(Tail(stack))
      /\ \A frame \in FramesIn(Tail(stack)) : frame[1] \in Under("shut")
  BY <1>0, <1>a, <1>1, <1>2, <1>3, Continued DEF Shape
<1>5. /\ sock'[c] = "closed" /\ closeDone'[c] /\ pending'[c] = "none"
      /\ \A d \in Channels \ {c} :
           sock'[d] = sock[d] /\ closeDone'[d] = closeDone[d] /\ pending'[d] = pending[d]
  BY <1>0 DEF Shape
<1>6. Shape'
  <2>1. /\ sock' \in [Channels -> {"none", "new", "open", "orphan", "closed"}]
        /\ pending' \in [Channels -> {"none", "data", "close"}]
        /\ closeDone' \in [Channels -> BOOLEAN]
    BY <1>0 DEF Shape
  <2>2. /\ \A d \in Channels : sock'[d] \in {"new", "open", "orphan"} => fd[d] \in Fds
        /\ \A d \in Channels : sock'[d] # "none" => net[d] # "none"
    BY <1>1, <1>5 DEF Shape
  <2> QED
    BY <1>0, <1>4, <2>1, <2>2 DEF Shape, tables, rounds
<1>7. Apart'
  BY <1>0, <1>5 DEF Apart, Open
<1>8. FrameInv'
  <2> SUFFICES ASSUME NEW frame \in Frames' PROVE (Relies(frame[1], frame[2]) /\ Finds(frame[1], frame[2]))'
    BY DEF FrameInv
  <2>1. CASE frame \in Range(labels) \X {c}
    <3>1. Owns(c)'
      BY <1>0, <1>1, <1>5 DEF Owns, tables
    <3>2. frame[1] \in {"close listener", "deactivate"} /\ frame[2] = c
      BY <1>2, <2>1
    <3> QED
      BY <1>5, <3>1, <3>2 DEF Relies, Finds
  <2>2. CASE frame \in FramesIn(Tail(stack))
    <3>1. /\ frame \in Frames /\ frame[2] \in Channels
          /\ frame[1] \notin {"enter", "activate", "writable"}
      BY <1>4, <2>2, Kinds DEF Under
    <3>2. Relies(frame[1], frame[2]) /\ Finds(frame[1], frame[2])
      BY <3>1 DEF FrameInv
    <3>3. Owns(frame[2])'
      BY <1>0, <1>5, <3>1, <3>2 DEF Relies, Owns, tables
    <3>4. sock[frame[2]] = "closed" => sock'[frame[2]] = "closed"
      BY <1>5, <3>1
    <3> QED
      BY <1>0, <3>1, <3>2, <3>3, <3>4 DEF Relies, Finds
  <2> QED
    BY <1>4, <2>1, <2>2
<1>9. Views'
  <2>1. \A d \in Channels : \A l : <<l, d>> \in Frames /\ l # "shut" => <<l, d>> \in Frames'
    BY <1>4
  <2>2. <<"deactivate", c>> \in Frames'
    BY <1>2, <1>4
  <2>3. /\ WillOwe({"deactivate", "unregister"}, c)
        /\ WillOwe({"deactivate", "unregister", "forget"}, c)
    BY <2>2 DEF WillOwe
  <2>4. \A d \in Channels :
          /\ Owes({"deactivate", "unregister"}, d) => WillOwe({"deactivate", "unregister"}, d)
          /\ Owes({"deactivate", "unregister", "forget"}, d)
               => WillOwe({"deactivate", "unregister", "forget"}, d)
          /\ Owes({"enter"}, d) => WillOwe({"enter"}, d)
    BY <2>1 DEF Owes, WillOwe
  <2>5. \A f \in DOMAIN selector : LET d == selector[f].channel IN
          /\ fd[d] = f
          /\ selector[f].events = flag[d] /\ flag[d] # {}
          /\ sock'[d] = "open" \/ (sock'[d] = "closed" /\ WillOwe({"deactivate", "unregister"}, d))
    BY <1>5, <2>3, <2>4 DEF Views, Shape
  <2>6. \A f \in DOMAIN table : LET d == table[f] IN
          /\ fd[d] = f
          /\ sock'[d] = "open" \/ (sock'[d] = "closed" /\ WillOwe({"deactivate", "unregister", "forget"}, d))
    BY <1>5, <2>3, <2>4 DEF Views, Shape
  <2>7. \A d \in Channels : sock'[d] = "open" =>
          /\ (fd[d] \in DOMAIN table /\ table[fd[d]] = d) \/ WillOwe({"enter"}, d)
          /\ flag[d] # {} => fd[d] \in DOMAIN selector /\ selector[fd[d]].channel = d
    BY <1>5, <2>4 DEF Views
  <2>8. UNCHANGED <<fd, flag, selector, table>>
    BY <1>0 DEF tables
  <2> QED
    BY <2>5, <2>6, <2>7, <2>8 DEF Views, Owes, WillOwe
<1>10. Polled'
  BY <1>0 DEF Polled, tables, rounds
<1>11. Heard'
  <2>1. ASSUME NEW d \in Channels PROVE HeardOf(d)'
    <3>0. HeardOf(d)
      BY HeardByChannel
    <3>1. CASE d = c
      BY <1>0, <1>1, <1>5, <3>0, <3>1 DEF HeardOf
    <3>2. CASE d # c
      BY <1>0, <1>5, <3>0, <3>2, StillHeard
    <3> QED
      BY <3>1, <3>2
  <2> QED
    BY <2>1 DEF Heard, HeardOf
<1> QED
  BY <1>4, <1>6, <1>7, <1>8, <1>9, <1>10, <1>11

-----------------------------------------------------------------------------
LEMMA LifecycleInitial == ASSUME Init PROVE LifecycleInv
<1>1. Frames = {}
  BY DEF Init, Frames, FramesIn
<1>2. Shape
  <2>1. << >> \in Seq([fd : Fds, events : SUBSET Events]) /\ << >> \in Seq(Frame)
    OBVIOUS
  <2>2. DOMAIN << >> = {}
    OBVIOUS
  <2>3. /\ {active, everActive, closeDone, secured, autoRead} \subseteq [Channels -> BOOLEAN]
        /\ flag \in [Channels -> SUBSET Events]
        /\ fd \in [Channels -> Fds \cup {NoFd}]
    BY DEF Init
  <2> QED
    BY <2>1, <2>2, <2>3 DEF Init, Shape
<1>3. Apart /\ Nesting /\ Polled
  BY DEF Init, Apart, Open, Nesting, Nested, Polled
<1>4. FrameInv
  BY <1>1 DEF FrameInv
<1>5. Views
  BY DEF Init, Views
<1>6. Heard
  <2>1. \A s \in Farewells : s # << >>
    BY NoFarewell
  <2> QED
    BY <2>1 DEF Init, Heard
<1> QED
  BY <1>2, <1>3, <1>4, <1>5, <1>6 DEF LifecycleInv

LEMMA LifecycleStep ==
  ASSUME LifecycleInv, LifecycleAssumption, Discipline, [Next]_vars
  PROVE LifecycleInv'
<1>1. ASSUME NEW c \in Channels, UserStep(c) PROVE LifecycleInv'
  BY <1>1, RegisterStep, CloseForciblyStep, InterestStep DEF UserStep
<1>2. ASSUME NEW c \in Channels, World(c) PROVE LifecycleInv'
  BY <1>2, OpenSocketStep, NetworkAnswersStep DEF World
<1>3. CASE Poll
  BY <1>3, PollStep
<1>4. ASSUME NEW fds \in SUBSET DOMAIN due, Expire(fds) PROVE LifecycleInv'
  BY <1>4, DeadlineStep DEF Expire, tables
<1>5. CASE LibraryStep
  <2>1. CASE UserReturns \/ Enter \/ HandleEvent \/ ExpireOne
    BY <2>1, UserReturnsStep, EnterStep, HandleEventStep, ExpireOneStep
  <2>2. CASE DropOverdue
    BY <2>2, DeadlineStep DEF DropOverdue
  <2>3. CASE SkipCheck \/ WasActive \/ ConnectFailed \/ Refused \/ Connected
    BY <2>3, SkipCheckStep, WasActiveStep, RefuseStep, LeaveStep, ConnectedStep
  <2>4. CASE HandshakeWants \/ HandshakeFails \/ HandshakeCompletes
    BY <2>4, HandshakeWantsStep, RefuseStep, HandshakeCompletesStep
  <2>5. CASE Activate \/ Answer \/ Undue \/ More
    BY <2>5, ActivateStep, AnswerStep, LeaveStep, MoreStep
  <2>6. CASE Send("none") \/ Send("data") \/ Sent \/ Recv
    BY <2>6, SendStep, SentStep, RecvStep
  <2>7. CASE SendUpToClose(<<"fail", "sent">>) \/ SendUpToClose(<< >>)
    <3>1. \A labels \in {<<"fail", "sent">>, << >>} : SendUpToClose(labels) => LifecycleInv'
      BY SendUpToCloseStep
    <3> QED
      BY <2>7, <3>1
  <2>8. CASE Fail \/ Shut \/ Deactivate \/ Unregister \/ Forget
    BY <2>8, FailStep, ShutStep, DeactivateStep, UnregisterStep, ForgetStep
  <2> QED
    BY <1>5, <2>1, <2>2, <2>3, <2>4, <2>5, <2>6, <2>7, <2>8 DEF LibraryStep
<1>6. CASE UNCHANGED vars
  <2>1. UNCHANGED <<sockets, activity, interest, table, batch, stack, heard>>
    BY <1>6 DEF vars, tables, rounds
  <2> QED
    BY <2>1, DeadlineStep
<1> QED
  BY <1>1, <1>2, <1>3, <1>4, <1>5, <1>6 DEF Next

\* The invariant of the call stack and the tables holds always, whatever the
\* channels, the descriptors, and the calls of user code that keeps to Discipline.
THEOREM LifecycleInvariance == ASSUME Discipline PROVE Spec => []LifecycleInv
<1>1. Init => LifecycleInv
  BY LifecycleInitial
<1>2. LifecycleInv /\ [Next]_vars => LifecycleInv'
  BY LifecycleStep, LifecycleAssumption
<1> QED
  BY <1>1, <1>2, PTL DEF Spec

-----------------------------------------------------------------------------
\* Between callbacks the selector and _channels know the same open channels by
\* their own descriptors, and the selector watches each for what its flag says:
\* register, close, modify_flag and the unregister of eventloop.py together leave
\* no entry behind and lose none.
THEOREM TablesAgree == ASSUME Discipline PROVE Spec => []ViewsAgree
<1>1. LifecycleInv => ViewsAgree
  <2> SUFFICES ASSUME LifecycleInv, Idle PROVE ViewsAgree
    BY DEF ViewsAgree
  <2>1. /\ \A f \in DOMAIN table : sock[table[f]] = "open" /\ fd[table[f]] = f /\ table[f] \in Channels
        /\ \A f \in DOMAIN selector : f \in DOMAIN table /\ table[f] = selector[f].channel
    BY TableOpen DEF Idle
  <2>2. \A f \in DOMAIN table : Open(table[f]) /\ (flag[table[f]] # {} => f \in DOMAIN selector)
    BY <2>1 DEF LifecycleInv, Views, Open
  <2>3. \A f \in DOMAIN selector : selector[f].events = flag[table[f]]
    BY <2>1 DEF LifecycleInv, Views
  <2> QED
    BY <2>1, <2>2, <2>3 DEF ViewsAgree
<1> QED
  BY <1>1, LifecycleInvariance, PTL

-----------------------------------------------------------------------------
\* What a channel may have been told.
Stories == {<< >>} \cup Registrations \cup Activations \cup Endings \cup Farewells

LEMMA HeardStory == ASSUME LifecycleInv, NEW c \in Channels PROVE heard[c] \in Stories
<1>1. HeardOf(c)
  BY HeardByChannel DEF LifecycleInv
<1> QED
  BY <1>1 DEF HeardOf, Stories

LEMMA Stages ==
  /\ Stage("channel_registered") = 1 /\ Stage("channel_handshake_complete") = 2
  /\ Stage("channel_active") = 3 /\ Stage("channel_inactive") = 4
  /\ Stage("channel_unregistered") = 5
<1>1. /\ DOMAIN Life = 1 .. 5
      /\ Life[1] = "channel_registered" /\ Life[2] = "channel_handshake_complete"
      /\ Life[3] = "channel_active" /\ Life[4] = "channel_inactive"
      /\ Life[5] = "channel_unregistered"
  BY DEF Life
<1>2. \A i \in DOMAIN Life, k \in DOMAIN Life : Life[i] = Life[k] => i = k
  BY <1>1
<1>3. \A k \in DOMAIN Life : Stage(Life[k]) = k
  BY <1>2 DEF Stage
<1> QED
  BY <1>1, <1>3

InOrder(told) ==
  /\ \A i, j \in DOMAIN told : i < j => Stage(told[i]) < Stage(told[j])
  /\ "channel_inactive" \in ToSet(told) => "channel_active" \in ToSet(told)
  /\ "channel_unregistered" \in ToSet(told) /\ "channel_active" \in ToSet(told)
       => "channel_inactive" \in ToSet(told)

LEMMA StoriesInOrder == \A told \in Stories : InOrder(told) /\ told \in Seq(Handlers)
<1>0. InOrder(<< >>) /\ << >> \in Seq(Handlers)
  BY DEF InOrder, ToSet
<1>h. {"channel_registered", "channel_handshake_complete", "channel_active", "channel_inactive",
       "channel_unregistered"} \subseteq Handlers
  BY DEF Handlers
<1>1. InOrder(<<"channel_registered">>) /\ <<"channel_registered">> \in Seq(Handlers)
  <2>0. <<"channel_registered">> \in Seq(Handlers)
    BY <1>h
  <2> DEFINE told == <<"channel_registered">>
  <2>1. DOMAIN told = {1} /\ told[1] = "channel_registered"
    OBVIOUS
  <2> HIDE DEF told
  <2>2. ToSet(told) = {"channel_registered"}
    BY <2>1 DEF ToSet
  <2>3. InOrder(told)
    BY <2>1, <2>2, Stages DEF InOrder
  <2> QED
    BY <2>0, <2>3 DEF told
<1>2. InOrder(<<"channel_registered", "channel_handshake_complete">>) /\ <<"channel_registered", "channel_handshake_complete">> \in Seq(Handlers)
  <2>0. <<"channel_registered", "channel_handshake_complete">> \in Seq(Handlers)
    BY <1>h
  <2> DEFINE told == <<"channel_registered", "channel_handshake_complete">>
  <2>1. DOMAIN told = {1, 2} /\ told[1] = "channel_registered" /\ told[2] = "channel_handshake_complete"
    OBVIOUS
  <2> HIDE DEF told
  <2>2. ToSet(told) = {"channel_registered", "channel_handshake_complete"}
    BY <2>1 DEF ToSet
  <2>3. InOrder(told)
    BY <2>1, <2>2, Stages DEF InOrder
  <2> QED
    BY <2>0, <2>3 DEF told
<1>3. InOrder(<<"channel_registered", "channel_active">>) /\ <<"channel_registered", "channel_active">> \in Seq(Handlers)
  <2>0. <<"channel_registered", "channel_active">> \in Seq(Handlers)
    BY <1>h
  <2> DEFINE told == <<"channel_registered", "channel_active">>
  <2>1. DOMAIN told = {1, 2} /\ told[1] = "channel_registered" /\ told[2] = "channel_active"
    OBVIOUS
  <2> HIDE DEF told
  <2>2. ToSet(told) = {"channel_registered", "channel_active"}
    BY <2>1 DEF ToSet
  <2>3. InOrder(told)
    BY <2>1, <2>2, Stages DEF InOrder
  <2> QED
    BY <2>0, <2>3 DEF told
<1>4. InOrder(<<"channel_registered", "channel_handshake_complete", "channel_active">>) /\ <<"channel_registered", "channel_handshake_complete", "channel_active">> \in Seq(Handlers)
  <2>0. <<"channel_registered", "channel_handshake_complete", "channel_active">> \in Seq(Handlers)
    BY <1>h
  <2> DEFINE told == <<"channel_registered", "channel_handshake_complete", "channel_active">>
  <2>1. DOMAIN told = {1, 2, 3} /\ told[1] = "channel_registered" /\ told[2] = "channel_handshake_complete" /\ told[3] = "channel_active"
    OBVIOUS
  <2> HIDE DEF told
  <2>2. ToSet(told) = {"channel_registered", "channel_handshake_complete", "channel_active"}
    BY <2>1 DEF ToSet
  <2>3. InOrder(told)
    BY <2>1, <2>2, Stages DEF InOrder
  <2> QED
    BY <2>0, <2>3 DEF told
<1>5. InOrder(<<"channel_registered", "channel_active", "channel_inactive">>) /\ <<"channel_registered", "channel_active", "channel_inactive">> \in Seq(Handlers)
  <2>0. <<"channel_registered", "channel_active", "channel_inactive">> \in Seq(Handlers)
    BY <1>h
  <2> DEFINE told == <<"channel_registered", "channel_active", "channel_inactive">>
  <2>1. DOMAIN told = {1, 2, 3} /\ told[1] = "channel_registered" /\ told[2] = "channel_active" /\ told[3] = "channel_inactive"
    OBVIOUS
  <2> HIDE DEF told
  <2>2. ToSet(told) = {"channel_registered", "channel_active", "channel_inactive"}
    BY <2>1 DEF ToSet
  <2>3. InOrder(told)
    BY <2>1, <2>2, Stages DEF InOrder
  <2> QED
    BY <2>0, <2>3 DEF told
<1>6. InOrder(<<"channel_registered", "channel_handshake_complete", "channel_active", "channel_inactive">>) /\ <<"channel_registered", "channel_handshake_complete", "channel_active", "channel_inactive">> \in Seq(Handlers)
  <2>0. <<"channel_registered", "channel_handshake_complete", "channel_active", "channel_inactive">> \in Seq(Handlers)
    BY <1>h
  <2> DEFINE told == <<"channel_registered", "channel_handshake_complete", "channel_active", "channel_inactive">>
  <2>1. DOMAIN told = {1, 2, 3, 4} /\ told[1] = "channel_registered" /\ told[2] = "channel_handshake_complete" /\ told[3] = "channel_active" /\ told[4] = "channel_inactive"
    OBVIOUS
  <2> HIDE DEF told
  <2>2. ToSet(told) = {"channel_registered", "channel_handshake_complete", "channel_active", "channel_inactive"}
    BY <2>1 DEF ToSet
  <2>3. InOrder(told)
    BY <2>1, <2>2, Stages DEF InOrder
  <2> QED
    BY <2>0, <2>3 DEF told
<1>7. InOrder(<<"channel_registered", "channel_unregistered">>) /\ <<"channel_registered", "channel_unregistered">> \in Seq(Handlers)
  <2>0. <<"channel_registered", "channel_unregistered">> \in Seq(Handlers)
    BY <1>h
  <2> DEFINE told == <<"channel_registered", "channel_unregistered">>
  <2>1. DOMAIN told = {1, 2} /\ told[1] = "channel_registered" /\ told[2] = "channel_unregistered"
    OBVIOUS
  <2> HIDE DEF told
  <2>2. ToSet(told) = {"channel_registered", "channel_unregistered"}
    BY <2>1 DEF ToSet
  <2>3. InOrder(told)
    BY <2>1, <2>2, Stages DEF InOrder
  <2> QED
    BY <2>0, <2>3 DEF told
<1>8. InOrder(<<"channel_registered", "channel_handshake_complete", "channel_unregistered">>) /\ <<"channel_registered", "channel_handshake_complete", "channel_unregistered">> \in Seq(Handlers)
  <2>0. <<"channel_registered", "channel_handshake_complete", "channel_unregistered">> \in Seq(Handlers)
    BY <1>h
  <2> DEFINE told == <<"channel_registered", "channel_handshake_complete", "channel_unregistered">>
  <2>1. DOMAIN told = {1, 2, 3} /\ told[1] = "channel_registered" /\ told[2] = "channel_handshake_complete" /\ told[3] = "channel_unregistered"
    OBVIOUS
  <2> HIDE DEF told
  <2>2. ToSet(told) = {"channel_registered", "channel_handshake_complete", "channel_unregistered"}
    BY <2>1 DEF ToSet
  <2>3. InOrder(told)
    BY <2>1, <2>2, Stages DEF InOrder
  <2> QED
    BY <2>0, <2>3 DEF told
<1>9. InOrder(<<"channel_registered", "channel_active", "channel_inactive", "channel_unregistered">>) /\ <<"channel_registered", "channel_active", "channel_inactive", "channel_unregistered">> \in Seq(Handlers)
  <2>0. <<"channel_registered", "channel_active", "channel_inactive", "channel_unregistered">> \in Seq(Handlers)
    BY <1>h
  <2> DEFINE told == <<"channel_registered", "channel_active", "channel_inactive", "channel_unregistered">>
  <2>1. DOMAIN told = {1, 2, 3, 4} /\ told[1] = "channel_registered" /\ told[2] = "channel_active" /\ told[3] = "channel_inactive" /\ told[4] = "channel_unregistered"
    OBVIOUS
  <2> HIDE DEF told
  <2>2. ToSet(told) = {"channel_registered", "channel_active", "channel_inactive", "channel_unregistered"}
    BY <2>1 DEF ToSet
  <2>3. InOrder(told)
    BY <2>1, <2>2, Stages DEF InOrder
  <2> QED
    BY <2>0, <2>3 DEF told
<1>10. InOrder(<<"channel_registered", "channel_handshake_complete", "channel_active", "channel_inactive", "channel_unregistered">>) /\ <<"channel_registered", "channel_handshake_complete", "channel_active", "channel_inactive", "channel_unregistered">> \in Seq(Handlers)
  <2>0. <<"channel_registered", "channel_handshake_complete", "channel_active", "channel_inactive", "channel_unregistered">> \in Seq(Handlers)
    BY <1>h
  <2> DEFINE told == <<"channel_registered", "channel_handshake_complete", "channel_active", "channel_inactive", "channel_unregistered">>
  <2>1. DOMAIN told = {1, 2, 3, 4, 5} /\ told[1] = "channel_registered" /\ told[2] = "channel_handshake_complete" /\ told[3] = "channel_active" /\ told[4] = "channel_inactive" /\ told[5] = "channel_unregistered"
    OBVIOUS
  <2> HIDE DEF told
  <2>2. ToSet(told) = {"channel_registered", "channel_handshake_complete", "channel_active", "channel_inactive", "channel_unregistered"}
    BY <2>1 DEF ToSet
  <2>3. InOrder(told)
    BY <2>1, <2>2, Stages DEF InOrder
  <2> QED
    BY <2>0, <2>3 DEF told
<1> QED
  BY <1>0, <1>1, <1>2, <1>3, <1>4, <1>5, <1>6, <1>7, <1>8, <1>9, <1>10
  DEF Stories, Registrations, Activations, Endings, Farewells

\* The handler methods of a channel are invoked in the order of its life, each at
\* most once: none before channel_registered, none after channel_unregistered,
\* channel_inactive just when channel_active was (handler.py, channel.py).
THEOREM CallbacksInOrder == ASSUME Discipline PROVE Spec => []CallbackOrder
<1>1. LifecycleInv => CallbackOrder
  BY HeardStory, StoriesInOrder DEF CallbackOrder, InOrder
<1> QED
  BY <1>1, LifecycleInvariance, PTL

-----------------------------------------------------------------------------
LEMMA Longer ==
  ASSUME LifecycleInv, NEW c \in Channels, NEW handler \in Handlers
  PROVE /\ Append(heard[c], handler) # heard[c]
        /\ Append(heard[c], handler)[Len(heard[c]) + 1] = handler
<1>1. heard[c] \in Seq(Handlers)
  BY HeardStory, StoriesInOrder
<1>2. /\ Len(Append(heard[c], handler)) = Len(heard[c]) + 1 /\ Len(heard[c]) \in Nat
      /\ Append(heard[c], handler)[Len(heard[c]) + 1] = handler
  BY <1>1, AppendProperties, LenProperties
<1>3. Len(Append(heard[c], handler)) # Len(heard[c])
  BY <1>2
<1> QED
  BY <1>2, <1>3

\* Who tells a channel something else does not tell it that it is active.
LEMMA ToldSomethingElse ==
  ASSUME LifecycleInv, NEW c \in Channels, heard'[c] = Append(heard[c], "channel_active"),
         NEW d \in Channels, NEW handler \in Handlers, handler # "channel_active",
         Hear(d, handler)
  PROVE FALSE
<1>1. "channel_active" \in Handlers
  BY DEF Handlers
<1>2. heard'[c] = IF c = d THEN Append(heard[c], handler) ELSE heard[c]
  BY DEF Hear, LifecycleInv, Shape
<1>3. \A h \in Handlers : /\ Append(heard[c], h) # heard[c]
                           /\ Append(heard[c], h)[Len(heard[c]) + 1] = h
  BY Longer
<1>4. c = d
  BY <1>1, <1>2, <1>3
<1>5. Append(heard[c], "channel_active") = Append(heard[c], handler)
  BY <1>2, <1>4
<1> QED
  BY <1>1, <1>3, <1>5

LEMMA ToldNothing ==
  ASSUME LifecycleInv, NEW c \in Channels, heard'[c] = Append(heard[c], "channel_active")
  PROVE heard'[c] # heard[c]
BY Longer DEF Handlers

\* channel_active is invoked by the step that activates, and on its channel alone.
LEMMA ActiveByActivate ==
  ASSUME LifecycleInv, LifecycleAssumption, Next, NEW c \in Channels,
         heard'[c] = Append(heard[c], "channel_active")
  PROVE Activate /\ c = Current
<1>1. heard' # heard
  BY ToldNothing
<1>2. \A d \in Channels, handler \in Handlers : Hear(d, handler) => handler = "channel_active"
  BY ToldSomethingElse
<1>3. {"channel_registered", "channel_handshake_complete", "channel_inactive", "channel_unregistered"}
        \subseteq Handlers
  BY DEF Handlers
<1>r. stack # << >> => Current \in Channels
  BY Running
<1>4. ~ \E d \in Channels : UserStep(d)
  BY <1>1, <1>2, <1>3 DEF UserStep, Register, CloseForcibly, CloseGracefully, Write, SetAutoRead
<1>5. ~ \E d \in Channels : World(d)
  BY <1>1 DEF World, OpenSocket, NetworkAnswers
<1>6. ~Poll /\ ~ \E fds \in SUBSET DOMAIN due : Expire(fds)
  BY <1>1 DEF Poll, Expire
<1>7. LibraryStep
  BY <1>4, <1>5, <1>6 DEF Next
<1>8. ~UserReturns /\ ~Enter /\ ~HandleEvent /\ ~ExpireOne /\ ~DropOverdue
  BY <1>1 DEF UserReturns, Enter, HandleEvent, ExpireOne, DropOverdue
<1>9. ~SkipCheck /\ ~WasActive /\ ~ConnectFailed /\ ~Refused /\ ~Connected /\ ~HandshakeWants
      /\ ~HandshakeFails
  BY <1>1 DEF SkipCheck, WasActive, ConnectFailed, Refused, Connected, HandshakeWants, HandshakeFails, Refuse
<1>10. ~Answer /\ ~Undue /\ ~More /\ ~Send("none") /\ ~Send("data") /\ ~Sent /\ ~Recv
       /\ ~SendUpToClose(<<"fail", "sent">>) /\ ~SendUpToClose(<< >>)
  BY <1>1 DEF Answer, Undue, More, Send, Sent, Recv, SendUpToClose
<1>11. ~Fail /\ ~Shut /\ ~Forget
  BY <1>1 DEF Fail, Shut, Forget
<1>12. ~HandshakeCompletes
  <2> SUFFICES ASSUME HandshakeCompletes PROVE FALSE
    OBVIOUS
  <2>1. Current \in Channels /\ Hear(Current, "channel_handshake_complete")
    BY <1>r, Checking DEF HandshakeCompletes, MayActivate
  <2> QED
    BY <1>2, <1>3, <2>1
<1>13. ~Deactivate
  <2> SUFFICES ASSUME Deactivate PROVE FALSE
    OBVIOUS
  <2>1. Current \in Channels /\ Hear(Current, "channel_inactive")
    BY <1>1, <1>r DEF Deactivate, At
  <2> QED
    BY <1>2, <1>3, <2>1
<1>14. ~Unregister
  <2> SUFFICES ASSUME Unregister PROVE FALSE
    OBVIOUS
  <2>1. Current \in Channels /\ Hear(Current, "channel_unregistered")
    BY <1>1, <1>r DEF Unregister, At
  <2> QED
    BY <1>2, <1>3, <2>1
<1>15. Activate
  BY <1>7, <1>8, <1>9, <1>10, <1>11, <1>12, <1>13, <1>14 DEF LibraryStep
<1>16. c = Current
  <2>1. Hear(Current, "channel_active") /\ Current \in Channels
    BY <1>1, <1>r, <1>15 DEF Activate, At
  <2>2. c # Current => heard'[c] = heard[c]
    BY <2>1 DEF Hear, LifecycleInv, Shape
  <2> QED
    BY <2>2, ToldNothing
<1> QED
  BY <1>15, <1>16

\* channel_active is invoked only on a channel whose socket is open and whose
\* connect is neither under way nor failed: nothing that runs between the check of
\* SO_ERROR in _check_channel_active and _activate_channel closes it.  The discipline
\* is needed: a handler that closes its channel in channel_handshake_complete is
\* told afterwards that it is active.
THEOREM ActiveMeansOpen == ASSUME Discipline PROVE Spec => ActiveIsOpen
<1> DEFINE A == \A c \in Channels : heard'[c] = Append(heard[c], "channel_active")
                                  => Open(c) /\ net[c] \notin {"connecting", "failed"}
<1>1. LifecycleInv /\ [Next]_vars => [A]_vars
  <2> SUFFICES ASSUME LifecycleInv, Next, NEW c \in Channels,
                      heard'[c] = Append(heard[c], "channel_active")
               PROVE Open(c) /\ net[c] \notin {"connecting", "failed"}
    OBVIOUS
  <2>1. Activate /\ c = Current
    BY ActiveByActivate, LifecycleAssumption
  <2>2. Relies("activate", Current)
    BY <2>1, Running DEF Activate, At
  <2> QED
    BY <2>1, <2>2 DEF Relies, Open
<1> QED
  BY <1>1, LifecycleInvariance, PTL DEF Spec, ActiveIsOpen

\* Where moreover no connect fails unnoticed as it begins (the result of connect_ex
\* is not looked at), the socket that becomes active is connected.
THEOREM ActiveMeansConnected ==
  ASSUME Discipline, "unconnected" \notin Outcomes
  PROVE Spec => ActiveIsConnected
<1> DEFINE A == \A c \in Channels : heard'[c] = Append(heard[c], "channel_active")
                                  => Open(c) /\ net[c] \notin {"connecting", "failed"}
           B == \A c \in Channels : heard'[c] = Append(heard[c], "channel_active")
                                  => Open(c) /\ net[c] = "connected"
<1>1. LifecycleInv /\ [A]_vars => [B]_vars
  <2>1. ASSUME LifecycleInv, NEW c \in Channels, Open(c), net[c] \notin {"connecting", "failed"}
        PROVE net[c] = "connected"
    <3>1. net[c] # "none" /\ net[c] \in {"none", "connecting", "connected", "failed"} \cup Outcomes
      BY <2>1 DEF LifecycleInv, Shape, Open
    <3>2. Outcomes \subseteq {"connecting", "connected"}
      BY LifecycleAssumption
    <3> QED
      BY <2>1, <3>1, <3>2
  <2> QED
    BY <2>1
<1> QED
  BY <1>1, ActiveMeansOpen, LifecycleInvariance, PTL DEF ActiveIsOpen, ActiveIsConnected
=============================================================================

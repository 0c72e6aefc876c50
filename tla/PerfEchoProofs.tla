---------------------------- MODULE PerfEchoProofs ----------------------------
(***************************************************************************)
(* What the record of a run says, proved for any number of connections and *)
(* messages, any sizes and any faults: the result is built after the last  *)
(* thing that is recorded in it; a run that passes got every echo; and     *)
(* what fails one is a fault or a timeout, where connections have one      *)
(* sender each.                                                            *)
(***************************************************************************)
EXTENDS PerfEcho, SequenceTheorems, FiniteSetTheorems, TLAPS

Lines == {"idle", "check", "write", "load", "store"}

\* The line a thread is at in send_next, and its locals.
Sends == [line : Lines, sequence : Nat, base : Nat]

\* As much of the types as the argument needs.
ShapeInv ==
  /\ at \in Nat \ {0}
  /\ sent \in [Conns -> Nat]
  /\ sender \in [Conns -> [Callers -> Sends]]
  /\ DOMAIN link = Conns /\ DOMAIN client = Conns /\ DOMAIN buffer = Conns

\* The main thread is in send_next for the connection it is at, while it sends ...
MainInv == \A c \in Conns :
  sender[c]["main"].line # "idle" => engine = "py-netty" /\ phase = "send" /\ at = c

\* ... callbacks are of the py-netty engine, and it has no clients of the others ...
EngineInv ==
  /\ engine = "py-netty" => \A c \in Conns : client[c] = "none"
  /\ engine # "py-netty" =>
       /\ phase # "close"
       /\ \A c \in Conns : sender[c]["loop"].line = "idle"

\* ... whose channels it leaves closed, and no callback running in them.
Quiet(c) == link[c] # "open" /\ ~InCallback(c)

ClosedInv ==
  engine = "py-netty" =>
    /\ phase = "close" => \A c \in Conns : c < at => Quiet(c)
    /\ phase \in {"exit", "built"} => \A c \in Conns : Quiet(c)

BuiltInv == phase = "built" => \A c \in Conns : client[c] \in {"none", "cancelled", "over"}

FinalInv == ShapeInv /\ MainInv /\ EngineInv /\ ClosedInv /\ BuiltInv

LEMMA Numbers ==
  /\ N \in Nat \ {0} /\ Conns = 1 .. N /\ Messages \in Nat /\ Size \in Nat
BY PerfAssumption DEF PerfAssumption, Conns

LEMMA FinalInitial == Init => FinalInv
BY Numbers DEF Init, Idle, Callers, Lines, Sends, FinalInv, ShapeInv, MainInv, EngineInv, ClosedInv,
     BuiltInv

LEMMA SendsChange ==
  ASSUME NEW r \in Sends, NEW l \in Lines, NEW n \in Nat
  PROVE /\ [r EXCEPT !.line = l] \in Sends
        /\ [r EXCEPT !.line = l, !.sequence = n] \in Sends
        /\ [r EXCEPT !.line = l, !.base = n] \in Sends
        /\ Idle \in Sends /\ [Idle EXCEPT !.line = "check"] \in Sends
<1>1. [r EXCEPT !.line = l] \in Sends
  BY DEF Sends
<1>2. [r EXCEPT !.line = l, !.sequence = n] \in Sends
  BY DEF Sends
<1>3. [r EXCEPT !.line = l, !.base = n] \in Sends
  BY DEF Sends
<1>4. Idle \in Sends
  BY DEF Sends, Idle, Lines
<1>5. [Idle EXCEPT !.line = "check"] \in Sends
  BY DEF Sends, Idle, Lines
<1> QED
  BY <1>1, <1>2, <1>3, <1>4, <1>5

LEMMA SenderChange ==
  ASSUME NEW f \in [Conns -> [Callers -> Sends]], NEW c \in Conns, NEW who \in Callers,
         NEW r \in Sends, NEW g, g = [f EXCEPT ![c][who] = r]
  PROVE /\ g \in [Conns -> [Callers -> Sends]]
        /\ \A d \in Conns : \A other \in Callers :
             d # c \/ other # who => g[d][other] = f[d][other]
        /\ g[c][who] = r
OBVIOUS

\* What a callback or the main thread does inside send_next.
LEMMA SendShape ==
  ASSUME FinalInv, NEW c \in Conns, NEW who \in Callers, SendNext(c, who)
  PROVE ShapeInv' /\ UNCHANGED <<case, run, link, buffer, client, phase, timedOut>>
<1> DEFINE here == sender[c][who]
<1>t. ShapeInv /\ here \in Sends /\ here.base \in Nat
  BY DEF FinalInv, ShapeInv, Sends
<1>l. {"write", "load", "store"} \subseteq Lines
  BY DEF Lines
<1>1. CASE SendCheck(c, who)
  <2>1. CASE sent[c] >= Messages
    <3>1. /\ sender' = [sender EXCEPT ![c][who] = Idle]
          /\ at' = at \/ at' = at + 1
      BY <1>1, <2>1 DEF SendCheck, Proceed
    <3>2. Idle \in Sends
      BY <1>t, <1>l, SendsChange
    <3>3. sender' \in [Conns -> [Callers -> Sends]]
      BY <1>t, <3>1, <3>2, SenderChange DEF ShapeInv
    <3> QED
      BY <1>t, <1>1, <3>1, <3>3 DEF SendCheck, net, states, ShapeInv
  <2>2. CASE ~(sent[c] >= Messages)
    <3>1. /\ sender' = [sender EXCEPT ![c][who] = [here EXCEPT !.line = "write", !.sequence = sent[c]]]
          /\ at' = at
      <4>1. /\ sender' = [sender EXCEPT ![c][who].line = "write", ![c][who].sequence = sent[c]]
            /\ at' = at
        BY <1>1, <2>2, Zenon DEF SendCheck
      <4> QED
        BY <4>1
    <3>2. sent[c] \in Nat
      BY <1>t DEF ShapeInv
    <3>3. [here EXCEPT !.line = "write", !.sequence = sent[c]] \in Sends
      BY <1>t, <1>l, <3>2, SendsChange
    <3>4. sender' \in [Conns -> [Callers -> Sends]]
      BY <1>t, <3>1, <3>3, SenderChange DEF ShapeInv
    <3> QED
      BY <1>t, <1>1, <3>1, <3>4 DEF SendCheck, net, states, ShapeInv
  <2> QED
    BY <2>1, <2>2
<1>2. CASE SendWrite(c, who)
  <2>1. sender' = [sender EXCEPT ![c][who] = [here EXCEPT !.line = "load"]]
    BY <1>2 DEF SendWrite
  <2>2. [here EXCEPT !.line = "load"] \in Sends
    BY <1>t, <1>l, SendsChange
  <2>3. sender' \in [Conns -> [Callers -> Sends]]
    BY <1>t, <2>1, <2>2, SenderChange DEF ShapeInv
  <2> QED
    BY <1>t, <1>2, <2>3 DEF SendWrite, states, main, ShapeInv
<1>3. CASE SendLoad(c, who)
  <2>1. sender' = [sender EXCEPT ![c][who] = [here EXCEPT !.line = "store", !.base = sent[c]]]
    BY <1>3 DEF SendLoad
  <2>2. [here EXCEPT !.line = "store", !.base = sent[c]] \in Sends
    <3>1. sent[c] \in Nat
      BY <1>t DEF ShapeInv
    <3> QED
      BY <1>t, <1>l, <3>1, SendsChange
  <2>3. sender' \in [Conns -> [Callers -> Sends]]
    BY <1>t, <2>1, <2>2, SenderChange DEF ShapeInv
  <2> QED
    BY <1>t, <1>3, <2>3 DEF SendLoad, net, states, main, ShapeInv
<1>4. CASE SendStore(c, who)
  <2>1. PICK next \in {Idle, [Idle EXCEPT !.line = "check"]} :
          /\ sender' = [sender EXCEPT ![c][who] = next]
          /\ sent' = [sent EXCEPT ![c] = here.base + 1]
          /\ at' = at \/ at' = at + 1
    BY <1>4 DEF SendStore, Proceed
  <2>2. next \in Sends
    BY <1>t, <1>l, SendsChange
  <2>3. sender' \in [Conns -> [Callers -> Sends]]
    BY <1>t, <2>1, <2>2, SenderChange DEF ShapeInv
  <2>4. sent' \in [Conns -> Nat] /\ at' \in Nat \ {0}
    BY <1>t, <2>1 DEF ShapeInv
  <2> QED
    BY <1>t, <1>4, <2>3, <2>4 DEF SendStore, net, ShapeInv
<1> QED
  BY <1>1, <1>2, <1>3, <1>4 DEF SendNext

\* A step that leaves connections, buffers and callbacks alone.
LEMMA QuietFrame ==
  ASSUME NEW c \in Conns, Quiet(c), sender'[c]["loop"].line = sender[c]["loop"].line,
         buffer'[c] = buffer[c], link'[c] = link[c] \/ link'[c] # "open"
  PROVE Quiet(c)'
BY DEF Quiet, InCallback

LEMMA SendStep ==
  ASSUME FinalInv, NEW c \in Conns, NEW who \in Callers, SendNext(c, who)
  PROVE FinalInv'
<1> USE DEF FinalInv
<1>1. ShapeInv' /\ UNCHANGED <<case, run, link, buffer, client, phase, timedOut>>
  BY SendShape
<1>2. /\ sender[c][who].line # "idle"
      /\ \A d \in Conns : \A other \in Callers :
           d # c \/ other # who => sender'[d][other] = sender[d][other]
  BY DEF SendNext, SendCheck, SendWrite, SendLoad, SendStore, Proceed, ShapeInv
<1>3. who # "main" => at' = at
  BY DEF SendNext, SendCheck, SendWrite, SendLoad, SendStore, Proceed, main
<1>4. at' # at => sender'[c]["main"].line = "idle"
  BY DEF SendNext, SendCheck, SendWrite, SendLoad, SendStore, Proceed, main, Idle, ShapeInv, Callers
<1>5. "main" \in Callers /\ "loop" \in Callers
  BY DEF Callers
<1>6. MainInv'
  <2> SUFFICES ASSUME NEW d \in Conns, sender'[d]["main"].line # "idle"
               PROVE engine' = "py-netty" /\ phase' = "send" /\ at' = d
    BY DEF MainInv
  <2>1. sender[d]["main"].line # "idle"
    BY <1>2, <1>5
  <2>2. at = d
    BY <2>1 DEF MainInv
  <2>3. at' = at
    BY <1>2, <1>3, <1>4, <1>5, <2>1 DEF MainInv
  <2> QED
    BY <1>1, <2>1, <2>2, <2>3 DEF MainInv, case
<1>7. EngineInv'
  BY <1>1, <1>2, <1>5 DEF EngineInv, MainInv, case, Callers
<1>8. ClosedInv'
  <2>1. CASE who = "main"
    BY <1>1, <1>2, <2>1 DEF ClosedInv, MainInv, case
  <2>2. CASE who = "loop"
    <3>1. ~Quiet(c)
      BY <1>2, <2>2 DEF Quiet, InCallback
    <3>2. \A d \in Conns : Quiet(d) => Quiet(d)'
      BY <1>1, <1>2, <1>5, <3>1, QuietFrame
    <3> QED
      BY <1>1, <1>3, <2>2, <3>2 DEF ClosedInv, case
  <2> QED
    BY <2>1, <2>2 DEF Callers
<1>9. BuiltInv'
  BY <1>1 DEF BuiltInv
<1> QED
  BY <1>1, <1>6, <1>7, <1>8, <1>9

\* Steps of the network, which may close connections, and of the clients that are
\* no callbacks.
LEMMA OutsideStep ==
  ASSUME FinalInv, UNCHANGED <<case, sent, sender, main>>,
         DOMAIN link' = Conns, DOMAIN client' = Conns, DOMAIN buffer' = Conns,
         \A c \in Conns : link'[c] = link[c] \/ link'[c] # "open",
         engine = "py-netty" => UNCHANGED <<buffer, client>>,
         phase = "built" => UNCHANGED client
  PROVE FinalInv'
<1> USE DEF FinalInv
<1>1. ShapeInv' /\ MainInv' /\ BuiltInv'
  BY DEF ShapeInv, MainInv, BuiltInv, main, case
<1>2. EngineInv'
  BY DEF EngineInv, main, case
<1>3. ClosedInv'
  <2> SUFFICES ASSUME engine = "py-netty" PROVE ClosedInv'
    BY DEF ClosedInv, case
  <2>1. \A c \in Conns : Quiet(c) => Quiet(c)'
    BY QuietFrame
  <2> QED
    BY <2>1 DEF ClosedInv, main, case
<1> QED
  BY <1>1, <1>2, <1>3

\* The main thread goes on to another phase than that of closing channels, or
\* stays in one before it.
LEMMA PhaseStep ==
  ASSUME FinalInv, UNCHANGED <<case, link, buffer, sent, sender, client>>, at' \in Nat \ {0},
         \A c \in Conns : sender[c]["main"].line = "idle",
         phase' \in {"connect", "send", "wait"}
  PROVE FinalInv'
BY DEF FinalInv, ShapeInv, MainInv, EngineInv, ClosedInv, BuiltInv, case

LEMMA FinalStep == ASSUME FinalInv, [Next]_vars PROVE FinalInv'
<1> USE DEF FinalInv
<1>i. ASSUME phase # "send" PROVE \A c \in Conns : sender[c]["main"].line = "idle"
  BY <1>i DEF MainInv
<1>1. ASSUME NEW c \in Conns, NEW who \in Callers, SendNext(c, who) PROVE FinalInv'
  BY <1>1, SendStep
<1>2. ASSUME NEW c \in Conns, Feed(c) PROVE FinalInv'
  <2>1. /\ UNCHANGED <<case, link, sent, sender, client, main>> /\ ~Quiet(c)
        /\ DOMAIN buffer' = Conns /\ \A d \in Conns \ {c} : buffer'[d] = buffer[d]
    BY <1>2 DEF Feed, states, Quiet, ShapeInv
  <2>2. \A d \in Conns : Quiet(d) => Quiet(d)'
    BY <2>1, QuietFrame
  <2> QED
    BY <2>1, <2>2 DEF ShapeInv, MainInv, EngineInv, ClosedInv, BuiltInv, case, main
<1>3. ASSUME NEW c \in Conns, HandleFrame(c) PROVE FinalInv'
  <2>0. buffer' = [buffer EXCEPT ![c] = SubSeq(@, Size + 1, Len(@))]
    BY <1>3 DEF HandleFrame, TakeFrame
  <2>a. ~Quiet(c)
    BY <1>3 DEF HandleFrame, Quiet, InCallback
  <2>b. UNCHANGED <<case, link, sent, client, main>> /\ engine = "py-netty"
    BY <1>3 DEF HandleFrame, net
  <2>c. DOMAIN buffer' = Conns /\ \A d \in Conns \ {c} : buffer'[d] = buffer[d]
    BY <2>0 DEF ShapeInv
  <2>1. /\ UNCHANGED <<case, link, sent, client, main>> /\ ~Quiet(c) /\ engine = "py-netty"
        /\ DOMAIN buffer' = Conns /\ \A d \in Conns \ {c} : buffer'[d] = buffer[d]
    BY <2>a, <2>b, <2>c
  <2>2. sender' = sender \/ sender' = [sender EXCEPT ![c]["loop"].line = "check"]
    BY <1>3 DEF HandleFrame
  <2>3. /\ sender' \in [Conns -> [Callers -> Sends]]
        /\ \A d \in Conns : sender'[d]["main"].line = sender[d]["main"].line
        /\ \A d \in Conns \ {c} : sender'[d] = sender[d]
    <3>1. CASE sender' = sender
      BY <3>1 DEF ShapeInv
    <3>2. CASE sender' = [sender EXCEPT ![c]["loop"].line = "check"]
      <4> DEFINE here == sender[c]["loop"]
      <4>1. "loop" \in Callers /\ "main" \in Callers /\ "check" \in Lines
        BY DEF Callers, Lines
      <4>2. here \in Sends
        BY <4>1 DEF ShapeInv
      <4>3. [here EXCEPT !.line = "check"] \in Sends
        BY <4>1, <4>2, SendsChange
      <4>4. sender' = [sender EXCEPT ![c]["loop"] = [here EXCEPT !.line = "check"]]
        BY <3>2
      <4>5. /\ sender' \in [Conns -> [Callers -> Sends]]
            /\ \A d \in Conns : sender'[d]["main"] = sender[d]["main"]
        BY <4>1, <4>3, <4>4, SenderChange DEF ShapeInv
      <4>6. \A d \in Conns \ {c} : sender'[d] = sender[d]
        BY <4>4 DEF ShapeInv
      <4> QED
        BY <4>5, <4>6
    <3> QED
      BY <2>2, <3>1, <3>2
  <2>4. \A d \in Conns : Quiet(d) => Quiet(d)'
    BY <2>1, <2>3, QuietFrame
  <2> QED
    BY <2>1, <2>3, <2>4 DEF ShapeInv, MainInv, EngineInv, ClosedInv, BuiltInv, case, main
<1>4. ASSUME NEW c \in Conns, Break(c) \/ Corrupt(c) \/ LateConnect(c) PROVE FinalInv'
  BY <1>4, OutsideStep DEF Break, Corrupt, LateConnect, states, ShapeInv
<1>5. ASSUME NEW c \in Conns, Connected(c) \/ ConnectFails(c) PROVE FinalInv'
  <2>1. /\ phase = "connect" /\ phase' = phase /\ at' \in Nat \ {0}
        /\ UNCHANGED <<case, buffer, sent, sender, client>> /\ DOMAIN link' = Conns
    BY <1>5 DEF Connected, ConnectFails, states, ShapeInv
  <2> QED
    BY <1>i, <2>1 DEF ShapeInv, MainInv, EngineInv, ClosedInv, BuiltInv, case
<1>6. ASSUME NEW c \in Conns, ClientSends(c) PROVE FinalInv'
  <2>1. client[c] = "send"
    BY <1>6 DEF ClientSends
  <2>2. engine # "py-netty" /\ phase # "built"
    BY <2>1 DEF EngineInv, BuiltInv
  <2>3. sent' \in [Conns -> Nat] /\ DOMAIN client' = Conns
    BY <1>6 DEF ClientSends, ShapeInv
  <2> QED
    BY <1>6, <2>2, <2>3 DEF ClientSends, ShapeInv, MainInv, EngineInv, ClosedInv, BuiltInv, case,
                            main
<1>7. ASSUME NEW c \in Conns,
             ClientReceives(c) \/ ClientChecks(c) \/ ClientFails(c) \/ WaitClosed(c)
      PROVE FinalInv'
  <2>1. client[c] \in {"send", "receive", "closing", "cancelling"}
    BY <1>7 DEF ClientReceives, ClientChecks, ClientFails, WaitClosed
  <2>2. engine # "py-netty" /\ phase # "built"
    BY <2>1 DEF EngineInv, BuiltInv
  <2>3. /\ UNCHANGED <<case, sent, sender, main>>
        /\ DOMAIN link' = Conns /\ DOMAIN client' = Conns /\ DOMAIN buffer' = Conns
        /\ \A d \in Conns : link'[d] = link[d] \/ link'[d] # "open"
    BY <1>7 DEF ClientReceives, ClientChecks, ClientFails, WaitClosed, ClientEnds, TakeFrame, states,
                ShapeInv
  <2> QED
    BY <2>2, <2>3, OutsideStep
<1>8. CASE AllConnected \/ ConnectTimesOut
  BY <1>8, <1>i, PhaseStep DEF AllConnected, ConnectTimesOut, Become, net, states
<1>9. CASE StartSending
  <2>1. /\ at \in Conns /\ phase = "send" /\ engine = "py-netty"
        /\ UNCHANGED <<case, link, buffer, sent, client, phase>>
    BY <1>9, Numbers DEF StartSending, states, net, ShapeInv
  <2>2. \A c \in Conns : sender[c]["main"].line = "idle"
    BY <1>9 DEF StartSending, MainInv
  <2>3. CASE at' = at + 1 /\ sender' = sender
    BY <2>1, <2>2, <2>3, PhaseStep DEF ShapeInv
  <2>4. CASE sender' = [sender EXCEPT ![at]["main"].line = "check"] /\ at' = at
    <3>1. sender' \in [Conns -> [Callers -> Sends]]
      BY <2>1, <2>4 DEF ShapeInv, Callers, Lines, Sends
    <3>2. \A c \in Conns : c # at => sender'[c] = sender[c]
      BY <2>4 DEF ShapeInv
    <3> QED
      BY <2>1, <2>2, <2>4, <3>1, <3>2
      DEF ShapeInv, MainInv, EngineInv, ClosedInv, BuiltInv, case
  <2> QED
    BY <1>9, <2>3, <2>4 DEF StartSending
<1>10. CASE AllSent
  <2>1. \A c \in Conns : c # at
    BY <1>10, Numbers DEF AllSent, ShapeInv
  <2>2. \A c \in Conns : sender[c]["main"].line = "idle"
    BY <2>1 DEF MainInv
  <2> QED
    BY <1>10, <2>2, PhaseStep DEF AllSent, Become, net, states
<1>11. CASE StartClients
  <2>1. /\ engine # "py-netty" /\ phase' = "wait" /\ at' = 1 /\ DOMAIN client' = Conns
        /\ UNCHANGED <<case, link, buffer, sent, sender>>
    BY <1>11 DEF StartClients, Become, net, states
  <2> QED
    BY <2>1 DEF ShapeInv, MainInv, EngineInv, ClosedInv, BuiltInv, case
<1>12. CASE Wait
  <2>1. /\ engine = "py-netty" /\ phase = "wait" /\ phase' = "close" /\ at' = 1
        /\ UNCHANGED <<case, link, buffer, sent, sender, client>>
    BY <1>12 DEF Wait, Become, net, states
  <2> QED
    BY <1>i, <2>1, Numbers DEF ShapeInv, MainInv, EngineInv, ClosedInv, BuiltInv, case
<1>13. CASE Gather \/ CancelClients \/ CancelAgain \/ Collect
  <2>1. /\ engine # "py-netty" /\ phase' \in {"cancel", "exit"} /\ at' = 1
        /\ DOMAIN client' = Conns
        /\ UNCHANGED <<case, link, buffer, sent, sender>>
    BY <1>13 DEF Gather, CancelClients, CancelAgain, Collect, Become, states, net, Started, ShapeInv,
                 EngineInv
  <2> QED
    BY <2>1 DEF ShapeInv, MainInv, EngineInv, ClosedInv, BuiltInv, case
<1>14. CASE CloseChannel
  <2>1. /\ phase = "close" /\ at \in Conns /\ ~InCallback(at)
        /\ at' = at + 1 /\ phase' = phase
        /\ UNCHANGED <<case, buffer, sent, sender, client>>
        /\ link' = [link EXCEPT ![at] = IF @ = "failed" THEN @ ELSE "closed"]
    BY <1>14, Numbers DEF CloseChannel, states, ShapeInv
  <2>2. /\ DOMAIN link' = Conns /\ link'[at] # "open"
        /\ \A c \in Conns : link'[c] = link[c] \/ link'[c] # "open"
    BY <2>1 DEF ShapeInv
  <2>3. \A c \in Conns : Quiet(c) => Quiet(c)'
    BY <2>1, <2>2, QuietFrame
  <2>4. \A c \in Conns : c = at => Quiet(c)'
    BY <2>1, <2>2 DEF Quiet, InCallback
  <2>5. \A c \in Conns : c < at + 1 => c < at \/ c = at
    BY <2>1, Numbers
  <2> QED
    BY <2>1, <2>2, <2>3, <2>4, <2>5 DEF ShapeInv, MainInv, EngineInv, ClosedInv, BuiltInv, case
<1>15. CASE AllClosed
  <2>1. /\ phase = "close" /\ phase' = "exit" /\ at' = 1
        /\ UNCHANGED <<case, link, buffer, sent, sender, client>>
    BY <1>15 DEF AllClosed, Become, net, states
  <2>2. \A c \in Conns : c < at
    BY <1>15, Numbers DEF AllClosed, ShapeInv
  <2>3. \A c \in Conns : Quiet(c) => Quiet(c)'
    BY <2>1, QuietFrame
  <2> QED
    BY <1>i, <2>1, <2>2, <2>3 DEF ShapeInv, MainInv, EngineInv, ClosedInv, BuiltInv, case
<1>16. CASE Build
  <2>1. /\ phase = "exit" /\ phase' = "built" /\ at' = 1
        /\ UNCHANGED <<case, link, buffer, sent, sender, client>>
        /\ \A c \in Conns : client[c] \in {"none", "cancelled", "over"}
    BY <1>16 DEF Build, Become, net, states
  <2>2. \A c \in Conns : Quiet(c) => Quiet(c)'
    BY <2>1, QuietFrame
  <2> QED
    BY <1>i, <2>1, <2>2 DEF ShapeInv, MainInv, EngineInv, ClosedInv, BuiltInv, case
<1>17. CASE UNCHANGED vars
  BY <1>17, OutsideStep DEF vars, net, states, ShapeInv
<1> QED
  BY <1>1, <1>2, <1>3, <1>4, <1>5, <1>6, <1>7, <1>8, <1>9, <1>10, <1>11, <1>12, <1>13, <1>14,
     <1>15, <1>16, <1>17
  DEF Next, MainSteps, Answers, Worker, Progress, Callers

LEMMA FinalInvariance == Spec => []FinalInv
BY FinalInitial, FinalStep, PTL DEF Spec

\* Nothing is recorded any more once the result of a run is built: no callback, no
\* client and no late connect comes after it.
THEOREM ResultComesLast == Spec => ResultIsFinal
<1>1. ASSUME FinalInv, [Next]_vars PROVE [phase = "built" => UNCHANGED <<run, timedOut>>]_vars
  <2> SUFFICES ASSUME Next, phase = "built" PROVE UNCHANGED <<run, timedOut>>
    BY <1>1
  <2>1. ASSUME NEW c \in Conns PROVE ~HandleFrame(c)
    BY <1>1 DEF HandleFrame, FinalInv, ClosedInv, Quiet, InCallback
  <2>2. ASSUME NEW c \in Conns PROVE ~ClientChecks(c) /\ ~ClientFails(c) /\ ~WaitClosed(c)
    BY <1>1 DEF ClientChecks, ClientFails, WaitClosed, FinalInv, BuiltInv
  <2>3. ASSUME NEW c \in Conns, NEW who \in Callers, SendNext(c, who)
        PROVE UNCHANGED <<run, timedOut>>
    BY <1>1, <2>3, SendShape
  <2>4. ~MainSteps
    BY DEF MainSteps, AllConnected, ConnectTimesOut, StartSending, AllSent, StartClients, Wait,
         Gather, CancelClients, CancelAgain, Collect, CloseChannel, AllClosed, Build
  <2>5. ASSUME NEW c \in Conns, Answers(c) \/ Break(c) \/ Corrupt(c)
        PROVE UNCHANGED <<run, timedOut>>
    BY <2>5 DEF Answers, Connected, ConnectFails, LateConnect, Break, Corrupt, main
  <2>6. ASSUME NEW c \in Conns, Feed(c) \/ ClientSends(c) \/ ClientReceives(c)
        PROVE UNCHANGED <<run, timedOut>>
    BY <2>6 DEF Feed, ClientSends, ClientReceives, main
  <2> QED
    BY <2>1, <2>2, <2>3, <2>4, <2>5, <2>6 DEF Next, Worker, Progress, Callers
<1> QED
  BY <1>1, FinalInvariance, PTL DEF Spec, ResultIsFinal

-----------------------------------------------------------------------------
(* What the record of a run counts                                         *)

Completed == {c \in Conns : complete[c]}
Received == {p \in Conns \X (1 .. Messages) : p[2] <= received[p[1]]}

\* TypeOK, but for the bounds of the counters.
TypeInv ==
  /\ case \in Cases
  /\ run \in [done : BOOLEAN, completed : Nat, received : Nat,
              errors : SUBSET {"connect", "frame", "client", "timeout"}]
  /\ link \in [Conns -> {"none", "open", "failed", "broken", "closed"}]
  /\ {stream, buffer} \subseteq [Conns -> Seq(Int \X Nat)]
  /\ received \in [Conns -> 0 .. Messages] /\ complete \in [Conns -> BOOLEAN]
  /\ client \in [Conns -> {"none", "send", "receive", "closing", "cancelling", "cancelled", "over"}]
  /\ phase \in {"connect", "send", "wait", "cancel", "close", "exit", "built"}
  /\ at \in 1 .. N + 1
  /\ timedOut \in BOOLEAN
  /\ faults \in 0 .. MaxFaults /\ corrupted \in BOOLEAN

\* The counters are sums over the clients, and a run without an error is done when
\* all clients are.
CountInv ==
  /\ run.completed = Cardinality(Completed)
  /\ run.received = Cardinality(Received)
  /\ \A c \in Conns : complete[c] <=> received[c] = Messages
  /\ run.done => run.errors # {} \/ run.completed = N

-----------------------------------------------------------------------------
(* What is on its way to a client                                          *)

Flight(c) == buffer[c] \o stream[c]

\* Every unit is of a frame that there is, or a wrong echo.
UnitsInv == \A c \in Conns : \A i \in DOMAIN Flight(c) : Flight(c)[i][1] < Messages

One(condition) == IF condition THEN 1 ELSE 0

\* A frame is written, and not counted as sent.
Uncounted(c, who) == sender[c][who].line \in {"load", "store"}

\* One thread or task alone sends on each connection.
Unshared == engine # "py-netty" \/ ~sequential

\* Frames are counted in order, and a client has no more frames on their way than
\* it sent and did not receive.
Written(c) == sent[c] + One(Uncounted(c, "main"))

Alone(c) ==
  /\ sender[c]["loop"].line = "idle"
  /\ sent[c] <= Messages
  /\ received[c] <= Written(c)
  /\ Len(Flight(c)) <= (Written(c) - received[c]) * Size
  /\ sender[c]["main"].line = "write" => sender[c]["main"].sequence = sent[c]
  /\ sender[c]["main"].line = "store" => sender[c]["main"].base = sent[c]
  /\ sender[c]["main"].line \in {"write", "load", "store"} => sent[c] < Messages
  /\ engine # "py-netty" /\ phase \in {"connect", "send"} => client[c] = "none" /\ sent[c] = 0
  /\ client[c] = "send" => sent[c] < Messages
  /\ sequential /\ client[c] = "send" => sent[c] = received[c]
  /\ sequential /\ client[c] = "receive" => sent[c] = received[c] + 1

AloneInv == Unshared => \A c \in Conns : Alone(c)

\* The main thread has not written the first frame of a connection.
MainOwes(c) ==
  \/ phase = "connect"
  \/ phase = "send" /\ (at < c \/ (at = c /\ sender[c]["main"].line \in {"idle", "check", "write"}))

\* A callback is about to write the next frame.
LoopOwes(c) == sender[c]["loop"].line \in {"check", "write"}

Quota(c) == IF received[c] < Messages THEN received[c] + 1 ELSE Messages

\* When the main thread and a callback both send, no more than one frame is on its
\* way, and increments may be lost but are no more than what was written.
Shared(c) ==
  /\ MainOwes(c) => sent[c] = 0 /\ received[c] = 0 /\ sender[c]["loop"].line = "idle"
  /\ LoopOwes(c) => received[c] < Messages
  /\ MainOwes(c) \/ LoopOwes(c) \/ received[c] = Messages => Flight(c) = << >>
  /\ Len(Flight(c)) <= Size
  /\ \A who \in Callers : sender[c][who].line = "write" => sender[c][who].sequence < Messages
  /\ sent[c] + One(Uncounted(c, "main")) + One(Uncounted(c, "loop"))
       + One(MainOwes(c)) + One(LoopOwes(c)) <= Quota(c)
  /\ sender[c]["main"].line = "store" =>
       sender[c]["main"].base + 1 + One(Uncounted(c, "loop")) + One(LoopOwes(c)) <= Quota(c)
  /\ sender[c]["loop"].line = "store" =>
       sender[c]["loop"].base + 1 + One(Uncounted(c, "main")) <= Quota(c)

SharedInv == ~Unshared => \A c \in Conns : Shared(c)

-----------------------------------------------------------------------------
(* A wrong echo is missed in the end                                       *)

Due(c) == (Messages - received[c]) * Size

\* A client that will not see the end: a wrong echo is before it, or the connection
\* is gone and not all of it has come.
Doomed(c) ==
  \/ \E i \in DOMAIN Flight(c) : i <= Due(c) /\ Flight(c)[i] = <<-1, 0>>
  \/ link[c] \notin {"none", "open"} /\ Len(Flight(c)) < Due(c)

DoomInv == corrupted => run.errors # {} \/ \E c \in Conns : Doomed(c)

-----------------------------------------------------------------------------
(* A client that failed, or was not waited for, is reported                *)

\* The states of a client that has ended by itself, or was never started.
Ended == {"none", "closing", "over"}

ReportInv ==
  /\ \A c \in Conns : link[c] = "failed" => run.errors # {}
  /\ engine # "asyncio" /\ phase \in {"close", "exit", "built"} /\ ~timedOut => run.done
  /\ phase = "cancel" => timedOut
  /\ engine = "asyncio" => \A c \in Conns :
       /\ phase = "send" => link[c] # "none" /\ link[c] # "closed"
       /\ phase = "wait" /\ client[c] \in Ended => complete[c] \/ run.errors # {}
       /\ phase \in {"exit", "built"} /\ ~timedOut => complete[c] \/ run.errors # {}
       /\ phase \in {"connect", "send"} => client[c] = "none"
       /\ phase = "connect" => link[c] # "closed"

-----------------------------------------------------------------------------
(* Without a fault, each client gets its frames                            *)

\* The bytes on their way to a client are what was written and not received, in order.
Exact(c) ==
  /\ Len(Flight(c)) = (Written(c) - received[c]) * Size
  /\ \A q \in Nat, i \in 1 .. Size :
       received[c] <= q /\ (q - received[c]) * Size + i <= Len(Flight(c)) =>
         Flight(c)[(q - received[c]) * Size + i] = <<q, i>>

\* A connection of py-netty is there while the main thread sends.
Sound(c) ==
  /\ link[c] \notin {"broken", "failed"}
  /\ engine = "py-netty" /\ phase = "connect" => link[c] \in {"none", "open"}
  /\ engine = "py-netty" /\ phase \in {"send", "wait"} => link[c] = "open"

CleanInv == Unshared /\ faults = 0 =>
  run.errors \subseteq {"timeout"} /\ \A c \in Conns : Sound(c) /\ Exact(c)

EchoInv == TypeInv /\ CountInv /\ UnitsInv /\ AloneInv /\ SharedInv /\ DoomInv /\ ReportInv
-----------------------------------------------------------------------------
(* Lemmas about the bytes on their way                                     *)

Units == Int \X Nat

LEMMA FrameIs ==
  ASSUME NEW q \in Int
  PROVE /\ Frame(q) \in Seq(Units) /\ Len(Frame(q)) = Size
        /\ \A i \in 1 .. Size : Frame(q)[i] = <<q, i>>
<1>1. Size \in Nat
  BY Numbers
<1> QED
  BY <1>1 DEF Frame, Units

\* A reader moves what has come from the stream to its buffer.
LEMMA Moved ==
  ASSUME NEW b \in Seq(Units), NEW s \in Seq(Units), NEW n \in 1 .. Len(s)
  PROVE /\ b \o SubSeq(s, 1, n) \in Seq(Units) /\ SubSeq(s, n + 1, Len(s)) \in Seq(Units)
        /\ (b \o SubSeq(s, 1, n)) \o SubSeq(s, n + 1, Len(s)) = b \o s
<1> DEFINE head == SubSeq(s, 1, n)
           tail == SubSeq(s, n + 1, Len(s))
<1>1. Len(s) \in Nat /\ n \in Nat /\ n <= Len(s) /\ 1 <= n
  BY LenProperties
<1>2. \A i \in 1 .. Len(s) : s[i] \in Units
  BY ElementOfSeq
<1>3. head \in Seq(Units)
  BY <1>1, <1>2, SubSeqProperties
<1>4. tail \in Seq(Units)
  BY <1>1, <1>2, SubSeqProperties
<1>5. SubSeq(s, 1, n) \o SubSeq(s, n + 1, Len(s)) = SubSeq(s, 1, Len(s))
  BY <1>1, ConcatAdjacentSubSeq
<1>6. head \o tail = s
  BY <1>5, SubSeqFull
<1> HIDE DEF head, tail
<1>7. (b \o head) \o tail = b \o s
  <2>1. (b \o head) \o tail = b \o (head \o tail)
    BY <1>3, <1>4, ConcatAssociative
  <2> QED
    BY <1>6, <2>1
<1>8. b \o head \in Seq(Units)
  BY <1>3, ConcatProperties
<1> QED
  BY <1>4, <1>7, <1>8 DEF head, tail

\* A frame is taken from the front.
LEMMA Taken ==
  ASSUME NEW b \in Seq(Units), NEW s \in Seq(Units), NEW n \in 0 .. Len(b)
  PROVE LET rest == SubSeq(b, n + 1, Len(b)) IN
        /\ rest \in Seq(Units) /\ Len(rest) = Len(b) - n
        /\ Len(rest \o s) = Len(b \o s) - n
        /\ \A i \in 1 .. Len(b \o s) - n : (rest \o s)[i] = (b \o s)[i + n]
        /\ \A i \in 1 .. n : b[i] = (b \o s)[i]
<1> DEFINE rest == SubSeq(b, n + 1, Len(b))
<1>1. Len(b) \in Nat /\ Len(s) \in Nat /\ n \in Nat /\ n <= Len(b)
  BY LenProperties
<1>2. \A i \in 1 .. Len(b) : b[i] \in Units
  BY ElementOfSeq
<1>3. /\ rest \in Seq(Units) /\ Len(rest) = Len(b) - n
      /\ \A i \in 1 .. Len(b) - n : rest[i] = b[i + n]
  <2>1. \A i \in n + 1 .. Len(b) : b[i] \in Units
    BY <1>1, <1>2
  <2>2. /\ rest \in Seq(Units)
        /\ Len(rest) = IF n + 1 <= Len(b) THEN Len(b) - (n + 1) + 1 ELSE 0
        /\ \A i \in 1 .. Len(b) - (n + 1) + 1 : rest[i] = b[n + 1 + i - 1]
    BY <1>1, <2>1, SubSeqProperties
  <2> HIDE DEF rest
  <2> QED
    BY <1>1, <2>2
<1> HIDE DEF rest
<1>4. /\ Len(rest \o s) = Len(rest) + Len(s)
      /\ \A i \in 1 .. Len(rest) + Len(s) :
           (rest \o s)[i] = IF i <= Len(rest) THEN rest[i] ELSE s[i - Len(rest)]
  BY <1>3, ConcatProperties
<1>5. /\ Len(b \o s) = Len(b) + Len(s)
      /\ \A i \in 1 .. Len(b) + Len(s) :
           (b \o s)[i] = IF i <= Len(b) THEN b[i] ELSE s[i - Len(b)]
  BY ConcatProperties
<1>6. \A i \in 1 .. Len(b \o s) - n : (rest \o s)[i] = (b \o s)[i + n]
  <2> TAKE i \in 1 .. Len(b \o s) - n
  <2>1. /\ i \in 1 .. Len(rest) + Len(s) /\ i + n \in 1 .. Len(b) + Len(s)
        /\ (i <= Len(rest) <=> i + n <= Len(b)) /\ (i + n) - Len(b) = i - Len(rest)
        /\ i <= Len(rest) => i \in 1 .. Len(b) - n
    BY <1>1, <1>3, <1>5
  <2>2. CASE i <= Len(rest)
    BY <1>3, <1>4, <1>5, <2>1, <2>2
  <2>3. CASE ~(i <= Len(rest))
    BY <1>4, <1>5, <2>1, <2>3
  <2> QED
    BY <2>2, <2>3
<1>7. \A i \in 1 .. n : b[i] = (b \o s)[i]
  BY <1>1, <1>5
<1>8. Len(rest \o s) = Len(b \o s) - n
  BY <1>1, <1>3, <1>4, <1>5
<1> QED
  BY <1>3, <1>6, <1>7, <1>8 DEF rest

\* The bytes of a connection, one by one.
LEMMA Joined ==
  ASSUME NEW b \in Seq(Units), NEW s \in Seq(Units)
  PROVE /\ b \o s \in Seq(Units) /\ Len(b) \in Nat /\ Len(s) \in Nat
        /\ Len(b \o s) = Len(b) + Len(s) /\ DOMAIN (b \o s) = 1 .. Len(b) + Len(s)
        /\ \A i \in 1 .. Len(b) : (b \o s)[i] = b[i]
        /\ \A i \in 1 .. Len(s) : (b \o s)[Len(b) + i] = s[i]
<1>1. Len(b) \in Nat /\ Len(s) \in Nat
  BY LenProperties
<1>2. /\ b \o s \in Seq(Units) /\ Len(b \o s) = Len(b) + Len(s)
      /\ \A i \in 1 .. Len(b) + Len(s) :
           (b \o s)[i] = IF i <= Len(b) THEN b[i] ELSE s[i - Len(b)]
  BY ConcatProperties
<1>3. DOMAIN (b \o s) = 1 .. Len(b) + Len(s)
  BY <1>2, LenProperties
<1>4. \A i \in 1 .. Len(b) : (b \o s)[i] = b[i]
  BY <1>1, <1>2
<1>5. \A i \in 1 .. Len(s) : (b \o s)[Len(b) + i] = s[i]
  <2> TAKE i \in 1 .. Len(s)
  <2>1. Len(b) + i \in 1 .. Len(b) + Len(s) /\ ~(Len(b) + i <= Len(b)) /\ (Len(b) + i) - Len(b) = i
    BY <1>1
  <2> QED
    BY <1>2, <2>1
<1> QED
  BY <1>1, <1>2, <1>3, <1>4, <1>5

-----------------------------------------------------------------------------
(* What the steps do                                                       *)

LEMMA FlightType ==
  ASSUME TypeInv, NEW c \in Conns
  PROVE /\ stream[c] \in Seq(Units) /\ buffer[c] \in Seq(Units) /\ Flight(c) \in Seq(Units)
        /\ Len(buffer[c]) \in Nat /\ Len(stream[c]) \in Nat /\ Len(Flight(c)) \in Nat
        /\ Len(Flight(c)) = Len(buffer[c]) + Len(stream[c]) /\ Len(buffer[c]) <= Len(Flight(c))
        /\ DOMAIN Flight(c) = 1 .. Len(Flight(c))
        /\ \A i \in 1 .. Len(buffer[c]) : Flight(c)[i] = buffer[c][i]
        /\ \A i \in 1 .. Len(stream[c]) : Flight(c)[Len(buffer[c]) + i] = stream[c][i]
<1>1. stream[c] \in Seq(Units) /\ buffer[c] \in Seq(Units)
  BY DEF TypeInv, Units
<1>2. /\ Flight(c) \in Seq(Units) /\ Len(buffer[c]) \in Nat /\ Len(stream[c]) \in Nat
      /\ Len(Flight(c)) = Len(buffer[c]) + Len(stream[c])
      /\ DOMAIN Flight(c) = 1 .. Len(buffer[c]) + Len(stream[c])
      /\ \A i \in 1 .. Len(buffer[c]) : Flight(c)[i] = buffer[c][i]
      /\ \A i \in 1 .. Len(stream[c]) : Flight(c)[Len(buffer[c]) + i] = stream[c][i]
  BY <1>1, Joined DEF Flight
<1>3. \A p, k \in Nat : p + k \in Nat /\ p <= p + k
  OBVIOUS
<1> QED
  BY <1>1, <1>2, <1>3, Zenon

Typed(f) == f \in [Conns -> Seq(Units)]

LEMMA Associative ==
  \A s, t, u \in Seq(Units) : (s \o t) \o u = s \o (t \o u)
BY ConcatAssociative

\* Reading: Feed of py-netty, ClientReceives of the others.
LEMMA MoveDoes ==
  ASSUME TypeInv, NEW c \in Conns, Feed(c) \/ ClientReceives(c)
  PROVE /\ Typed(stream') /\ Typed(buffer')
        /\ \A d \in Conns : Flight(d)' = Flight(d)
        /\ UNCHANGED <<case, run, link, history, states, sender, client, main>>
<1>1. PICK n \in 1 .. Len(stream[c]) :
        /\ buffer' = [buffer EXCEPT ![c] = @ \o SubSeq(stream[c], 1, n)]
        /\ stream' = [stream EXCEPT ![c] = SubSeq(@, n + 1, Len(@))]
  <2>1. CASE Feed(c)
    BY <2>1 DEF Feed
  <2>2. CASE ClientReceives(c)
    <3>1. PICK n \in 1 .. Size - Len(buffer[c]) :
            /\ n <= Len(stream[c])
            /\ buffer' = [buffer EXCEPT ![c] = @ \o SubSeq(stream[c], 1, n)]
            /\ stream' = [stream EXCEPT ![c] = SubSeq(@, n + 1, Len(@))]
      BY <2>2 DEF ClientReceives
    <3>2. n \in 1 .. Len(stream[c])
      BY <3>1, FlightType, Numbers
    <3> QED
      BY <3>1, <3>2
  <2> QED
    BY <2>1, <2>2
<1>2. Typed(stream) /\ Typed(buffer) /\ stream[c] \in Seq(Units) /\ buffer[c] \in Seq(Units)
  BY FlightType DEF TypeInv, Typed, Units
<1> DEFINE head == buffer[c] \o SubSeq(stream[c], 1, n)
           tail == SubSeq(stream[c], n + 1, Len(stream[c]))
<1>3. head \in Seq(Units) /\ tail \in Seq(Units) /\ head \o tail = Flight(c)
  BY <1>2, Moved DEF Flight
<1>4. buffer' = [buffer EXCEPT ![c] = head] /\ stream' = [stream EXCEPT ![c] = tail]
  BY <1>1
<1> HIDE DEF head, tail
<1>5. /\ Typed(stream') /\ Typed(buffer')
      /\ buffer'[c] = head /\ stream'[c] = tail
      /\ \A d \in Conns : d # c => buffer'[d] = buffer[d] /\ stream'[d] = stream[d]
  BY <1>2, <1>3, <1>4 DEF Typed
<1>6. \A d \in Conns : Flight(d)' = Flight(d)
  BY <1>3, <1>5 DEF Flight
<1> QED
  BY <1>5, <1>6 DEF Feed, ClientReceives

\* Writing: a frame comes behind the bytes on their way, if there is a connection.
LEMMA WriteDoes ==
  ASSUME TypeInv, NEW c \in Conns, NEW q \in Int, WriteFrame(c, q), buffer' = buffer
  PROVE /\ Typed(stream')
        /\ \A d \in Conns : d # c \/ link[c] # "open" => Flight(d)' = Flight(d)
        /\ link[c] = "open" =>
             /\ Len(Flight(c)') = Len(Flight(c)) + Size
             /\ \A i \in 1 .. Len(Flight(c)) : Flight(c)'[i] = Flight(c)[i]
             /\ \A i \in 1 .. Size : Flight(c)'[Len(Flight(c)) + i] = <<q, i>>
<1>1. Typed(stream) /\ stream[c] \in Seq(Units) /\ buffer[c] \in Seq(Units)
  BY FlightType DEF TypeInv, Typed, Units
<1>2. CASE link[c] # "open"
  BY <1>1, <1>2 DEF WriteFrame, Flight
<1>3. CASE link[c] = "open"
  <2> DEFINE more == stream[c] \o Frame(q)
  <2>1. /\ Frame(q) \in Seq(Units) /\ Len(Frame(q)) = Size
        /\ \A i \in 1 .. Size : Frame(q)[i] = <<q, i>>
    BY FrameIs
  <2>2. more \in Seq(Units) /\ buffer[c] \o more = Flight(c) \o Frame(q)
    <3>1. more \in Seq(Units)
      BY <1>1, <2>1, ConcatProperties
    <3>2. (buffer[c] \o stream[c]) \o Frame(q) = buffer[c] \o (stream[c] \o Frame(q))
      BY <1>1, <2>1, Associative, Zenon
    <3> QED
      BY <3>1, <3>2 DEF Flight
  <2>3. stream' = [stream EXCEPT ![c] = more]
    BY <1>3 DEF WriteFrame
  <2> HIDE DEF more
  <2>4. Typed(stream') /\ stream'[c] = more /\ \A d \in Conns : d # c => stream'[d] = stream[d]
    BY <1>1, <2>2, <2>3 DEF Typed
  <2>5. Flight(c)' = Flight(c) \o Frame(q) /\ \A d \in Conns : d # c => Flight(d)' = Flight(d)
    BY <2>2, <2>4 DEF Flight
  <2>6. Flight(c) \in Seq(Units)
    BY FlightType
  <2>7. /\ Len(Flight(c) \o Frame(q)) = Len(Flight(c)) + Len(Frame(q))
        /\ \A i \in 1 .. Len(Flight(c)) : (Flight(c) \o Frame(q))[i] = Flight(c)[i]
        /\ \A i \in 1 .. Len(Frame(q)) : (Flight(c) \o Frame(q))[Len(Flight(c)) + i] = Frame(q)[i]
    BY <2>1, <2>6, Joined
  <2> QED
    BY <1>3, <2>1, <2>4, <2>5, <2>7
<1> QED
  BY <1>2, <1>3

LEMMA BreakDoes ==
  ASSUME TypeInv, NEW c \in Conns, Break(c)
  PROVE /\ Typed(stream') /\ buffer' = buffer
        /\ link[c] = "open" /\ link' = [link EXCEPT ![c] = "broken"]
        /\ faults \in Nat /\ faults < MaxFaults /\ faults' = faults + 1
        /\ \A d \in Conns : d # c => Flight(d)' = Flight(d)
        /\ Flight(c)' = buffer[c]
        /\ UNCHANGED <<case, run, corrupted, buffer, states, sender, client, main>>
<1>1. Typed(stream) /\ buffer[c] \in Seq(Units)
  BY FlightType DEF TypeInv, Typed, Units
<1>2. << >> \in Seq(Units) /\ buffer[c] \o << >> = buffer[c]
  BY <1>1, EmptySeq, ConcatEmptySeq
<1>3. stream' = [stream EXCEPT ![c] = << >>]
  BY DEF Break
<1>4. Typed(stream') /\ stream'[c] = << >> /\ \A d \in Conns : d # c => stream'[d] = stream[d]
  BY <1>1, <1>2, <1>3 DEF Typed
<1>5. faults \in Nat
  BY PerfAssumption DEF TypeInv, PerfAssumption
<1> QED
  BY <1>2, <1>4, <1>5 DEF Break, Flight

LEMMA CorruptDoes ==
  ASSUME TypeInv, NEW c \in Conns, Corrupt(c)
  PROVE /\ Typed(stream') /\ buffer' = buffer
        /\ faults \in Nat /\ faults < MaxFaults /\ faults' = faults + 1 /\ corrupted' = TRUE
        /\ \A d \in Conns : d # c => Flight(d)' = Flight(d)
        /\ Len(Flight(c)') = Len(Flight(c)) /\ DOMAIN Flight(c)' = DOMAIN Flight(c)
        /\ Len(buffer[c]) + 1 \in DOMAIN Flight(c)
        /\ \A i \in DOMAIN Flight(c) :
             Flight(c)'[i] = IF i = Len(buffer[c]) + 1 THEN <<-1, 0>> ELSE Flight(c)[i]
        /\ UNCHANGED <<case, run, link, buffer, states, sender, client, main>>
<1>1. Typed(stream) /\ stream[c] \in Seq(Units) /\ buffer[c] \in Seq(Units)
  BY FlightType DEF TypeInv, Typed, Units
<1>2. stream[c] # << >> /\ Len(stream[c]) \in Nat /\ Len(buffer[c]) \in Nat
  BY <1>1, LenProperties DEF Corrupt
<1>3. Len(stream[c]) >= 1
  BY <1>1, <1>2, EmptySeq
<1> DEFINE p == Len(buffer[c])
           k == Len(stream[c])
<1>a. p \in Nat /\ k \in Nat /\ k >= 1
  BY <1>2, <1>3
<1> HIDE DEF p, k
<1> DEFINE wrong == [stream[c] EXCEPT ![1] = <<-1, 0>>]
<1>4. /\ wrong \in Seq(Units) /\ Len(wrong) = Len(stream[c])
      /\ \A i \in 1 .. Len(stream[c]) : wrong[i] = IF i = 1 THEN <<-1, 0>> ELSE stream[c][i]
  <2>1. <<-1, 0>> \in Units /\ 1 \in 1 .. Len(stream[c])
    BY <1>2, <1>3 DEF Units
  <2> QED
    BY <1>1, <2>1, ExceptSeq
<1>5. stream' = [stream EXCEPT ![c] = wrong]
  BY DEF Corrupt
<1> HIDE DEF wrong
<1>6. Typed(stream') /\ stream'[c] = wrong /\ \A d \in Conns : d # c => stream'[d] = stream[d]
  BY <1>1, <1>4, <1>5 DEF Typed
<1>7. buffer' = buffer
  BY DEF Corrupt
<1>8. Flight(c)' = buffer[c] \o wrong
  BY <1>6, <1>7 DEF Flight
<1>9. /\ Len(buffer[c] \o wrong) = Len(buffer[c]) + Len(wrong)
      /\ DOMAIN (buffer[c] \o wrong) = 1 .. Len(buffer[c]) + Len(wrong)
      /\ \A i \in 1 .. Len(buffer[c]) : (buffer[c] \o wrong)[i] = buffer[c][i]
      /\ \A i \in 1 .. Len(wrong) : (buffer[c] \o wrong)[Len(buffer[c]) + i] = wrong[i]
  BY <1>1, <1>4, Joined
<1>f. /\ DOMAIN Flight(c) = 1 .. p + k /\ Len(Flight(c)) = p + k
      /\ \A i \in 1 .. p : Flight(c)[i] = buffer[c][i]
      /\ \A i \in 1 .. k : Flight(c)[p + i] = stream[c][i]
  BY FlightType DEF p, k
<1>g. /\ Len(Flight(c)') = p + k /\ DOMAIN Flight(c)' = 1 .. p + k
      /\ \A i \in 1 .. p : Flight(c)'[i] = buffer[c][i]
      /\ \A i \in 1 .. k : Flight(c)'[p + i] = wrong[i]
  BY <1>4, <1>8, <1>9 DEF p, k
<1>h. \A i \in 1 .. k : wrong[i] = IF i = 1 THEN <<-1, 0>> ELSE stream[c][i]
  BY <1>4 DEF k
<1>10. \A i \in DOMAIN Flight(c) :
         Flight(c)'[i] = IF i = p + 1 THEN <<-1, 0>> ELSE Flight(c)[i]
  <2> TAKE i \in DOMAIN Flight(c)
  <2>1. i \in 1 .. p + k
    BY <1>f
  <2>2. CASE i <= p
    <3>1. i \in 1 .. p /\ i # p + 1
      BY <1>a, <2>1, <2>2
    <3> QED
      BY <1>f, <1>g, <3>1
  <2>3. CASE i > p
    <3>1. PICK j \in 1 .. k : i = p + j
      <4>1. i - p \in 1 .. k /\ i = p + (i - p)
        BY <1>a, <2>1, <2>3
      <4> QED
        BY <4>1
    <3>2. Flight(c)'[i] = wrong[j] /\ Flight(c)[i] = stream[c][j]
      BY <1>f, <1>g, <3>1
    <3>3. i = p + 1 <=> j = 1
      BY <1>a, <3>1
    <3> QED
      BY <1>h, <3>1, <3>2, <3>3
  <2> QED
    BY <1>a, <2>1, <2>2, <2>3
<1>11. /\ Len(Flight(c)') = Len(Flight(c)) /\ DOMAIN Flight(c)' = DOMAIN Flight(c)
       /\ p + 1 \in DOMAIN Flight(c)
  BY <1>a, <1>f, <1>g
<1>12. \A d \in Conns : d # c => Flight(d)' = Flight(d)
  BY <1>6, <1>7 DEF Flight
<1>13. faults \in Nat
  BY PerfAssumption DEF TypeInv, PerfAssumption
<1> QED
  BY <1>6, <1>7, <1>10, <1>11, <1>12, <1>13 DEF Corrupt, p

\* A client takes a frame from its buffer, and it is the one that is due or not.
Right(c) ==
  /\ SubSeq(buffer[c], 1, Size) = Frame(received[c])
  /\ received' = [received EXCEPT ![c] = @ + 1]
  /\ IF received[c] + 1 = Messages /\ ~complete[c]
     THEN complete' = [complete EXCEPT ![c] = TRUE] /\ run' = MarkComplete(RecordMessage(run))
     ELSE complete' = complete /\ run' = RecordMessage(run)

Wrong(c) ==
  /\ SubSeq(buffer[c], 1, Size) # Frame(received[c])
  /\ RecordError("frame") /\ UNCHANGED <<received, complete>>

Takes(c) ==
  /\ Len(buffer[c]) >= Size /\ TakeFrame(c)
  /\ Right(c) \/ Wrong(c)
  /\ UNCHANGED <<case, stream, history, sent, main>>

LEMMA HandleTakes ==
  ASSUME TypeInv, NEW c \in Conns, HandleFrame(c)
  PROVE /\ Takes(c) /\ UNCHANGED <<link, client>>
        /\ engine = "py-netty" /\ sender[c]["loop"].line = "idle"
        /\ \/ sender' = sender
           \/ /\ Right(c) /\ sequential /\ ~(received[c] + 1 = Messages /\ ~complete[c])
              /\ sender' = [sender EXCEPT ![c]["loop"].line = "check"]
        /\ Right(c) /\ sequential /\ received[c] + 1 = Messages /\ ~complete[c] => sender' = sender
<1>1. CASE ~Validate(c, SubSeq(buffer[c], 1, Size))
  BY <1>1 DEF HandleFrame, Takes, Wrong, Right, Validate, net
<1>2. CASE Validate(c, SubSeq(buffer[c], 1, Size))
  <2>1. received' = [received EXCEPT ![c] = @ + 1] /\ received'[c] = received[c] + 1
    BY <1>2 DEF HandleFrame, TypeInv
  <2>2. Finished(c) <=> received[c] + 1 = Messages /\ ~complete[c]
    BY <2>1 DEF Finished
  <2>3. Right(c)
    BY <1>2, <2>1, <2>2 DEF HandleFrame, Right, Validate
  <2> QED
    BY <1>2, <2>2, <2>3 DEF HandleFrame, Takes, net
<1> QED
  BY <1>1, <1>2

LEMMA CheckTakes ==
  ASSUME TypeInv, NEW c \in Conns, ClientChecks(c)
  PROVE /\ Takes(c) /\ UNCHANGED sender /\ client[c] = "receive"
        /\ \/ Wrong(c) /\ ClientEnds(c)
           \/ Right(c) /\ received[c] + 1 = Messages /\ ~complete[c] /\ ClientEnds(c)
           \/ /\ Right(c) /\ ~(received[c] + 1 = Messages /\ ~complete[c])
              /\ client' = [client EXCEPT ![c] = IF sequential THEN "send" ELSE @]
              /\ link' = link
<1>0. SubSeq(buffer[c], 1, Size) = buffer[c] /\ Len(buffer[c]) >= Size
  <2>1. Len(buffer[c]) = Size /\ buffer[c] \in Seq(Units) /\ Size \in Nat
    BY FlightType, Numbers DEF ClientChecks
  <2>2. SubSeq(buffer[c], 1, Len(buffer[c])) = buffer[c]
    BY <2>1, SubSeqFull
  <2> QED
    BY <2>1, <2>2
<1>1. CASE ~Validate(c, buffer[c])
  BY <1>0, <1>1 DEF ClientChecks, Takes, Wrong, Right, Validate
<1>2. CASE Validate(c, buffer[c])
  <2>1. received' = [received EXCEPT ![c] = @ + 1] /\ received'[c] = received[c] + 1
    BY <1>2 DEF ClientChecks, TypeInv
  <2>2. Finished(c) <=> received[c] + 1 = Messages /\ ~complete[c]
    BY <2>1 DEF Finished
  <2>3. Right(c)
    BY <1>0, <1>2, <2>1, <2>2 DEF ClientChecks, Right, Validate
  <2>4. Takes(c) /\ UNCHANGED sender /\ client[c] = "receive"
    BY <1>0, <1>2, <2>3 DEF ClientChecks, Takes
  <2> QED
    BY <1>2, <2>2, <2>3, <2>4 DEF ClientChecks
<1> QED
  BY <1>1, <1>2

LEMMA TakesDoes ==
  ASSUME TypeInv, NEW c \in Conns, Takes(c)
  PROVE /\ Typed(buffer') /\ stream' = stream
        /\ \A d \in Conns : d # c => Flight(d)' = Flight(d)
        /\ Len(Flight(c)) >= Size /\ Len(Flight(c)') = Len(Flight(c)) - Size
        /\ DOMAIN Flight(c)' = 1 .. Len(Flight(c)')
        /\ \A i \in 1 .. Len(Flight(c)) - Size : Flight(c)'[i] = Flight(c)[i + Size]
        /\ Right(c) => \A i \in 1 .. Size : Flight(c)[i] = <<received[c], i>>
        /\ (\A i \in 1 .. Size : Flight(c)[i] = <<received[c], i>>) => Right(c)
        /\ received[c] \in Nat
<1>1. Typed(buffer) /\ stream[c] \in Seq(Units) /\ buffer[c] \in Seq(Units) /\ received[c] \in Nat
  BY FlightType, Numbers DEF TypeInv, Typed, Units
<1>2. /\ Len(buffer[c]) \in Nat /\ Len(stream[c]) \in Nat /\ Size \in Nat
      /\ Len(Flight(c)) = Len(buffer[c]) + Len(stream[c])
      /\ Len(buffer[c]) >= Size
      /\ \A i \in 1 .. Len(buffer[c]) : Flight(c)[i] = buffer[c][i]
  BY FlightType, Numbers DEF Takes
<1> DEFINE rest == SubSeq(buffer[c], Size + 1, Len(buffer[c]))
<1>3. /\ rest \in Seq(Units)
      /\ Len(rest \o stream[c]) = Len(buffer[c] \o stream[c]) - Size
      /\ \A i \in 1 .. Len(buffer[c] \o stream[c]) - Size :
           (rest \o stream[c])[i] = (buffer[c] \o stream[c])[i + Size]
  <2>1. Size \in 0 .. Len(buffer[c])
    BY <1>2
  <2> QED
    BY <1>1, <2>1, Taken
<1>4. buffer' = [buffer EXCEPT ![c] = rest] /\ stream' = stream
  BY DEF Takes, TakeFrame
<1> HIDE DEF rest
<1>5. Typed(buffer') /\ buffer'[c] = rest /\ \A d \in Conns : d # c => buffer'[d] = buffer[d]
  BY <1>1, <1>3, <1>4 DEF Typed
<1>6. \A d \in Conns : d # c => Flight(d)' = Flight(d)
  BY <1>4, <1>5 DEF Flight
<1>7. Flight(c)' = rest \o stream[c] /\ Flight(c) = buffer[c] \o stream[c]
  BY <1>4, <1>5 DEF Flight
<1>8. DOMAIN Flight(c)' = 1 .. Len(Flight(c)')
  <2>1. rest \o stream[c] \in Seq(Units)
    BY <1>1, <1>3, ConcatProperties
  <2> QED
    BY <1>7, <2>1, LenProperties
<1>9. /\ SubSeq(buffer[c], 1, Size) \in Seq(Units) /\ Len(SubSeq(buffer[c], 1, Size)) = Size
      /\ \A i \in 1 .. Size : SubSeq(buffer[c], 1, Size)[i] = Flight(c)[i]
  <2>1. \A i \in 1 .. Size : buffer[c][i] \in Units
    BY <1>1, <1>2, ElementOfSeq
  <2>2. /\ SubSeq(buffer[c], 1, Size) \in Seq(Units)
        /\ Len(SubSeq(buffer[c], 1, Size)) = IF 1 <= Size THEN Size - 1 + 1 ELSE 0
        /\ \A i \in 1 .. Size - 1 + 1 : SubSeq(buffer[c], 1, Size)[i] = buffer[c][1 + i - 1]
    BY <1>2, <2>1, SubSeqProperties
  <2>3. Size - 1 + 1 = Size /\ (IF 1 <= Size THEN Size - 1 + 1 ELSE 0) = Size
    BY <1>2
  <2>4. \A i \in 1 .. Size : SubSeq(buffer[c], 1, Size)[i] = Flight(c)[i]
    <3> TAKE i \in 1 .. Size
    <3>1. 1 + i - 1 = i /\ i \in 1 .. Len(buffer[c])
      BY <1>2
    <3> QED
      BY <1>2, <2>2, <2>3, <3>1
  <2> QED
    BY <2>2, <2>3, <2>4
<1>10. /\ Frame(received[c]) \in Seq(Units) /\ Len(Frame(received[c])) = Size
       /\ \A i \in 1 .. Size : Frame(received[c])[i] = <<received[c], i>>
  BY <1>1, FrameIs
<1>11. Right(c) => \A i \in 1 .. Size : Flight(c)[i] = <<received[c], i>>
  BY <1>9, <1>10 DEF Right
<1>12. (\A i \in 1 .. Size : Flight(c)[i] = <<received[c], i>>) => Right(c)
  <2> SUFFICES ASSUME \A i \in 1 .. Size : Flight(c)[i] = <<received[c], i>> PROVE Right(c)
    OBVIOUS
  <2>1. \A i \in 1 .. Size : SubSeq(buffer[c], 1, Size)[i] = Frame(received[c])[i]
    BY <1>9, <1>10
  <2>2. SubSeq(buffer[c], 1, Size) = Frame(received[c])
    BY <1>9, <1>10, <2>1, SeqEqual
  <2> QED
    BY <2>2 DEF Takes, Wrong
<1>13. Len(Flight(c)) >= Size /\ Len(Flight(c)') = Len(Flight(c)) - Size
  <2>0. \A p, k \in Nat : p >= Size => p + k >= Size
    BY <1>2
  <2>1. Len(Flight(c)) >= Size
    BY <1>2, <2>0, Zenon
  <2>2. Len(Flight(c)') = Len(Flight(c)) - Size
    BY <1>3, <1>7
  <2> QED
    BY <2>1, <2>2
<1>14. \A i \in 1 .. Len(Flight(c)) - Size : Flight(c)'[i] = Flight(c)[i + Size]
  BY <1>3, <1>7
<1> QED
  BY <1>1, <1>4, <1>5, <1>6, <1>8, <1>11, <1>12, <1>13, <1>14

LEMMA SendDoes ==
  ASSUME TypeInv, FinalInv, NEW c \in Conns, NEW who \in Callers, SendNext(c, who)
  PROVE /\ UNCHANGED <<case, run, link, history, buffer, received, complete, client, phase, timedOut>>
        /\ at' \in 1 .. N + 1 /\ (at' = at \/ (who = "main" /\ at = c /\ at' = at + 1))
        /\ \/ stream' = stream
           \/ /\ SendWrite(c, who) /\ sender[c][who].sequence \in Nat
              /\ WriteFrame(c, sender[c][who].sequence)
<1>1. UNCHANGED <<case, run, link, buffer, client, phase, timedOut>>
  BY SendShape
<1>2. UNCHANGED <<history, received, complete>>
  BY DEF SendNext, SendCheck, SendWrite, SendLoad, SendStore, net, states
<1>3. at' = at \/ (who = "main" /\ at = c /\ at' = at + 1)
  BY DEF SendNext, SendCheck, SendWrite, SendLoad, SendStore, Proceed, main, FinalInv, MainInv
<1>4. at' \in 1 .. N + 1
  <2>1. at \in 1 .. N + 1
    BY DEF TypeInv
  <2>2. N \in Nat /\ (at' # at => at \in 1 .. N)
    BY <1>3, Numbers
  <2> QED
    BY <1>3, <2>1, <2>2
<1>5. \/ stream' = stream
      \/ /\ SendWrite(c, who) /\ sender[c][who].sequence \in Nat
         /\ WriteFrame(c, sender[c][who].sequence)
  BY DEF SendNext, SendCheck, SendWrite, SendLoad, SendStore, net, FinalInv, ShapeInv, Sends
<1> QED
  BY <1>1, <1>2, <1>3, <1>4, <1>5

LEMMA ClientSendDoes ==
  ASSUME TypeInv, FinalInv, NEW c \in Conns, ClientSends(c)
  PROVE /\ client[c] = "send" /\ link[c] = "open" /\ engine # "py-netty"
        /\ sent[c] \in Nat /\ WriteFrame(c, sent[c]) /\ sent' = [sent EXCEPT ![c] = sent[c] + 1]
        /\ client' = IF sequential \/ sent[c] + 1 = Messages
                     THEN [client EXCEPT ![c] = "receive"] ELSE client
        /\ UNCHANGED <<case, run, link, history, buffer, received, complete, sender, main>>
<1>1. sent' = [sent EXCEPT ![c] = sent[c] + 1] /\ sent'[c] = sent[c] + 1 /\ sent[c] \in Nat
  BY DEF ClientSends, FinalInv, ShapeInv
<1>2. engine # "py-netty"
  BY DEF ClientSends, FinalInv, EngineInv
<1> QED
  BY <1>1, <1>2 DEF ClientSends

\* Steps that write and read nothing.
Still == UNCHANGED <<case, stream, buffer, states, corrupted>>

Outside(c) ==
  ClientFails(c) \/ WaitClosed(c) \/ Connected(c) \/ ConnectFails(c) \/ LateConnect(c)

LEMMA StillDoes ==
  /\ \A c \in Conns : Outside(c) => Still /\ UNCHANGED sender
  /\ MainSteps => Still /\ (UNCHANGED sender \/ StartSending)
  /\ UNCHANGED vars => Still /\ UNCHANGED sender
<1>1. \A c \in Conns : Outside(c) => Still /\ UNCHANGED sender
  BY DEF Outside, Still, ClientFails, WaitClosed, Connected, ConnectFails, LateConnect,
         ClientEnds, history, states
<1>2. MainSteps => Still /\ (UNCHANGED sender \/ StartSending)
  BY DEF MainSteps, AllConnected, ConnectTimesOut, StartSending, AllSent, StartClients, Wait,
         Gather, CancelClients, CancelAgain,
         Collect, CloseChannel, AllClosed, Build, Still, net, history, states
<1>3. UNCHANGED vars => Still /\ UNCHANGED sender
  BY DEF vars, net, history, Still
<1> QED
  BY <1>1, <1>2, <1>3

LEMMA StillFlight ==
  ASSUME UNCHANGED <<stream, buffer>>
  PROVE \A c \in Conns : Flight(c)' = Flight(c)
BY DEF Flight

\* Every step is of one of these kinds.
LEMMA StepKinds ==
  ASSUME [Next]_vars
  PROVE \/ \E c \in Conns, who \in Callers : SendNext(c, who)
        \/ \E c \in Conns : Feed(c) \/ ClientReceives(c)
        \/ \E c \in Conns : HandleFrame(c)
        \/ \E c \in Conns : ClientChecks(c)
        \/ \E c \in Conns : ClientSends(c)
        \/ \E c \in Conns : Break(c)
        \/ \E c \in Conns : Corrupt(c)
        \/ \E c \in Conns : Outside(c)
        \/ MainSteps
        \/ UNCHANGED vars
BY DEF Next, Answers, Worker, Progress, Callers, Outside

\* The sequence number that is written is of a frame that there is.
LEMMA Numbered ==
  ASSUME FinalInv, EchoInv, NEW c \in Conns, NEW who \in Callers, sender[c][who].line = "write"
  PROVE sender[c][who].sequence \in Nat /\ sender[c][who].sequence < Messages
<1>1. sender[c][who].sequence \in Nat
  BY DEF FinalInv, ShapeInv, Sends
<1>2. ASSUME Unshared PROVE sender[c][who].sequence < Messages
  <2>1. who = "main" \/ sender[c]["loop"].line = "idle"
    BY <1>2 DEF EchoInv, AloneInv, Alone
  <2>2. who = "main"
    BY <2>1 DEF Callers
  <2> QED
    BY <1>2, <2>2 DEF EchoInv, AloneInv, Alone
<1>3. ASSUME ~Unshared PROVE sender[c][who].sequence < Messages
  BY <1>3 DEF EchoInv, SharedInv, Shared
<1> QED
  BY <1>1, <1>2, <1>3

LEMMA UnitsStep == ASSUME FinalInv, EchoInv, [Next]_vars PROVE UnitsInv'
<1>t. TypeInv /\ UnitsInv /\ Messages \in Nat /\ Size \in Nat
  BY Numbers DEF EchoInv
<1>f. \A c \in Conns : /\ Len(Flight(c)) \in Nat /\ DOMAIN Flight(c) = 1 .. Len(Flight(c))
                       /\ Flight(c) \in Seq(Units)
                       /\ Len(buffer[c]) \in Nat /\ Len(buffer[c]) <= Len(Flight(c))
                       /\ buffer[c] \in Seq(Units)
                       /\ \A i \in 1 .. Len(buffer[c]) : Flight(c)[i] = buffer[c][i]
  BY <1>t, FlightType
<1>s. ASSUME \A c \in Conns : Flight(c)' = Flight(c) PROVE UnitsInv'
  BY <1>t, <1>s DEF UnitsInv
<1>w. ASSUME NEW c \in Conns, NEW q \in Int, q < Messages, WriteFrame(c, q), buffer' = buffer
      PROVE UnitsInv'
  <2>1. /\ \A d \in Conns : d # c \/ link[c] # "open" => Flight(d)' = Flight(d)
        /\ Typed(stream')
        /\ link[c] = "open" =>
             /\ Len(Flight(c)') = Len(Flight(c)) + Size
             /\ \A i \in 1 .. Len(Flight(c)) : Flight(c)'[i] = Flight(c)[i]
             /\ \A i \in 1 .. Size : Flight(c)'[Len(Flight(c)) + i] = <<q, i>>
    BY <1>t, <1>w, WriteDoes
  <2>2. CASE link[c] # "open"
    BY <1>s, <2>1, <2>2
  <2>3. CASE link[c] = "open"
    <3>1. Flight(c)' \in Seq(Units)
      BY <1>f, <1>w, <2>1, ConcatProperties DEF Flight, Typed
    <3>2. DOMAIN Flight(c)' = 1 .. Len(Flight(c)) + Size
      BY <2>1, <2>3, <3>1, LenProperties
    <3> DEFINE n == Len(Flight(c))
    <3>3. n \in Nat
      BY <1>f
    <3>4. \A i \in 1 .. n : Flight(c)'[i] = Flight(c)[i] /\ i \in DOMAIN Flight(c)
      BY <1>f, <2>1, <2>3
    <3>5. \A i \in 1 .. Size : Flight(c)'[n + i] = <<q, i>>
      BY <2>1, <2>3
    <3>6. DOMAIN Flight(c)' = 1 .. n + Size
      BY <3>2
    <3> HIDE DEF n
    <3>7. \A i \in DOMAIN Flight(c)' : Flight(c)'[i][1] < Messages
      <4> TAKE i \in DOMAIN Flight(c)'
      <4>1. CASE i \in 1 .. n
        BY <1>t, <3>4, <4>1 DEF UnitsInv
      <4>2. CASE i \notin 1 .. n
        <5>1. i - n \in 1 .. Size /\ n + (i - n) = i
          BY <1>t, <3>3, <3>6, <4>2
        <5>2. Flight(c)'[i] = <<q, i - n>>
          BY <3>5, <5>1
        <5> QED
          BY <1>w, <5>2
      <4> QED
        BY <4>1, <4>2
    <3> QED
      BY <1>t, <2>1, <3>7 DEF UnitsInv
  <2> QED
    BY <2>2, <2>3
<1>1. ASSUME NEW c \in Conns, NEW who \in Callers, SendNext(c, who) PROVE UnitsInv'
  <2>1. /\ buffer' = buffer
        /\ \/ stream' = stream
           \/ SendWrite(c, who) /\ WriteFrame(c, sender[c][who].sequence)
    BY <1>t, <1>1, SendDoes
  <2>2. CASE stream' = stream
    BY <1>s, <2>1, <2>2, StillFlight
  <2>3. CASE SendWrite(c, who) /\ WriteFrame(c, sender[c][who].sequence)
    <3>1. sender[c][who].sequence \in Int /\ sender[c][who].sequence < Messages
      BY <2>3, Numbered DEF SendWrite
    <3> QED
      BY <1>w, <2>1, <2>3, <3>1
  <2> QED
    BY <2>1, <2>2, <2>3
<1>2. ASSUME NEW c \in Conns, Feed(c) \/ ClientReceives(c) PROVE UnitsInv'
  BY <1>s, <1>t, <1>2, MoveDoes
<1>3. ASSUME NEW c \in Conns, Takes(c) PROVE UnitsInv'
  <2>1. /\ \A d \in Conns : d # c => Flight(d)' = Flight(d)
        /\ Len(Flight(c)) >= Size /\ Len(Flight(c)') = Len(Flight(c)) - Size
        /\ DOMAIN Flight(c)' = 1 .. Len(Flight(c)')
        /\ \A i \in 1 .. Len(Flight(c)) - Size : Flight(c)'[i] = Flight(c)[i + Size]
    BY <1>t, <1>3, TakesDoes
  <2>2. \A i \in DOMAIN Flight(c)' : i + Size \in DOMAIN Flight(c) /\ Flight(c)'[i] = Flight(c)[i + Size]
    <3> DEFINE n == Len(Flight(c))
    <3>1. n \in Nat /\ DOMAIN Flight(c)' = 1 .. n - Size /\ DOMAIN Flight(c) = 1 .. n
      BY <1>f, <2>1
    <3>2. \A i \in 1 .. n - Size : Flight(c)'[i] = Flight(c)[i + Size]
      BY <2>1
    <3> HIDE DEF n
    <3> QED
      BY <1>t, <3>1, <3>2
  <2>3. \A i \in DOMAIN Flight(c)' : Flight(c)'[i][1] < Messages
    BY <1>t, <2>2 DEF UnitsInv
  <2> QED
    BY <1>t, <2>1, <2>3 DEF UnitsInv
<1>4. ASSUME NEW c \in Conns, ClientSends(c) PROVE UnitsInv'
  <2>1. /\ client[c] = "send" /\ engine # "py-netty" /\ sent[c] \in Nat
        /\ WriteFrame(c, sent[c]) /\ buffer' = buffer
    BY <1>t, <1>4, ClientSendDoes
  <2>2. sent[c] < Messages
    BY <2>1 DEF EchoInv, AloneInv, Alone, Unshared
  <2> QED
    BY <1>w, <2>1, <2>2
<1>5. ASSUME NEW c \in Conns, Break(c) PROVE UnitsInv'
  <2>1. (\A d \in Conns : d # c => Flight(d)' = Flight(d)) /\ Flight(c)' = buffer[c]
    BY <1>t, <1>5, BreakDoes
  <2>2. DOMAIN buffer[c] = 1 .. Len(buffer[c])
    BY <1>f, LenProperties
  <2>3. \A i \in DOMAIN buffer[c] : i \in DOMAIN Flight(c) /\ Flight(c)[i] = buffer[c][i]
    BY <1>f, <2>2
  <2>4. \A i \in DOMAIN Flight(c)' : Flight(c)'[i][1] < Messages
    BY <1>t, <2>1, <2>3 DEF UnitsInv
  <2> QED
    BY <1>t, <2>1, <2>4 DEF UnitsInv
<1>6. ASSUME NEW c \in Conns, Corrupt(c) PROVE UnitsInv'
  <2>1. /\ \A d \in Conns : d # c => Flight(d)' = Flight(d)
        /\ DOMAIN Flight(c)' = DOMAIN Flight(c)
        /\ \A i \in DOMAIN Flight(c) :
             Flight(c)'[i] = IF i = Len(buffer[c]) + 1 THEN <<-1, 0>> ELSE Flight(c)[i]
    BY <1>t, <1>6, CorruptDoes
  <2>2. \A i \in DOMAIN Flight(c)' : Flight(c)'[i][1] < Messages
    <3> TAKE i \in DOMAIN Flight(c)'
    <3>1. Flight(c)'[i] = <<-1, 0>> \/ Flight(c)'[i] = Flight(c)[i]
      BY <2>1
    <3>2. Flight(c)[i][1] < Messages
      BY <1>t, <2>1 DEF UnitsInv
    <3> QED
      BY <1>t, <3>1, <3>2
  <2> QED
    BY <1>t, <2>1, <2>2 DEF UnitsInv
<1>7. ASSUME Still PROVE UnitsInv'
  BY <1>s, <1>7, StillFlight DEF Still
<1>8. ASSUME NEW c \in Conns, HandleFrame(c) \/ ClientChecks(c) PROVE Takes(c)
  BY <1>t, <1>8, HandleTakes, CheckTakes
<1> QED
  BY <1>1, <1>2, <1>3, <1>4, <1>5, <1>6, <1>7, <1>8, StepKinds, StillDoes

-----------------------------------------------------------------------------
(* Types, and what the record counts                                       *)

Reasons == {"connect", "frame", "client", "timeout"}
Records == [done : BOOLEAN, completed : Nat, received : Nat, errors : SUBSET Reasons]

LEMMA RecordsChange ==
  ASSUME NEW r \in Records
  PROVE /\ RecordMessage(r) \in Records /\ MarkComplete(r) \in Records
        /\ RecordMessage(r).received = r.received + 1 /\ RecordMessage(r).completed = r.completed
        /\ RecordMessage(r).done = r.done /\ RecordMessage(r).errors = r.errors
        /\ MarkComplete(r).received = r.received /\ MarkComplete(r).completed = r.completed + 1
        /\ MarkComplete(r).done = (r.done \/ r.completed + 1 = N)
        /\ MarkComplete(r).errors = r.errors
<1>1. /\ r.done \in BOOLEAN /\ r.completed \in Nat /\ r.received \in Nat
      /\ r.errors \in SUBSET Reasons
  BY DEF Records
<1>2. RecordMessage(r) = [done |-> r.done, completed |-> r.completed, received |-> r.received + 1,
                          errors |-> r.errors]
  BY DEF Records, RecordMessage
<1>3. MarkComplete(r) = [done |-> (r.done \/ r.completed + 1 = N), completed |-> r.completed + 1,
                         received |-> r.received, errors |-> r.errors]
  <2> DEFINE done == r.done \/ r.completed + 1 = N
             next == [r EXCEPT !.completed = r.completed + 1]
  <2>1. next = [done |-> r.done, completed |-> r.completed + 1, received |-> r.received,
                errors |-> r.errors]
    BY DEF Records
  <2>2. MarkComplete(r) = [next EXCEPT !.done = next.done \/ r.completed + 1 = N]
    BY DEF MarkComplete
  <2>3. next.done = r.done
    BY <2>1
  <2> HIDE DEF next
  <2>4. MarkComplete(r) = [next EXCEPT !.done = done]
    BY <2>2, <2>3, Zenon
  <2> HIDE DEF done
  <2>5. [next EXCEPT !.done = done] = [done |-> done, completed |-> r.completed + 1,
                                       received |-> r.received, errors |-> r.errors]
    BY <2>1
  <2> QED
    BY <2>4, <2>5 DEF done
<1>4. RecordMessage(r) \in Records
  BY <1>1, <1>2 DEF Records
<1>5. MarkComplete(r) \in Records
  BY <1>1, <1>3 DEF Records
<1>6. /\ RecordMessage(r).received = r.received + 1 /\ RecordMessage(r).completed = r.completed
      /\ RecordMessage(r).done = r.done /\ RecordMessage(r).errors = r.errors
  BY <1>2
<1>7. /\ MarkComplete(r).received = r.received /\ MarkComplete(r).completed = r.completed + 1
      /\ MarkComplete(r).done = (r.done \/ r.completed + 1 = N)
      /\ MarkComplete(r).errors = r.errors
  BY <1>3
<1> QED
  BY <1>4, <1>5, <1>6, <1>7

LEMMA ErrorDoes ==
  ASSUME TypeInv, NEW e \in Reasons, RecordError(e)
  PROVE /\ run' \in Records /\ run'.errors = run.errors \cup {e} /\ run'.done = TRUE
        /\ run'.completed = run.completed /\ run'.received = run.received
<1>1. /\ run \in Records /\ run' = [run EXCEPT !.errors = @ \cup {e}, !.done = TRUE]
  BY DEF TypeInv, Records, Reasons, RecordError
<1>2. /\ run.done \in BOOLEAN /\ run.completed \in Nat /\ run.received \in Nat
      /\ run.errors \cup {e} \in SUBSET Reasons
  BY <1>1 DEF Records
<1>3. run' = [done |-> TRUE, completed |-> run.completed, received |-> run.received,
              errors |-> run.errors \cup {e}]
  BY <1>1 DEF Records
<1>4. run' \in Records
  BY <1>2, <1>3 DEF Records
<1> QED
  BY <1>3, <1>4

\* A frame that was due is one of those there are.
LEMMA RightIsDue ==
  ASSUME TypeInv, UnitsInv, NEW c \in Conns, Takes(c), Right(c)
  PROVE received[c] \in Nat /\ received[c] < Messages
<1>1. /\ \A i \in 1 .. Size : Flight(c)[i] = <<received[c], i>>
      /\ Len(Flight(c)) >= Size /\ received[c] \in Nat
  BY TakesDoes
<1> DEFINE n == Len(Flight(c))
<1>2. DOMAIN Flight(c) = 1 .. n /\ n \in Nat /\ n >= Size /\ Size \in Nat /\ Size >= 1
  BY <1>1, FlightType, PerfAssumption DEF PerfAssumption
<1> HIDE DEF n
<1>a. 1 \in 1 .. n /\ 1 \in 1 .. Size
  BY <1>2
<1>3. 1 \in DOMAIN Flight(c) /\ Flight(c)[1] = <<received[c], 1>>
  BY <1>1, <1>2, <1>a
<1> QED
  BY <1>1, <1>3 DEF UnitsInv

LEMMA RightDoes ==
  ASSUME TypeInv, UnitsInv, CountInv, NEW c \in Conns, Takes(c), Right(c)
  PROVE /\ received' = [received EXCEPT ![c] = received[c] + 1]
        /\ received' \in [Conns -> 0 .. Messages]
        /\ run' \in Records /\ run'.received = run.received + 1 /\ run'.errors = run.errors
        /\ ~complete[c]
        /\ received[c] + 1 = Messages =>
             /\ complete' = [complete EXCEPT ![c] = TRUE]
             /\ run'.completed = run.completed + 1
             /\ run'.done = (run.done \/ run.completed + 1 = N)
        /\ received[c] + 1 # Messages =>
             complete' = complete /\ run'.completed = run.completed /\ run'.done = run.done
<1>1. received[c] \in Nat /\ received[c] < Messages /\ Messages \in Nat
  BY RightIsDue, Numbers
<1>2. received' = [received EXCEPT ![c] = received[c] + 1]
  BY DEF Right
<1>3. received' \in [Conns -> 0 .. Messages]
  BY <1>1, <1>2 DEF TypeInv
<1>4. ~complete[c]
  BY <1>1 DEF CountInv
<1>5. run \in Records
  BY DEF TypeInv, Records, Reasons
<1>6. /\ RecordMessage(run) \in Records
      /\ RecordMessage(run).received = run.received + 1 /\ RecordMessage(run).errors = run.errors
      /\ RecordMessage(run).completed = run.completed /\ RecordMessage(run).done = run.done
  BY <1>5, RecordsChange
<1>7. CASE received[c] + 1 = Messages
  <2>1. complete' = [complete EXCEPT ![c] = TRUE] /\ run' = MarkComplete(RecordMessage(run))
    BY <1>4, <1>7 DEF Right
  <2>2. /\ MarkComplete(RecordMessage(run)) \in Records
        /\ MarkComplete(RecordMessage(run)).received = run.received + 1
        /\ MarkComplete(RecordMessage(run)).errors = run.errors
        /\ MarkComplete(RecordMessage(run)).completed = run.completed + 1
        /\ MarkComplete(RecordMessage(run)).done = (run.done \/ run.completed + 1 = N)
    BY <1>6, RecordsChange
  <2> QED
    BY <1>2, <1>3, <1>4, <1>7, <2>1, <2>2
<1>8. CASE received[c] + 1 # Messages
  <2>1. complete' = complete /\ run' = RecordMessage(run)
    BY <1>8 DEF Right
  <2> QED
    BY <1>2, <1>3, <1>4, <1>6, <1>8, <2>1
<1> QED
  BY <1>7, <1>8

\* Sets of clients, and of frames.
Pairs == Conns \X (1 .. Messages)

LEMMA Counting ==
  /\ \A S \in SUBSET Conns : /\ IsFiniteSet(S) /\ Cardinality(S) \in Nat /\ Cardinality(S) <= N
                             /\ Cardinality(S) = N => S = Conns
  /\ \A S \in SUBSET Pairs : /\ IsFiniteSet(S) /\ Cardinality(S) \in Nat
                             /\ Cardinality(S) <= N * Messages
  /\ Cardinality(Pairs) = N * Messages /\ Cardinality({}) = 0
<1>1. N \in Nat /\ N >= 1 /\ Messages \in Nat /\ Messages >= 1 /\ Conns = 1 .. N
  BY PerfAssumption DEF PerfAssumption, Conns
<1>2. IsFiniteSet(1 .. N) /\ Cardinality(1 .. N) = IF 1 > N THEN 0 ELSE N - 1 + 1
  BY <1>1, FS_Interval
<1>3. IsFiniteSet(Conns) /\ Cardinality(Conns) = N
  BY <1>1, <1>2
<1>4. IsFiniteSet(1 .. Messages) /\ Cardinality(1 .. Messages) = IF 1 > Messages THEN 0 ELSE Messages - 1 + 1
  BY <1>1, FS_Interval
<1>5. IsFiniteSet(1 .. Messages) /\ Cardinality(1 .. Messages) = Messages
  BY <1>1, <1>4
<1>6. /\ IsFiniteSet(Pairs) /\ Cardinality(Pairs) = Cardinality(Conns) * Cardinality(1 .. Messages)
  BY <1>3, <1>5, FS_Product DEF Pairs
<1>7. Cardinality(Pairs) = N * Messages
  BY <1>3, <1>5, <1>6
<1>8. ASSUME NEW S \in SUBSET Conns
      PROVE /\ IsFiniteSet(S) /\ Cardinality(S) \in Nat /\ Cardinality(S) <= N
            /\ Cardinality(S) = N => S = Conns
  <2>1. /\ IsFiniteSet(S) /\ Cardinality(S) <= Cardinality(Conns)
        /\ Cardinality(Conns) = Cardinality(S) => Conns = S
    BY <1>3, FS_Subset
  <2> QED
    BY <1>3, <2>1, FS_CardinalityType
<1>9. ASSUME NEW S \in SUBSET Pairs
      PROVE IsFiniteSet(S) /\ Cardinality(S) \in Nat /\ Cardinality(S) <= N * Messages
  <2>1. IsFiniteSet(S) /\ Cardinality(S) <= Cardinality(Pairs)
    BY <1>6, FS_Subset
  <2> QED
    BY <1>7, <2>1, FS_CardinalityType
<1>10. Cardinality({}) = 0
  BY FS_EmptySet
<1> QED
  BY <1>7, <1>8, <1>9, <1>10

LEMMA Countable ==
  /\ Completed \in SUBSET Conns /\ Received \in SUBSET Pairs
  /\ Completed' \in SUBSET Conns /\ Received' \in SUBSET Pairs
BY DEF Completed, Received, Pairs

LEMMA CountedAlike ==
  ASSUME UNCHANGED <<received, complete>>
  PROVE Completed' = Completed /\ Received' = Received
BY DEF Completed, Received

LEMMA CountRight ==
  ASSUME TypeInv, UnitsInv, CountInv, NEW c \in Conns, Takes(c), Right(c)
  PROVE CountInv'
<1>1. /\ received' = [received EXCEPT ![c] = received[c] + 1] /\ received' \in [Conns -> 0 .. Messages]
      /\ run' \in Records /\ run'.received = run.received + 1 /\ run'.errors = run.errors
      /\ ~complete[c]
      /\ received[c] + 1 = Messages =>
           /\ complete' = [complete EXCEPT ![c] = TRUE]
           /\ run'.completed = run.completed + 1
           /\ run'.done = (run.done \/ run.completed + 1 = N)
      /\ received[c] + 1 # Messages =>
           complete' = complete /\ run'.completed = run.completed /\ run'.done = run.done
  BY RightDoes
<1>2. /\ received[c] \in Nat /\ received[c] < Messages /\ Messages \in Nat
      /\ received \in [Conns -> 0 .. Messages] /\ complete \in [Conns -> BOOLEAN]
  BY RightIsDue, Numbers DEF TypeInv
<1>3. Received' = Received \cup {<<c, received[c] + 1>>}
  <2>1. ASSUME NEW d \in Conns, NEW i \in 1 .. Messages
        PROVE i <= received'[d] <=> i <= received[d] \/ (d = c /\ i = received[c] + 1)
    <3>1. CASE d = c
      BY <1>1, <1>2, <3>1
    <3>2. CASE d # c
      BY <1>1, <1>2, <3>2
    <3> QED
      BY <3>1, <3>2
  <2>2. received[c] + 1 \in 1 .. Messages
    BY <1>2
  <2> QED
    BY <2>1, <2>2 DEF Received
<1>4. <<c, received[c] + 1>> \notin Received
  BY <1>2 DEF Received
<1>5. Cardinality(Received') = Cardinality(Received) + 1
  <2>1. IsFiniteSet(Received)
    BY Countable, Counting
  <2> QED
    BY <1>3, <1>4, <2>1, FS_AddElement
<1>6. \A d \in Conns : complete'[d] <=> received'[d] = Messages
  <2> TAKE d \in Conns
  <2>1. CASE d = c
    BY <1>1, <1>2, <2>1
  <2>2. CASE d # c
    <3>1. received'[d] = received[d] /\ complete'[d] = complete[d]
      BY <1>1, <1>2, <2>2
    <3> QED
      BY <3>1 DEF CountInv
  <2> QED
    BY <2>1, <2>2
<1>7. run.received = Cardinality(Received) /\ run.completed = Cardinality(Completed)
  BY DEF CountInv
<1>8. run'.completed = Cardinality(Completed')
  <2>1. CASE received[c] + 1 = Messages
    <3>1. Completed' = Completed \cup {c} /\ c \notin Completed
      BY <1>1, <1>2, <2>1 DEF Completed
    <3>2. Cardinality(Completed') = Cardinality(Completed) + 1
      <4>1. IsFiniteSet(Completed)
        BY Countable, Counting
      <4> QED
        BY <3>1, <4>1, FS_AddElement
    <3> QED
      BY <1>1, <1>7, <2>1, <3>2
  <2>2. CASE received[c] + 1 # Messages
    <3>1. Completed' = Completed
      BY <1>1, <2>2 DEF Completed
    <3> QED
      BY <1>1, <1>7, <2>2, <3>1
  <2> QED
    BY <2>1, <2>2
<1>9. run'.done => run'.errors # {} \/ run'.completed = N
  <2>1. run.done => run.errors # {} \/ run.completed = N
    BY DEF CountInv
  <2>2. Cardinality(Completed') <= N /\ Cardinality(Completed') \in Nat
    BY Countable, Counting
  <2>3. CASE received[c] + 1 = Messages
    <3>1. run.completed \in Nat /\ N \in Nat
      BY <1>7, Countable, Counting, Numbers
    <3>2. ASSUME run.completed = N PROVE FALSE
      BY <1>1, <1>8, <2>2, <2>3, <3>1, <3>2
    <3> QED
      BY <1>1, <2>1, <2>3, <3>2
  <2>4. CASE received[c] + 1 # Messages
    BY <1>1, <2>1, <2>4
  <2> QED
    BY <2>3, <2>4
<1> QED
  BY <1>1, <1>5, <1>6, <1>7, <1>8, <1>9 DEF CountInv

LEMMA CountOther ==
  ASSUME TypeInv, CountInv, UNCHANGED <<received, complete>>,
         run' = run \/ \E e \in Reasons : RecordError(e)
  PROVE CountInv'
<1>1. Completed' = Completed /\ Received' = Received
  BY CountedAlike
<1>2. CASE run' = run
  BY <1>1, <1>2 DEF CountInv
<1>3. ASSUME NEW e \in Reasons, RecordError(e) PROVE CountInv'
  <2>1. /\ run'.errors = run.errors \cup {e}
        /\ run'.completed = run.completed /\ run'.received = run.received
    BY <1>3, ErrorDoes
  <2>2. run'.errors # {}
    BY <2>1
  <2> QED
    BY <1>1, <2>1, <2>2 DEF CountInv
<1> QED
  BY <1>2, <1>3

\* What the steps that are not about bytes record.
LEMMA OthersRecord ==
  /\ \A c \in Conns : Outside(c) => run' = run \/ \E e \in Reasons : RecordError(e)
  /\ MainSteps \/ UNCHANGED vars => run' = run
  /\ \A c \in Conns : Break(c) \/ Corrupt(c) => run' = run /\ UNCHANGED <<received, complete>>
<1>1. \A c \in Conns : Outside(c) => run' = run \/ \E e \in Reasons : RecordError(e)
  BY DEF Outside, ClientFails, WaitClosed, Connected, ConnectFails, LateConnect, Reasons
<1>2. MainSteps \/ UNCHANGED vars => run' = run
  BY DEF MainSteps, AllConnected, ConnectTimesOut, StartSending, AllSent, StartClients, Wait,
         Gather, CancelClients, CancelAgain,
         Collect, CloseChannel, AllClosed, Build, vars
<1>3. \A c \in Conns : Break(c) \/ Corrupt(c) => run' = run /\ UNCHANGED <<received, complete>>
  BY DEF Break, Corrupt, states
<1> QED
  BY <1>1, <1>2, <1>3

LEMMA CountStep == ASSUME FinalInv, EchoInv, [Next]_vars PROVE CountInv'
<1>t. TypeInv /\ UnitsInv /\ CountInv
  BY DEF EchoInv
<1>1. ASSUME NEW c \in Conns, NEW who \in Callers, SendNext(c, who) PROVE CountInv'
  BY <1>t, <1>1, SendDoes, CountOther
<1>2. ASSUME NEW c \in Conns, Feed(c) \/ ClientReceives(c) PROVE CountInv'
  <2>1. UNCHANGED <<run, received, complete>>
    BY <1>t, <1>2, MoveDoes DEF states
  <2> QED
    BY <1>t, <2>1, CountOther
<1>3. ASSUME NEW c \in Conns, Takes(c) PROVE CountInv'
  <2>1. CASE Right(c)
    BY <1>t, <1>3, <2>1, CountRight
  <2>2. CASE Wrong(c)
    BY <1>t, <2>2, CountOther DEF Wrong, Reasons
  <2> QED
    BY <1>3, <2>1, <2>2 DEF Takes
<1>4. ASSUME NEW c \in Conns, ClientSends(c) PROVE CountInv'
  BY <1>t, <1>4, ClientSendDoes, CountOther
<1>5. ASSUME NEW c \in Conns, Break(c) \/ Corrupt(c) PROVE CountInv'
  BY <1>t, <1>5, OthersRecord, CountOther
<1>6. ASSUME NEW c \in Conns, Outside(c) PROVE CountInv'
  BY <1>t, <1>6, OthersRecord, StillDoes, CountOther DEF Still, states
<1>7. ASSUME MainSteps \/ UNCHANGED vars PROVE CountInv'
  BY <1>t, <1>7, OthersRecord, StillDoes, CountOther DEF Still, states
<1>8. ASSUME NEW c \in Conns, HandleFrame(c) \/ ClientChecks(c) PROVE Takes(c)
  BY <1>t, <1>8, HandleTakes, CheckTakes
<1> QED
  BY <1>1, <1>2, <1>3, <1>4, <1>5, <1>6, <1>7, <1>8, StepKinds

LEMMA TypeStep == ASSUME FinalInv, EchoInv, [Next]_vars PROVE TypeInv'
<1>t. TypeInv /\ UnitsInv /\ CountInv /\ run \in Records /\ Typed(stream) /\ Typed(buffer)
  BY DEF EchoInv, TypeInv, Typed, Records, Reasons, Units
<1>n. N \in Nat \ {0} /\ Conns = 1 .. N /\ Messages \in Nat /\ MaxFaults \in Nat /\ faults \in Nat
      /\ at \in 1 .. N + 1
  BY <1>t, PerfAssumption DEF PerfAssumption, Conns, TypeInv
<1>r. ASSUME Typed(stream'), Typed(buffer'), run' \in Records,
             UNCHANGED <<case, link, history, client, main>>,
             received' \in [Conns -> 0 .. Messages], complete' \in [Conns -> BOOLEAN]
      PROVE TypeInv'
  BY <1>r, <1>t DEF TypeInv, Typed, Records, Reasons, Units, case, history, main
<1>1. ASSUME NEW c \in Conns, NEW who \in Callers, SendNext(c, who) PROVE TypeInv'
  <2>1. /\ UNCHANGED <<case, run, link, history, buffer, received, complete, client, phase, timedOut>>
        /\ at' \in 1 .. N + 1
        /\ \/ stream' = stream
           \/ /\ sender[c][who].sequence \in Nat
              /\ WriteFrame(c, sender[c][who].sequence)
    BY <1>t, <1>1, SendDoes
  <2>2. Typed(stream')
    BY <1>t, <2>1, WriteDoes
  <2> QED
    BY <1>t, <2>1, <2>2 DEF TypeInv, Typed, Units, case, history
<1>2. ASSUME NEW c \in Conns, Feed(c) \/ ClientReceives(c) PROVE TypeInv'
  BY <1>r, <1>t, <1>2, MoveDoes DEF states, TypeInv
<1>3. ASSUME NEW c \in Conns, Takes(c)
      PROVE /\ run' \in Records /\ Typed(stream') /\ Typed(buffer')
            /\ received' \in [Conns -> 0 .. Messages] /\ complete' \in [Conns -> BOOLEAN]
            /\ UNCHANGED <<case, history, main>>
  <2>1. Typed(stream') /\ Typed(buffer') /\ UNCHANGED <<case, history, main>>
    BY <1>t, <1>3, TakesDoes DEF Takes
  <2>2. CASE Right(c)
    <3>1. run' \in Records /\ received' \in [Conns -> 0 .. Messages]
      BY <1>t, <1>3, <2>2, RightDoes
    <3>2. complete' \in [Conns -> BOOLEAN]
      BY <1>t, <2>2 DEF Right, TypeInv
    <3> QED
      BY <2>1, <3>1, <3>2
  <2>3. CASE Wrong(c)
    <3>1. run' \in Records
      BY <1>t, <2>3, ErrorDoes DEF Wrong, Reasons
    <3> QED
      BY <1>t, <2>1, <2>3, <3>1 DEF Wrong, TypeInv
  <2> QED
    BY <1>3, <2>2, <2>3 DEF Takes
<1>4. ASSUME NEW c \in Conns, HandleFrame(c) PROVE TypeInv'
  <2>1. Takes(c) /\ UNCHANGED <<link, client>>
    BY <1>t, <1>4, HandleTakes
  <2> QED
    BY <1>r, <1>3, <2>1
<1>5. ASSUME NEW c \in Conns, ClientChecks(c) PROVE TypeInv'
  <2>1. /\ Takes(c)
        /\ \/ ClientEnds(c)
           \/ client' = [client EXCEPT ![c] = IF sequential THEN "send" ELSE @] /\ link' = link
    BY <1>t, <1>5, CheckTakes
  <2>2. /\ client' \in [Conns -> {"none", "send", "receive", "closing", "cancelling", "cancelled", "over"}]
        /\ link' \in [Conns -> {"none", "open", "failed", "broken", "closed"}]
    BY <1>t, <2>1 DEF ClientEnds, TypeInv
  <2> QED
    BY <1>3, <1>t, <2>1, <2>2 DEF TypeInv, Typed, Records, Reasons, Units, case, history, main
<1>6. ASSUME NEW c \in Conns, ClientSends(c) PROVE TypeInv'
  <2>1. /\ sent[c] \in Nat /\ WriteFrame(c, sent[c])
        /\ client' = IF sequential \/ sent[c] + 1 = Messages
                     THEN [client EXCEPT ![c] = "receive"] ELSE client
        /\ UNCHANGED <<case, run, link, history, buffer, received, complete, sender, main>>
    BY <1>t, <1>6, ClientSendDoes
  <2>2. Typed(stream')
    BY <1>t, <2>1, WriteDoes
  <2>3. client' \in [Conns -> {"none", "send", "receive", "closing", "cancelling", "cancelled", "over"}]
    BY <1>t, <2>1 DEF TypeInv
  <2> QED
    BY <1>t, <2>1, <2>2, <2>3 DEF TypeInv, Typed, Units, case, history, main
<1>7. ASSUME NEW c \in Conns, Break(c) PROVE TypeInv'
  <2>1. /\ Typed(stream') /\ buffer' = buffer /\ link' = [link EXCEPT ![c] = "broken"]
        /\ faults' = faults + 1 /\ faults < MaxFaults
        /\ UNCHANGED <<case, run, corrupted, buffer, states, sender, client, main>>
    BY <1>t, <1>7, BreakDoes
  <2>2. /\ link' \in [Conns -> {"none", "open", "failed", "broken", "closed"}]
        /\ faults' \in 0 .. MaxFaults
    BY <1>t, <1>n, <2>1 DEF TypeInv
  <2> QED
    BY <1>t, <2>1, <2>2 DEF TypeInv, Typed, Units, case, main, states
<1>8. ASSUME NEW c \in Conns, Corrupt(c) PROVE TypeInv'
  <2>1. /\ Typed(stream') /\ faults' = faults + 1 /\ faults < MaxFaults /\ corrupted' = TRUE
        /\ UNCHANGED <<case, run, link, buffer, states, sender, client, main>>
    BY <1>t, <1>8, CorruptDoes
  <2>2. faults' \in 0 .. MaxFaults
    BY <1>n, <2>1
  <2> QED
    BY <1>t, <2>1, <2>2 DEF TypeInv, Typed, Units, case, main, states
<1>9. ASSUME NEW c \in Conns, Outside(c) PROVE TypeInv'
  <2>1. UNCHANGED <<case, stream, buffer, states, corrupted, phase, timedOut>>
    BY <1>9, StillDoes DEF Still, Outside, ClientFails, WaitClosed, Connected, ConnectFails, LateConnect, main
  <2>2. run' \in Records
    BY <1>t, <1>9, OthersRecord, ErrorDoes
  <2>3. link' \in [Conns -> {"none", "open", "failed", "broken", "closed"}]
    BY <1>t, <1>9 DEF Outside, ClientFails, WaitClosed, Connected, ConnectFails, LateConnect, ClientEnds,
                      TypeInv
  <2>4. client' \in [Conns -> {"none", "send", "receive", "closing", "cancelling", "cancelled", "over"}]
    BY <1>t, <1>9 DEF Outside, ClientFails, WaitClosed, Connected, ConnectFails, LateConnect, ClientEnds,
                      TypeInv
  <2>5. faults' \in 0 .. MaxFaults
    <3>1. faults' = faults \/ (faults' = faults + 1 /\ faults < MaxFaults)
      BY <1>9
      DEF Outside, ClientFails, WaitClosed, Connected, ConnectFails, LateConnect, history, net
    <3>2. faults \in 0 .. MaxFaults
      BY <1>t DEF TypeInv
    <3> QED
      BY <1>n, <3>1, <3>2
  <2>6. at' \in 1 .. N + 1
    <3>1. at' = at \/ (at = c /\ at' = at + 1)
      BY <1>9 DEF Outside, ClientFails, WaitClosed, Connected, ConnectFails, LateConnect, main
    <3> QED
      BY <1>n, <3>1
  <2> QED
    BY <1>t, <2>1, <2>2, <2>3, <2>4, <2>5, <2>6 DEF TypeInv, Records, Reasons, case, states
<1>10. ASSUME MainSteps \/ UNCHANGED vars PROVE TypeInv'
  <2>1. UNCHANGED <<case, stream, buffer, states, history, run>>
    BY <1>10, StillDoes, OthersRecord
    DEF Still, MainSteps, AllConnected, ConnectTimesOut, StartSending, AllSent, StartClients, Wait,
        Gather, CancelClients, CancelAgain, Collect, CloseChannel, AllClosed, Build, vars, net, history
  <2>2. link' \in [Conns -> {"none", "open", "failed", "broken", "closed"}]
    BY <1>10, <1>t
    DEF MainSteps, AllConnected, ConnectTimesOut, StartSending, AllSent, StartClients, Wait,
        Gather, CancelClients, CancelAgain, Collect, CloseChannel, AllClosed, Build, vars, net, TypeInv
  <2>3. client' \in [Conns -> {"none", "send", "receive", "closing", "cancelling", "cancelled", "over"}]
    BY <1>10, <1>t
    DEF MainSteps, AllConnected, ConnectTimesOut, StartSending, AllSent, StartClients, Wait,
        Gather, CancelClients, Interrupted, CancelAgain, Collect, CloseChannel, AllClosed, Build, vars,
        net, TypeInv
  <2>4. phase' \in {"connect", "send", "wait", "cancel", "close", "exit", "built"}
    BY <1>10, <1>t
    DEF MainSteps, AllConnected, ConnectTimesOut, StartSending, AllSent, StartClients, Wait,
        Gather, CancelClients, CancelAgain, Collect, CloseChannel, AllClosed, Build, Become, vars, main, TypeInv
  <2>5. timedOut' \in BOOLEAN
    BY <1>10, <1>t
    DEF MainSteps, AllConnected, ConnectTimesOut, StartSending, AllSent, StartClients, Wait,
        Gather, CancelClients, CancelAgain, Collect, CloseChannel, AllClosed, Build, Become, vars, main, TypeInv
  <2>6. at' \in 1 .. N + 1
    <3>1. at' = at \/ at' = 1 \/ (at <= N /\ at' = at + 1)
      BY <1>10
      DEF MainSteps, AllConnected, ConnectTimesOut, StartSending, AllSent, StartClients, Wait,
          Gather, CancelClients, CancelAgain, Collect, CloseChannel, AllClosed, Build, Become, vars, main
    <3> QED
      BY <1>n, <3>1
  <2> QED
    BY <1>t, <2>1, <2>2, <2>3, <2>4, <2>5, <2>6 DEF TypeInv, case, states, history
<1> QED
  BY <1>1, <1>2, <1>4, <1>5, <1>6, <1>7, <1>8, <1>9, <1>10, StepKinds

-----------------------------------------------------------------------------
(* A wrong echo is missed in the end                                       *)

LEMMA Times ==
  /\ \A a \in Int : (a + 1) * Size = a * Size + Size /\ a * Size \in Int
  /\ \A a, b \in Int : a <= b => a * Size <= b * Size
  /\ 0 * Size = 0 /\ Size \in Nat /\ Size >= 1
<1>1. Size \in Nat /\ Size >= 1
  BY PerfAssumption DEF PerfAssumption
<1>2. \A a \in Int : (a + 1) * Size = a * Size + Size /\ a * Size \in Int
  BY <1>1
<1>3. \A a, b \in Int : a <= b => a * Size <= b * Size
  BY <1>1
<1> QED
  BY <1>1, <1>2, <1>3

\* No client has more on its way than it will take.
LEMMA FlightIsDue ==
  ASSUME FinalInv, EchoInv, NEW c \in Conns
  PROVE Len(Flight(c)) <= Due(c) /\ Due(c) \in Int /\ received[c] \in Nat /\ received[c] <= Messages
<1>1. /\ received[c] \in Nat /\ received[c] <= Messages /\ Messages \in Nat /\ sent[c] \in Nat
      /\ Len(Flight(c)) \in Nat
  <2>1. Len(Flight(c)) \in Nat
    BY FlightType DEF EchoInv
  <2>2. received[c] \in 0 .. Messages /\ sent[c] \in Nat
    BY DEF EchoInv, TypeInv, FinalInv, ShapeInv
  <2> QED
    BY <2>1, <2>2, Numbers
<1> DEFINE n == Len(Flight(c))
           r == received[c]
           s == sent[c]
<1>2. CASE Unshared
  <2> DEFINE w == Written(c)
  <2>1. n <= (w - r) * Size /\ w \in Int /\ w <= Messages
    <3>1. n <= (w - r) * Size
      BY <1>2 DEF EchoInv, AloneInv, Alone
    <3>2. s <= Messages /\ (Uncounted(c, "main") => s < Messages)
      BY <1>2 DEF EchoInv, AloneInv, Alone, Uncounted
    <3> HIDE DEF s
    <3>3. w = s + One(Uncounted(c, "main")) /\ s \in Nat
      BY <1>1 DEF Written, s
    <3>4. w \in Int /\ w <= Messages
      BY <1>1, <3>2, <3>3 DEF One
    <3> QED
      BY <3>1, <3>4
  <2> HIDE DEF w, n, r
  <2>2. w - r \in Int /\ Messages - r \in Int /\ w - r <= Messages - r
    BY <1>1, <2>1 DEF r
  <2>3. (w - r) * Size <= (Messages - r) * Size
    BY <2>2, Times
  <2>4. (w - r) * Size \in Int /\ (Messages - r) * Size \in Int
    BY <2>2, Times
  <2>5. n \in Nat
    BY <1>1 DEF n
  <2>6. n <= (Messages - r) * Size
    BY <2>1, <2>3, <2>4, <2>5
  <2> QED
    BY <1>1, <2>4, <2>6 DEF Due, n, r
<1>3. CASE ~Unshared
  <2>1. n <= Size /\ (r = Messages => Flight(c) = << >>)
    BY <1>3 DEF EchoInv, SharedInv, Shared
  <2>2. r = Messages => n = 0
    BY <2>1, EmptySeq
  <2> HIDE DEF n, r
  <2>3. Messages - r \in Int /\ (r = Messages => Messages - r = 0) /\ (r # Messages => 1 <= Messages - r)
    BY <1>1 DEF r
  <2>4. 1 * Size = Size
    BY Times
  <2>5. (Messages - r) * Size \in Int /\ (r # Messages => 1 * Size <= (Messages - r) * Size)
    BY <2>3, Times
  <2>6. n <= (Messages - r) * Size
    <3>1. CASE r = Messages
      BY <2>2, <2>3, <3>1, Times
    <3>2. CASE r # Messages
      BY <1>1, <2>1, <2>4, <2>5, <3>2, Times DEF n
    <3> QED
      BY <3>1, <3>2
  <2> QED
    BY <1>1, <2>5, <2>6 DEF Due, n, r
<1> QED
  BY <1>2, <1>3

\* Errors stay recorded, and connections gone.
LEMMA GoneForGood ==
  ASSUME TypeInv, FinalInv, UnitsInv, CountInv, [Next]_vars
  PROVE /\ run.errors # {} => run'.errors # {}
        /\ \A c \in Conns : link[c] \notin {"none", "open"} => link'[c] \notin {"none", "open"}
<1>e. ASSUME NEW e \in Reasons, RecordError(e) PROVE run'.errors # {}
  <2>1. run'.errors = run.errors \cup {e}
    BY <1>e, ErrorDoes
  <2> QED
    BY <2>1
<1>1. ASSUME NEW c \in Conns, Takes(c) PROVE run.errors # {} => run'.errors # {}
  <2>1. CASE Right(c)
    BY <1>1, <2>1, RightDoes
  <2>2. CASE Wrong(c)
    BY <1>e, <2>2 DEF Wrong, Reasons
  <2> QED
    BY <1>1, <2>1, <2>2 DEF Takes
<1>2. run.errors # {} => run'.errors # {}
  <2>1. ASSUME NEW c \in Conns, NEW who \in Callers, SendNext(c, who) PROVE run' = run
    BY <2>1, SendDoes
  <2>2. ASSUME NEW c \in Conns, Feed(c) \/ ClientReceives(c) \/ ClientSends(c) PROVE run' = run
    BY <2>2, MoveDoes, ClientSendDoes
  <2> QED
    BY <1>1, <1>e, <2>1, <2>2, StepKinds, OthersRecord, HandleTakes, CheckTakes
<1>3. ASSUME NEW c \in Conns, link[c] \notin {"none", "open"} PROVE link'[c] \notin {"none", "open"}
  <2>1. DOMAIN link = Conns
    BY DEF TypeInv
  <2>2. ASSUME NEW d \in Conns, NEW who \in Callers, SendNext(d, who) PROVE link' = link
    BY <2>2, SendDoes
  <2>3. ASSUME NEW d \in Conns, Feed(d) \/ ClientReceives(d) \/ ClientSends(d) PROVE link' = link
    BY <2>3, MoveDoes, ClientSendDoes
  <2>4. ASSUME NEW d \in Conns, HandleFrame(d) \/ ClientChecks(d)
        PROVE link'[c] \notin {"none", "open"}
    BY <1>3, <2>1, <2>4, HandleTakes, CheckTakes DEF ClientEnds
  <2>5. ASSUME NEW d \in Conns, Break(d) \/ Corrupt(d) \/ Outside(d)
        PROVE link'[c] \notin {"none", "open"}
    BY <1>3, <2>1, <2>5
    DEF Break, Corrupt, Outside, ClientFails, WaitClosed, Connected, ConnectFails, LateConnect, ClientEnds
  <2>6. ASSUME MainSteps \/ UNCHANGED vars PROVE link'[c] \notin {"none", "open"}
    BY <1>3, <2>1, <2>6
    DEF MainSteps, AllConnected, ConnectTimesOut, StartSending, AllSent, StartClients, Wait,
        Gather, CancelClients, CancelAgain, Collect, CloseChannel, AllClosed, Build, vars, net
  <2> QED
    BY <1>3, <2>2, <2>3, <2>4, <2>5, <2>6, StepKinds
<1> QED
  BY <1>2, <1>3

LEMMA DoomSame ==
  ASSUME NEW c \in Conns, Doomed(c), Flight(c)' = Flight(c), received'[c] = received[c],
         link[c] \notin {"none", "open"} => link'[c] \notin {"none", "open"}
  PROVE Doomed(c)'
<1>1. Due(c)' = Due(c)
  BY DEF Due
<1> QED
  BY <1>1 DEF Doomed

LEMMA DoomStep == ASSUME FinalInv, EchoInv, [Next]_vars PROVE DoomInv'
<1> SUFFICES ASSUME corrupted', run'.errors = {} PROVE \E c \in Conns : Doomed(c)'
  BY DEF DoomInv
<1>t. TypeInv /\ UnitsInv /\ CountInv
  BY DEF EchoInv
<1>g. /\ run.errors = {}
      /\ \A c \in Conns : link[c] \notin {"none", "open"} => link'[c] \notin {"none", "open"}
  BY <1>t, GoneForGood
<1>f. \A c \in Conns : /\ Len(Flight(c)) \in Nat /\ DOMAIN Flight(c) = 1 .. Len(Flight(c))
                       /\ Flight(c) \in Seq(Units) /\ buffer[c] \in Seq(Units)
                       /\ Len(buffer[c]) \in Nat /\ Len(buffer[c]) <= Len(Flight(c))
                       /\ \A i \in 1 .. Len(buffer[c]) : Flight(c)[i] = buffer[c][i]
  BY <1>t, FlightType
<1>d. \A c \in Conns : Len(Flight(c)) <= Due(c) /\ Due(c) \in Int /\ received[c] \in Nat
  BY FlightIsDue
<1>c. ASSUME NEW d \in Conns, Corrupt(d) PROVE \E c \in Conns : Doomed(c)'
  <2>1. /\ Len(buffer[d]) + 1 \in DOMAIN Flight(d) /\ DOMAIN Flight(d)' = DOMAIN Flight(d)
        /\ \A i \in DOMAIN Flight(d) :
             Flight(d)'[i] = IF i = Len(buffer[d]) + 1 THEN <<-1, 0>> ELSE Flight(d)[i]
        /\ UNCHANGED states
    BY <1>t, <1>c, CorruptDoes
  <2> DEFINE p == Len(buffer[d]) + 1
             n == Len(Flight(d))
  <2>2. p \in 1 .. n /\ n \in Nat /\ n <= Due(d) /\ Due(d) \in Int
    BY <1>f, <1>d, <2>1
  <2>3. p \in DOMAIN Flight(d)' /\ Flight(d)'[p] = <<-1, 0>>
    BY <2>1
  <2> HIDE DEF p, n
  <2>4. p <= Due(d)
    BY <2>2
  <2>5. Due(d)' = Due(d)
    BY <2>1 DEF Due, states
  <2> QED
    BY <2>3, <2>4, <2>5 DEF Doomed
<1> SUFFICES ASSUME NEW c \in Conns, Doomed(c), \A d \in Conns : ~Corrupt(d) PROVE Doomed(c)'
  <2>1. ASSUME \A d \in Conns : ~Corrupt(d) PROVE corrupted' = corrupted
    <3>1. ASSUME NEW d \in Conns, NEW who \in Callers, SendNext(d, who) PROVE corrupted' = corrupted
      BY <1>t, <3>1, SendDoes DEF history
    <3>2. ASSUME NEW d \in Conns, Feed(d) \/ ClientReceives(d) \/ ClientSends(d)
          PROVE corrupted' = corrupted
      BY <1>t, <3>2, MoveDoes, ClientSendDoes DEF history
    <3>3. ASSUME NEW d \in Conns, HandleFrame(d) \/ ClientChecks(d) PROVE corrupted' = corrupted
      BY <1>t, <3>3, HandleTakes, CheckTakes DEF Takes, history
    <3>4. ASSUME NEW d \in Conns, Break(d) PROVE corrupted' = corrupted
      BY <3>4 DEF Break
    <3> QED
      BY <2>1, <3>1, <3>2, <3>3, <3>4, StepKinds, StillDoes DEF Still
  <2>2. ASSUME corrupted' = corrupted PROVE \E d \in Conns : Doomed(d)
    BY <1>g, <2>2 DEF EchoInv, DoomInv
  <2> QED
    BY <1>c, <2>1, <2>2
<1>s. ASSUME Flight(c)' = Flight(c), received'[c] = received[c] PROVE Doomed(c)'
  BY <1>g, <1>s, DoomSame
\* A frame more: what was wrong is where it was.
<1>w. ASSUME NEW d \in Conns, NEW q \in Int, WriteFrame(d, q), buffer' = buffer,
             UNCHANGED <<link, received>>
      PROVE Doomed(c)'
  <2>1. /\ Typed(stream')
        /\ d # c \/ link[c] # "open" => Flight(c)' = Flight(c)
        /\ d = c /\ link[c] = "open" =>
             /\ Len(Flight(c)') = Len(Flight(c)) + Size
             /\ \A i \in 1 .. Len(Flight(c)) : Flight(c)'[i] = Flight(c)[i]
    BY <1>t, <1>w, WriteDoes
  <2>2. CASE d # c \/ link[c] # "open"
    BY <1>s, <1>w, <2>1, <2>2
  <2>3. CASE d = c /\ link[c] = "open"
    <3>1. PICK i \in 1 .. Len(Flight(c)) : i <= Due(c) /\ Flight(c)[i] = <<-1, 0>>
      BY <1>f, <2>3 DEF Doomed
    <3>2. Flight(c)' \in Seq(Units)
      BY <1>f, <1>w, <2>1, ConcatProperties DEF Flight, Typed
    <3>3. DOMAIN Flight(c)' = 1 .. Len(Flight(c)) + Size
      BY <2>1, <2>3, <3>2, LenProperties
    <3> DEFINE n == Len(Flight(c))
    <3>4. i \in 1 .. n /\ n \in Nat /\ Size \in Nat /\ DOMAIN Flight(c)' = 1 .. n + Size
      BY <1>f, <3>1, <3>3, Times
    <3> HIDE DEF n
    <3>5. i \in DOMAIN Flight(c)'
      BY <3>4
    <3>6. Flight(c)'[i] = <<-1, 0>> /\ Due(c)' = Due(c)
      BY <1>w, <2>1, <2>3, <3>1 DEF Due
    <3> QED
      BY <3>1, <3>5, <3>6 DEF Doomed
  <2> QED
    BY <2>2, <2>3
<1>1. ASSUME NEW d \in Conns, NEW who \in Callers, SendNext(d, who) PROVE Doomed(c)'
  <2>1. /\ UNCHANGED <<link, buffer, received>>
        /\ \/ stream' = stream
           \/ sender[d][who].sequence \in Nat /\ WriteFrame(d, sender[d][who].sequence)
    BY <1>t, <1>1, SendDoes
  <2>2. CASE stream' = stream
    BY <1>s, <2>1, <2>2, StillFlight
  <2>3. CASE sender[d][who].sequence \in Nat /\ WriteFrame(d, sender[d][who].sequence)
    BY <1>w, <2>1, <2>3
  <2> QED
    BY <2>1, <2>2, <2>3
<1>2. ASSUME NEW d \in Conns, Feed(d) \/ ClientReceives(d) PROVE Doomed(c)'
  BY <1>s, <1>t, <1>2, MoveDoes DEF states
\* A frame less: it was not the wrong one, which is nearer now.
<1>3. ASSUME NEW d \in Conns, Takes(d) PROVE Doomed(c)'
  <2>1. Right(d)
    <3>1. ASSUME Wrong(d) PROVE FALSE
      <4>1. run'.errors = run.errors \cup {"frame"}
        BY <1>t, <3>1, ErrorDoes DEF Wrong, Reasons
      <4> QED
        BY <4>1
    <3> QED
      BY <1>3, <3>1 DEF Takes
  <2>2. CASE d # c
    <3>1. received'[c] = received[c]
      BY <1>t, <2>1, <2>2 DEF Right, TypeInv
    <3> QED
      BY <1>s, <1>t, <1>3, <2>2, <3>1, TakesDoes
  <2>3. CASE d = c
    <3>1. /\ Len(Flight(c)) >= Size /\ Len(Flight(c)') = Len(Flight(c)) - Size
          /\ DOMAIN Flight(c)' = 1 .. Len(Flight(c)')
          /\ \A i \in 1 .. Len(Flight(c)) - Size : Flight(c)'[i] = Flight(c)[i + Size]
          /\ \A i \in 1 .. Size : Flight(c)[i] = <<received[c], i>>
      BY <1>t, <1>3, <2>1, <2>3, TakesDoes
    <3>2. received'[c] = received[c] + 1
      BY <1>t, <2>1, <2>3 DEF Right, TypeInv
    <3>3. Due(c)' = Due(c) - Size
      <4>1. /\ Messages - received[c] - 1 \in Int
            /\ (Messages - received[c] - 1) + 1 = Messages - received[c]
            /\ Messages - (received[c] + 1) = Messages - received[c] - 1
        <5> DEFINE r == received[c]
        <5>1. r \in Nat /\ Messages \in Nat
          BY <1>d, Numbers
        <5> HIDE DEF r
        <5>2. Messages - r - 1 \in Int /\ (Messages - r - 1) + 1 = Messages - r
              /\ Messages - (r + 1) = Messages - r - 1
          BY <5>1
        <5> QED
          BY <5>2 DEF r
      <4>2. (Messages - received[c]) * Size = (Messages - received[c] - 1) * Size + Size
            /\ (Messages - received[c] - 1) * Size \in Int
        BY <4>1, Times
      <4>3. Due(c) = (Messages - received[c] - 1) * Size + Size
        BY <4>2 DEF Due
      <4>4. Due(c)' = (Messages - received[c] - 1) * Size
        BY <3>2, <4>1 DEF Due
      <4> QED
        BY <4>2, <4>3, <4>4, Times
    <3> DEFINE n == Len(Flight(c))
               due == Due(c)
    <3>4. n \in Nat /\ due \in Int /\ Size \in Nat /\ n >= Size /\ DOMAIN Flight(c) = 1 .. n
          /\ DOMAIN Flight(c)' = 1 .. n - Size
      BY <1>f, <1>d, <3>1, Times
    <3>5. Len(Flight(c)') = n - Size /\ Due(c)' = due - Size
      BY <3>1, <3>3
    <3>6. /\ \A i \in 1 .. n - Size : Flight(c)'[i] = Flight(c)[i + Size]
          /\ \A i \in 1 .. Size : Flight(c)[i] = <<received[c], i>>
      BY <3>1
    <3> HIDE DEF n, due
    <3>7. ASSUME NEW i \in DOMAIN Flight(c), i <= due, Flight(c)[i] = <<-1, 0>> PROVE Doomed(c)'
      <4>1. i \notin 1 .. Size
        BY <1>d, <3>6, <3>7
      <4>2. i - Size \in 1 .. n - Size /\ (i - Size) + Size = i /\ i - Size <= due - Size
        BY <3>4, <3>7, <4>1
      <4>3. Flight(c)'[i - Size] = <<-1, 0>>
        BY <3>6, <3>7, <4>2
      <4> QED
        BY <3>4, <3>5, <4>2, <4>3 DEF Doomed
    <3>8. ASSUME link[c] \notin {"none", "open"}, n < due PROVE Doomed(c)'
      <4>1. n - Size < due - Size
        BY <3>4, <3>8
      <4> QED
        BY <1>g, <3>5, <3>8, <4>1 DEF Doomed
    <3> QED
      BY <3>7, <3>8 DEF Doomed, n, due
  <2> QED
    BY <2>2, <2>3
<1>4. ASSUME NEW d \in Conns, ClientSends(d) PROVE Doomed(c)'
  <2>1. sent[d] \in Nat /\ WriteFrame(d, sent[d]) /\ UNCHANGED <<link, buffer, received>>
    BY <1>t, <1>4, ClientSendDoes
  <2> QED
    BY <1>w, <2>1
\* The end of a connection: the wrong echo has come, or its frame never will.
<1>5. ASSUME NEW d \in Conns, Break(d) PROVE Doomed(c)'
  <2>1. /\ link[d] = "open" /\ link'[d] = "broken"
        /\ d # c => Flight(c)' = Flight(c)
        /\ d = c => Flight(c)' = buffer[c]
        /\ received' = received
    BY <1>t, <1>5, BreakDoes DEF states, TypeInv
  <2>2. CASE d # c
    BY <1>s, <2>1, <2>2
  <2>3. CASE d = c
    <3> DEFINE n == Len(Flight(c))
               p == Len(buffer[c])
               due == Due(c)
    <3>1. PICK i \in 1 .. n : i <= due /\ Flight(c)[i] = <<-1, 0>>
      BY <1>f, <2>1, <2>3 DEF Doomed
    <3>2. n \in Nat /\ p \in Nat /\ due \in Int /\ n <= due
      BY <1>f, <1>d
    <3>3. DOMAIN buffer[c] = 1 .. p
      BY <1>f, LenProperties
    <3>4. \A j \in 1 .. p : Flight(c)[j] = buffer[c][j]
      BY <1>f
    <3>5. Len(Flight(c)') = p /\ Due(c)' = due
      BY <2>1, <2>3 DEF Due
    <3> HIDE DEF n, p, due
    <3>6. CASE i <= p
      <4>1. i \in 1 .. p
        BY <3>2, <3>6
      <4> QED
        BY <2>1, <2>3, <3>1, <3>3, <3>4, <3>5, <4>1 DEF Doomed
    <3>7. CASE ~(i <= p)
      <4>1. p < due
        BY <3>1, <3>2, <3>7
      <4> QED
        BY <2>1, <2>3, <3>5, <4>1 DEF Doomed
    <3> QED
      BY <3>6, <3>7
  <2> QED
    BY <2>2, <2>3
<1>6. ASSUME Still PROVE Doomed(c)'
  BY <1>s, <1>6, StillFlight DEF Still, states
<1>7. ASSUME NEW d \in Conns, HandleFrame(d) \/ ClientChecks(d) PROVE Takes(d)
  BY <1>t, <1>7, HandleTakes, CheckTakes
<1> QED
  BY <1>1, <1>2, <1>3, <1>4, <1>5, <1>6, <1>7, StepKinds, StillDoes

-----------------------------------------------------------------------------
(* Each connection with one sender                                         *)

LEMMA CaseStays == ASSUME [Next]_vars PROVE UNCHANGED case
<1>1. ASSUME NEW c \in Conns, NEW who \in Callers, SendNext(c, who) PROVE UNCHANGED case
  BY <1>1 DEF SendNext, SendCheck, SendWrite, SendLoad, SendStore
<1>2. ASSUME NEW c \in Conns, Feed(c) \/ ClientReceives(c) \/ ClientSends(c) \/ HandleFrame(c)
                             \/ ClientChecks(c) \/ Break(c) \/ Corrupt(c)
      PROVE UNCHANGED case
  BY <1>2 DEF Feed, ClientReceives, ClientSends, HandleFrame, ClientChecks, Break, Corrupt
<1> QED
  BY <1>1, <1>2, StepKinds, StillDoes DEF Still

LEMMA FlightMath ==
  \A n, w, r \in Int : n <= (w - r) * Size =>
    /\ n + Size <= ((w + 1) - r) * Size
    /\ n - Size <= (w - (r + 1)) * Size
    /\ n >= Size => r + 1 <= w
<1> TAKE n, w, r \in Int
<1> HAVE n <= (w - r) * Size
<1>1. w - r \in Int /\ (w + 1) - r = (w - r) + 1 /\ w - (r + 1) \in Int /\ w - r = (w - (r + 1)) + 1
  OBVIOUS
<1>2. /\ ((w + 1) - r) * Size = (w - r) * Size + Size
      /\ (w - r) * Size = (w - (r + 1)) * Size + Size
      /\ (w - r) * Size \in Int /\ (w - (r + 1)) * Size \in Int
  BY <1>1, Times
<1>3. n >= Size => r + 1 <= w
  <2> SUFFICES ASSUME n >= Size, ~(r + 1 <= w) PROVE FALSE
    OBVIOUS
  <2>1. w - r <= 0
    OBVIOUS
  <2>2. (w - r) * Size <= 0 * Size
    BY <1>1, <2>1, Times
  <2> QED
    BY <1>2, <2>2, Times
<1> QED
  BY <1>2, <1>3, Times

\* The states of a client that sends and receives no more.
Ending == {"closing", "cancelling", "cancelled", "over"}

\* A step that makes the flight no longer and counts nothing.
LEMMA AloneSame ==
  ASSUME TypeInv, FinalInv, NEW c \in Conns, Alone(c), UNCHANGED case,
         Len(Flight(c)') <= Len(Flight(c)), Len(Flight(c)') \in Nat,
         sent'[c] = sent[c], received'[c] = received[c],
         \/ sender'[c] = sender[c]
         \/ /\ sender'[c]["main"].line = "check" /\ sender[c]["main"].line = "idle"
            /\ sender'[c]["loop"] = sender[c]["loop"],
         client'[c] = client[c] \/ (client'[c] \in Ending /\ client[c] # "none"),
         phase' \in {"connect", "send"} => phase \in {"connect", "send"}
  PROVE Alone(c)'
<1>1. Written(c)' = Written(c)
  BY DEF Written, Uncounted
<1>2. sent[c] \in Nat /\ received[c] \in Nat /\ Written(c) \in Int
  <2>1. received[c] \in 0 .. Messages
    BY DEF TypeInv
  <2>2. sent[c] \in Nat
    BY DEF FinalInv, ShapeInv
  <2>3. Written(c) \in Int
    BY <2>2 DEF Written, One
  <2> QED
    BY <2>1, <2>2, <2>3, Numbers
<1>3. (Written(c) - received[c]) * Size \in Int
  BY <1>2, Times
<1>4. Len(Flight(c)) \in Nat
  BY FlightType
<1>5. Len(Flight(c)') <= (Written(c)' - received'[c]) * Size
  <2> DEFINE n == Len(Flight(c))
             m == Len(Flight(c)')
             due == (Written(c) - received[c]) * Size
  <2>1. n \in Nat /\ m \in Nat /\ due \in Int /\ n <= due /\ m <= n
    BY <1>3, <1>4 DEF Alone
  <2> HIDE DEF n, m, due
  <2>2. m <= due
    BY <2>1
  <2>3. (Written(c)' - received'[c]) * Size = due
    BY <1>1 DEF due
  <2> QED
    BY <2>2, <2>3 DEF m
<1>6. received'[c] <= Written(c)'
  BY <1>1 DEF Alone
<1> QED
  BY <1>5, <1>6 DEF Alone, Ending, case

LEMMA AloneSend ==
  ASSUME FinalInv, EchoInv, Unshared, NEW c \in Conns, NEW who \in Callers, SendNext(c, who)
  PROVE \A d \in Conns : Alone(d)'
<1>t. TypeInv /\ (\A d \in Conns : Alone(d)) /\ Messages \in Nat
  BY Numbers DEF EchoInv, AloneInv
<1>1. /\ who = "main" /\ engine = "py-netty" /\ ~sequential /\ at = c /\ phase = "send"
  <2>1. sender[c][who].line # "idle"
    BY DEF SendNext, SendCheck, SendWrite, SendLoad, SendStore
  <2>2. who = "main"
    BY <1>t, <2>1 DEF Alone, Callers
  <2> QED
    BY <2>1, <2>2 DEF FinalInv, MainInv, Unshared
<1>2. /\ UNCHANGED <<case, link, buffer, received, client, phase>>
      /\ \/ stream' = stream
         \/ SendWrite(c, who) /\ WriteFrame(c, sender[c][who].sequence) /\ sender[c][who].sequence \in Nat
  BY <1>t, SendDoes
<1>3. /\ sent \in [Conns -> Nat] /\ sender \in [Conns -> [Callers -> Sends]]
      /\ sent[c] \in Nat /\ received[c] \in Nat /\ "main" \in Callers /\ "loop" \in Callers
      /\ sender[c]["main"] \in Sends
  <2>1. sent \in [Conns -> Nat] /\ sender \in [Conns -> [Callers -> Sends]]
    BY DEF FinalInv, ShapeInv
  <2>2. received[c] \in 0 .. Messages
    BY <1>t DEF TypeInv
  <2>3. "main" \in Callers /\ "loop" \in Callers
    BY DEF Callers
  <2>4. sender[c]["main"] \in Sends
    BY <2>1, <2>3
  <2> QED
    BY <1>t, <2>1, <2>2, <2>3, <2>4
<1>4. \A d \in Conns \ {c} : sender'[d] = sender[d] /\ sent'[d] = sent[d]
  BY <1>3 DEF SendNext, SendCheck, SendWrite, SendLoad, SendStore, Proceed, states
<1>5. \A d \in Conns \ {c} : Flight(d)' = Flight(d)
  BY <1>t, <1>2, StillFlight, WriteDoes
<1>6. \A d \in Conns \ {c} : Alone(d)'
  <2> TAKE d \in Conns \ {c}
  <2>1. Len(Flight(d)') <= Len(Flight(d)) /\ Len(Flight(d)') \in Nat
    BY <1>t, <1>5, FlightType
  <2> QED
    BY <1>t, <1>2, <1>4, <2>1, AloneSame
<1> DEFINE n == Len(Flight(c))
           here == sender[c]["main"]
<1>7. /\ n \in Nat /\ n <= (Written(c) - received[c]) * Size /\ received[c] <= Written(c)
      /\ sent[c] <= Messages /\ sender[c]["loop"].line = "idle" /\ client[c] = "none"
      /\ here.line = "write" => here.sequence = sent[c]
      /\ here.line = "store" => here.base = sent[c]
      /\ here.line \in {"write", "load", "store"} => sent[c] < Messages
  BY <1>t, <1>1, FlightType DEF Alone, FinalInv, EngineInv
<1>8. SUFFICES Alone(c)'
  BY <1>6
<1>9. ASSUME sender'[c]["loop"] = sender[c]["loop"],
             sent'[c] <= Messages, sent'[c] \in Nat,
             received[c] <= Written(c)',
             Len(Flight(c)') <= (Written(c)' - received[c]) * Size,
             sender'[c]["main"].line = "write" => sender'[c]["main"].sequence = sent'[c],
             sender'[c]["main"].line = "store" => sender'[c]["main"].base = sent'[c],
             sender'[c]["main"].line \in {"write", "load", "store"} => sent'[c] < Messages
      PROVE Alone(c)'
  BY <1>1, <1>2, <1>7, <1>9 DEF Alone, case
<1> HIDE DEF n
<1>10. CASE SendCheck(c, who)
  <2>1. /\ here.line = "check" /\ UNCHANGED <<stream, buffer, sent>>
    BY <1>1, <1>10 DEF SendCheck, net, states
  <2>2. Flight(c)' = Flight(c)
    BY <2>1, StillFlight
  <2>3. CASE sent[c] >= Messages
    <3>1. sender' = [sender EXCEPT ![c]["main"] = Idle]
      BY <1>1, <1>10, <2>3 DEF SendCheck, Proceed
    <3>2. sender'[c]["main"] = Idle /\ sender'[c]["loop"] = sender[c]["loop"]
      BY <1>3, <3>1
    <3>3. Written(c)' = Written(c)
      BY <2>1, <3>2 DEF Written, Uncounted, Idle
    <3> QED
      BY <1>3, <1>7, <1>9, <2>1, <2>2, <3>2, <3>3 DEF Idle, n
  <2>4. CASE ~(sent[c] >= Messages)
    <3>1. sender' = [sender EXCEPT ![c]["main"].line = "write", ![c]["main"].sequence = sent[c]]
      BY <1>1, <1>10, <2>4, Zenon DEF SendCheck
    <3>2. sender' = [sender EXCEPT ![c]["main"] = [here EXCEPT !.line = "write", !.sequence = sent[c]]]
      BY <3>1
    <3>3. /\ sender'[c]["main"] = [here EXCEPT !.line = "write", !.sequence = sent[c]]
          /\ sender'[c]["loop"] = sender[c]["loop"]
      BY <1>3, <3>2
    <3>4. sender'[c]["main"].line = "write" /\ sender'[c]["main"].sequence = sent[c]
      BY <1>3, <3>3 DEF Sends
    <3>5. Written(c)' = Written(c)
      BY <2>1, <3>4 DEF Written, Uncounted
    <3>6. sent[c] < Messages
      BY <1>t, <1>3, <2>4
    <3> QED
      BY <1>3, <1>7, <1>9, <2>1, <2>2, <3>3, <3>4, <3>5, <3>6 DEF n
  <2> QED
    BY <2>3, <2>4
<1>11. CASE SendWrite(c, who)
  <2>1. /\ here.line = "write" /\ sent' = sent /\ buffer' = buffer
        /\ sender' = [sender EXCEPT ![c]["main"] = [here EXCEPT !.line = "load"]]
        /\ WriteFrame(c, here.sequence) /\ here.sequence \in Nat
    BY <1>1, <1>3, <1>11 DEF SendWrite, states, Sends
  <2>2. /\ sender'[c]["main"] = [here EXCEPT !.line = "load"]
        /\ sender'[c]["loop"] = sender[c]["loop"]
    BY <1>3, <2>1
  <2>3. sender'[c]["main"].line = "load"
    BY <1>3, <2>2 DEF Sends
  <2>4. Written(c)' = Written(c) + 1 /\ Written(c) = sent[c]
    BY <1>3, <2>1, <2>3 DEF Written, Uncounted, One
  <2>5. Len(Flight(c)') <= n + Size
    <3>1. CASE link[c] = "open"
      <4>1. Len(Flight(c)') = n + Size
        BY <1>t, <2>1, <3>1, WriteDoes DEF n
      <4>2. n + Size \in Nat
        <5>1. n \in Nat
          BY <1>7
        <5> QED
          BY <5>1, Numbers
      <4> QED
        BY <4>1, <4>2
    <3>2. CASE link[c] # "open"
      <4>1. Flight(c)' = Flight(c)
        BY <1>t, <2>1, <3>2, WriteDoes
      <4>2. Len(Flight(c)') = n
        BY <4>1 DEF n
      <4> QED
        BY <1>7, <4>2, Times
    <3> QED
      BY <3>1, <3>2
  <2>6. n + Size <= ((Written(c) + 1) - received[c]) * Size
    <3>1. n \in Int /\ Written(c) \in Int /\ received[c] \in Int
      BY <1>3, <1>7, <2>4
    <3>2. n <= (Written(c) - received[c]) * Size
      BY <1>7
    <3> QED
      BY <3>1, <3>2, FlightMath, Zenon
  <2>7. Len(Flight(c)') \in Nat
    <3>1. Typed(stream') /\ Typed(buffer')
      BY <1>t, <2>1, WriteDoes DEF TypeInv, Typed, Units
    <3> QED
      BY <3>1, Joined DEF Typed, Flight
  <2>8. Len(Flight(c)') <= (Written(c)' - received[c]) * Size
    <3> DEFINE m == Len(Flight(c)')
               due == ((Written(c) + 1) - received[c]) * Size
    <3>1. due \in Int
      BY <1>3, <2>4, Times
    <3>2. m \in Nat /\ m <= n + Size /\ n + Size <= due
      BY <2>5, <2>6, <2>7
    <3>3. (Written(c)' - received[c]) * Size = due
      BY <2>4
    <3> HIDE DEF m, due
    <3>4. m <= due
      BY <1>7, <3>1, <3>2, Times
    <3> QED
      BY <3>3, <3>4 DEF m
  <2>9. received[c] <= Written(c)'
    BY <1>3, <1>7, <2>4
  <2> QED
    BY <1>3, <1>7, <1>9, <2>1, <2>2, <2>3, <2>8, <2>9
<1>12. CASE SendLoad(c, who)
  <2>1. /\ here.line = "load" /\ UNCHANGED <<sent, buffer, stream>>
        /\ sender' = [sender EXCEPT ![c]["main"] = [here EXCEPT !.line = "store", !.base = sent[c]]]
    BY <1>1, <1>12 DEF SendLoad, states, net
  <2>2. /\ sender'[c]["main"] = [here EXCEPT !.line = "store", !.base = sent[c]]
        /\ sender'[c]["loop"] = sender[c]["loop"]
    BY <1>3, <2>1
  <2>3. sender'[c]["main"].line = "store" /\ sender'[c]["main"].base = sent[c]
    BY <1>3, <2>2 DEF Sends
  <2>4. Written(c)' = Written(c) /\ Flight(c)' = Flight(c)
    BY <2>1, <2>3, StillFlight DEF Written, Uncounted
  <2> QED
    BY <1>3, <1>7, <1>9, <2>1, <2>2, <2>3, <2>4 DEF n
<1>13. CASE SendStore(c, who)
  <2>1. /\ here.line = "store" /\ UNCHANGED <<buffer, stream>>
        /\ sent' = [sent EXCEPT ![c] = here.base + 1]
        /\ sender' = [sender EXCEPT ![c]["main"] = [Idle EXCEPT !.line = "check"]]
    BY <1>1, <1>13 DEF SendStore, Proceed, net
  <2>2. /\ sender'[c]["main"] = [Idle EXCEPT !.line = "check"]
        /\ sender'[c]["loop"] = sender[c]["loop"]
        /\ sent'[c] = sent[c] + 1
    BY <1>3, <1>7, <2>1
  <2>3. sender'[c]["main"].line = "check"
    BY <2>2 DEF Idle
  <2>4. Written(c)' = Written(c) /\ Flight(c)' = Flight(c)
    BY <1>3, <2>1, <2>2, <2>3, StillFlight DEF Written, Uncounted, One
  <2>5. sent'[c] <= Messages /\ sent'[c] \in Nat
    BY <1>t, <1>3, <1>7, <2>1, <2>2
  <2> QED
    BY <1>3, <1>7, <1>9, <2>2, <2>3, <2>4, <2>5 DEF n
<1> QED
  BY <1>10, <1>11, <1>12, <1>13 DEF SendNext

LEMMA AloneStep == ASSUME FinalInv, EchoInv, [Next]_vars PROVE AloneInv'
<1>0. UNCHANGED case
  BY CaseStays
<1> SUFFICES ASSUME Unshared PROVE \A d \in Conns : Alone(d)'
  BY <1>0 DEF AloneInv, Unshared, case
<1>t. TypeInv /\ UnitsInv /\ CountInv /\ (\A d \in Conns : Alone(d)) /\ Messages \in Nat
  BY Numbers DEF EchoInv, AloneInv
<1>f. \A d \in Conns : Len(Flight(d)) \in Nat /\ Len(buffer[d]) \in Nat /\ Len(buffer[d]) <= Len(Flight(d))
  BY <1>t, FlightType
<1>n. \A d \in Conns : /\ sent[d] \in Nat /\ received[d] \in Nat /\ received[d] <= Messages
                       /\ Written(d) \in Nat
  <2> TAKE d \in Conns
  <2>1. sent[d] \in Nat /\ received[d] \in 0 .. Messages
    BY <1>t DEF FinalInv, ShapeInv, TypeInv
  <2>2. Written(d) \in Nat
    BY <2>1 DEF Written, One
  <2> QED
    BY <1>t, <2>1, <2>2
<1>d. DOMAIN sent = Conns /\ DOMAIN client = Conns /\ DOMAIN received = Conns
  BY <1>t DEF TypeInv, FinalInv, ShapeInv
\* A step that makes no flight longer and counts nothing.
<1>s. ASSUME NEW d \in Conns, Len(Flight(d)') <= Len(Flight(d)), Len(Flight(d)') \in Nat,
             sent'[d] = sent[d], received'[d] = received[d], sender'[d] = sender[d],
             client'[d] = client[d] \/ (client'[d] \in Ending /\ client[d] # "none"),
             phase' \in {"connect", "send"} => phase \in {"connect", "send"}
      PROVE Alone(d)'
  BY <1>0, <1>t, <1>s, AloneSame
<1>x. ASSUME NEW d \in Conns, Flight(d)' = Flight(d),
             sent'[d] = sent[d], received'[d] = received[d], sender'[d] = sender[d],
             client'[d] = client[d] \/ (client'[d] \in Ending /\ client[d] # "none"),
             phase' \in {"connect", "send"} => phase \in {"connect", "send"}
      PROVE Alone(d)'
  <2>1. Len(Flight(d)') <= Len(Flight(d)) /\ Len(Flight(d)') \in Nat
    BY <1>f, <1>x
  <2> QED
    BY <1>s, <1>x, <2>1
<1>1. ASSUME NEW c \in Conns, NEW who \in Callers, SendNext(c, who) PROVE \A d \in Conns : Alone(d)'
  BY <1>1, AloneSend
<1>2. ASSUME NEW c \in Conns, Feed(c) \/ ClientReceives(c) PROVE \A d \in Conns : Alone(d)'
  <2>1. (\A d \in Conns : Flight(d)' = Flight(d)) /\ UNCHANGED <<sent, received, sender, client, phase>>
    BY <1>t, <1>2, MoveDoes DEF states, main
  <2> QED
    BY <1>x, <2>1
\* A client of its own thread takes a frame, or a callback in a burst.
<1>3. ASSUME NEW c \in Conns, Takes(c), sender' = sender, \A d \in Conns \ {c} : client'[d] = client[d],
             \/ client'[c] = client[c] /\ ~(sequential /\ client[c] \in {"send", "receive"})
             \/ client'[c] \in Ending /\ client[c] # "none"
             \/ /\ client'[c] = "send" /\ client[c] = "receive" /\ sequential
                /\ Right(c) /\ received[c] + 1 # Messages
      PROVE \A d \in Conns : Alone(d)'
  <2>1. UNCHANGED <<sent, phase>>
    BY <1>3 DEF Takes, main
  <2>2. /\ \A d \in Conns \ {c} : Flight(d)' = Flight(d)
        /\ Len(Flight(c)) >= Size /\ Len(Flight(c)') = Len(Flight(c)) - Size
    BY <1>t, <1>3, TakesDoes
  <2>3. \A d \in Conns \ {c} : received'[d] = received[d]
    BY <1>3, <1>d DEF Takes, Right, Wrong
  <2>4. \A d \in Conns \ {c} : Alone(d)'
    BY <1>3, <1>x, <2>1, <2>2, <2>3
  <2> DEFINE n == Len(Flight(c))
             m == Len(Flight(c)')
  <2>5. n \in Nat /\ n >= Size /\ m = n - Size /\ Size \in Nat
    BY <1>f, <2>2, Times
  <2> HIDE DEF n, m
  <2>6. m \in Nat /\ m <= n
    BY <2>5
  <2>7. Alone(c)'
    <3>1. CASE Wrong(c)
      <4>1. received' = received /\ ~Right(c)
        BY <3>1 DEF Wrong, Right
      <4>2. client'[c] = client[c] \/ (client'[c] \in Ending /\ client[c] # "none")
        BY <1>3, <4>1
      <4>3. Len(Flight(c)') <= Len(Flight(c)) /\ Len(Flight(c)') \in Nat
        BY <2>6 DEF n, m
      <4> QED
        BY <1>3, <1>s, <2>1, <4>1, <4>2, <4>3
    <3>2. CASE Right(c)
      <4>1. received'[c] = received[c] + 1 /\ received[c] < Messages
        BY <1>t, <1>3, <1>d, <3>2, RightIsDue DEF Right
      <4>2. Written(c)' = Written(c)
        BY <1>3, <2>1 DEF Written, Uncounted
      <4> DEFINE w == Written(c)
                 r == received[c]
      <4>3. w \in Int /\ r \in Int /\ n <= (w - r) * Size
        <5>1. n <= (w - r) * Size
          BY <1>t DEF Alone, n
        <5> QED
          BY <1>n, <5>1
      <4>4. n - Size <= (w - (r + 1)) * Size /\ (n >= Size => r + 1 <= w)
        <5>1. n \in Int
          BY <2>5
        <5> QED
          BY <4>3, <5>1, FlightMath, Zenon
      <4>5. received'[c] <= Written(c)'
        BY <2>5, <4>1, <4>2, <4>4
      <4>6. Len(Flight(c)') <= (Written(c)' - received'[c]) * Size
        BY <2>5, <4>1, <4>2, <4>4 DEF m
      <4>7. client[c] = "receive" => engine # "py-netty"
        BY DEF FinalInv, EngineInv
      <4>8. /\ phase \in {"connect", "send"} /\ engine # "py-netty" => client[c] = "none" /\ sent[c] = 0
            /\ sequential /\ client[c] = "receive" => sent[c] = r + 1
            /\ client[c] = "send" => sent[c] < Messages
        BY <1>t DEF Alone
      <4>9. client'[c] = "send" =>
              sent[c] < Messages /\ (sequential => sent[c] = received'[c])
        <5>1. CASE client'[c] = client[c] /\ ~(sequential /\ client[c] \in {"send", "receive"})
          BY <4>8, <5>1
        <5>2. CASE client'[c] \in Ending /\ client[c] # "none"
          BY <5>2 DEF Ending
        <5>3. CASE /\ client'[c] = "send" /\ client[c] = "receive" /\ sequential
                   /\ Right(c) /\ received[c] + 1 # Messages
          <6>1. sent[c] = r + 1 /\ r \in Nat /\ r < Messages /\ r + 1 # Messages
            BY <1>n, <4>1, <4>8, <5>3
          <6> HIDE DEF r
          <6>2. sent[c] < Messages
            BY <1>t, <6>1
          <6> QED
            BY <4>1, <6>1, <6>2 DEF r
        <5> QED
          BY <1>3, <5>1, <5>2, <5>3
      <4>10. ~(sequential /\ client'[c] = "receive")
        BY <1>3 DEF Ending
      <4>11. phase \in {"connect", "send"} /\ engine # "py-netty" => client'[c] = "none" /\ sent[c] = 0
        BY <1>3, <4>8
      <4>12. /\ sender[c]["loop"].line = "idle" /\ sent[c] <= Messages
             /\ sender[c]["main"].line = "write" => sender[c]["main"].sequence = sent[c]
             /\ sender[c]["main"].line = "store" => sender[c]["main"].base = sent[c]
             /\ sender[c]["main"].line \in {"write", "load", "store"} => sent[c] < Messages
        BY <1>t DEF Alone
      <4> QED
        BY <1>0, <1>3, <2>1, <4>5, <4>6, <4>9, <4>10, <4>11, <4>12 DEF Alone, case
    <3> QED
      BY <1>3, <3>1, <3>2 DEF Takes
  <2> QED
    BY <2>4, <2>7
<1>4. ASSUME NEW c \in Conns, HandleFrame(c) PROVE \A d \in Conns : Alone(d)'
  <2>1. /\ Takes(c) /\ client' = client /\ engine = "py-netty"
        /\ sequential \/ sender' = sender
    BY <1>t, <1>4, HandleTakes
  <2>2. ~sequential /\ client[c] = "none"
    BY <2>1 DEF Unshared, FinalInv, EngineInv
  <2> QED
    BY <1>3, <2>1, <2>2
<1>5. ASSUME NEW c \in Conns, ClientChecks(c) PROVE \A d \in Conns : Alone(d)'
  <2>1. /\ Takes(c) /\ sender' = sender /\ client[c] = "receive"
        /\ \/ ClientEnds(c)
           \/ /\ Right(c) /\ ~(received[c] + 1 = Messages /\ ~complete[c])
              /\ client' = [client EXCEPT ![c] = IF sequential THEN "send" ELSE @]
    BY <1>t, <1>5, CheckTakes
  <2>2. \A d \in Conns \ {c} : client'[d] = client[d]
    BY <1>d, <2>1 DEF ClientEnds
  <2>3. CASE ClientEnds(c)
    <3>1. client'[c] \in Ending /\ client[c] # "none"
      BY <1>d, <2>1, <2>3 DEF ClientEnds, Ending
    <3> QED
      BY <1>3, <2>1, <2>2, <3>1
  <2>4. CASE /\ Right(c) /\ ~(received[c] + 1 = Messages /\ ~complete[c])
             /\ client' = [client EXCEPT ![c] = IF sequential THEN "send" ELSE @]
    <3>1. received[c] + 1 # Messages
      BY <1>t, <2>1, <2>4, RightDoes
    <3>2. client'[c] = IF sequential THEN "send" ELSE client[c]
      BY <1>d, <2>4
    <3> QED
      BY <1>3, <2>1, <2>2, <2>4, <3>1, <3>2
  <2> QED
    BY <2>1, <2>3, <2>4
<1>6. ASSUME NEW c \in Conns, ClientSends(c) PROVE \A d \in Conns : Alone(d)'
  <2>1. /\ client[c] = "send" /\ link[c] = "open" /\ engine # "py-netty"
        /\ WriteFrame(c, sent[c]) /\ sent' = [sent EXCEPT ![c] = sent[c] + 1]
        /\ client' = IF sequential \/ sent[c] + 1 = Messages
                     THEN [client EXCEPT ![c] = "receive"] ELSE client
        /\ UNCHANGED <<buffer, received, sender, phase>>
    BY <1>t, <1>6, ClientSendDoes DEF main
  <2>2. /\ \A d \in Conns \ {c} : Flight(d)' = Flight(d)
        /\ Len(Flight(c)') = Len(Flight(c)) + Size
    BY <1>t, <1>n, <2>1, WriteDoes
  <2>3. \A d \in Conns \ {c} : sent'[d] = sent[d] /\ client'[d] = client[d]
    BY <1>d, <2>1
  <2>4. \A d \in Conns \ {c} : Alone(d)'
    BY <1>x, <2>1, <2>2, <2>3
  <2>5. sent'[c] = sent[c] + 1 /\ sent[c] < Messages /\ (sequential => sent[c] = received[c])
    BY <1>d, <1>t, <2>1 DEF Alone
  <2>6. client'[c] = "receive" \/ (client'[c] = "send" /\ ~sequential /\ sent[c] + 1 # Messages)
    BY <1>d, <2>1
  <2>7. sender[c]["main"].line = "idle" /\ sender[c]["loop"].line = "idle"
    BY <2>1 DEF FinalInv, MainInv, EngineInv
  <2>8. Written(c)' = Written(c) + 1 /\ Written(c) = sent[c]
    BY <1>n, <2>1, <2>5, <2>7 DEF Written, Uncounted, One
  <2>9. Len(Flight(c)') <= (Written(c)' - received'[c]) * Size
    <3> DEFINE n == Len(Flight(c))
               w == Written(c)
               r == received[c]
    <3>1. n \in Int /\ w \in Int /\ r \in Int
      BY <1>f, <1>n
    <3>2. n <= (w - r) * Size
      BY <1>t DEF Alone
    <3>3. n + Size <= ((w + 1) - r) * Size
      BY <3>1, <3>2, FlightMath, Zenon
    <3> QED
      BY <2>1, <2>2, <2>8, <3>3
  <2>10. received'[c] <= Written(c)'
    BY <1>n, <1>t, <2>1, <2>8 DEF Alone
  <2>11. phase \notin {"connect", "send"}
    BY <1>t, <2>1 DEF Alone
  <2>12. sent[c] \in Nat /\ sent'[c] <= Messages /\ (sent[c] + 1 # Messages => sent'[c] < Messages)
    BY <1>n, <1>t, <2>5
  <2> QED
    BY <1>0, <2>1, <2>4, <2>5, <2>6, <2>7, <2>9, <2>10, <2>11, <2>12 DEF Alone, case
<1>7. ASSUME NEW c \in Conns, Break(c) PROVE \A d \in Conns : Alone(d)'
  <2>1. /\ \A d \in Conns \ {c} : Flight(d)' = Flight(d)
        /\ Flight(c)' = buffer[c]
        /\ UNCHANGED <<sent, received, sender, client, phase>>
    BY <1>t, <1>7, BreakDoes DEF states, main
  <2>2. Len(Flight(c)') <= Len(Flight(c)) /\ Len(Flight(c)') \in Nat
    BY <1>f, <2>1
  <2> QED
    BY <1>s, <1>x, <2>1, <2>2
<1>8. ASSUME NEW c \in Conns, Corrupt(c) PROVE \A d \in Conns : Alone(d)'
  <2>1. /\ \A d \in Conns \ {c} : Flight(d)' = Flight(d)
        /\ Len(Flight(c)') = Len(Flight(c))
        /\ UNCHANGED <<sent, received, sender, client, phase>>
    BY <1>t, <1>8, CorruptDoes DEF states, main
  <2>2. Len(Flight(c)') <= Len(Flight(c)) /\ Len(Flight(c)') \in Nat
    BY <1>f, <2>1
  <2> QED
    BY <1>s, <1>x, <2>1, <2>2
<1>9. ASSUME NEW c \in Conns, Outside(c) PROVE \A d \in Conns : Alone(d)'
  <2>1. UNCHANGED <<stream, buffer, sent, received, sender>>
    BY <1>9, StillDoes DEF Still, states
  <2>2. phase' = phase
    BY <1>9 DEF Outside, ClientFails, WaitClosed, Connected, ConnectFails, LateConnect, main
  <2>3. \A d \in Conns : client'[d] = client[d] \/ (client'[d] \in Ending /\ client[d] # "none")
    BY <1>9, <1>d DEF Outside, ClientFails, WaitClosed, Connected, ConnectFails, LateConnect,
                      ClientEnds, Ending
  <2>4. \A d \in Conns : Flight(d)' = Flight(d)
    BY <2>1, StillFlight
  <2> QED
    BY <1>x, <2>1, <2>2, <2>3, <2>4
<1>10. CASE UNCHANGED vars
  <2>1. UNCHANGED <<stream, buffer, sent, received, sender, client, phase>>
    BY <1>10 DEF vars, net, states, main
  <2> QED
    BY <1>x, <2>1, StillFlight
<1>11. CASE StartSending
  <2>1. UNCHANGED <<stream, buffer, sent, received, client, phase>>
    BY <1>11 DEF StartSending, net, states
  <2>2. \A d \in Conns : Flight(d)' = Flight(d)
    BY <2>1, StillFlight
  <2>3. \A d \in Conns : \/ sender'[d] = sender[d]
                         \/ /\ sender'[d]["main"].line = "check" /\ sender[d]["main"].line = "idle"
                            /\ sender'[d]["loop"] = sender[d]["loop"]
    <3>1. CASE sender' = sender
      BY <3>1
    <3>2. CASE sender' = [sender EXCEPT ![at]["main"].line = "check"]
      <4>1. sender[at]["main"].line = "idle"
        BY <1>11 DEF StartSending
      <4>2. sender \in [Conns -> [Callers -> Sends]] /\ "main" \in Callers /\ "loop" \in Callers
        BY DEF FinalInv, ShapeInv, Callers
      <4>3. ASSUME NEW d \in Conns, d = at
            PROVE /\ sender'[d]["main"] = [sender[d]["main"] EXCEPT !.line = "check"]
                  /\ sender'[d]["loop"] = sender[d]["loop"]
        BY <3>2, <4>2, <4>3
      <4>4. ASSUME NEW d \in Conns, d = at PROVE sender'[d]["main"].line = "check"
        <5>1. sender[d]["main"] \in Sends
          BY <4>2
        <5> QED
          BY <4>3, <4>4, <5>1 DEF Sends
      <4>5. \A d \in Conns : d # at => sender'[d] = sender[d]
        BY <3>2, <4>2
      <4> QED
        BY <4>1, <4>3, <4>4, <4>5
    <3> QED
      BY <1>11, <3>1, <3>2 DEF StartSending
  <2>4. \A d \in Conns : Len(Flight(d)') <= Len(Flight(d)) /\ Len(Flight(d)') \in Nat
    BY <1>f, <2>2
  <2>5. \A d \in Conns : sent'[d] = sent[d] /\ received'[d] = received[d] /\ client'[d] = client[d]
    BY <2>1
  <2> QED
    BY <1>0, <1>t, <2>1, <2>3, <2>4, <2>5, AloneSame
\* The clients begin, having sent nothing.
<1>12. CASE StartClients
  <2>1. /\ engine # "py-netty" /\ phase = "send" /\ phase' = "wait"
        /\ \A d \in Conns : client'[d] \in {"send", "none"}
        /\ UNCHANGED <<stream, buffer, sent, received, sender>>
    BY <1>12 DEF StartClients, Become, net, states
  <2>2. \A d \in Conns : Flight(d)' = Flight(d)
    BY <2>1, StillFlight
  <2> TAKE d \in Conns
  <2>3. sent[d] = 0 /\ sent[d] < Messages
    <3>1. sent[d] = 0
      BY <1>t, <2>1 DEF Alone
    <3> QED
      BY <3>1, PerfAssumption DEF PerfAssumption
  <2>4. sender[d]["main"].line = "idle"
    BY <2>1 DEF FinalInv, MainInv
  <2>5. Written(d) = 0
    BY <2>3, <2>4 DEF Written, Uncounted, One
  <2>6. received[d] = 0
    <3>1. received[d] <= Written(d)
      BY <1>t DEF Alone
    <3> QED
      BY <1>n, <2>5, <3>1
  <2>7. Written(d)' = Written(d)
    BY <2>1 DEF Written, Uncounted
  <2>8. Len(Flight(d)') <= (Written(d)' - received'[d]) * Size /\ received'[d] <= Written(d)'
    BY <1>t, <2>1, <2>2, <2>7 DEF Alone
  <2>9. /\ sender[d]["loop"].line = "idle" /\ sent[d] <= Messages
        /\ sender[d]["main"].line = "write" => sender[d]["main"].sequence = sent[d]
        /\ sender[d]["main"].line = "store" => sender[d]["main"].base = sent[d]
        /\ sender[d]["main"].line \in {"write", "load", "store"} => sent[d] < Messages
    BY <1>t DEF Alone
  <2>10. client'[d] # "receive"
    BY <2>1
  <2> QED
    BY <2>1, <2>3, <2>6, <2>8, <2>9, <2>10 DEF Alone
<1>13. ASSUME MainSteps, ~StartSending, ~StartClients PROVE \A d \in Conns : Alone(d)'
  <2>1. UNCHANGED <<stream, buffer, sent, received, sender>>
    BY <1>13, StillDoes DEF Still, states
  <2>2. phase' \in {"connect", "send"} => phase \in {"connect", "send"}
    BY <1>13 DEF MainSteps, AllConnected, ConnectTimesOut, AllSent, Wait, Gather, CancelClients,
                 CancelAgain, Collect, CloseChannel, AllClosed, Build, Become
  <2>3. \A d \in Conns : client'[d] = client[d] \/ (client'[d] \in Ending /\ client[d] # "none")
    <3>1. CASE CancelClients \/ CancelAgain
      BY <3>1 DEF CancelClients, Interrupted, CancelAgain, Ending
    <3>2. CASE ~(CancelClients \/ CancelAgain)
      BY <1>13, <3>2 DEF MainSteps, AllConnected, ConnectTimesOut, AllSent, Wait, Gather, Collect,
                         CloseChannel, AllClosed, Build
    <3> QED
      BY <3>1, <3>2
  <2>4. \A d \in Conns : Flight(d)' = Flight(d)
    BY <2>1, StillFlight
  <2> QED
    BY <1>x, <2>1, <2>2, <2>3, <2>4
<1> QED
  BY <1>1, <1>2, <1>4, <1>5, <1>6, <1>7, <1>8, <1>9, <1>10, <1>11, <1>12, <1>13, StepKinds

-----------------------------------------------------------------------------
(* Connections that the main thread and a callback write to                *)

LEMMA OneIs ==
  /\ One(TRUE) = 1 /\ One(FALSE) = 0
  /\ \A b \in BOOLEAN : One(b) \in {0, 1}
BY DEF One

LEMMA SharedSame ==
  ASSUME TypeInv, FinalInv, NEW c \in Conns, Shared(c),
         Flight(c) = << >> => Flight(c)' = << >>, Len(Flight(c)') <= Size,
         sent'[c] = sent[c], received'[c] = received[c],
         sender'[c]["loop"] = sender[c]["loop"],
         \/ sender'[c]["main"] = sender[c]["main"]
         \/ sender'[c]["main"].line = "check" /\ sender[c]["main"].line = "idle",
         MainOwes(c)' => MainOwes(c)
  PROVE Shared(c)'
<1>t. /\ sent[c] \in Nat /\ received[c] \in Nat /\ Messages \in Nat
      /\ sender[c]["main"].base \in Nat /\ sender[c]["loop"].base \in Nat
  <2>1. received[c] \in 0 .. Messages
    BY DEF TypeInv
  <2>2. sent[c] \in Nat /\ sender[c]["main"] \in Sends /\ sender[c]["loop"] \in Sends
    BY DEF FinalInv, ShapeInv, Callers
  <2> QED
    BY <2>1, <2>2, Numbers DEF Sends
<1>1. /\ Uncounted(c, "main")' = Uncounted(c, "main") /\ Uncounted(c, "loop")' = Uncounted(c, "loop")
      /\ LoopOwes(c)' = LoopOwes(c) /\ Quota(c)' = Quota(c)
  BY DEF Uncounted, LoopOwes, Quota
<1>2. /\ One(MainOwes(c)') <= One(MainOwes(c))
      /\ One(MainOwes(c)') \in Nat /\ One(MainOwes(c)) \in Nat
  BY DEF One
<1>3. /\ One(Uncounted(c, "main")) \in Nat /\ One(Uncounted(c, "loop")) \in Nat
      /\ One(LoopOwes(c)) \in Nat /\ Quota(c) \in Nat
  BY <1>t DEF One, Quota
<1>4. sent[c] + One(Uncounted(c, "main")) + One(Uncounted(c, "loop"))
        + One(MainOwes(c)') + One(LoopOwes(c)) <= Quota(c)
  <2> DEFINE k == sent[c] + One(Uncounted(c, "main")) + One(Uncounted(c, "loop"))
             l == One(LoopOwes(c))
             q == Quota(c)
             a == One(MainOwes(c))
             b == One(MainOwes(c)')
  <2>1. k \in Nat /\ l \in Nat /\ q \in Nat /\ a \in Nat /\ b \in Nat /\ b <= a
    BY <1>t, <1>2, <1>3
  <2>2. k + a + l <= q
    BY DEF Shared
  <2> HIDE DEF k, l, q, a, b
  <2>3. k + b + l <= q
    BY <2>1, <2>2
  <2> QED
    BY <2>3 DEF k, l, q, b
<1>5. MainOwes(c)' => sent'[c] = 0 /\ received'[c] = 0 /\ sender'[c]["loop"].line = "idle"
  BY DEF Shared
<1>6. LoopOwes(c)' => received'[c] < Messages
  BY <1>1 DEF Shared
<1>7. MainOwes(c)' \/ LoopOwes(c)' \/ received'[c] = Messages => Flight(c)' = << >>
  BY <1>1 DEF Shared
<1>8. \A who \in Callers : sender'[c][who].line = "write" => sender'[c][who].sequence < Messages
  BY DEF Shared, Callers
<1>9. sender'[c]["main"].line = "store" =>
        sender'[c]["main"].base + 1 + One(Uncounted(c, "loop")) + One(LoopOwes(c)) <= Quota(c)
  BY DEF Shared
<1>10. sender'[c]["loop"].line = "store" =>
        sender'[c]["loop"].base + 1 + One(Uncounted(c, "main")) <= Quota(c)
  BY DEF Shared
<1> QED
  BY <1>1, <1>4, <1>5, <1>6, <1>7, <1>8, <1>9, <1>10 DEF Shared

\* The next connection is not before the first frame of this one when the main thread
\* leaves a connection.
LEMMA OweLess ==
  ASSUME TypeInv, FinalInv, NEW d \in Conns, phase' = phase, at' = at \/ at' = at + 1,
         at' = at => sender'[d]["main"] = sender[d]["main"], MainOwes(d)'
  PROVE MainOwes(d)
<1>1. at \in Nat /\ d \in Nat
  BY Numbers DEF FinalInv, ShapeInv
<1>2. CASE at' = at
  BY <1>2 DEF MainOwes
<1>3. CASE at' = at + 1
  BY <1>1, <1>3 DEF MainOwes
<1> QED
  BY <1>2, <1>3

LEMMA SharedSend ==
  ASSUME FinalInv, EchoInv, ~Unshared, NEW c \in Conns, NEW who \in Callers, SendNext(c, who)
  PROVE \A d \in Conns : Shared(d)'
<1>t. TypeInv /\ (\A d \in Conns : Shared(d)) /\ Messages \in Nat /\ 1 <= Messages /\ sequential
  BY Numbers, PerfAssumption DEF EchoInv, SharedInv, Unshared, PerfAssumption
<1>1. /\ UNCHANGED <<case, link, buffer, received, client, phase>>
      /\ at' = at \/ (who = "main" /\ at = c /\ at' = at + 1)
      /\ \/ stream' = stream
         \/ SendWrite(c, who) /\ WriteFrame(c, sender[c][who].sequence) /\ sender[c][who].sequence \in Nat
  BY <1>t, SendDoes
<1>2. /\ sent \in [Conns -> Nat] /\ sender \in [Conns -> [Callers -> Sends]]
      /\ sent[c] \in Nat /\ received[c] \in Nat /\ received[c] <= Messages
      /\ "main" \in Callers /\ "loop" \in Callers
      /\ sender[c]["main"] \in Sends /\ sender[c]["loop"] \in Sends
      /\ sender[c]["main"].base \in Nat /\ sender[c]["loop"].base \in Nat
  <2>1. sent \in [Conns -> Nat] /\ sender \in [Conns -> [Callers -> Sends]]
    BY DEF FinalInv, ShapeInv
  <2>2. received[c] \in 0 .. Messages
    BY <1>t DEF TypeInv
  <2>3. "main" \in Callers /\ "loop" \in Callers
    BY DEF Callers
  <2>4. sender[c]["main"] \in Sends /\ sender[c]["loop"] \in Sends
    BY <2>1, <2>3
  <2> QED
    BY <1>t, <2>1, <2>2, <2>3, <2>4 DEF Sends
<1>3. \A d \in Conns \ {c} : sender'[d] = sender[d] /\ sent'[d] = sent[d]
  BY <1>2 DEF SendNext, SendCheck, SendWrite, SendLoad, SendStore, Proceed, states
<1>4. \A d \in Conns \ {c} : Flight(d)' = Flight(d)
  BY <1>t, <1>1, StillFlight, WriteDoes
<1>5. \A d \in Conns \ {c} : Shared(d)'
  <2> TAKE d \in Conns \ {c}
  <2>1. MainOwes(d)' => MainOwes(d)
    <3>1. SUFFICES ASSUME MainOwes(d)' PROVE MainOwes(d)
      OBVIOUS
    <3>2. phase' = phase /\ (at' = at \/ at' = at + 1) /\ sender'[d]["main"] = sender[d]["main"]
      BY <1>1, <1>3
    <3> QED
      BY <1>t, <3>1, <3>2, OweLess
  <2>2. Len(Flight(d)') <= Size /\ Shared(d)
    BY <1>t, <1>4 DEF Shared
  <2> QED
    BY <1>t, <1>1, <1>3, <1>4, <2>1, <2>2, SharedSame
<1>6. SUFFICES Shared(c)'
  BY <1>5
<1> DEFINE m == sender[c]["main"]
           l == sender[c]["loop"]
           s == sent[c]
           r == received[c]
           q == Quota(c)
\* What is on its way after a write.
<1>7. ASSUME SendWrite(c, who), Flight(c) = << >> PROVE Len(Flight(c)') <= Size
  <2>0. /\ WriteFrame(c, sender[c][who].sequence)
        /\ buffer' = buffer /\ sender[c][who].sequence \in Int
    BY <1>1, <1>2, <1>7 DEF SendWrite, Sends
  <2>1. Len(Flight(c)) = 0 /\ Size \in Nat
    BY <1>7, Times, EmptySeq
  <2>2. CASE link[c] = "open"
    <3>1. Len(Flight(c)') = Len(Flight(c)) + Size
      BY <1>t, <2>0, <2>2, WriteDoes
    <3> QED
      BY <2>1, <3>1
  <2>3. CASE link[c] # "open"
    <3>1. Flight(c)' = Flight(c)
      BY <1>t, <2>0, <2>3, WriteDoes
    <3> QED
      BY <2>1, <3>1
  <2> QED
    BY <2>2, <2>3
<1>8. /\ MainOwes(c) => s = 0 /\ r = 0 /\ l.line = "idle"
      /\ LoopOwes(c) => r < Messages
      /\ MainOwes(c) \/ LoopOwes(c) \/ r = Messages => Flight(c) = << >>
      /\ Len(Flight(c)) <= Size
      /\ m.line = "write" => m.sequence < Messages
      /\ l.line = "write" => l.sequence < Messages
      /\ s + One(Uncounted(c, "main")) + One(Uncounted(c, "loop")) + One(MainOwes(c)) + One(LoopOwes(c)) <= q
      /\ m.line = "store" => m.base + 1 + One(Uncounted(c, "loop")) + One(LoopOwes(c)) <= q
      /\ l.line = "store" => l.base + 1 + One(Uncounted(c, "main")) <= q
  BY <1>t, <1>2 DEF Shared
<1>9. received'[c] = r /\ Quota(c)' = q /\ q \in Nat
  BY <1>t, <1>1, <1>2 DEF Quota
<1>10. CASE who = "main"
  <2>1. engine = "py-netty" /\ phase = "send" /\ at = c /\ m.line # "idle"
    <3>1. m.line # "idle"
      BY <1>10 DEF SendNext, SendCheck, SendWrite, SendLoad, SendStore
    <3> QED
      BY <3>1 DEF FinalInv, MainInv
  <2>2. MainOwes(c) <=> m.line \in {"idle", "check", "write"}
    <3>1. ~(at < c)
      BY <2>1, Numbers
    <3> QED
      BY <2>1, <3>1 DEF MainOwes
  <2>l. /\ sender'[c]["loop"] = l
        /\ LoopOwes(c)' = LoopOwes(c) /\ Uncounted(c, "loop")' = Uncounted(c, "loop")
    <3>1. sender'[c]["loop"] = l
      BY <1>2, <1>10 DEF SendNext, SendCheck, SendWrite, SendLoad, SendStore, Proceed
    <3> QED
      BY <3>1 DEF LoopOwes, Uncounted
  <2>3. CASE SendCheck(c, who)
    <3>1. m.line = "check" /\ MainOwes(c) /\ s = 0 /\ r = 0 /\ Flight(c) = << >> /\ ~(s >= Messages)
      BY <1>t, <1>8, <1>10, <2>2, <2>3 DEF SendCheck
    <3>2. /\ sender' = [sender EXCEPT ![c]["main"].line = "write", ![c]["main"].sequence = s]
          /\ at' = at
      BY <1>10, <2>3, <3>1, Zenon DEF SendCheck
    <3>3. sender' = [sender EXCEPT ![c]["main"] = [m EXCEPT !.line = "write", !.sequence = s]]
      BY <3>2
    <3>4. sender'[c]["main"] = [m EXCEPT !.line = "write", !.sequence = s]
      BY <1>2, <3>3
    <3>5. sender'[c]["main"].line = "write" /\ sender'[c]["main"].sequence = s
      BY <1>2, <3>4 DEF Sends
    <3>6. UNCHANGED <<stream, buffer, sent>>
      BY <2>3 DEF SendCheck, net, states
    <3>7. Flight(c)' = Flight(c)
      BY <3>6, StillFlight
    <3>8. MainOwes(c)' = MainOwes(c) /\ Uncounted(c, "main")' = Uncounted(c, "main")
      BY <1>1, <2>1, <3>1, <3>2, <3>5 DEF MainOwes, Uncounted
    <3>9. sent'[c] = s
      BY <3>6
    <3>10. \A other \in Callers : sender'[c][other].line = "write" =>
             sender'[c][other].sequence < Messages
      BY <1>t, <1>8, <2>l, <3>1, <3>5 DEF Callers
    <3>11. sender'[c]["main"].line # "store"
      BY <3>5
    <3>12. sent'[c] + One(Uncounted(c, "main")') + One(Uncounted(c, "loop")')
             + One(MainOwes(c)') + One(LoopOwes(c)') <= Quota(c)'
      BY <1>8, <1>9, <2>l, <3>8, <3>9
    <3> QED
      BY <1>8, <1>9, <2>l, <3>7, <3>8, <3>9, <3>10, <3>11, <3>12 DEF Shared
  <2>4. CASE SendWrite(c, who)
    <3>1. /\ m.line = "write" /\ MainOwes(c) /\ s = 0 /\ r = 0 /\ l.line = "idle" /\ Flight(c) = << >>
      BY <1>t, <1>8, <1>10, <2>2, <2>4 DEF SendWrite
    <3>2. /\ sent' = sent /\ at' = at
          /\ sender' = [sender EXCEPT ![c]["main"] = [m EXCEPT !.line = "load"]]
      BY <1>10, <2>4 DEF SendWrite, states, main
    <3>3. sender'[c]["main"] = [m EXCEPT !.line = "load"]
      BY <1>2, <3>2
    <3>4. sender'[c]["main"].line = "load"
      BY <1>2, <3>3 DEF Sends
    <3>5. ~MainOwes(c)'
      BY <1>1, <2>1, <3>2, <3>4, Numbers DEF MainOwes
    <3>6. ~LoopOwes(c)' /\ ~Uncounted(c, "loop")'
      BY <2>l, <3>1 DEF LoopOwes, Uncounted
    <3>7. Quota(c) >= 1
      BY <1>t, <3>1 DEF Quota
    <3>8. sent'[c] + One(Uncounted(c, "main")') + One(Uncounted(c, "loop")')
            + One(MainOwes(c)') + One(LoopOwes(c)') <= Quota(c)'
      BY <1>9, <3>1, <3>2, <3>5, <3>6, <3>7 DEF One
    <3>9. Len(Flight(c)') <= Size
      BY <1>7, <2>4, <3>1
    <3>10. \A other \in Callers : sender'[c][other].line # "write" /\ sender'[c][other].line # "store"
      BY <2>l, <3>1, <3>4 DEF Callers
    <3>11. received'[c] # Messages
      BY <1>t, <1>9, <3>1
    <3> QED
      BY <1>2, <3>5, <3>6, <3>8, <3>9, <3>10, <3>11 DEF Shared
  <2>5. CASE SendLoad(c, who)
    <3>1. m.line = "load" /\ ~MainOwes(c)
      BY <1>10, <2>2, <2>5 DEF SendLoad
    <3>2. /\ sent' = sent /\ at' = at /\ UNCHANGED <<stream, buffer>>
          /\ sender' = [sender EXCEPT ![c]["main"] = [m EXCEPT !.line = "store", !.base = s]]
      BY <1>10, <2>5 DEF SendLoad, states, main, net
    <3>3. sender'[c]["main"] = [m EXCEPT !.line = "store", !.base = s]
      BY <1>2, <3>2
    <3>4. sender'[c]["main"].line = "store" /\ sender'[c]["main"].base = s
      BY <1>2, <3>3 DEF Sends
    <3>5. ~MainOwes(c)' /\ Uncounted(c, "main")' = Uncounted(c, "main") /\ Uncounted(c, "main")
      BY <1>1, <2>1, <3>1, <3>2, <3>4, Numbers DEF MainOwes, Uncounted
    <3>6. Flight(c)' = Flight(c) /\ sent'[c] = s
      BY <3>2, StillFlight
    <3>7. s + 1 + One(Uncounted(c, "loop")) + One(LoopOwes(c)) <= q
      <4>1. One(Uncounted(c, "main")) = 1 /\ One(MainOwes(c)) = 0
        BY <3>1, <3>5 DEF One
      <4>2. One(Uncounted(c, "loop")) \in Nat /\ One(LoopOwes(c)) \in Nat
        BY DEF One
      <4> QED
        BY <1>2, <1>8, <1>9, <4>1, <4>2
    <3>8. sent'[c] + One(Uncounted(c, "main")') + One(Uncounted(c, "loop")')
            + One(MainOwes(c)') + One(LoopOwes(c)') <= Quota(c)'
      <4>1. MainOwes(c)' = MainOwes(c)
        BY <3>1, <3>5 DEF MainOwes
      <4> QED
        BY <1>8, <1>9, <2>l, <3>5, <3>6, <4>1
    <3>9. \A other \in Callers : sender'[c][other].line = "write" =>
            sender'[c][other].sequence < Messages
      BY <1>8, <2>l, <3>4 DEF Callers
    <3> QED
      BY <1>8, <1>9, <2>l, <3>4, <3>5, <3>6, <3>7, <3>8, <3>9 DEF Shared
  <2>6. CASE SendStore(c, who)
    <3>1. m.line = "store" /\ ~MainOwes(c) /\ Uncounted(c, "main")
      BY <1>10, <2>2, <2>6 DEF SendStore, Uncounted
    <3>2. /\ sent' = [sent EXCEPT ![c] = m.base + 1] /\ UNCHANGED <<stream, buffer>>
          /\ sender' = [sender EXCEPT ![c]["main"] = Idle] /\ at' = at + 1
      BY <1>t, <1>10, <2>6 DEF SendStore, Proceed, net
    <3>3. sender'[c]["main"].line = "idle" /\ sent'[c] = m.base + 1
      BY <1>2, <3>2 DEF Idle
    <3>4. ~MainOwes(c)' /\ ~Uncounted(c, "main")'
      BY <1>1, <2>1, <3>2, <3>3, Numbers DEF MainOwes, Uncounted
    <3>5. Flight(c)' = Flight(c)
      BY <3>2, StillFlight
    <3>6. sent'[c] + One(Uncounted(c, "main")') + One(Uncounted(c, "loop")')
            + One(MainOwes(c)') + One(LoopOwes(c)') <= Quota(c)'
      <4>1. One(Uncounted(c, "main")') = 0 /\ One(MainOwes(c)') = 0
        BY <3>4 DEF One
      <4>2. m.base + 1 + One(Uncounted(c, "loop")) + One(LoopOwes(c)) <= q
        BY <1>8, <3>1
      <4>3. One(Uncounted(c, "loop")) \in Nat /\ One(LoopOwes(c)) \in Nat
        BY DEF One
      <4>4. m.base + 1 + 0 + One(Uncounted(c, "loop")) + 0 + One(LoopOwes(c)) <= q
        BY <1>2, <1>9, <4>2, <4>3
      <4> QED
        BY <1>9, <2>l, <3>3, <4>1, <4>4
    <3>7. l.line = "store" => l.base + 1 + 0 <= q
      <4> SUFFICES ASSUME l.line = "store" PROVE l.base + 1 + 0 <= q
        OBVIOUS
      <4>1. One(Uncounted(c, "main")) = 1 /\ l.base + 1 + One(Uncounted(c, "main")) <= q
        BY <1>8, <3>1 DEF One
      <4> QED
        BY <1>2, <1>9, <4>1
    <3>8. l.line = "store" => l.base + 1 + One(Uncounted(c, "main")') <= q
      BY <3>4, <3>7 DEF One
    <3>9. \A other \in Callers : sender'[c][other].line = "write" =>
            sender'[c][other].sequence < Messages
      BY <1>8, <2>l, <3>3 DEF Callers
    <3>10. sender'[c]["main"].line # "store"
      BY <3>3
    <3> QED
      BY <1>8, <1>9, <2>l, <3>4, <3>5, <3>6, <3>8, <3>9, <3>10 DEF Shared
  <2> QED
    BY <2>3, <2>4, <2>5, <2>6 DEF SendNext
<1>11. CASE who = "loop"
  <2>1. l.line # "idle" /\ ~MainOwes(c) /\ at' = at
    <3>1. l.line # "idle"
      BY <1>11 DEF SendNext, SendCheck, SendWrite, SendLoad, SendStore
    <3> QED
      BY <1>1, <1>8, <1>11, <3>1
  <2>l. /\ sender'[c]["main"] = m /\ MainOwes(c)' = MainOwes(c)
        /\ Uncounted(c, "main")' = Uncounted(c, "main")
    <3>1. sender'[c]["main"] = m
      BY <1>2, <1>11 DEF SendNext, SendCheck, SendWrite, SendLoad, SendStore, Proceed
    <3> QED
      BY <1>1, <2>1, <3>1 DEF MainOwes, Uncounted
  <2>m. ~MainOwes(c)' /\ One(MainOwes(c)) = 0 /\ One(MainOwes(c)') = 0
    BY <2>1, <2>l DEF One
  <2> DEFINE um == One(Uncounted(c, "main"))
             ul == One(Uncounted(c, "loop"))
             ol == One(LoopOwes(c))
  <2>n. um \in Nat /\ ul \in Nat /\ ol \in Nat /\ One(Uncounted(c, "main")') = um
    BY <2>l DEF One
  <2>s. /\ s + um + ul + 0 + ol <= q
        /\ m.line = "store" => m.base + 1 + ul + ol <= q
        /\ l.line = "store" => l.base + 1 + um <= q
    BY <1>8, <2>m
  <2>3. CASE SendCheck(c, who)
    <3>1. l.line = "check" /\ LoopOwes(c) /\ Flight(c) = << >> /\ UNCHANGED <<stream, buffer, sent>>
      <4>1. l.line = "check" /\ UNCHANGED <<stream, buffer, sent>>
        BY <1>11, <2>3 DEF SendCheck, net, states
      <4>2. LoopOwes(c)
        BY <4>1 DEF LoopOwes
      <4> QED
        BY <1>8, <4>1, <4>2
    <3>2. Flight(c)' = Flight(c) /\ sent'[c] = s /\ ~Uncounted(c, "loop")
      BY <3>1, StillFlight DEF Uncounted
    <3>3. CASE s >= Messages
      <4>1. sender' = [sender EXCEPT ![c]["loop"] = Idle]
        BY <1>11, <2>3, <3>3 DEF SendCheck, Proceed
      <4>2. sender'[c]["loop"].line = "idle"
        BY <1>2, <4>1 DEF Idle
      <4>3. ~LoopOwes(c)' /\ ~Uncounted(c, "loop")'
        BY <4>2 DEF LoopOwes, Uncounted
      <4>4. One(LoopOwes(c)') = 0 /\ One(Uncounted(c, "loop")') = 0
        BY <4>3 DEF One
      <4>5. s + um + 0 + 0 + 0 <= q /\ (m.line = "store" => m.base + 1 + 0 + 0 <= q)
        <5> HIDE DEF um, ul, ol, s, q
        <5>1. s \in Nat /\ q \in Nat
          BY <1>2, <1>9 DEF s, q
        <5> QED
          BY <1>2, <2>n, <2>s, <5>1
      <4>6. sent'[c] + One(Uncounted(c, "main")') + One(Uncounted(c, "loop")')
              + One(MainOwes(c)') + One(LoopOwes(c)') <= Quota(c)'
        BY <1>9, <2>m, <2>n, <3>2, <4>4, <4>5
      <4>7. m.line = "store" => m.base + 1 + One(Uncounted(c, "loop")') + One(LoopOwes(c)') <= q
        BY <4>4, <4>5
      <4>8. \A other \in Callers : sender'[c][other].line = "write" =>
              sender'[c][other].sequence < Messages
        BY <1>8, <2>l, <4>2 DEF Callers
      <4>9. sender'[c]["loop"].line # "store"
        BY <4>2
      <4> QED
        BY <1>8, <1>9, <2>l, <2>m, <3>1, <3>2, <4>3, <4>6, <4>7, <4>8, <4>9 DEF Shared
    <3>4. CASE ~(s >= Messages)
      <4>1. sender' = [sender EXCEPT ![c]["loop"].line = "write", ![c]["loop"].sequence = s]
        BY <1>11, <2>3, <3>4, Zenon DEF SendCheck
      <4>2. sender' = [sender EXCEPT ![c]["loop"] = [l EXCEPT !.line = "write", !.sequence = s]]
        BY <4>1
      <4>3. sender'[c]["loop"] = [l EXCEPT !.line = "write", !.sequence = s]
        BY <1>2, <4>2
      <4>4. sender'[c]["loop"].line = "write" /\ sender'[c]["loop"].sequence = s /\ s < Messages
        BY <1>t, <1>2, <3>4, <4>3 DEF Sends
      <4>5. LoopOwes(c)' = LoopOwes(c) /\ Uncounted(c, "loop")' = Uncounted(c, "loop")
        BY <3>1, <4>4 DEF LoopOwes, Uncounted
      <4>6. sent'[c] + One(Uncounted(c, "main")') + One(Uncounted(c, "loop")')
              + One(MainOwes(c)') + One(LoopOwes(c)') <= Quota(c)'
        BY <1>8, <1>9, <2>l, <3>2, <4>5
      <4>7. \A other \in Callers : sender'[c][other].line = "write" =>
              sender'[c][other].sequence < Messages
        BY <1>8, <2>l, <4>4 DEF Callers
      <4>8. sender'[c]["loop"].line # "store"
        BY <4>4
      <4> QED
        BY <1>8, <1>9, <2>l, <2>m, <3>1, <3>2, <4>5, <4>6, <4>7, <4>8 DEF Shared
    <3> QED
      BY <3>3, <3>4
  <2>4. CASE SendWrite(c, who)
    <3>1. l.line = "write" /\ LoopOwes(c) /\ Flight(c) = << >> /\ r < Messages
      <4>1. l.line = "write"
        BY <1>11, <2>4 DEF SendWrite
      <4>2. LoopOwes(c)
        BY <4>1 DEF LoopOwes
      <4> QED
        BY <1>8, <4>1, <4>2
    <3>2. /\ sent' = sent
          /\ sender' = [sender EXCEPT ![c]["loop"] = [l EXCEPT !.line = "load"]]
      BY <1>11, <2>4 DEF SendWrite, states
    <3>3. sender'[c]["loop"] = [l EXCEPT !.line = "load"]
      BY <1>2, <3>2
    <3>4. sender'[c]["loop"].line = "load" /\ sent'[c] = s
      BY <1>2, <3>2, <3>3 DEF Sends
    <3>5. ~LoopOwes(c)' /\ Uncounted(c, "loop")'
      BY <3>4 DEF LoopOwes, Uncounted
    <3>6. One(LoopOwes(c)') = 0 /\ One(Uncounted(c, "loop")') = 1 /\ ol = 1 /\ ul = 0
      BY <3>1, <3>5 DEF One, Uncounted
    <3>7. s + um + 1 + 0 + 0 <= q /\ (m.line = "store" => m.base + 1 + 1 + 0 <= q)
      <4> HIDE DEF um, ul, ol, s, q
      <4>1. s \in Nat /\ q \in Nat
        BY <1>2, <1>9 DEF s, q
      <4> QED
        BY <1>2, <2>n, <2>s, <3>6, <4>1
    <3>8. sent'[c] + One(Uncounted(c, "main")') + One(Uncounted(c, "loop")')
            + One(MainOwes(c)') + One(LoopOwes(c)') <= Quota(c)'
      BY <1>9, <2>m, <2>n, <3>4, <3>6, <3>7
    <3>9. m.line = "store" => m.base + 1 + One(Uncounted(c, "loop")') + One(LoopOwes(c)') <= q
      BY <3>6, <3>7
    <3>10. Len(Flight(c)') <= Size
      BY <1>7, <2>4, <3>1
    <3>11. \A other \in Callers : sender'[c][other].line = "write" =>
             sender'[c][other].sequence < Messages
      BY <1>8, <2>l, <3>4 DEF Callers
    <3>12. received'[c] # Messages /\ sender'[c]["loop"].line # "store"
      BY <1>t, <1>2, <1>9, <3>1, <3>4
    <3> QED
      BY <1>9, <2>l, <2>m, <3>5, <3>8, <3>9, <3>10, <3>11, <3>12 DEF Shared
  <2>5. CASE SendLoad(c, who)
    <3>1. l.line = "load" /\ Uncounted(c, "loop") /\ ~LoopOwes(c)
      BY <1>11, <2>5 DEF SendLoad, Uncounted, LoopOwes
    <3>2. /\ sent' = sent /\ UNCHANGED <<stream, buffer>>
          /\ sender' = [sender EXCEPT ![c]["loop"] = [l EXCEPT !.line = "store", !.base = s]]
      BY <1>11, <2>5 DEF SendLoad, states, net
    <3>3. sender'[c]["loop"] = [l EXCEPT !.line = "store", !.base = s]
      BY <1>2, <3>2
    <3>4. sender'[c]["loop"].line = "store" /\ sender'[c]["loop"].base = s
      BY <1>2, <3>3 DEF Sends
    <3>5. LoopOwes(c)' = LoopOwes(c) /\ Uncounted(c, "loop")' = Uncounted(c, "loop")
      BY <3>1, <3>4 DEF LoopOwes, Uncounted
    <3>6. Flight(c)' = Flight(c) /\ sent'[c] = s
      BY <3>2, StillFlight
    <3>7. s + 1 + um <= q
      <4>1. ul = 1 /\ ol = 0
        BY <3>1 DEF One
      <4> HIDE DEF um, ul, ol, s, q
      <4>2. s \in Nat /\ q \in Nat
        BY <1>2, <1>9 DEF s, q
      <4> QED
        BY <2>n, <2>s, <4>1, <4>2
    <3>8. sent'[c] + One(Uncounted(c, "main")') + One(Uncounted(c, "loop")')
            + One(MainOwes(c)') + One(LoopOwes(c)') <= Quota(c)'
      BY <1>8, <1>9, <2>l, <3>5, <3>6
    <3>9. \A other \in Callers : sender'[c][other].line = "write" =>
            sender'[c][other].sequence < Messages
      BY <1>8, <2>l, <3>4 DEF Callers
    <3>10. sender'[c]["loop"].base + 1 + One(Uncounted(c, "main")') <= q
      BY <2>n, <3>4, <3>7
    <3> QED
      BY <1>8, <1>9, <2>l, <2>m, <3>1, <3>5, <3>6, <3>8, <3>9, <3>10 DEF Shared
  <2>6. CASE SendStore(c, who)
    <3>1. l.line = "store" /\ Uncounted(c, "loop") /\ ~LoopOwes(c)
      BY <1>11, <2>6 DEF SendStore, Uncounted, LoopOwes
    <3>2. /\ sent' = [sent EXCEPT ![c] = l.base + 1] /\ UNCHANGED <<stream, buffer>>
          /\ sender' = [sender EXCEPT ![c]["loop"] = Idle]
      BY <1>11, <2>6 DEF SendStore, Proceed, net
    <3>3. sender'[c]["loop"].line = "idle" /\ sent'[c] = l.base + 1
      BY <1>2, <3>2 DEF Idle
    <3>4. ~LoopOwes(c)' /\ ~Uncounted(c, "loop")'
      BY <3>3 DEF LoopOwes, Uncounted
    <3>5. Flight(c)' = Flight(c)
      BY <3>2, StillFlight
    <3>6. One(LoopOwes(c)') = 0 /\ One(Uncounted(c, "loop")') = 0
      BY <3>4 DEF One
    <3>7. l.base + 1 + um + 0 + 0 + 0 <= q /\ (m.line = "store" => m.base + 1 + 0 + 0 <= q)
      <4> HIDE DEF um, ul, ol, q
      <4>1. q \in Nat
        BY <1>9 DEF q
      <4> QED
        BY <1>2, <2>n, <2>s, <3>1, <4>1
    <3>8. sent'[c] + One(Uncounted(c, "main")') + One(Uncounted(c, "loop")')
            + One(MainOwes(c)') + One(LoopOwes(c)') <= Quota(c)'
      BY <1>9, <2>m, <2>n, <3>3, <3>6, <3>7
    <3>9. m.line = "store" => m.base + 1 + One(Uncounted(c, "loop")') + One(LoopOwes(c)') <= q
      BY <3>6, <3>7
    <3>10. \A other \in Callers : sender'[c][other].line = "write" =>
             sender'[c][other].sequence < Messages
      BY <1>8, <2>l, <3>3 DEF Callers
    <3>11. sender'[c]["loop"].line # "store"
      BY <3>3
    <3> QED
      BY <1>8, <1>9, <2>l, <2>m, <3>1, <3>4, <3>5, <3>8, <3>9, <3>10, <3>11 DEF Shared
  <2> QED
    BY <2>3, <2>4, <2>5, <2>6 DEF SendNext
<1> QED
  BY <1>10, <1>11 DEF Callers

LEMMA SharedStep ==
  ASSUME FinalInv, EchoInv, ~Unshared, [Next]_vars
  PROVE \A c \in Conns : Shared(c)'
<1>t. /\ TypeInv /\ UnitsInv /\ CountInv /\ (\A d \in Conns : Shared(d))
      /\ engine = "py-netty" /\ sequential
  BY DEF EchoInv, SharedInv, Unshared
<1>f. \A d \in Conns : Len(Flight(d)) \in Nat /\ Len(Flight(d)) <= Size /\ Size \in Nat
                       /\ Flight(d) \in Seq(Units)
  BY <1>t, FlightType, Times DEF Shared
<1>d. DOMAIN received = Conns
  BY <1>t DEF TypeInv
\* A step that counts nothing and begins nothing.
<1>s. ASSUME UNCHANGED <<sent, received, sender>>, \A d \in Conns : MainOwes(d)' => MainOwes(d),
             \A d \in Conns : Flight(d)' = Flight(d)
                              \/ (Len(Flight(d)') <= Size /\ (Flight(d) = << >> => Flight(d)' = << >>))
      PROVE \A d \in Conns : Shared(d)'
  <2> TAKE d \in Conns
  <2>1. Len(Flight(d)') <= Size /\ (Flight(d) = << >> => Flight(d)' = << >>)
    <3>1. CASE Flight(d)' = Flight(d)
      BY <1>f, <3>1
    <3> QED
      BY <1>s, <3>1
  <2> QED
    BY <1>t, <1>s, <2>1, SharedSame
<1>m. ASSUME UNCHANGED <<sender, main>> PROVE \A d \in Conns : MainOwes(d)' => MainOwes(d)
  BY <1>m DEF MainOwes, main
<1>1. ASSUME NEW c \in Conns, NEW who \in Callers, SendNext(c, who)
      PROVE \A d \in Conns : Shared(d)'
  BY <1>1, SharedSend
<1>2. ASSUME NEW c \in Conns, Feed(c) \/ ClientReceives(c) PROVE \A d \in Conns : Shared(d)'
  <2>1. (\A d \in Conns : Flight(d)' = Flight(d)) /\ UNCHANGED <<sent, received, sender, main>>
    BY <1>t, <1>2, MoveDoes DEF states
  <2> QED
    BY <1>m, <1>s, <2>1
<1>3. ASSUME NEW c \in Conns, HandleFrame(c) PROVE \A d \in Conns : Shared(d)'
  <2>1. /\ Takes(c) /\ sender[c]["loop"].line = "idle"
        /\ \/ sender' = sender
           \/ /\ Right(c) /\ sequential /\ ~(received[c] + 1 = Messages /\ ~complete[c])
              /\ sender' = [sender EXCEPT ![c]["loop"].line = "check"]
    BY <1>t, <1>3, HandleTakes
  <2>2. UNCHANGED <<sent, main>>
    BY <2>1 DEF Takes
  <2>3. /\ \A d \in Conns \ {c} : Flight(d)' = Flight(d)
        /\ Len(Flight(c)) >= Size /\ Len(Flight(c)') = Len(Flight(c)) - Size
        /\ Typed(buffer') /\ stream' = stream
    BY <1>t, <2>1, TakesDoes
  <2>4. Len(Flight(c)') = 0 /\ Flight(c) # << >> /\ Len(Flight(c)') <= Size
    <3> DEFINE n == Len(Flight(c))
               k == Len(Flight(c)')
    <3>1. n \in Nat /\ n <= Size /\ n >= Size /\ k = n - Size /\ Size \in Nat /\ Size >= 1
      BY <1>f, <2>3, Times
    <3> HIDE DEF n, k
    <3>2. k = 0 /\ n >= 1 /\ k <= Size
      BY <3>1
    <3>3. Flight(c) # << >>
      BY <3>2, EmptySeq DEF n
    <3> QED
      BY <3>2, <3>3 DEF k
  <2>5. Flight(c)' = << >>
    <3>1. Flight(c)' \in Seq(Units)
      <4>1. buffer'[c] \in Seq(Units) /\ stream'[c] \in Seq(Units)
        BY <1>t, <2>3, FlightType DEF Typed
      <4> QED
        BY <4>1, ConcatProperties DEF Flight
    <3> QED
      BY <2>4, <3>1, EmptySeq
  <2>6. CASE Wrong(c)
    <3>1. received' = received /\ sender' = sender
      BY <2>1, <2>6 DEF Wrong, Right
    <3>2. \A d \in Conns : MainOwes(d)' => MainOwes(d)
      BY <1>m, <2>2, <3>1
    <3>3. \A d \in Conns : Flight(d)' = Flight(d)
            \/ (Len(Flight(d)') <= Size /\ (Flight(d) = << >> => Flight(d)' = << >>))
      BY <2>3, <2>4
    <3> QED
      BY <1>s, <2>2, <3>1, <3>2, <3>3
  <2>7. CASE Right(c)
    <3> DEFINE m == sender[c]["main"]
               s == sent[c]
               r == received[c]
               um == One(Uncounted(c, "main"))
               ol == One(LoopOwes(c)')
               q == Quota(c)
               p == Quota(c)'
    <3>1. r \in Nat /\ r < Messages /\ Messages \in Nat
      BY <1>t, <2>1, <2>7, RightIsDue, Numbers
    <3>2. received'[c] = r + 1 /\ \A d \in Conns \ {c} : received'[d] = received[d]
      BY <1>d, <2>7 DEF Right
    <3>3. ~MainOwes(c) /\ ~LoopOwes(c) /\ ~Uncounted(c, "loop")
      BY <1>t, <2>1, <2>4 DEF Shared, LoopOwes, Uncounted
    <3>4. /\ sender \in [Conns -> [Callers -> Sends]] /\ "main" \in Callers /\ "loop" \in Callers
          /\ s \in Nat /\ m \in Sends /\ m.base \in Nat
      <4>1. /\ sender \in [Conns -> [Callers -> Sends]] /\ "main" \in Callers
            /\ "loop" \in Callers /\ s \in Nat
        BY DEF FinalInv, ShapeInv, Callers
      <4>2. m \in Sends
        BY <4>1
      <4> QED
        BY <4>1, <4>2 DEF Sends
    <3>5. \/ sender' = sender
          \/ /\ r + 1 # Messages
             /\ sender' = [sender EXCEPT ![c]["loop"] = [sender[c]["loop"] EXCEPT !.line = "check"]]
      <4>1. ~complete[c]
        BY <1>t, <2>1, <2>7, RightDoes
      <4> QED
        BY <2>1, <4>1
    <3>6. /\ \A d \in Conns : sender'[d]["main"] = sender[d]["main"]
          /\ \A d \in Conns \ {c} : sender'[d] = sender[d]
      BY <3>4, <3>5
    <3>7. sender'[c]["loop"].line = "idle" \/ (r + 1 # Messages /\ sender'[c]["loop"].line = "check")
      <4>1. CASE sender' = sender
        BY <2>1, <4>1
      <4>2. CASE /\ r + 1 # Messages
                 /\ sender' = [sender EXCEPT ![c]["loop"] = [sender[c]["loop"] EXCEPT !.line = "check"]]
        <5>1. sender'[c]["loop"] = [sender[c]["loop"] EXCEPT !.line = "check"]
          BY <3>4, <4>2
        <5>2. sender[c]["loop"] \in Sends
          BY <3>4
        <5>3. sender'[c]["loop"].line = "check"
          BY <5>1, <5>2 DEF Sends
        <5> QED
          BY <4>2, <5>3
      <4> QED
        BY <3>5, <4>1, <4>2
    <3>8. \A d \in Conns : MainOwes(d)' => MainOwes(d)
      BY <2>2, <3>6 DEF MainOwes, main
    <3>9. \A d \in Conns \ {c} : Shared(d)'
      <4> TAKE d \in Conns \ {c}
      <4>1. Len(Flight(d)') <= Size /\ (Flight(d) = << >> => Flight(d)' = << >>)
        BY <1>f, <2>3
      <4>2. sent'[d] = sent[d] /\ received'[d] = received[d] /\ sender'[d] = sender[d] /\ (MainOwes(d)' => MainOwes(d))
        BY <2>2, <3>2, <3>6, <3>8
      <4> QED
        BY <1>t, <4>1, <4>2, SharedSame
    <3>10. ~MainOwes(c)' /\ ~Uncounted(c, "loop")' /\ Uncounted(c, "main")' = Uncounted(c, "main")
      BY <3>3, <3>6, <3>7, <3>8 DEF Uncounted
    <3>11. LoopOwes(c)' => r + 1 # Messages
      BY <3>7 DEF LoopOwes
    <3>12. /\ s + um + 0 + 0 + 0 <= q /\ um \in Nat
           /\ m.line = "store" => m.base + 1 + 0 + 0 <= q
      <4>1. One(Uncounted(c, "loop")) = 0 /\ One(MainOwes(c)) = 0 /\ One(LoopOwes(c)) = 0
        BY <3>3 DEF One
      <4>2. /\ s + um + One(Uncounted(c, "loop")) + One(MainOwes(c)) + One(LoopOwes(c)) <= q
            /\ m.line = "store" => m.base + 1 + One(Uncounted(c, "loop")) + One(LoopOwes(c)) <= q
        BY <1>t DEF Shared
      <4> QED
        BY <4>1, <4>2 DEF One
    <3>13. ol \in Nat /\ q \in Nat /\ p \in Nat /\ q + ol <= p
      <4>1. q = r + 1 /\ p = IF r + 1 < Messages THEN r + 2 ELSE Messages
        BY <3>1, <3>2 DEF Quota
      <4>2. ol \in {0, 1} /\ (ol = 1 => r + 1 # Messages)
        BY <3>11 DEF One
      <4> HIDE DEF ol, q, p, r
      <4> QED
        BY <3>1, <4>1, <4>2
    <3>14. s + um + 0 + 0 + ol <= p /\ (m.line = "store" => m.base + 1 + 0 + ol <= p)
      <4> HIDE DEF um, ol, p, q, s
      <4> QED
        BY <3>4, <3>12, <3>13
    <3>15. One(Uncounted(c, "loop")') = 0 /\ One(MainOwes(c)') = 0 /\ One(Uncounted(c, "main")') = um
      BY <3>10 DEF One
    <3>16. sent'[c] + One(Uncounted(c, "main")') + One(Uncounted(c, "loop")')
             + One(MainOwes(c)') + One(LoopOwes(c)') <= Quota(c)'
      BY <2>2, <3>14, <3>15
    <3>17. m.line = "store" => m.base + 1 + One(Uncounted(c, "loop")') + One(LoopOwes(c)') <= Quota(c)'
      BY <3>14, <3>15
    <3>18. LoopOwes(c)' => received'[c] < Messages
      BY <3>1, <3>2, <3>11
    <3>19. \A other \in Callers : sender'[c][other].line = "write" =>
             sender'[c][other].sequence < Messages
      BY <1>t, <3>6, <3>7 DEF Callers, Shared
    <3>20. sender'[c]["loop"].line # "store" /\ sender'[c]["main"] = m
      BY <3>6, <3>7
    <3>21. Shared(c)'
      BY <2>4, <2>5, <3>10, <3>16, <3>17, <3>18, <3>19, <3>20 DEF Shared
    <3> QED
      BY <3>9, <3>21
  <2> QED
    BY <2>1, <2>6, <2>7 DEF Takes
<1>4. ASSUME NEW c \in Conns, ClientChecks(c) \/ ClientSends(c) PROVE FALSE
  BY <1>t, <1>4 DEF ClientChecks, ClientSends, FinalInv, EngineInv
<1>5. ASSUME NEW c \in Conns, Break(c) PROVE \A d \in Conns : Shared(d)'
  <2>1. /\ \A d \in Conns \ {c} : Flight(d)' = Flight(d)
        /\ Flight(c)' = buffer[c]
        /\ UNCHANGED <<sent, received, sender, main>>
    BY <1>t, <1>5, BreakDoes DEF states
  <2>2. buffer[c] \in Seq(Units) /\ Len(buffer[c]) \in Nat /\ Len(buffer[c]) <= Len(Flight(c))
    BY <1>t, FlightType
  <2>3. Len(buffer[c]) <= Size
    <3> DEFINE n == Len(Flight(c))
               k == Len(buffer[c])
    <3>1. n \in Nat /\ k \in Nat /\ k <= n /\ n <= Size /\ Size \in Nat
      BY <1>f, <2>2
    <3> HIDE DEF n, k
    <3>2. k <= Size
      BY <3>1
    <3> QED
      BY <3>2 DEF k
  <2>4. Flight(c) = << >> => buffer[c] = << >>
    <3> SUFFICES ASSUME Flight(c) = << >> PROVE buffer[c] = << >>
      OBVIOUS
    <3>1. Len(Flight(c)) = 0
      BY EmptySeq
    <3>2. Len(buffer[c]) = 0
      BY <2>2, <3>1
    <3> QED
      BY <2>2, <3>2, EmptySeq
  <2>5. \A d \in Conns : Flight(d)' = Flight(d)
            \/ (Len(Flight(d)') <= Size /\ (Flight(d) = << >> => Flight(d)' = << >>))
    BY <2>1, <2>3, <2>4
  <2> QED
    BY <1>m, <1>s, <2>1, <2>5
<1>6. ASSUME NEW c \in Conns, Corrupt(c) PROVE \A d \in Conns : Shared(d)'
  <2>1. /\ \A d \in Conns \ {c} : Flight(d)' = Flight(d)
        /\ Len(Flight(c)') = Len(Flight(c)) /\ Len(buffer[c]) + 1 \in DOMAIN Flight(c)
        /\ UNCHANGED <<sent, received, sender, main>>
    BY <1>t, <1>6, CorruptDoes DEF states
  <2>2. Flight(c) # << >>
    BY <2>1
  <2>3. Len(Flight(c)') <= Size
    BY <1>f, <2>1
  <2> QED
    BY <1>m, <1>s, <2>1, <2>2, <2>3
<1>7. ASSUME NEW c \in Conns, Outside(c) PROVE \A d \in Conns : Shared(d)'
  <2>1. UNCHANGED <<stream, buffer, sent, received, sender>>
    BY <1>7, StillDoes DEF Still, states
  <2>2. phase' = phase /\ (at' = at \/ phase = "connect")
    BY <1>7 DEF Outside, ClientFails, WaitClosed, Connected, ConnectFails, LateConnect, main
  <2>3. \A d \in Conns : MainOwes(d)' => MainOwes(d)
    BY <2>1, <2>2 DEF MainOwes
  <2> QED
    BY <1>s, <2>1, <2>3, StillFlight
<1>8. CASE UNCHANGED vars
  <2>1. UNCHANGED <<stream, buffer, sent, received, sender, main>>
    BY <1>8 DEF vars, net, states
  <2> QED
    BY <1>m, <1>s, <2>1, StillFlight
<1>9. CASE StartSending
  <2>1. UNCHANGED <<stream, buffer, sent, received, phase>> /\ phase = "send" /\ at \in Nat
    BY <1>9 DEF StartSending, net, states, FinalInv, ShapeInv
  <2>2. \A d \in Conns : Flight(d)' = Flight(d)
    BY <2>1, StillFlight
  <2>3. \/ at' = at + 1 /\ sender' = sender
        \/ /\ sender' = [sender EXCEPT ![at]["main"].line = "check"] /\ at' = at
           /\ sender[at]["main"].line = "idle"
    BY <1>9 DEF StartSending
  <2>4. CASE at' = at + 1 /\ sender' = sender
    <3>1. \A d \in Conns : MainOwes(d)' => MainOwes(d)
      BY <1>t, <2>1, <2>4, OweLess
    <3> QED
      BY <1>s, <2>1, <2>2, <2>4, <3>1
  <2>5. CASE /\ sender' = [sender EXCEPT ![at]["main"].line = "check"] /\ at' = at
             /\ sender[at]["main"].line = "idle"
    <3>1. sender \in [Conns -> [Callers -> Sends]] /\ "main" \in Callers /\ "loop" \in Callers
      BY DEF FinalInv, ShapeInv, Callers
    <3>2. \A d \in Conns : d # at => sender'[d] = sender[d]
      BY <2>5, <3>1
    <3>3. ASSUME NEW d \in Conns, d = at
          PROVE /\ sender'[d]["main"] = [sender[d]["main"] EXCEPT !.line = "check"]
                /\ sender'[d]["loop"] = sender[d]["loop"]
      BY <2>5, <3>1, <3>3
    <3>4. ASSUME NEW d \in Conns, d = at PROVE sender'[d]["main"].line = "check"
      <4>1. sender[d]["main"] \in Sends
        BY <3>1
      <4> QED
        BY <3>3, <3>4, <4>1 DEF Sends
    <3> TAKE d \in Conns
    <3>5. /\ sender'[d]["loop"] = sender[d]["loop"]
          /\ \/ sender'[d]["main"] = sender[d]["main"]
             \/ sender'[d]["main"].line = "check" /\ sender[d]["main"].line = "idle"
      BY <2>5, <3>2, <3>3, <3>4
    <3>6. MainOwes(d)' => MainOwes(d)
      BY <2>1, <2>5, <3>2 DEF MainOwes
    <3>7. /\ sent'[d] = sent[d] /\ received'[d] = received[d]
          /\ Len(Flight(d)') <= Size /\ Flight(d)' = Flight(d)
      BY <1>f, <2>1, <2>2
    <3> QED
      BY <1>t, <3>5, <3>6, <3>7, SharedSame
  <2> QED
    BY <2>3, <2>4, <2>5
<1>10. ASSUME MainSteps, ~StartSending PROVE \A d \in Conns : Shared(d)'
  <2>1. UNCHANGED <<stream, buffer, sent, received, sender>>
    BY <1>10, StillDoes DEF Still, states
  <2>2. phase' \in {"connect", "send"} => phase = "connect"
    BY <1>10 DEF MainSteps, AllConnected, ConnectTimesOut, AllSent, StartClients, Wait, Gather,
                 CancelClients, CancelAgain, Collect, CloseChannel, AllClosed, Build, Become
  <2>3. \A d \in Conns : MainOwes(d)' => MainOwes(d)
    BY <2>2 DEF MainOwes
  <2> QED
    BY <1>s, <2>1, <2>3, StillFlight
<1> QED
  BY <1>1, <1>2, <1>3, <1>4, <1>5, <1>6, <1>7, <1>8, <1>9, <1>10, StepKinds

-----------------------------------------------------------------------------
(* A client that failed, or was not waited for, is reported                *)

LEMMA DoneForGood ==
  ASSUME TypeInv, FinalInv, UnitsInv, CountInv, [Next]_vars
  PROVE /\ run.done => run'.done
        /\ \A c \in Conns : complete[c] => complete'[c]
<1>0. DOMAIN complete = Conns
  BY DEF TypeInv
<1>e. ASSUME NEW e \in Reasons, RecordError(e) PROVE run'.done
  <2>1. run'.done = TRUE
    BY <1>e, ErrorDoes
  <2> QED
    BY <2>1
<1>1. ASSUME NEW c \in Conns, Takes(c)
      PROVE (run.done => run'.done) /\ \A d \in Conns : complete[d] => complete'[d]
  <2>1. CASE Right(c)
    <3>1. CASE received[c] + 1 = Messages
      <4>1. complete' = [complete EXCEPT ![c] = TRUE] /\ run'.done = (run.done \/ run.completed + 1 = N)
        BY <1>1, <2>1, <3>1, RightDoes
      <4>2. run.done => run'.done
        BY <4>1, Zenon
      <4> QED
        BY <1>0, <4>1, <4>2
    <3>2. CASE received[c] + 1 # Messages
      BY <1>1, <2>1, <3>2, RightDoes
    <3> QED
      BY <3>1, <3>2
  <2>2. CASE Wrong(c)
    BY <1>e, <2>2 DEF Wrong, Reasons
  <2> QED
    BY <1>1, <2>1, <2>2 DEF Takes
<1>2. ASSUME NEW c \in Conns, NEW who \in Callers, SendNext(c, who)
      PROVE run' = run /\ complete' = complete
  BY <1>2, SendDoes
<1>3. ASSUME NEW c \in Conns, Feed(c) \/ ClientReceives(c) PROVE run' = run /\ complete' = complete
  BY <1>3, MoveDoes DEF states
<1>4. ASSUME NEW c \in Conns, ClientSends(c) PROVE run' = run /\ complete' = complete
  BY <1>4, ClientSendDoes
<1>5. ASSUME (\E c \in Conns : Outside(c)) \/ MainSteps \/ UNCHANGED vars PROVE complete' = complete
  BY <1>5, StillDoes DEF Still, states
<1> QED
  BY <1>1, <1>e, <1>2, <1>3, <1>4, <1>5, StepKinds, OthersRecord, HandleTakes, CheckTakes

\* How the main thread goes on.
LEMMA PhaseDoes ==
  ASSUME [Next]_vars
  PROVE \/ UNCHANGED <<phase, timedOut>>
        \/ AllConnected \/ ConnectTimesOut \/ AllSent \/ StartClients \/ Wait \/ Gather
        \/ CancelClients \/ CancelAgain \/ Collect \/ AllClosed \/ Build
<1>1. ASSUME NEW c \in Conns, NEW who \in Callers, SendNext(c, who)
      PROVE UNCHANGED <<phase, timedOut>>
  BY <1>1 DEF SendNext, SendCheck, SendWrite, SendLoad, SendStore, main
<1>2. ASSUME NEW c \in Conns, Feed(c) \/ ClientReceives(c) \/ ClientSends(c) \/ HandleFrame(c)
                             \/ ClientChecks(c) \/ Break(c) \/ Corrupt(c) \/ Outside(c)
      PROVE UNCHANGED <<phase, timedOut>>
  BY <1>2 DEF Feed, ClientReceives, ClientSends, HandleFrame, ClientChecks, Break, Corrupt, Outside,
              ClientFails, WaitClosed, Connected, ConnectFails, LateConnect, main
<1>3. ASSUME StartSending \/ CloseChannel \/ UNCHANGED vars PROVE UNCHANGED <<phase, timedOut>>
  BY <1>3 DEF StartSending, CloseChannel, vars, main
<1> QED
  BY <1>1, <1>2, <1>3, StepKinds DEF MainSteps

\* What becomes of the connections and the clients.
LEMMA LinkDoes ==
  ASSUME TypeInv, FinalInv, [Next]_vars, NEW c \in Conns
  PROVE /\ link'[c] = "failed" => link[c] = "failed" \/ RecordError("connect")
        /\ link'[c] = "none" => link[c] = "none"
        /\ link'[c] = "closed" => link[c] = "closed" \/ phase # "connect" \/ client[c] # "none"
        /\ link'[c] = "closed" /\ phase = "send" =>
             link[c] \in {"closed", "none"} \/ client[c] # "none"
        /\ client'[c] # client[c] /\ ~StartClients => client[c] # "none"
        /\ client'[c] # client[c] /\ client'[c] \in Ended /\ ~StartClients =>
             \/ client[c] = "closing"
             \/ \E e \in Reasons : RecordError(e)
             \/ Takes(c) /\ Right(c) /\ received[c] + 1 = Messages
<1>0. DOMAIN link = Conns /\ DOMAIN client = Conns
  BY DEF TypeInv
<1>1. ASSUME NEW d \in Conns, NEW who \in Callers, SendNext(d, who) PROVE UNCHANGED <<link, client>>
  BY <1>1, SendDoes
<1>2. ASSUME NEW d \in Conns, Feed(d) \/ ClientReceives(d) PROVE UNCHANGED <<link, client>>
  BY <1>2, MoveDoes
<1>3. ASSUME NEW d \in Conns, HandleFrame(d) PROVE UNCHANGED <<link, client>>
  BY <1>3, HandleTakes
<1>4. ASSUME NEW d \in Conns, ClientChecks(d)
      PROVE /\ client[d] = "receive" /\ Takes(d)
            /\ \/ link' = link \/ link' = [link EXCEPT ![d] = "closed"]
            /\ \/ /\ \E end \in {"closing", "over"} : client' = [client EXCEPT ![d] = end]
                  /\ RecordError("frame") \/ (Right(d) /\ received[d] + 1 = Messages)
               \/ link' = link /\ client' = [client EXCEPT ![d] = IF sequential THEN "send" ELSE @]
  BY <1>4, CheckTakes DEF Wrong, ClientEnds
<1>5. ASSUME NEW d \in Conns, ClientSends(d)
      PROVE /\ client[d] = "send" /\ link' = link
            /\ client' = client \/ client' = [client EXCEPT ![d] = "receive"]
  BY <1>5, ClientSendDoes
<1>6. ASSUME NEW d \in Conns, Break(d)
      PROVE link' = [link EXCEPT ![d] = "broken"] /\ client' = client
  BY <1>6 DEF Break
<1>7. ASSUME NEW d \in Conns, Corrupt(d) PROVE UNCHANGED <<link, client>>
  BY <1>7 DEF Corrupt
<1>8. ASSUME NEW d \in Conns, ClientFails(d)
      PROVE /\ client[d] \in {"send", "receive"} /\ \E e \in Reasons : RecordError(e)
            /\ link' = link \/ link' = [link EXCEPT ![d] = "closed"]
            /\ \E end \in {"closing", "over"} : client' = [client EXCEPT ![d] = end]
  BY <1>8 DEF ClientFails, ClientEnds, Reasons
<1>9. ASSUME NEW d \in Conns, Connected(d) \/ ConnectFails(d) \/ LateConnect(d)
      PROVE /\ client' = client
            /\ \/ link' = [link EXCEPT ![d] = "open"]
               \/ link' = [link EXCEPT ![d] = "failed"] /\ RecordError("connect")
               \/ link' = [link EXCEPT ![d] = "closed"] /\ phase # "connect" /\ link[d] = "none"
  BY <1>9 DEF Connected, ConnectFails, LateConnect
<1>w. ASSUME NEW d \in Conns, WaitClosed(d)
      PROVE /\ client[d] \in {"closing", "cancelling"}
            /\ link' = [link EXCEPT ![d] = "closed"]
            /\ client' = [client EXCEPT ![d] = IF @ = "closing" THEN "over" ELSE "cancelled"]
  BY <1>w DEF WaitClosed
<1>10. ASSUME MainSteps, ~CloseChannel, ~CancelClients, ~CancelAgain, ~StartClients
       PROVE UNCHANGED <<link, client>>
  BY <1>10 DEF MainSteps, AllConnected, ConnectTimesOut, StartSending, AllSent, Wait, Gather,
               Collect, AllClosed, Build, net
<1>11. ASSUME StartClients PROVE link' = link
  BY <1>11 DEF StartClients, net
<1>12. ASSUME CloseChannel
       PROVE /\ client' = client /\ phase = "close"
             /\ link' = [link EXCEPT ![at] = IF @ = "failed" THEN @ ELSE "closed"]
  BY <1>12 DEF CloseChannel
<1>13. ASSUME CancelClients \/ CancelAgain
       PROVE /\ link' = link
             /\ client'[c] # client[c] => client[c] # "none" /\ client'[c] \notin Ended
  BY <1>13 DEF CancelClients, Interrupted, CancelAgain, Ended, net
<1>14. ASSUME UNCHANGED vars PROVE UNCHANGED <<link, client>>
  BY <1>14 DEF vars, net
<1> DEFINE Done(d) == Takes(d) /\ Right(d) /\ received[d] + 1 = Messages
           Bad == \E e \in Reasons : RecordError(e)
<1>k. \/ UNCHANGED <<link, client>>
      \/ \E d \in Conns : ClientChecks(d) \/ ClientSends(d) \/ Break(d) \/ ClientFails(d)
           \/ WaitClosed(d) \/ Connected(d) \/ ConnectFails(d) \/ LateConnect(d)
      \/ CloseChannel \/ CancelClients \/ CancelAgain \/ StartClients
  BY <1>1, <1>2, <1>3, <1>7, <1>10, <1>14, StepKinds DEF Outside
<1>a. ASSUME UNCHANGED <<link, client>> PROVE link'[c] = link[c] /\ client'[c] = client[c]
  BY <1>a
\* For the connection that is looked at, one of these.
<1>l. \/ link'[c] = link[c]
      \/ link'[c] = "closed" /\ client[c] # "none"
      \/ link'[c] \in {"broken", "open"}
      \/ link'[c] = "failed" /\ RecordError("connect")
      \/ link'[c] = "closed" /\ phase # "connect" /\ link[c] = "none"
      \/ link'[c] = "closed" /\ phase = "close"
  BY <1>0, <1>4, <1>5, <1>6, <1>8, <1>9, <1>w, <1>11, <1>12, <1>13, <1>k
<1>c. ASSUME ~StartClients, client'[c] # client[c]
      PROVE /\ client[c] # "none"
            /\ client'[c] \in Ended => client[c] = "closing" \/ Bad \/ Done(c)
  <2> HIDE DEF Bad, Done
  <2>0. {"send", "receive", "cancelled"} \cap Ended = {} /\ {"closing", "over"} \subseteq Ended
    BY DEF Ended
  <2>1. ASSUME NEW d \in Conns, ClientChecks(d)
        PROVE /\ client[d] = "receive"
              /\ \/ /\ \E end \in {"closing", "over"} : client' = [client EXCEPT ![d] = end]
                    /\ Bad \/ Done(d)
                 \/ client' = [client EXCEPT ![d] = IF sequential THEN "send" ELSE @]
    BY <1>4, <2>1 DEF Bad, Done, Reasons
  <2>2. ASSUME NEW d \in Conns, ClientFails(d)
        PROVE /\ client[d] \in {"send", "receive"} /\ Bad
              /\ \E end \in {"closing", "over"} : client' = [client EXCEPT ![d] = end]
    BY <1>8, <2>2 DEF Bad
  <2> QED
    BY <1>0, <1>5, <1>6, <1>9, <1>w, <1>12, <1>13, <1>c, <1>k, <2>0, <2>1, <2>2
<1>r1. link'[c] = "failed" => link[c] = "failed" \/ RecordError("connect")
  BY <1>l
<1>r2. link'[c] = "none" => link[c] = "none"
  BY <1>l
<1>r3. /\ link'[c] = "closed" => link[c] = "closed" \/ phase # "connect" \/ client[c] # "none"
       /\ link'[c] = "closed" /\ phase = "send" =>
             link[c] \in {"closed", "none"} \/ client[c] # "none"
  BY <1>l
<1>r4. ~StartClients /\ client'[c] # client[c] =>
         /\ client[c] # "none"
         /\ client'[c] \in Ended => client[c] = "closing" \/ Bad \/ Done(c)
  <2> HIDE DEF Bad, Done
  <2> QED
    BY <1>c
<1> QED
  BY <1>r1, <1>r2, <1>r3, <1>r4

LEMMA ReportStep == ASSUME FinalInv, EchoInv, [Next]_vars PROVE ReportInv'
<1>t. TypeInv /\ UnitsInv /\ CountInv /\ ReportInv
  BY DEF EchoInv
<1>e. /\ run.errors # {} => run'.errors # {}
      /\ run.done => run'.done
      /\ \A c \in Conns : complete[c] => complete'[c]
  BY <1>t, GoneForGood, DoneForGood
<1>c. engine' = engine
  BY CaseStays DEF case
<1>r. ASSUME NEW e \in Reasons, RecordError(e) PROVE run'.errors # {}
  <2>1. run'.errors = run.errors \cup {e}
    BY <1>t, <1>r, ErrorDoes
  <2> QED
    BY <2>1
<1>1. ASSUME NEW c \in Conns, link'[c] = "failed" PROVE run'.errors # {}
  <2>1. link[c] = "failed" \/ RecordError("connect")
    BY <1>t, <1>1, LinkDoes
  <2>2. "connect" \in Reasons
    BY DEF Reasons
  <2> QED
    BY <1>t, <1>e, <1>r, <2>1, <2>2 DEF ReportInv
<1>2. ASSUME engine' # "asyncio", phase' \in {"close", "exit", "built"}, ~timedOut' PROVE run'.done
  <2>1. CASE UNCHANGED <<phase, timedOut>>
    BY <1>t, <1>e, <1>c, <1>2, <2>1 DEF ReportInv
  <2>2. CASE AllConnected \/ ConnectTimesOut \/ AllSent \/ StartClients
    BY <1>2, <2>2 DEF AllConnected, ConnectTimesOut, AllSent, StartClients, Become
  <2>3. CASE Wait \/ Collect
    BY <1>e, <1>2, <2>3 DEF Wait, Collect
  <2>4. CASE Gather \/ CancelClients \/ CancelAgain
    BY <1>t, <1>c, <1>2, <2>4 DEF Gather, CancelClients, CancelAgain, Become, ReportInv
  <2>5. CASE AllClosed \/ Build
    BY <1>t, <1>e, <1>c, <1>2, <2>5 DEF AllClosed, Build, ReportInv
  <2> QED
    BY <2>1, <2>2, <2>3, <2>4, <2>5, PhaseDoes
<1>3. ASSUME engine' = "asyncio", NEW c \in Conns
      PROVE /\ phase' = "send" => link'[c] # "none" /\ link'[c] # "closed"
            /\ phase' = "wait" /\ client'[c] \in Ended => complete'[c] \/ run'.errors # {}
            /\ phase' \in {"exit", "built"} /\ ~timedOut' => complete'[c] \/ run'.errors # {}
            /\ phase' \in {"connect", "send"} => client'[c] = "none"
            /\ phase' = "connect" => link'[c] # "closed"
  <2>0. /\ engine = "asyncio"
        /\ phase = "send" => link[c] # "none" /\ link[c] # "closed"
        /\ phase = "wait" /\ client[c] \in Ended => complete[c] \/ run.errors # {}
        /\ phase \in {"exit", "built"} /\ ~timedOut => complete[c] \/ run.errors # {}
        /\ phase \in {"connect", "send"} => client[c] = "none"
        /\ phase = "connect" => link[c] # "closed"
        /\ link[c] = "failed" => run.errors # {}
    BY <1>t, <1>c, <1>3 DEF ReportInv
  <2>1. CASE UNCHANGED <<phase, timedOut>>
    <3>1. ~StartClients /\ ~CancelClients /\ ~CancelAgain
      BY <2>1 DEF StartClients, CancelClients, CancelAgain, Become
    <3>2. phase = "send" => link'[c] # "none" /\ link'[c] # "closed"
      BY <1>t, <2>0, LinkDoes
    <3>3. phase = "connect" => link'[c] # "closed"
      BY <1>t, <2>0, LinkDoes
    <3>4. phase \in {"connect", "send"} => client'[c] = "none"
      BY <1>t, <2>0, <3>1, LinkDoes
    <3>5. phase = "wait" /\ client'[c] # client[c] /\ client'[c] \in Ended =>
            complete'[c] \/ run'.errors # {}
      <4>1. SUFFICES ASSUME phase = "wait", client'[c] # client[c], client'[c] \in Ended
                     PROVE complete'[c] \/ run'.errors # {}
        OBVIOUS
      <4>2. \/ client[c] = "closing"
            \/ \E e \in Reasons : RecordError(e)
            \/ Takes(c) /\ Right(c) /\ received[c] + 1 = Messages
        BY <1>t, <3>1, <4>1, LinkDoes
      <4>3. CASE client[c] = "closing"
        BY <1>e, <2>0, <4>1, <4>3 DEF Ended
      <4>4. CASE Takes(c) /\ Right(c) /\ received[c] + 1 = Messages
        <5>1. complete' = [complete EXCEPT ![c] = TRUE]
          BY <1>t, <4>4, RightDoes
        <5>2. DOMAIN complete = Conns
          BY <1>t DEF TypeInv
        <5> QED
          BY <5>1, <5>2
      <4> QED
        BY <1>r, <4>2, <4>3, <4>4
    <3> QED
      BY <1>e, <2>0, <2>1, <3>2, <3>3, <3>4, <3>5
  <2>2. CASE AllConnected
    <3>1. phase = "connect" /\ phase' = "send" /\ UNCHANGED <<link, client>> /\ link[c] # "none"
      BY <2>2 DEF AllConnected, Become, net
    <3> QED
      BY <2>0, <3>1
  <2>3. CASE ConnectTimesOut \/ AllSent \/ Wait \/ Collect
    BY <2>0, <2>3 DEF ConnectTimesOut, AllSent, Wait, Collect
  <2>4. CASE StartClients
    <3>1. /\ phase = "send" /\ phase' = "wait"
          /\ client'[c] = IF link[c] \in {"open", "broken"} THEN "send" ELSE "none"
      BY <2>4 DEF StartClients, Become
    <3>2. link[c] \in {"none", "open", "failed", "broken", "closed"}
      BY <1>t DEF TypeInv
    <3> QED
      BY <1>e, <2>0, <3>1, <3>2 DEF Ended
  <2>5. CASE Gather
    <3>1. phase = "wait" /\ phase' = "exit" /\ client[c] \in {"none", "over"}
      BY <2>5 DEF Gather, Become, Started
    <3> QED
      BY <1>e, <2>0, <3>1 DEF Ended
  <2>6. CASE CancelClients \/ CancelAgain
    <3>1. phase' \in {"cancel", "exit"} /\ timedOut'
      BY <1>t, <2>6 DEF CancelClients, CancelAgain, Become, ReportInv
    <3> QED
      BY <3>1
  <2>7. CASE AllClosed
    BY <2>0, <2>7 DEF AllClosed, FinalInv, EngineInv
  <2>8. CASE Build
    <3>1. phase = "exit" /\ phase' = "built" /\ timedOut' = timedOut
      BY <2>8 DEF Build, Become
    <3> QED
      BY <1>e, <2>0, <3>1
  <2> QED
    BY <2>1, <2>2, <2>3, <2>4, <2>5, <2>6, <2>7, <2>8, PhaseDoes
<1>4. ASSUME phase' = "cancel" PROVE timedOut'
  <2>1. CASE UNCHANGED <<phase, timedOut>>
    BY <1>t, <1>4, <2>1 DEF ReportInv
  <2>2. CASE ~UNCHANGED <<phase, timedOut>>
    BY <1>4, <2>2, PhaseDoes
    DEF AllConnected, ConnectTimesOut, AllSent, StartClients, Wait, Gather, CancelClients,
        CancelAgain, Collect, AllClosed, Build, Become
  <2> QED
    BY <2>1, <2>2
<1> QED
  BY <1>1, <1>2, <1>3, <1>4 DEF ReportInv

-----------------------------------------------------------------------------
(* The record that a run leaves                                            *)

LEMMA EchoInitial == Init => EchoInv
<1> SUFFICES ASSUME Init PROVE EchoInv
  OBVIOUS
<1>1. \A c \in Conns : Flight(c) = << >> /\ Len(Flight(c)) = 0 /\ DOMAIN Flight(c) = {}
  <2>1. << >> \o << >> = << >>
    BY EmptySeq, ConcatEmptySeq
  <2>2. \A c \in Conns : Flight(c) = << >>
    BY <2>1 DEF Init, Flight
  <2> QED
    BY <2>2, EmptySeq
<1>2. TypeInv
  <2>1. case \in Cases
    BY PerfAssumption DEF Init, case, PerfAssumption
  <2>2. run \in [done : BOOLEAN, completed : Nat, received : Nat,
                 errors : SUBSET {"connect", "frame", "client", "timeout"}]
    BY DEF Init
  <2>3. /\ link \in [Conns -> {"none", "open", "failed", "broken", "closed"}]
        /\ complete \in [Conns -> BOOLEAN]
        /\ client \in [Conns -> {"none", "send", "receive", "closing", "cancelling", "cancelled", "over"}]
        /\ phase \in {"connect", "send", "wait", "cancel", "close", "exit", "built"}
        /\ timedOut \in BOOLEAN /\ corrupted \in BOOLEAN
    BY DEF Init
  <2>4. {stream, buffer} \subseteq [Conns -> Seq(Int \X Nat)]
    <3>1. << >> \in Seq(Int \X Nat)
      BY EmptySeq
    <3> QED
      BY <3>1 DEF Init
  <2>5. /\ received \in [Conns -> 0 .. Messages] /\ at \in 1 .. N + 1
        /\ faults \in 0 .. MaxFaults
    BY Numbers, PerfAssumption DEF Init, PerfAssumption
  <2> QED
    BY <2>1, <2>2, <2>3, <2>4, <2>5 DEF TypeInv
<1>3. Messages \in Nat /\ Messages >= 1 /\ 0 * Size = 0 /\ Size \in Nat
  BY Times, PerfAssumption DEF PerfAssumption
<1>4. CountInv
  <2>1. Completed = {} /\ Received = {}
    BY <1>3 DEF Completed, Received, Init
  <2>2. Cardinality({}) = 0
    BY Counting
  <2>3. \A c \in Conns : complete[c] <=> received[c] = Messages
    BY <1>3 DEF Init
  <2>4. run.completed = 0 /\ run.received = 0 /\ ~run.done
    BY DEF Init
  <2> QED
    BY <2>1, <2>2, <2>3, <2>4 DEF CountInv
<1>5. UnitsInv
  BY <1>1 DEF UnitsInv
<1>6. \A c \in Conns : \A who \in Callers : sender[c][who].line = "idle" /\ ~Uncounted(c, who)
  BY DEF Init, Idle, Uncounted
<1>7. \A c \in Conns : sent[c] = 0 /\ received[c] = 0 /\ client[c] = "none"
  BY DEF Init
<1>8. AloneInv
  <2> SUFFICES ASSUME NEW c \in Conns PROVE Alone(c)
    BY DEF AloneInv
  <2>1. Written(c) = 0 /\ (Written(c) - received[c]) * Size = 0
    BY <1>3, <1>6, <1>7 DEF Written, One, Callers
  <2> QED
    BY <1>1, <1>3, <1>6, <1>7, <2>1 DEF Alone, Callers
<1>9. SharedInv
  <2> SUFFICES ASSUME NEW c \in Conns PROVE Shared(c)
    BY DEF SharedInv
  <2>1. ~LoopOwes(c) /\ Quota(c) = 1
    BY <1>3, <1>6, <1>7 DEF LoopOwes, Quota, Callers
  <2>2. MainOwes(c)
    BY DEF MainOwes, Init
  <2> QED
    BY <1>1, <1>3, <1>6, <1>7, <2>1, <2>2 DEF Shared, One, Callers
<1>10. DoomInv /\ ReportInv
  BY DEF Init, DoomInv, ReportInv
<1> QED
  BY <1>2, <1>4, <1>5, <1>8, <1>9, <1>10 DEF EchoInv

LEMMA EchoStep == ASSUME FinalInv, EchoInv, [Next]_vars PROVE EchoInv'
<1>1. TypeInv' /\ CountInv' /\ UnitsInv' /\ DoomInv' /\ ReportInv'
  BY TypeStep, CountStep, UnitsStep, DoomStep, ReportStep
<1>2. Unshared' = Unshared
  BY CaseStays DEF Unshared, case
<1>3. AloneInv'
  BY <1>2, AloneStep DEF AloneInv
<1>4. SharedInv'
  BY <1>2, SharedStep DEF SharedInv
<1> QED
  BY <1>1, <1>3, <1>4 DEF EchoInv

LEMMA EchoInvariance == Spec => [](FinalInv /\ EchoInv)
BY FinalInitial, FinalStep, EchoInitial, EchoStep, PTL DEF Spec

LEMMA EchoTyped == ASSUME FinalInv, EchoInv PROVE TypeOK
<1>t. TypeInv /\ CountInv
  BY DEF EchoInv
<1>1. run \in [done : BOOLEAN, completed : 0 .. N, received : 0 .. N * Messages,
              errors : SUBSET {"connect", "frame", "client", "timeout"}]
  <2>1. run.completed \in 0 .. N /\ run.received \in 0 .. N * Messages
    <3>1. /\ run.completed \in Nat /\ run.completed <= N
          /\ run.received \in Nat /\ run.received <= N * Messages
      BY <1>t, Counting, Countable DEF CountInv
    <3>2. N \in Nat /\ N * Messages \in Nat
      <4>1. Cardinality(Pairs) \in Nat /\ Cardinality(Pairs) = N * Messages
        BY Counting DEF Pairs
      <4> QED
        BY <4>1, Numbers
    <3> DEFINE most == N * Messages
    <3> HIDE DEF most
    <3>3. run.received <= most /\ most \in Nat
      BY <3>1, <3>2 DEF most
    <3>4. run.received \in 0 .. most /\ run.completed \in 0 .. N
      BY <3>1, <3>2, <3>3
    <3> QED
      BY <3>4 DEF most
  <2>2. run \in [done : BOOLEAN, completed : Nat, received : Nat,
                 errors : SUBSET {"connect", "frame", "client", "timeout"}]
    BY <1>t DEF TypeInv
  <2>3. /\ run = [done |-> run.done, completed |-> run.completed, received |-> run.received,
                  errors |-> run.errors]
        /\ run.done \in BOOLEAN /\ run.errors \in SUBSET {"connect", "frame", "client", "timeout"}
    BY <2>2
  <2> QED
    BY <2>1, <2>3
<1>2. \A c \in Conns : sent[c] \in 0 .. Messages
  <2> TAKE c \in Conns
  <2>1. sent[c] \in Nat /\ received[c] \in Nat /\ Messages \in Nat
    <3>1. received[c] \in 0 .. Messages
      BY <1>t DEF TypeInv
    <3>2. sent[c] \in Nat
      BY DEF FinalInv, ShapeInv
    <3> QED
      BY <3>1, <3>2, Numbers
  <2>2. sent[c] <= Messages
    <3>1. CASE Unshared
      BY <3>1 DEF EchoInv, AloneInv, Alone
    <3>2. CASE ~Unshared
      <4>1. sent[c] + One(Uncounted(c, "main")) + One(Uncounted(c, "loop"))
              + One(MainOwes(c)) + One(LoopOwes(c)) <= Quota(c)
        BY <3>2 DEF EchoInv, SharedInv, Shared
      <4>2. /\ One(Uncounted(c, "main")) \in Nat /\ One(Uncounted(c, "loop")) \in Nat
            /\ One(MainOwes(c)) \in Nat /\ One(LoopOwes(c)) \in Nat
        BY DEF One
      <4>3. Quota(c) \in Nat /\ Quota(c) <= Messages
        <5>1. received[c] <= Messages
          BY <1>t, Numbers DEF TypeInv
        <5> QED
          BY <2>1, <5>1 DEF Quota
      <4> QED
        BY <2>1, <4>1, <4>2, <4>3
    <3> QED
      BY <3>1, <3>2
  <2> QED
    BY <2>1, <2>2
<1>3. sent \in [Conns -> 0 .. Messages] /\ received \in [Conns -> 0 .. Messages]
  <2>1. sent \in [Conns -> Nat]
    BY DEF FinalInv, ShapeInv
  <2>2. received \in [Conns -> 0 .. Messages]
    BY <1>t DEF TypeInv
  <2> QED
    BY <1>2, <2>1, <2>2
<1>4. sender \in [Conns -> [Callers ->
        [line : {"idle", "check", "write", "load", "store"}, sequence : Nat, base : Nat]]]
  BY DEF FinalInv, ShapeInv, Sends, Lines
<1>5. /\ case \in Cases
      /\ link \in [Conns -> {"none", "open", "failed", "broken", "closed"}]
      /\ {stream, buffer} \subseteq [Conns -> Seq(Int \X Nat)]
      /\ complete \in [Conns -> BOOLEAN]
      /\ client \in [Conns -> {"none", "send", "receive", "closing", "cancelling", "cancelled", "over"}]
      /\ phase \in {"connect", "send", "wait", "cancel", "close", "exit", "built"}
      /\ at \in 1 .. N + 1
      /\ timedOut \in BOOLEAN
      /\ faults \in 0 .. MaxFaults /\ corrupted \in BOOLEAN
  BY <1>t DEF TypeInv
<1> QED
  BY <1>1, <1>3, <1>4, <1>5 DEF TypeOK

\* The variables keep their types.  The counters keep their bounds because they count
\* sets of clients and of frames; that no more frames are counted as sent than there
\* are follows from one sender's alternation of check and count, or from the one frame
\* that two senders have on its way.
THEOREM EchoTypes == Spec => []TypeOK
BY EchoInvariance, EchoTyped, PTL

LEMMA Earned == ASSUME FinalInv, EchoInv PROVE PassIsEarned
<1> SUFFICES ASSUME Passed
             PROVE /\ \A c \in Conns : received[c] = Messages
                   /\ run.received = N * Messages
                   /\ ~corrupted
  BY DEF PassIsEarned
<1>1. TypeInv /\ CountInv /\ DoomInv /\ ReportInv /\ phase = "built" /\ run.errors = {} /\ ~timedOut
  BY DEF EchoInv, Passed
<1>2. \A c \in Conns : complete[c]
  <2>1. CASE engine = "asyncio"
    BY <1>1, <2>1 DEF ReportInv
  <2>2. CASE engine # "asyncio"
    <3>1. run.done
      BY <1>1, <2>2 DEF ReportInv
    <3>2. Cardinality(Completed) = N
      BY <1>1, <3>1 DEF CountInv
    <3>3. Completed = Conns
      BY <3>2, Counting, Countable
    <3> QED
      BY <3>3 DEF Completed
  <2> QED
    BY <2>1, <2>2
<1>3. \A c \in Conns : received[c] = Messages
  BY <1>1, <1>2 DEF CountInv
<1>4. Received = Pairs
  BY <1>3, Numbers DEF Received, Pairs
<1>5. run.received = N * Messages
  BY <1>1, <1>4, Counting DEF CountInv
<1>6. ~corrupted
  <2> SUFFICES ASSUME NEW c \in Conns, Doomed(c) PROVE FALSE
    BY <1>1 DEF DoomInv
  <2>1. Due(c) = 0
    BY <1>3, Times, Numbers DEF Due
  <2>2. Len(Flight(c)) \in Nat /\ DOMAIN Flight(c) = 1 .. Len(Flight(c))
    BY <1>1, FlightType
  <2>3. \A i \in DOMAIN Flight(c) : ~(i <= 0)
    BY <2>2
  <2>4. ~(Len(Flight(c)) < 0)
    BY <2>2
  <2> QED
    BY <2>1, <2>3, <2>4 DEF Doomed
<1> QED
  BY <1>3, <1>5, <1>6

\* A run that passes has received every echo of every connection, and none of them
\* was wrong: whatever its clients and the main thread do in which order, neither a
\* timeout nor a failure that nobody recorded hides one.
THEOREM PassesAreEarned == Spec => []PassIsEarned
BY EchoInvariance, Earned, PTL

-----------------------------------------------------------------------------
(* Without a fault, each client gets its frames                            *)

LEMMA PlaceMath ==
  \A q, w, r \in Int : \A i \in 1 .. Size :
    /\ q < w => (q - r) * Size + i <= (w - r) * Size
    /\ q > w => (q - r) * Size + i > ((w + 1) - r) * Size
    /\ r <= q => (q - r) * Size + i >= 1
    /\ (q - r) * Size + i \in Int
<1> TAKE q, w, r \in Int
<1> TAKE i \in 1 .. Size
<1>0. i \in Int /\ 1 <= i /\ i <= Size /\ Size \in Nat
  BY Times
<1>1. /\ q - r \in Int /\ w - r \in Int /\ (q + 1) - r \in Int /\ (w + 1) - r \in Int
      /\ (q - r) + 1 = (q + 1) - r
      /\ q < w => (q + 1) - r <= w - r
      /\ q > w => (w + 1) - r <= q - r
      /\ r <= q => 0 <= q - r
  OBVIOUS
<1> DEFINE a == (q - r) * Size
           b == (w - r) * Size
           e == ((w + 1) - r) * Size
<1>2. a \in Int /\ b \in Int /\ e \in Int
  BY <1>1, Times
<1>3. ((q + 1) - r) * Size = a + Size
  BY <1>1, Times
<1>4. q < w => a + Size <= b
  BY <1>1, <1>3, Times
<1>5. q > w => e <= a
  BY <1>1, Times
<1>6. r <= q => 0 <= a
  <2>1. r <= q => 0 * Size <= a
    BY <1>1, Times
  <2> QED
    BY <2>1, Times
<1> HIDE DEF a, b, e
<1>7. /\ q < w => a + i <= b
      /\ q > w => a + i > e
      /\ r <= q => a + i >= 1
      /\ a + i \in Int
  BY <1>0, <1>2, <1>3, <1>4, <1>5, <1>6
<1> QED
  BY <1>7 DEF a, b, e

LEMMA ExactSame ==
  ASSUME NEW c \in Conns, Exact(c), Flight(c)' = Flight(c), received'[c] = received[c],
         Written(c)' = Written(c)
  PROVE Exact(c)'
BY DEF Exact

\* The next frame comes behind the others.
LEMMA ExactWrite ==
  ASSUME TypeInv, NEW c \in Conns, Exact(c), NEW w \in Nat, WriteFrame(c, w), buffer' = buffer,
         link[c] = "open", Written(c) = w, Written(c)' = w + 1, received'[c] = received[c]
  PROVE Exact(c)'
<1> DEFINE n == Len(Flight(c))
           r == received[c]
<1>1. /\ Len(Flight(c)') = n + Size
      /\ \A j \in 1 .. n : Flight(c)'[j] = Flight(c)[j]
      /\ \A i \in 1 .. Size : Flight(c)'[n + i] = <<w, i>>
  <2>1. w \in Int
    OBVIOUS
  <2> QED
    BY <2>1, WriteDoes
<1>2. n \in Nat /\ r \in Nat /\ Size \in Nat
  <2>1. n \in Nat
    BY FlightType
  <2>2. received[c] \in 0 .. Messages
    BY DEF TypeInv
  <2> QED
    BY <2>1, <2>2, Numbers
<1>3. /\ n = (w - r) * Size
      /\ \A q \in Nat, i \in 1 .. Size :
           r <= q /\ (q - r) * Size + i <= n => Flight(c)[(q - r) * Size + i] = <<q, i>>
  BY DEF Exact
<1> HIDE DEF n, r
<1>4. n + Size = ((w + 1) - r) * Size
  <2>1. w - r \in Int /\ (w + 1) - r = (w - r) + 1
    BY <1>2
  <2>2. ((w - r) + 1) * Size = (w - r) * Size + Size
    BY <2>1, Times
  <2> QED
    BY <1>3, <2>1, <2>2
<1>5. ASSUME NEW q \in Nat, NEW i \in 1 .. Size, r <= q, (q - r) * Size + i <= n + Size
      PROVE Flight(c)'[(q - r) * Size + i] = <<q, i>>
  <2> DEFINE j == (q - r) * Size + i
  <2>1. /\ q < w => j <= n
        /\ q > w => j > n + Size
        /\ j >= 1 /\ j \in Int
    <3>1. q \in Int /\ w \in Int /\ r \in Int
      BY <1>2
    <3>2. /\ q < w => (q - r) * Size + i <= (w - r) * Size
          /\ q > w => (q - r) * Size + i > ((w + 1) - r) * Size
          /\ r <= q => (q - r) * Size + i >= 1
          /\ (q - r) * Size + i \in Int
      BY <3>1, PlaceMath, Zenon
    <3> QED
      BY <1>3, <1>4, <1>5, <3>2, Zenon
  <2>2. CASE q < w
    <3>1. j \in 1 .. n
      <4> HIDE DEF j
      <4> QED
        BY <1>2, <2>1, <2>2
    <3>2. Flight(c)'[j] = Flight(c)[j]
      BY <1>1, <3>1
    <3>3. Flight(c)[j] = <<q, i>>
      BY <1>3, <1>5, <2>1, <2>2
    <3> QED
      BY <3>2, <3>3
  <2>3. CASE q = w
    <3>1. j = n + i
      BY <1>3, <2>3
    <3> QED
      BY <1>1, <2>3, <3>1
  <2>4. CASE q > w
    <3>1. j > n + Size /\ j <= n + Size /\ j \in Int
      BY <1>5, <2>1, <2>4
    <3> HIDE DEF j
    <3>2. FALSE
      BY <1>2, <3>1
    <3> QED
      BY <3>2
  <2>5. q < w \/ q = w \/ q > w
    OBVIOUS
  <2> QED
    BY <2>2, <2>3, <2>4, <2>5
<1>6. Len(Flight(c)') = (Written(c)' - received'[c]) * Size
  BY <1>1, <1>4 DEF r
<1>7. \A q \in Nat, i \in 1 .. Size :
        received'[c] <= q /\ (q - received'[c]) * Size + i <= Len(Flight(c)') =>
          Flight(c)'[(q - received'[c]) * Size + i] = <<q, i>>
  BY <1>1, <1>5 DEF r
<1> QED
  BY <1>6, <1>7 DEF Exact

\* The frame that is taken is the one that is due ...
LEMMA ExactRight ==
  ASSUME TypeInv, NEW c \in Conns, Exact(c), Takes(c)
  PROVE Right(c)
<1>1. /\ Len(Flight(c)) >= Size
      /\ (\A i \in 1 .. Size : Flight(c)[i] = <<received[c], i>>) => Right(c)
      /\ received[c] \in Nat /\ Len(Flight(c)) \in Nat /\ Size \in Nat
  BY TakesDoes, FlightType, Numbers
<1> DEFINE n == Len(Flight(c))
           r == received[c]
<1>2. ASSUME NEW i \in 1 .. Size PROVE Flight(c)[i] = <<r, i>>
  <2>1. (r - r) * Size + i = i
    <3>1. r - r = 0
      BY <1>1
    <3>2. 0 * Size = 0
      BY Times
    <3> QED
      BY <3>1, <3>2
  <2>2. i <= n
    <3>1. n \in Nat /\ n >= Size
      BY <1>1
    <3> HIDE DEF n
    <3> QED
      BY <1>1, <3>1
  <2>3. r <= r /\ (r - r) * Size + i <= n
    BY <1>1, <2>1, <2>2
  <2>4. Flight(c)[(r - r) * Size + i] = <<r, i>>
    BY <1>1, <2>3 DEF Exact
  <2> QED
    BY <2>1, <2>4
<1> QED
  BY <1>1, <1>2

\* ... and leaves the next one in front.
LEMMA ExactTake ==
  ASSUME TypeInv, NEW c \in Conns, Exact(c), Takes(c), Right(c), Written(c) \in Nat,
         Written(c)' = Written(c)
  PROVE Exact(c)'
<1> DEFINE n == Len(Flight(c))
           k == Len(Flight(c)')
           r == received[c]
           w == Written(c)
<1>1. /\ n >= Size /\ k = n - Size /\ r \in Nat /\ n \in Nat /\ Size \in Nat
      /\ \A i \in 1 .. n - Size : Flight(c)'[i] = Flight(c)[i + Size]
  <2>1. n \in Nat /\ Size \in Nat
    BY FlightType, Numbers
  <2> QED
    BY <2>1, TakesDoes
<1>2. received'[c] = r + 1
  <2>1. DOMAIN received = Conns
    BY DEF TypeInv
  <2> QED
    BY <2>1 DEF Right
<1>3. /\ n = (w - r) * Size /\ w \in Nat
      /\ \A q \in Nat, i \in 1 .. Size :
           r <= q /\ (q - r) * Size + i <= n => Flight(c)[(q - r) * Size + i] = <<q, i>>
  BY DEF Exact
<1> HIDE DEF n, k, r, w
<1>4. k = (w - (r + 1)) * Size
  <2>1. w - (r + 1) \in Int /\ w - r = (w - (r + 1)) + 1
    BY <1>1, <1>3
  <2>2. (w - r) * Size = (w - (r + 1)) * Size + Size /\ (w - (r + 1)) * Size \in Int
    BY <2>1, Times
  <2> DEFINE y == (w - (r + 1)) * Size
  <2>3. n = y + Size /\ y \in Int
    BY <1>3, <2>2
  <2> HIDE DEF y
  <2>4. k = y
    BY <1>1, <2>3
  <2> QED
    BY <2>4 DEF y
<1>5. ASSUME NEW q \in Nat, NEW i \in 1 .. Size, r + 1 <= q, (q - (r + 1)) * Size + i <= k
      PROVE Flight(c)'[(q - (r + 1)) * Size + i] = <<q, i>>
  <2> DEFINE j == (q - (r + 1)) * Size + i
  <2>1. j + Size = (q - r) * Size + i /\ j >= 1 /\ j \in Int
    <3>1. q \in Int /\ w \in Int /\ r \in Int /\ r + 1 \in Int
      BY <1>1, <1>3
    <3>2. /\ r + 1 <= q => (q - (r + 1)) * Size + i >= 1
          /\ (q - (r + 1)) * Size + i \in Int
      BY <3>1, PlaceMath, Zenon
    <3>3. (q - (r + 1)) * Size + i + Size = (q - r) * Size + i
      <4>1. /\ q - (r + 1) \in Int /\ (q - (r + 1)) + 1 = q - r /\ i \in Int /\ Size \in Int
        BY <1>1, <3>1
      <4>2. (q - r) * Size = (q - (r + 1)) * Size + Size /\ (q - (r + 1)) * Size \in Int
        BY <4>1, Times
      <4> DEFINE y == (q - (r + 1)) * Size
                 z == (q - r) * Size
      <4>3. z = y + Size /\ y \in Int
        BY <4>2
      <4> HIDE DEF y, z
      <4>4. y + i + Size = z + i
        BY <4>1, <4>3
      <4> QED
        BY <4>4 DEF y, z
    <3> QED
      BY <1>5, <3>2, <3>3, Zenon
  <2>2. j \in 1 .. n - Size /\ j + Size <= n
    <3>1. j <= k
      BY <1>5
    <3> HIDE DEF j
    <3> QED
      BY <1>1, <2>1, <3>1
  <2>3. Flight(c)'[j] = Flight(c)[j + Size]
    BY <1>1, <2>2
  <2>4. r <= q
    BY <1>1, <1>5
  <2>5. Flight(c)[j + Size] = <<q, i>>
    BY <1>3, <2>1, <2>2, <2>4
  <2> QED
    BY <2>3, <2>5
<1>6. Len(Flight(c)') = (Written(c)' - received'[c]) * Size
  BY <1>2, <1>4 DEF k, w
<1>7. \A q \in Nat, i \in 1 .. Size :
        received'[c] <= q /\ (q - received'[c]) * Size + i <= Len(Flight(c)') =>
          Flight(c)'[(q - received'[c]) * Size + i] = <<q, i>>
  BY <1>2, <1>5 DEF k
<1> QED
  BY <1>6, <1>7 DEF Exact

LEMMA WrittenDoes ==
  ASSUME FinalInv, EchoInv, Unshared, NEW c \in Conns, NEW who \in Callers, SendNext(c, who)
  PROVE /\ \A d \in Conns \ {c} : Written(d)' = Written(d)
        /\ who = "main" /\ engine = "py-netty" /\ phase = "send"
        /\ Written(c) \in Nat
        /\ \/ SendWrite(c, who) /\ Written(c)' = Written(c) + 1 /\ Written(c) = sender[c][who].sequence
           \/ stream' = stream /\ Written(c)' = Written(c)
<1>t. TypeInv /\ (\A d \in Conns : Alone(d))
  BY DEF EchoInv, AloneInv
<1>1. /\ who = "main" /\ engine = "py-netty" /\ ~sequential /\ phase = "send"
  <2>1. sender[c][who].line # "idle"
    BY DEF SendNext, SendCheck, SendWrite, SendLoad, SendStore
  <2>2. who = "main"
    BY <1>t, <2>1 DEF Alone, Callers
  <2> QED
    BY <2>1, <2>2 DEF FinalInv, MainInv, Unshared
<1> DEFINE here == sender[c]["main"]
<1>2. /\ sent \in [Conns -> Nat] /\ sender \in [Conns -> [Callers -> Sends]] /\ "main" \in Callers
      /\ sent[c] \in Nat /\ here \in Sends
  BY DEF FinalInv, ShapeInv, Callers
<1>3. \A d \in Conns \ {c} : sender'[d] = sender[d] /\ sent'[d] = sent[d]
  BY <1>2 DEF SendNext, SendCheck, SendWrite, SendLoad, SendStore, Proceed, states
<1>4. \A d \in Conns \ {c} : Written(d)' = Written(d)
  BY <1>3 DEF Written, Uncounted
<1>5. Written(c) \in Nat
  BY <1>2 DEF Written, One
<1>6. CASE SendCheck(c, who)
  <2>1. here.line = "check" /\ stream' = stream /\ sent' = sent
    BY <1>1, <1>6 DEF SendCheck, net, states
  <2>2. sender'[c]["main"].line \in {"idle", "write"}
    <3>1. CASE sent[c] >= Messages
      <4>1. sender' = [sender EXCEPT ![c]["main"] = Idle]
        BY <1>1, <1>6, <3>1 DEF SendCheck, Proceed
      <4> QED
        BY <1>2, <4>1 DEF Idle
    <3>2. CASE ~(sent[c] >= Messages)
      <4>1. sender' = [sender EXCEPT ![c]["main"].line = "write", ![c]["main"].sequence = sent[c]]
        BY <1>1, <1>6, <3>2, Zenon DEF SendCheck
      <4>2. sender' = [sender EXCEPT ![c]["main"] = [here EXCEPT !.line = "write", !.sequence = sent[c]]]
        BY <4>1
      <4>3. sender'[c]["main"] = [here EXCEPT !.line = "write", !.sequence = sent[c]]
        BY <1>2, <4>2
      <4> QED
        BY <1>2, <4>3 DEF Sends
    <3> QED
      BY <3>1, <3>2
  <2>3. Written(c)' = Written(c)
    BY <2>1, <2>2 DEF Written, Uncounted
  <2> QED
    BY <1>1, <1>4, <1>5, <2>1, <2>3
<1>7. CASE SendWrite(c, who)
  <2>1. /\ here.line = "write" /\ sent' = sent
        /\ sender' = [sender EXCEPT ![c]["main"] = [here EXCEPT !.line = "load"]]
    BY <1>1, <1>7 DEF SendWrite, states
  <2>2. sender'[c]["main"] = [here EXCEPT !.line = "load"]
    BY <1>2, <2>1
  <2>3. sender'[c]["main"].line = "load"
    BY <1>2, <2>2 DEF Sends
  <2>4. Written(c)' = Written(c) + 1 /\ Written(c) = sent[c]
    BY <1>2, <2>1, <2>3 DEF Written, Uncounted, One
  <2>5. here.sequence = sent[c]
    BY <1>t, <2>1 DEF Alone
  <2> QED
    BY <1>1, <1>4, <1>5, <1>7, <2>4, <2>5
<1>8. CASE SendLoad(c, who)
  <2>1. /\ here.line = "load" /\ UNCHANGED <<sent, stream>>
        /\ sender' = [sender EXCEPT ![c]["main"] = [here EXCEPT !.line = "store", !.base = sent[c]]]
    BY <1>1, <1>8 DEF SendLoad, states, net
  <2>2. sender'[c]["main"] = [here EXCEPT !.line = "store", !.base = sent[c]]
    BY <1>2, <2>1
  <2>3. sender'[c]["main"].line = "store"
    BY <1>2, <2>2 DEF Sends
  <2>4. Written(c)' = Written(c)
    BY <2>1, <2>3 DEF Written, Uncounted
  <2> QED
    BY <1>1, <1>4, <1>5, <2>1, <2>4
<1>9. CASE SendStore(c, who)
  <2>1. /\ here.line = "store" /\ stream' = stream
        /\ sent' = [sent EXCEPT ![c] = here.base + 1]
        /\ sender' = [sender EXCEPT ![c]["main"] = [Idle EXCEPT !.line = "check"]]
    BY <1>1, <1>9 DEF SendStore, Proceed, net
  <2>2. here.base = sent[c]
    BY <1>t, <2>1 DEF Alone
  <2>3. sender'[c]["main"].line = "check" /\ sent'[c] = sent[c] + 1
    BY <1>2, <2>1, <2>2 DEF Idle
  <2>4. Written(c)' = Written(c)
    BY <1>2, <2>1, <2>3 DEF Written, Uncounted, One
  <2> QED
    BY <1>1, <1>4, <1>5, <2>1, <2>4
<1> QED
  BY <1>6, <1>7, <1>8, <1>9 DEF SendNext

LEMMA CleanStep == ASSUME FinalInv, EchoInv, CleanInv, [Next]_vars PROVE CleanInv'
<1> SUFFICES ASSUME Unshared', faults' = 0
             PROVE run'.errors \subseteq {"timeout"} /\ \A c \in Conns : Sound(c)' /\ Exact(c)'
  BY DEF CleanInv
<1>t. /\ TypeInv /\ UnitsInv /\ CountInv /\ Unshared /\ faults \in Nat
      /\ \A c \in Conns : Written(c) \in Nat
  <2>1. Unshared
    BY CaseStays DEF Unshared, case
  <2>2. TypeInv /\ UnitsInv /\ CountInv
    BY DEF EchoInv
  <2>3. faults \in Nat
    BY <2>2, PerfAssumption DEF TypeInv, PerfAssumption
  <2>4. \A c \in Conns : Written(c) \in Nat
    BY DEF FinalInv, ShapeInv, Written, One
  <2> QED
    BY <2>1, <2>2, <2>3, <2>4
<1>e. engine' = engine
  BY CaseStays DEF case
\* No step of a fault was taken, before or now.
<1>f. /\ faults = 0
      /\ \A c \in Conns : ~Break(c) /\ ~Corrupt(c) /\ ~ConnectFails(c)
  <2>1. ASSUME NEW c \in Conns PROVE ~Break(c) /\ ~Corrupt(c) /\ ~ConnectFails(c)
    BY <1>t DEF Break, Corrupt, ConnectFails
  <2>2. faults' = faults
    <3>1. ASSUME NEW c \in Conns, NEW who \in Callers, SendNext(c, who) PROVE faults' = faults
      BY <1>t, <3>1, SendDoes DEF history
    <3>2. ASSUME NEW c \in Conns, Feed(c) \/ ClientReceives(c) PROVE faults' = faults
      BY <1>t, <3>2, MoveDoes DEF history
    <3>3. ASSUME NEW c \in Conns, HandleFrame(c) \/ ClientChecks(c) \/ ClientSends(c)
          PROVE faults' = faults
      BY <1>t, <3>3, HandleTakes, CheckTakes, ClientSendDoes DEF Takes, history
    <3>4. ASSUME NEW c \in Conns, Outside(c) PROVE faults' = faults
      BY <2>1, <3>4 DEF Outside, ClientFails, WaitClosed, Connected, LateConnect, history
    <3>5. ASSUME MainSteps \/ UNCHANGED vars PROVE faults' = faults
      BY <3>5 DEF MainSteps, AllConnected, ConnectTimesOut, StartSending, AllSent, StartClients,
                  Wait, Gather, CancelClients, CancelAgain, Collect, CloseChannel, AllClosed, Build,
                  net, history, vars
    <3> QED
      BY <2>1, <3>1, <3>2, <3>3, <3>4, <3>5, StepKinds
  <2> QED
    BY <2>1, <2>2
<1>c. run.errors \subseteq {"timeout"} /\ \A c \in Conns : Sound(c) /\ Exact(c)
  BY <1>t, <1>f DEF CleanInv
<1>d. DOMAIN link = Conns /\ DOMAIN received = Conns
  BY <1>t DEF TypeInv
<1>l. ASSUME UNCHANGED <<link, phase>> PROVE \A c \in Conns : Sound(c)'
  BY <1>c, <1>e, <1>l DEF Sound
<1>w. ASSUME UNCHANGED <<sent, sender>> PROVE \A c \in Conns : Written(c)' = Written(c)
  BY <1>w DEF Written, Uncounted
<1>x. ASSUME UNCHANGED <<stream, buffer, received>>, \A c \in Conns : Written(c)' = Written(c)
      PROVE \A c \in Conns : Exact(c)'
  BY <1>c, <1>x, StillFlight, ExactSame
<1>1. ASSUME NEW c \in Conns, NEW who \in Callers, SendNext(c, who)
      PROVE run' = run /\ \A d \in Conns : Sound(d)' /\ Exact(d)'
  <2>1. /\ UNCHANGED <<run, link, buffer, received, phase>>
    BY <1>t, <1>1, SendDoes
  <2>2. /\ \A d \in Conns \ {c} : Written(d)' = Written(d)
        /\ who = "main" /\ engine = "py-netty" /\ phase = "send" /\ Written(c) \in Nat
        /\ \/ SendWrite(c, who) /\ Written(c)' = Written(c) + 1 /\ Written(c) = sender[c][who].sequence
           \/ stream' = stream /\ Written(c)' = Written(c)
    BY <1>t, <1>1, WrittenDoes
  <2>3. CASE stream' = stream /\ Written(c)' = Written(c)
    <3>1. \A d \in Conns : Written(d)' = Written(d)
      BY <2>2, <2>3
    <3> QED
      BY <1>l, <1>x, <2>1, <2>3, <3>1
  <2>4. CASE SendWrite(c, who) /\ Written(c)' = Written(c) + 1 /\ Written(c) = sender[c][who].sequence
    <3>1. WriteFrame(c, Written(c)) /\ link[c] = "open"
      BY <1>c, <2>2, <2>4 DEF SendWrite, Sound
    <3>2. Exact(c)'
      BY <1>t, <1>c, <2>1, <2>2, <2>4, <3>1, ExactWrite
    <3>3. \A d \in Conns \ {c} : Flight(d)' = Flight(d)
      BY <1>t, <2>1, <2>2, <3>1, WriteDoes
    <3>4. \A d \in Conns \ {c} : Exact(d)'
      BY <1>c, <2>1, <2>2, <3>3, ExactSame
    <3> QED
      BY <1>l, <2>1, <3>2, <3>4
  <2> QED
    BY <2>2, <2>3, <2>4
<1>2. ASSUME NEW c \in Conns, Feed(c) \/ ClientReceives(c)
      PROVE run' = run /\ \A d \in Conns : Sound(d)' /\ Exact(d)'
  <2>1. (\A d \in Conns : Flight(d)' = Flight(d)) /\ UNCHANGED <<run, link, sent, received, sender, phase>>
    BY <1>t, <1>2, MoveDoes DEF states, main
  <2> QED
    BY <1>c, <1>l, <1>w, <2>1, ExactSame
<1>3. ASSUME NEW c \in Conns, Takes(c), \A d \in Conns : Written(d)' = Written(d)
      PROVE Right(c) /\ run'.errors = run.errors /\ \A d \in Conns : Exact(d)'
  <2>1. Right(c)
    BY <1>t, <1>c, <1>3, ExactRight
  <2>2. Exact(c)'
    BY <1>t, <1>c, <1>3, <2>1, ExactTake
  <2>3. \A d \in Conns \ {c} : Flight(d)' = Flight(d)
    BY <1>t, <1>3, TakesDoes
  <2>4. \A d \in Conns \ {c} : received'[d] = received[d]
    BY <1>d, <2>1 DEF Right
  <2>5. \A d \in Conns \ {c} : Exact(d)'
    BY <1>c, <1>3, <2>3, <2>4, ExactSame
  <2>6. run'.errors = run.errors
    BY <1>t, <1>3, <2>1, RightDoes
  <2> QED
    BY <2>1, <2>2, <2>5, <2>6
<1>4. ASSUME NEW c \in Conns, HandleFrame(c)
      PROVE run'.errors = run.errors /\ \A d \in Conns : Sound(d)' /\ Exact(d)'
  <2>1. /\ Takes(c) /\ link' = link /\ engine = "py-netty" /\ phase' = phase /\ sent' = sent
    BY <1>t, <1>4, HandleTakes DEF Takes, main
  <2>2. ~sequential
    BY <1>t, <2>1 DEF Unshared
  <2>3. sender' = sender
    BY <1>t, <1>4, <2>2, HandleTakes
  <2>4. \A d \in Conns : Written(d)' = Written(d)
    BY <1>w, <2>1, <2>3
  <2> QED
    BY <1>3, <1>l, <2>1, <2>4
<1>5. ASSUME NEW c \in Conns, ClientChecks(c)
      PROVE run'.errors = run.errors /\ \A d \in Conns : Sound(d)' /\ Exact(d)'
  <2>1. /\ Takes(c) /\ UNCHANGED <<phase, sent, sender>> /\ client[c] = "receive"
        /\ ClientEnds(c) \/ link' = link
    BY <1>t, <1>5, CheckTakes DEF Takes, main
  <2>2. engine # "py-netty"
    BY <2>1 DEF FinalInv, EngineInv
  <2>3. \A d \in Conns : link'[d] = link[d] \/ link'[d] = "closed"
    BY <1>d, <2>1 DEF ClientEnds
  <2>4. \A d \in Conns : Sound(d)'
    BY <1>c, <1>e, <2>2, <2>3 DEF Sound
  <2>5. \A d \in Conns : Written(d)' = Written(d)
    BY <1>w, <2>1
  <2> QED
    BY <1>3, <2>1, <2>4, <2>5
<1>6. ASSUME NEW c \in Conns, ClientSends(c)
      PROVE run' = run /\ \A d \in Conns : Sound(d)' /\ Exact(d)'
  <2>1. /\ client[c] = "send" /\ link[c] = "open" /\ engine # "py-netty"
        /\ sent[c] \in Nat /\ WriteFrame(c, sent[c]) /\ sent' = [sent EXCEPT ![c] = sent[c] + 1]
        /\ UNCHANGED <<run, link, buffer, received, sender, phase>>
    BY <1>t, <1>6, ClientSendDoes DEF main
  <2>2. sender[c]["main"].line = "idle"
    BY <2>1 DEF FinalInv, MainInv
  <2>3. DOMAIN sent = Conns
    BY DEF FinalInv, ShapeInv
  <2>4. Written(c) = sent[c] /\ Written(c)' = sent[c] + 1
    BY <2>1, <2>2, <2>3 DEF Written, Uncounted, One
  <2>5. \A d \in Conns \ {c} : Written(d)' = Written(d)
    BY <2>1, <2>3 DEF Written, Uncounted
  <2>6. Exact(c)'
    BY <1>t, <1>c, <2>1, <2>4, ExactWrite
  <2>7. \A d \in Conns \ {c} : Flight(d)' = Flight(d)
    BY <1>t, <2>1, WriteDoes
  <2>8. \A d \in Conns \ {c} : Exact(d)'
    BY <1>c, <2>1, <2>5, <2>7, ExactSame
  <2> QED
    BY <1>l, <2>1, <2>6, <2>8
<1>7. ASSUME NEW c \in Conns, Outside(c)
      PROVE run'.errors \subseteq {"timeout"} /\ \A d \in Conns : Sound(d)' /\ Exact(d)'
  <2>1. UNCHANGED <<stream, buffer, sent, received, sender>>
    BY <1>7, StillDoes DEF Still, states
  <2>2. \A d \in Conns : Exact(d)'
    BY <1>w, <1>x, <2>1
  <2>3. CASE ClientFails(c)
    <3>1. link[c] # "broken" /\ engine # "py-netty" /\ phase' = phase
      BY <1>c, <2>3 DEF ClientFails, Sound, FinalInv, EngineInv, main
    <3>2. RecordError("timeout") /\ \A d \in Conns : link'[d] = link[d] \/ link'[d] = "closed"
      BY <1>d, <2>3, <3>1 DEF ClientFails, ClientEnds
    <3>3. run'.errors = run.errors \cup {"timeout"}
      BY <1>t, <3>2, ErrorDoes DEF Reasons
    <3>4. \A d \in Conns : Sound(d)'
      BY <1>c, <1>e, <3>1, <3>2 DEF Sound
    <3> QED
      BY <1>c, <2>2, <3>3, <3>4
  <2>4. CASE WaitClosed(c)
    <3>1. /\ engine # "py-netty" /\ phase' = phase /\ run' = run
          /\ link' = [link EXCEPT ![c] = "closed"]
      BY <2>4 DEF WaitClosed, FinalInv, EngineInv, main
    <3>2. \A d \in Conns : link'[d] = link[d] \/ link'[d] = "closed"
      BY <1>d, <3>1
    <3>3. \A d \in Conns : Sound(d)'
      BY <1>c, <1>e, <3>1, <3>2 DEF Sound
    <3> QED
      BY <1>c, <2>2, <3>1, <3>3
  <2>5. CASE Connected(c)
    <3>1. phase = "connect" /\ phase' = phase /\ run' = run /\ link' = [link EXCEPT ![c] = "open"]
      BY <2>5 DEF Connected
    <3>2. \A d \in Conns : link'[d] = link[d] \/ link'[d] = "open"
      BY <1>d, <3>1
    <3>3. \A d \in Conns : Sound(d)'
      BY <1>c, <1>e, <3>1, <3>2 DEF Sound
    <3> QED
      BY <1>c, <2>2, <3>1, <3>3
  <2>6. CASE LateConnect(c)
    <3>1. /\ phase # "connect" /\ phase' = phase
          /\ run' = run /\ link' = [link EXCEPT ![c] = "closed"] /\ link[c] = "none"
      BY <2>6 DEF LateConnect, main
    <3>2. ~(engine = "py-netty" /\ phase \in {"send", "wait"})
      BY <1>c, <3>1 DEF Sound
    <3>3. \A d \in Conns : link'[d] = link[d] \/ link'[d] = "closed"
      BY <1>d, <3>1
    <3>4. \A d \in Conns : Sound(d)'
      BY <1>c, <1>e, <3>1, <3>2, <3>3 DEF Sound
    <3> QED
      BY <1>c, <2>2, <3>1, <3>4
  <2> QED
    BY <1>f, <1>7, <2>3, <2>4, <2>5, <2>6 DEF Outside
<1>8. ASSUME StartSending PROVE run' = run /\ \A d \in Conns : Sound(d)' /\ Exact(d)'
  <2>1. UNCHANGED <<run, link, stream, buffer, sent, received, phase>>
    BY <1>8 DEF StartSending, net, states
  <2>2. \A d \in Conns : Written(d)' = Written(d)
    <3> TAKE d \in Conns
    <3>1. \/ sender'[d]["main"].line = sender[d]["main"].line
          \/ sender'[d]["main"].line = "check" /\ sender[d]["main"].line = "idle"
      <4>1. CASE sender' = sender
        BY <4>1
      <4>2. CASE sender' = [sender EXCEPT ![at]["main"].line = "check"]
        <5>1. sender \in [Conns -> [Callers -> Sends]] /\ "main" \in Callers
          BY DEF FinalInv, ShapeInv, Callers
        <5>2. CASE d = at
          <6>1. sender'[d]["main"] = [sender[d]["main"] EXCEPT !.line = "check"]
            BY <4>2, <5>1, <5>2
          <6>2. sender[d]["main"] \in Sends
            BY <5>1
          <6>3. sender'[d]["main"].line = "check"
            BY <6>1, <6>2 DEF Sends
          <6> QED
            BY <1>8, <5>2, <6>3 DEF StartSending
        <5>3. CASE d # at
          BY <4>2, <5>1, <5>3
        <5> QED
          BY <5>2, <5>3
      <4> QED
        BY <1>8, <4>1, <4>2 DEF StartSending
    <3> QED
      BY <2>1, <3>1 DEF Written, Uncounted
  <2> QED
    BY <1>l, <1>x, <2>1, <2>2
<1>9. ASSUME MainSteps \/ UNCHANGED vars, ~StartSending
      PROVE run' = run /\ \A d \in Conns : Sound(d)' /\ Exact(d)'
  <2>1. UNCHANGED <<stream, buffer, sent, received, sender, run>>
    BY <1>9, StillDoes, OthersRecord DEF Still, states
  <2>2. \A d \in Conns : Exact(d)'
    BY <1>w, <1>x, <2>1
  <2>3. CASE AllConnected
    <3>1. phase = "connect" /\ phase' = "send" /\ link' = link /\ \A d \in Conns : link[d] # "none"
      BY <2>3 DEF AllConnected, Become, net
    <3>2. \A d \in Conns : Sound(d)'
      BY <1>c, <1>e, <3>1 DEF Sound
    <3> QED
      BY <2>1, <2>2, <3>2
  <2>4. CASE \/ ConnectTimesOut \/ StartClients \/ Collect
             \/ Gather \/ CancelClients \/ CancelAgain
    <3>1. engine # "py-netty" /\ link' = link
      BY <2>4 DEF ConnectTimesOut, StartClients, Gather, CancelClients, CancelAgain, Collect, Started,
                  net, FinalInv, EngineInv
    <3>2. \A d \in Conns : Sound(d)'
      BY <1>c, <1>e, <3>1 DEF Sound
    <3> QED
      BY <2>1, <2>2, <3>2
  <2>5. CASE AllSent
    <3>1. phase = "send" /\ phase' = "wait" /\ link' = link
      BY <2>5 DEF AllSent, Become, net
    <3>2. \A d \in Conns : Sound(d)'
      BY <1>c, <1>e, <3>1 DEF Sound
    <3> QED
      BY <2>1, <2>2, <3>2
  <2>6. CASE Wait \/ CloseChannel \/ AllClosed \/ Build
    <3>1. phase' \in {"close", "exit", "built"}
      BY <2>6 DEF Wait, CloseChannel, AllClosed, Build, Become
    <3>2. \A d \in Conns : link'[d] = link[d] \/ link'[d] = "closed"
      BY <1>d, <2>6 DEF Wait, CloseChannel, AllClosed, Build, net
    <3>3. \A d \in Conns : Sound(d)'
      BY <1>c, <1>e, <3>1, <3>2 DEF Sound
    <3> QED
      BY <2>1, <2>2, <3>3
  <2>7. CASE UNCHANGED vars
    <3>1. UNCHANGED <<link, phase>>
      BY <2>7 DEF vars, net, main
    <3> QED
      BY <1>l, <2>1, <2>2, <3>1
  <2> QED
    BY <1>9, <2>3, <2>4, <2>5, <2>6, <2>7 DEF MainSteps
<1> QED
  BY <1>c, <1>f, <1>1, <1>2, <1>4, <1>5, <1>6, <1>7, <1>8, <1>9, StepKinds

LEMMA CleanInitial == Init => CleanInv
<1> SUFFICES ASSUME Init PROVE CleanInv
  OBVIOUS
<1>1. ASSUME NEW c \in Conns PROVE Sound(c) /\ Exact(c)
  <2>1. << >> \o << >> = << >>
    BY EmptySeq, ConcatEmptySeq
  <2>2. Len(Flight(c)) = 0
    BY <2>1, EmptySeq DEF Init, Flight
  <2>3. Written(c) = 0 /\ received[c] = 0
    BY DEF Init, Idle, Written, Uncounted, One, Callers
  <2>4. Len(Flight(c)) = (Written(c) - received[c]) * Size
    BY <2>2, <2>3, Times
  <2>5. ASSUME NEW q \in Nat, NEW i \in 1 .. Size, 0 <= q, (q - 0) * Size + i <= 0 PROVE FALSE
    <3>1. q \in Int /\ 0 \in Int /\ 0 <= q
      OBVIOUS
    <3>2. (q - 0) * Size + i >= 1 /\ (q - 0) * Size + i \in Int
      BY <3>1, PlaceMath, Zenon
    <3> DEFINE j == (q - 0) * Size + i
    <3>3. j >= 1 /\ j \in Int /\ j <= 0
      BY <2>5, <3>2
    <3> HIDE DEF j
    <3> QED
      BY <3>3
  <2>6. Exact(c)
    BY <2>2, <2>3, <2>4, <2>5 DEF Exact
  <2>7. Sound(c)
    BY DEF Init, Sound
  <2> QED
    BY <2>6, <2>7
<1>2. run.errors = {}
  BY DEF Init
<1> QED
  BY <1>1, <1>2 DEF CleanInv

LEMMA Blamed == ASSUME CleanInv PROVE OnlyFaultsFailUnshared
<1> SUFFICES ASSUME engine # "py-netty" \/ ~sequential, faults = 0 PROVE run.errors \subseteq {"timeout"}
  BY DEF OnlyFaultsFailUnshared, OnlyFaultsFail
<1> QED
  BY DEF CleanInv, Unshared

\* Without a refused or broken connection or a wrong echo nothing but a timeout fails
\* a run in which one thread or task sends on each connection: the bytes on their way
\* are always what was sent and not received, in order, so that every frame a client
\* takes is the one it compares it with.
THEOREM NothingElseFails == Spec => []OnlyFaultsFailUnshared
<1>1. Init => FinalInv /\ EchoInv /\ CleanInv
  BY FinalInitial, EchoInitial, CleanInitial
<1>2. FinalInv /\ EchoInv /\ CleanInv /\ [Next]_vars => FinalInv' /\ EchoInv' /\ CleanInv'
  BY FinalStep, EchoStep, CleanStep
<1> QED
  BY <1>1, <1>2, Blamed, PTL DEF Spec
=============================================================================

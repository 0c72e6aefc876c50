--------------------------- MODULE AcceptorProofs ---------------------------
(***************************************************************************)
(* Who holds an accepted connection, and what is left of a server whose    *)
(* groups have been left, proved for any connections and any number of     *)
(* child loops.                                                            *)
(***************************************************************************)
EXTENDS Acceptor, SequenceTheorems, TLAPS

-----------------------------------------------------------------------------
(* Sequences without repetition                                            *)

\* Taking the head off takes it out of the range and keeps the rest distinct.
LEMMA TakeHead ==
  ASSUME NEW S, NEW s \in Seq(S), s # << >>
  PROVE /\ Head(s) \in S /\ Tail(s) \in Seq(S)
        /\ Range(s) = {Head(s)} \cup Range(Tail(s))
        /\ IsInjective(s) => IsInjective(Tail(s)) /\ Head(s) \notin Range(Tail(s))
<1>1. /\ Len(s) \in Nat \ {0} /\ DOMAIN s = 1 .. Len(s)
      /\ Head(s) = s[1] /\ Tail(s) \in Seq(S)
      /\ DOMAIN Tail(s) = 1 .. Len(s) - 1
      /\ \A i \in 1 .. Len(s) - 1 : Tail(s)[i] = s[i + 1]
  BY HeadTailProperties, LenProperties
<1>2. Head(s) \in S
  BY <1>1, ElementOfSeq
<1>3. Range(s) \subseteq {Head(s)} \cup Range(Tail(s))
  <2> SUFFICES ASSUME NEW i \in 1 .. Len(s) PROVE s[i] \in {Head(s)} \cup Range(Tail(s))
    BY <1>1 DEF Range
  <2>1. CASE i = 1
    BY <2>1, <1>1
  <2>2. CASE i # 1
    <3>1. i - 1 \in 1 .. Len(s) - 1 /\ Tail(s)[i - 1] = s[i]
      BY <2>2, <1>1
    <3> QED
      BY <3>1, <1>1 DEF Range
  <2> QED
    BY <2>1, <2>2
<1>4. {Head(s)} \cup Range(Tail(s)) \subseteq Range(s)
  <2>1. Head(s) \in Range(s)
    BY <1>1 DEF Range
  <2>2. ASSUME NEW i \in 1 .. Len(s) - 1 PROVE Tail(s)[i] \in Range(s)
    <3>1. i + 1 \in 1 .. Len(s)
      BY <1>1
    <3> QED
      BY <3>1, <1>1 DEF Range
  <2> QED
    BY <2>1, <2>2, <1>1 DEF Range
<1>5. ASSUME IsInjective(s) PROVE IsInjective(Tail(s)) /\ Head(s) \notin Range(Tail(s))
  <2>1. ASSUME NEW i \in 1 .. Len(s) - 1, NEW j \in 1 .. Len(s) - 1, Tail(s)[i] = Tail(s)[j]
        PROVE i = j
    <3>1. i + 1 \in 1 .. Len(s) /\ j + 1 \in 1 .. Len(s) /\ s[i + 1] = s[j + 1]
      BY <1>1, <2>1
    <3>2. i + 1 = j + 1
      BY <3>1, <1>1, <1>5 DEF IsInjective
    <3> QED
      BY <3>2
  <2>2. ASSUME NEW i \in 1 .. Len(s) - 1 PROVE Tail(s)[i] # Head(s)
    <3>1. i + 1 \in 1 .. Len(s) /\ i + 1 # 1 /\ 1 \in 1 .. Len(s)
      BY <1>1
    <3> QED
      BY <3>1, <1>1, <1>5 DEF IsInjective
  <2> QED
    BY <1>1, <2>1, <2>2 DEF IsInjective, Range
<1> QED
  BY <1>1, <1>2, <1>3, <1>4, <1>5

\* A new element at the end keeps a sequence distinct.
LEMMA AddLast ==
  ASSUME NEW S, NEW s \in Seq(S), NEW e \in S
  PROVE /\ Append(s, e) \in Seq(S)
        /\ Range(Append(s, e)) = Range(s) \cup {e}
        /\ IsInjective(s) /\ e \notin Range(s) => IsInjective(Append(s, e))
<1>1. /\ Append(s, e) \in Seq(S) /\ Len(s) \in Nat
      /\ DOMAIN s = 1 .. Len(s)
      /\ DOMAIN Append(s, e) = 1 .. Len(s) + 1
      /\ \A i \in 1 .. Len(s) : Append(s, e)[i] = s[i]
      /\ Append(s, e)[Len(s) + 1] = e
  BY AppendProperties, LenProperties
<1>2. 1 .. Len(s) + 1 = (1 .. Len(s)) \cup {Len(s) + 1}
  BY <1>1
<1>3. Range(Append(s, e)) = Range(s) \cup {e}
  BY <1>1, <1>2 DEF Range
<1>4. ASSUME IsInjective(s), e \notin Range(s) PROVE IsInjective(Append(s, e))
  BY <1>1, <1>2, <1>4 DEF IsInjective, Range
<1> QED
  BY <1>1, <1>3, <1>4

\* The empty sequence.
LEMMA Nothing ==
  /\ Range(<< >>) = {} /\ IsInjective(<< >>)
  /\ \A S : << >> \in Seq(S)
BY EmptySeq DEF Range, IsInjective

-----------------------------------------------------------------------------
(* Types                                                                   *)

LEMMA LoopsAndTasks ==
  /\ Parent \in Loops /\ Range(Children) \subseteq Loops
  /\ Parent \notin Range(Children) /\ None \notin Range(Children)
  /\ Conns \subseteq Tasks /\ {"register", "force", "close"} \subseteq Tasks
  /\ Conns \cap {"register", "force", "close"} = {}
BY AcceptorAssumption DEF AcceptorAssumption, Loops, Tasks

\* The turns of the child group.
LEMMA Turns ==
  /\ Len(Children) \in Nat \ {0} /\ DOMAIN Children = 1 .. Len(Children)
  /\ \A i \in DOMAIN Children : Children[i] \in Range(Children)
BY AcceptorAssumption, LenProperties DEF AcceptorAssumption, Range

LEMMA CycleStays ==
  ASSUME NEW n \in Nat \ {0}, NEW i \in 1 .. n
  PROVE (IF i = n THEN 1 ELSE i + 1) \in 1 .. n
OBVIOUS

\* A chosen loop is for the first of the accepted connections.
ChosenInv == chosen # None => accepted # << >>

TypeInv == TypeOK /\ ChosenInv

LEMMA SubmitType ==
  ASSUME TypeOK, NEW l \in Loops, NEW task \in Tasks, Submit(l, task)
  PROVE queue' \in [Loops -> Seq(Tasks)]
BY AddLast DEF Submit, TypeOK

LEMMA TypeInitial == Init => TypeInv
<1> SUFFICES ASSUME Init PROVE TypeInv
  OBVIOUS
<1>1. << >> \in Seq(Tasks) /\ << >> \in Seq(Conns)
  BY Nothing
<1>2. exits \in Seq(Groups)
  <2>1. "parent" \in Groups /\ "child" \in Groups
    BY DEF Groups
  <2>2. exits = <<"parent", "child">> \/ exits = <<"child", "parent">>
    BY DEF Init
  <2>3. <<"parent", "child">> \in Seq(Groups) /\ <<"child", "parent">> \in Seq(Groups)
    BY <2>1
  <2> QED
    BY <2>2, <2>3, Zenon
<1>3. turn \in DOMAIN Children
  BY Turns DEF Init
<1>4. active \in BOOLEAN
  BY DEF Init
<1> QED
  BY <1>1, <1>2, <1>3, <1>4 DEF Init, TypeInv, TypeOK, ChosenInv

LEMMA TypeStep == ASSUME TypeInv, [Next]_vars PROVE TypeInv'
<1> USE LoopsAndTasks DEF TypeInv, ChosenInv
<1>a. ASSUME NEW cs, NEW how \in {"open", "refused", "closed"}
      PROVE Becomes(cs, how) \in [Conns -> {"none", "waiting", "open", "refused", "closed"}]
  BY DEF Becomes, TypeOK
<1>b. << >> \in Seq(Conns)
  BY Nothing
<1>1. CASE Bind
  BY <1>1, SubmitType DEF Bind, TypeOK, acceptor
<1>2. CASE Synced
  BY <1>2 DEF Synced, TypeOK, loops, serving, acceptor
<1>3. CASE LeaveServerOpen
  BY <1>3 DEF LeaveServerOpen, TypeOK, loops, serving, acceptor
<1>4. CASE LeaveGroup
  BY <1>4, TakeHead DEF LeaveGroup, TypeOK, loops, serving, acceptor
<1>5. ASSUME NEW how \in {"force", "close"}, CloseServer(how) PROVE TypeInv'
  BY <1>5, SubmitType DEF CloseServer, TypeOK, serving, acceptor
<1>6. ASSUME NEW l \in Loops, Stop(l) PROVE TypeInv'
  BY <1>6 DEF Stop, TypeOK, serving, acceptor, application
<1>7. ASSUME NEW l \in Loops, RunTask(l) PROVE TypeInv'
  <2>1. Head(queue[l]) \in Tasks /\ queue' \in [Loops -> Seq(Tasks)]
    BY <1>7, TakeHead DEF RunTask, TypeOK
  <2>2. CASE RunClose(Head(queue[l]))
    <3>1. CASE ServerCloses
      BY <1>7, <1>a, <1>b, <2>1, <2>2, <3>1 DEF RunTask, RunClose, ServerCloses, TypeOK, acceptor, application
    <3>2. CASE UNCHANGED serving
      BY <1>7, <2>1, <2>2, <3>2 DEF RunTask, RunClose, TypeOK, serving, acceptor, application
    <3> QED
      BY <2>2, <3>1, <3>2 DEF RunClose
  <2>3. CASE RunRegister(l, Head(queue[l]))
    <3>1. CASE Head(queue[l]) = "register"
      BY <1>7, <2>1, <2>3, <3>1 DEF RunTask, RunRegister, TypeOK, acceptor, application
    <3>2. CASE Head(queue[l]) \in Conns /\ phase[l] = "open"
      <4>1. table' = [table EXCEPT ![l] = @ \cup {Head(queue[l])}] /\ UNCHANGED serving
        BY <2>3, <3>2 DEF RunRegister
      <4>2. table' \in [Loops -> SUBSET Conns]
        BY <3>2, <4>1 DEF TypeOK
      <4> QED
        BY <1>7, <2>1, <4>1, <4>2 DEF RunTask, TypeOK, serving, acceptor, application
    <3>3. CASE Head(queue[l]) \in Conns /\ phase[l] # "open"
      BY <1>7, <1>a, <2>1, <2>3, <3>3 DEF RunTask, RunRegister, TypeOK, acceptor, application
    <3> QED
      BY <2>3, <3>1, <3>2, <3>3 DEF RunRegister
  <2> QED
    BY <1>7, <2>2, <2>3 DEF RunTask
<1>8. ASSUME NEW l \in Loops, Terminate(l) PROVE TypeInv'
  <2>1. CASE ServerCloses
    BY <1>8, <1>a, <1>b, <2>1 DEF Terminate, ServerCloses, TypeOK, acceptor, application
  <2>2. CASE socket' = Becomes(table[l], "closed") /\ UNCHANGED <<server, active, backlog>>
    BY <1>8, <1>a, <2>2 DEF Terminate, TypeOK, acceptor, application
  <2> QED
    BY <1>8, <2>1, <2>2 DEF Terminate
<1>9. ASSUME NEW c \in Conns, Connect(c) PROVE TypeInv'
  BY <1>9, AddLast DEF Connect, TypeOK, loops, acceptor, application
<1>15. ASSUME NEW c \in Conns, Collect(c) PROVE TypeInv'
  BY <1>15, <1>a DEF Collect, TypeOK, loops, acceptor, application
<1>10. CASE AcceptAll
  BY <1>10, <1>a, <1>b DEF AcceptAll, TypeOK, loops, application, Busy
<1>11. CASE WrapFails
  BY <1>11, <1>a, TakeHead DEF WrapFails, DropFirst, TypeOK, loops, application
<1>12. CASE Choose
  <2>1. turn' \in DOMAIN Children
    <3>1. turn \in 1 .. Len(Children) /\ turn' = NextTurn
      BY <1>12, Turns DEF Choose, TypeOK
    <3>2. Len(Children) \in Nat \ {0} /\ DOMAIN Children = 1 .. Len(Children)
      BY Turns
    <3> QED
      BY <3>1, <3>2, CycleStays DEF NextTurn
  <2>2. Children[turn] \in Range(Children)
    BY Turns DEF TypeOK
  <2>3. CASE phase[Children[turn]] = "open"
    BY <1>12, <2>1, <2>2, <2>3 DEF Choose, TypeOK, loops, application
  <2>4. CASE phase[Children[turn]] # "open"
    <3>1. DropFirst("refused") /\ chosen' = chosen /\ accepted # << >>
      BY <1>12, <2>4 DEF Choose
    <3>2. /\ socket' \in [Conns -> {"none", "waiting", "open", "refused", "closed"}]
          /\ accepted' \in Seq(Conns)
      BY <1>a, <3>1, TakeHead DEF DropFirst, TypeOK
    <3>3. chosen = None
      BY <1>12 DEF Choose
    <3> QED
      BY <1>12, <2>1, <3>1, <3>2, <3>3 DEF Choose, TypeOK, loops, application
  <2> QED
    BY <2>3, <2>4
<1>13. CASE HandOver
  BY <1>13, SubmitType, TakeHead DEF HandOver, TypeOK, serving, application
<1>14. CASE UNCHANGED vars
  BY <1>14 DEF vars, TypeOK, loops, serving, acceptor, application
<1> QED
  BY <1>1, <1>2, <1>3, <1>4, <1>5, <1>6, <1>7, <1>8, <1>9, <1>10, <1>11, <1>12, <1>13, <1>14, <1>15
  DEF Next, AcceptorStep, LoopStep

-----------------------------------------------------------------------------
(* The server channel has its tasks on the parent loop, connections theirs *)
(* on the child loops                                                      *)

ServerTasks == {"register", "force", "close"}

QueueInv ==
  /\ queue[Parent] \in Seq(ServerTasks)
  /\ \A l \in Range(Children) : queue[l] \in Seq(Conns)

LEMMA QueueInitial == Init => QueueInv
BY LoopsAndTasks, Nothing DEF Init, QueueInv

LEMMA QueueStep == ASSUME TypeInv, QueueInv, [Next]_vars PROVE QueueInv'
<1> USE LoopsAndTasks DEF TypeInv, QueueInv
<1>1. ASSUME NEW task \in ServerTasks, Submit(Parent, task) PROVE QueueInv'
  BY <1>1, AddLast DEF Submit, TypeOK
<1>2. CASE HandOver
  <2>1. Head(accepted) \in Conns /\ chosen \in Range(Children) /\ Submit(chosen, Head(accepted))
    BY <1>2, TakeHead DEF HandOver, ChosenInv, TypeOK
  <2> QED
    BY <2>1, AddLast DEF Submit, TypeOK
<1>3. ASSUME NEW l \in Loops, RunTask(l) PROVE QueueInv'
  BY <1>3, TakeHead DEF RunTask, TypeOK
<1>4. CASE UNCHANGED queue
  BY <1>4
<1>5. ASSUME NEW how \in {"force", "close"}, CloseServer(how) PROVE QueueInv'
  BY <1>1, <1>5 DEF CloseServer, ServerTasks
<1>6. CASE Bind
  BY <1>1, <1>6 DEF Bind, ServerTasks
<1>7. CASE Synced \/ LeaveServerOpen \/ LeaveGroup \/ AcceptAll \/ WrapFails \/ Choose \/ UNCHANGED vars
  BY <1>4, <1>7 DEF Synced, LeaveServerOpen, LeaveGroup, AcceptAll, WrapFails, Choose, loops, vars
<1>8. ASSUME NEW l \in Loops, Stop(l) \/ Terminate(l) PROVE QueueInv'
  BY <1>4, <1>8 DEF Stop, Terminate
<1>9. ASSUME NEW c \in Conns, Connect(c) \/ Collect(c) PROVE QueueInv'
  BY <1>4, <1>9 DEF Connect, Collect, loops
<1> QED
  BY <1>2, <1>3, <1>5, <1>6, <1>7, <1>8, <1>9 DEF Next, AcceptorStep, LoopStep

-----------------------------------------------------------------------------
(* What is left of a group                                                 *)

\* A loop that has ended holds nothing and hands nothing over ...
EndedInv ==
  /\ \A l \in Loops : phase[l] = "terminated" => table[l] = {}
  /\ phase[Parent] = "terminated" => server # "registered" /\ accepted = << >>

\* ... and the loops of a group that has been left have ended.
LeftInv ==
  /\ \A group \in Groups \ Range(exits) :
       \A l \in Range(Members(group)) : phase[l] = "terminated"
  /\ IsInjective(exits)

LEMMA MembersAreLoops ==
  /\ \A group \in Groups : Range(Members(group)) \subseteq Loops
  /\ \A l \in Loops : \E group \in Groups : l \in Range(Members(group))
<1>1. Range(<<Parent>>) = {Parent}
  BY DEF Range
<1> QED
  BY <1>1 DEF Groups, Members, Loops

LEMMA EndedStep == ASSUME TypeInv, QueueInv, EndedInv, [Next]_vars PROVE EndedInv'
<1> USE LoopsAndTasks DEF TypeInv, EndedInv
<1>1. CASE Bind
  BY <1>1 DEF Bind, TypeOK, acceptor
<1>2. CASE Synced \/ LeaveServerOpen \/ LeaveGroup \/ UNCHANGED vars
  BY <1>2 DEF Synced, LeaveServerOpen, LeaveGroup, vars, loops, serving, acceptor
<1>3. ASSUME NEW how \in {"force", "close"}, CloseServer(how) PROVE EndedInv'
  BY <1>3 DEF CloseServer, serving, acceptor
<1>4. ASSUME NEW l \in Loops, Stop(l) PROVE EndedInv'
  BY <1>4 DEF Stop, TypeOK, serving, acceptor
<1>5. ASSUME NEW l \in Loops, RunTask(l) PROVE EndedInv'
  <2>1. UNCHANGED <<phase, accepted>> /\ phase[l] # "terminated"
    BY <1>5 DEF RunTask, acceptor
  <2>2. CASE RunClose(Head(queue[l]))
    BY <2>1, <2>2 DEF RunClose, ServerCloses, serving
  <2>3. CASE RunRegister(l, Head(queue[l]))
    <3>1. CASE Head(queue[l]) = "register"
      <4>1. l = Parent
        <5> SUFFICES ASSUME l \in Range(Children) PROVE FALSE
          BY DEF Loops
        <5>1. Head(queue[l]) \in Conns
          BY <1>5, TakeHead DEF RunTask, QueueInv
        <5> QED
          BY <3>1, <5>1
      <4> QED
        BY <2>1, <2>3, <3>1, <4>1 DEF RunRegister
    <3>2. CASE Head(queue[l]) \in Conns
      <4>1. /\ \A k \in Loops \ {l} : table'[k] = table[k]
            /\ server' = server
        BY <2>3, <3>2 DEF RunRegister, serving, TypeOK
      <4> QED
        BY <2>1, <4>1
    <3> QED
      BY <2>3, <3>1, <3>2 DEF RunRegister
  <2> QED
    BY <1>5, <2>2, <2>3 DEF RunTask
<1>6. ASSUME NEW l \in Loops, Terminate(l) PROVE EndedInv'
  <2>1. /\ \A k \in Loops \ {l} : phase'[k] = phase[k] /\ table'[k] = table[k]
        /\ table'[l] = {} /\ accepted' = accepted
    BY <1>6 DEF Terminate, TypeOK, acceptor
  <2>2. server' = server \/ server' = "closed"
    BY <1>6 DEF Terminate, ServerCloses
  <2>3. l = Parent => server' # "registered" /\ accepted = << >>
    BY <1>6 DEF Terminate, ServerCloses, Busy
  <2> QED
    BY <2>1, <2>2, <2>3
<1>7. ASSUME NEW c \in Conns, Connect(c) \/ Collect(c) PROVE EndedInv'
  BY <1>7 DEF Connect, Collect, loops, acceptor
<1>8. CASE AcceptAll
  BY <1>8 DEF AcceptAll, loops
<1>9. CASE WrapFails
  BY <1>9 DEF WrapFails, loops
<1>10. CASE Choose
  BY <1>10 DEF Choose, loops
<1>11. CASE HandOver
  <2>1. phase[Parent] # "terminated"
    BY <1>11 DEF HandOver, ChosenInv
  <2> QED
    BY <1>11, <2>1 DEF HandOver, serving
<1> QED
  BY <1>1, <1>2, <1>3, <1>4, <1>5, <1>6, <1>7, <1>8, <1>9, <1>10, <1>11
  DEF Next, AcceptorStep, LoopStep

LEMMA LeftStep == ASSUME TypeInv, LeftInv, [Next]_vars PROVE LeftInv'
<1> USE DEF TypeInv, LeftInv
<1>1. CASE LeaveGroup
  <2>1. /\ exits \in Seq(Groups) /\ exits # << >> /\ exits' = Tail(exits)
        /\ \A l \in Range(Members(Head(exits))) : phase[l] = "terminated"
        /\ phase' = phase
    BY <1>1 DEF LeaveGroup, TypeOK, loops
  <2>2. Range(exits) = {Head(exits)} \cup Range(exits') /\ IsInjective(exits')
    BY <2>1, TakeHead
  <2> QED
    BY <2>1, <2>2 DEF Members
<1>2. ASSUME exits' = exits,
             \A l \in Loops : phase[l] = "terminated" => phase'[l] = "terminated"
      PROVE LeftInv'
  BY <1>2, MembersAreLoops DEF Members
<1>3. CASE Bind \/ Synced \/ LeaveServerOpen \/ AcceptorStep \/ UNCHANGED vars
  BY <1>2, <1>3 DEF Bind, Synced, LeaveServerOpen, AcceptorStep, AcceptAll, WrapFails, Choose,
       HandOver, application, loops, vars
<1>4. ASSUME NEW how \in {"force", "close"}, CloseServer(how) PROVE LeftInv'
  BY <1>2, <1>4 DEF CloseServer
<1>5. ASSUME NEW l \in Loops, Stop(l) PROVE LeftInv'
  BY <1>2, <1>5 DEF Stop, application, TypeOK
<1>6. ASSUME NEW l \in Loops, LoopStep(l) PROVE LeftInv'
  BY <1>2, <1>6 DEF LoopStep, RunTask, Terminate, application, TypeOK
<1>7. ASSUME NEW c \in Conns, Connect(c) \/ Collect(c) PROVE LeftInv'
  BY <1>2, <1>7 DEF Connect, Collect, application, loops
<1> QED
  BY <1>1, <1>3, <1>4, <1>5, <1>6, <1>7 DEF Next

LEMMA GroupsInitial == Init => EndedInv /\ LeftInv
<1> SUFFICES ASSUME Init PROVE EndedInv /\ LeftInv
  OBVIOUS
<1>1. EndedInv
  BY LoopsAndTasks DEF Init, EndedInv
<1>2. exits = <<"parent", "child">> \/ exits = <<"child", "parent">>
  BY DEF Init
<1>3. Groups \subseteq Range(exits) /\ IsInjective(exits)
  BY <1>2 DEF Groups, Range, IsInjective
<1> QED
  BY <1>1, <1>3 DEF LeftInv

LEMMA GroupsInvariance == Spec => [](TypeInv /\ QueueInv /\ EndedInv /\ LeftInv)
BY TypeInitial, TypeStep, QueueInitial, QueueStep, GroupsInitial, EndedStep, LeftStep, PTL DEF Spec

\* The variables of a server keep their types.
THEOREM AcceptorTypeCorrect == Spec => []TypeOK
<1>1. TypeInv => TypeOK
  BY DEF TypeInv
<1> QED
  BY <1>1, GroupsInvariance, PTL

\* When the application has left both groups, no loop has a connection registered
\* with it, the server channel is closed or was never registered, and nobody is
\* handing connections over.
THEOREM GroupsLeaveNothing == Spec => []NothingOutlivesItsGroup
<1>1. TypeInv /\ EndedInv /\ LeftInv => NothingOutlivesItsGroup
  <2> SUFFICES ASSUME TypeInv, EndedInv, LeftInv, exits = << >>
               PROVE /\ \A l \in Loops : table[l] = {}
                     /\ server # "registered" /\ accepted = << >>
    BY DEF NothingOutlivesItsGroup
  <2>1. \A l \in Loops : phase[l] = "terminated"
    BY Nothing, MembersAreLoops DEF LeftInv
  <2> QED
    BY <2>1, LoopsAndTasks DEF EndedInv
<1> QED
  BY <1>1, GroupsInvariance, PTL

-----------------------------------------------------------------------------
(* Who holds an accepted connection                                        *)

\* The application gives the parent loop each of its tasks once.
OnceInv ==
  /\ app = "bind" => Range(queue[Parent]) = {}
  /\ app = "serve" => Range(queue[Parent]) \subseteq {"register"}

DistinctInv ==
  /\ IsInjective(accepted) /\ IsInjective(backlog)
  /\ \A l \in Loops : IsInjective(queue[l])

Queued(l) == Range(queue[l]) \cap Conns

\* Where a connection is, and what its socket says of it.
PlaceInv ==
  /\ table[Parent] = {}
  /\ \A l \in Loops :
       /\ Queued(l) \cap table[l] = {}
       /\ (Queued(l) \cup table[l]) \cap Range(accepted) = {}
       /\ \A k \in Loops \ {l} : (Queued(k) \cup table[k]) \cap (Queued(l) \cup table[l]) = {}
  /\ \A c \in Conns :
       /\ socket[c] = "waiting" <=> c \in Range(backlog)
       /\ socket[c] = "open" <=> \/ c \in Range(accepted)
                                \/ \E l \in Loops : c \in Queued(l) \cup table[l]

HolderInv == OnceInv /\ DistinctInv /\ PlaceInv

\* Steps that move no connection.
LEMMA PlaceFrame ==
  ASSUME PlaceInv, \A l \in Loops : Queued(l)' = Queued(l),
         UNCHANGED <<table, accepted, backlog, socket>>
  PROVE PlaceInv'
BY DEF PlaceInv

LEMMA OnceStep == ASSUME TypeInv, QueueInv, OnceInv, [Next]_vars PROVE OnceInv'
<1> USE LoopsAndTasks DEF TypeInv, OnceInv
<1>1. CASE Bind
  <2>1. /\ queue' = [queue EXCEPT ![Parent] = Append(queue[Parent], "register")]
        /\ Range(queue[Parent]) = {} /\ app' = "serve"
    BY <1>1 DEF Bind, Submit
  <2>2. Range(queue'[Parent]) = {"register"}
    BY <2>1, AddLast DEF TypeOK
  <2> QED
    BY <2>1, <2>2
<1>2. CASE app' \notin {"bind", "serve"}
  BY <1>2
<1>3. CASE UNCHANGED <<queue, app>>
  BY <1>3
<1>4. ASSUME NEW l \in Loops, RunTask(l) PROVE OnceInv'
  <2>1. Range(queue'[Parent]) \subseteq Range(queue[Parent])
    BY <1>4, TakeHead DEF RunTask, TypeOK
  <2> QED
    BY <1>4, <2>1 DEF RunTask, application
<1>5. CASE HandOver
  <2>1. queue'[Parent] = queue[Parent] /\ app' = app
    BY <1>5 DEF HandOver, Submit, TypeOK, application
  <2> QED
    BY <2>1
<1>6. ASSUME NEW how \in {"force", "close"}, CloseServer(how) PROVE OnceInv'
  BY <1>2, <1>6 DEF CloseServer
<1>7. CASE Synced \/ LeaveServerOpen
  BY <1>2, <1>7 DEF Synced, LeaveServerOpen
<1>8. CASE LeaveGroup \/ AcceptAll \/ WrapFails \/ Choose \/ UNCHANGED vars
  BY <1>3, <1>8 DEF LeaveGroup, AcceptAll, WrapFails, Choose, vars, loops, application
<1>9. ASSUME NEW l \in Loops, Stop(l) \/ Terminate(l) PROVE OnceInv'
  BY <1>3, <1>9 DEF Stop, Terminate, application
<1>10. ASSUME NEW c \in Conns, Connect(c) \/ Collect(c) PROVE OnceInv'
  BY <1>3, <1>10 DEF Connect, Collect, loops, application
<1> QED
  BY <1>1, <1>4, <1>5, <1>6, <1>7, <1>8, <1>9, <1>10 DEF Next, AcceptorStep, LoopStep

LEMMA DistinctStep == ASSUME TypeInv, QueueInv, HolderInv, [Next]_vars PROVE DistinctInv'
<1> USE LoopsAndTasks DEF TypeInv, HolderInv
<1>1. ASSUME NEW l \in Loops, NEW task \in Tasks, task \notin Range(queue[l]), Submit(l, task)
      PROVE \A k \in Loops : IsInjective(queue'[k])
  BY <1>1, AddLast DEF Submit, TypeOK, DistinctInv
<1>2. ASSUME UNCHANGED queue PROVE \A k \in Loops : IsInjective(queue'[k])
  BY <1>2 DEF DistinctInv
<1>3. CASE Bind
  BY <1>1, <1>3 DEF Bind, OnceInv, acceptor, DistinctInv
<1>4. ASSUME NEW how \in {"force", "close"}, CloseServer(how) PROVE DistinctInv'
  BY <1>1, <1>4 DEF CloseServer, OnceInv, acceptor, serving, DistinctInv
<1>5. CASE HandOver
  <2>1. /\ Head(accepted) \in Conns /\ chosen \in Loops
        /\ Submit(chosen, Head(accepted)) /\ accepted' = Tail(accepted) /\ backlog' = backlog
    BY <1>5, TakeHead DEF HandOver, ChosenInv, TypeOK, serving
  <2>2. Head(accepted) \in Range(accepted) /\ IsInjective(Tail(accepted))
    BY <1>5, TakeHead DEF HandOver, ChosenInv, TypeOK, DistinctInv
  <2>3. Head(accepted) \notin Range(queue[chosen])
    BY <2>1, <2>2 DEF PlaceInv, Queued
  <2> QED
    BY <1>1, <2>1, <2>2, <2>3 DEF DistinctInv
<1>6. ASSUME NEW l \in Loops, RunTask(l) PROVE DistinctInv'
  <2>1. \A k \in Loops : IsInjective(queue'[k])
    BY <1>6, TakeHead DEF RunTask, TypeOK, DistinctInv
  <2>2. accepted' = accepted /\ (backlog' = backlog \/ backlog' = << >>)
    BY <1>6 DEF RunTask, RunClose, RunRegister, ServerCloses, serving, acceptor
  <2> QED
    BY <2>1, <2>2, Nothing DEF DistinctInv
<1>7. ASSUME NEW l \in Loops, Terminate(l) PROVE DistinctInv'
  <2>1. /\ accepted' = accepted /\ queue' = queue
        /\ backlog' = backlog \/ backlog' = << >>
    BY <1>7 DEF Terminate, ServerCloses, acceptor
  <2> QED
    BY <2>1, Nothing DEF DistinctInv
<1>8. ASSUME NEW c \in Conns, Connect(c) PROVE DistinctInv'
  <2>1. c \notin Range(backlog)
    BY <1>8 DEF Connect, PlaceInv
  <2> QED
    BY <1>8, <2>1, AddLast DEF Connect, loops, acceptor, TypeOK, DistinctInv
<1>9. CASE AcceptAll
  BY <1>9, Nothing DEF AcceptAll, loops, DistinctInv
<1>10. CASE WrapFails \/ Choose
  <2>1. /\ accepted # << >> /\ UNCHANGED <<queue, backlog>>
        /\ accepted' = accepted \/ accepted' = Tail(accepted)
    BY <1>10 DEF WrapFails, Choose, DropFirst, loops
  <2>2. IsInjective(Tail(accepted))
    BY <2>1, TakeHead DEF TypeOK, DistinctInv
  <2>3. IsInjective(accepted')
    BY <2>1, <2>2 DEF DistinctInv
  <2> QED
    BY <2>1, <2>3 DEF DistinctInv
<1>11. CASE Synced \/ LeaveServerOpen \/ LeaveGroup \/ UNCHANGED vars
  BY <1>11 DEF Synced, LeaveServerOpen, LeaveGroup, vars, loops, serving, acceptor, DistinctInv
<1>12. ASSUME NEW l \in Loops, Stop(l) PROVE DistinctInv'
  BY <1>12 DEF Stop, serving, acceptor, DistinctInv
<1>13. ASSUME NEW c \in Conns, Collect(c) PROVE DistinctInv'
  BY <1>13 DEF Collect, loops, acceptor, DistinctInv
<1> QED
  BY <1>3, <1>4, <1>5, <1>6, <1>7, <1>8, <1>9, <1>10, <1>11, <1>12, <1>13
  DEF Next, AcceptorStep, LoopStep

LEMMA ChildQueues ==
  ASSUME TypeInv, QueueInv
  PROVE /\ Queued(Parent) = {}
        /\ \A l \in Range(Children) : Queued(l) = Range(queue[l])
<1>1. \A S : \A s \in Seq(S) : Range(s) \subseteq S
  BY ElementOfSeq, LenProperties DEF Range
<1> QED
  BY <1>1, LoopsAndTasks DEF QueueInv, Queued, ServerTasks

LEMMA PlaceStep == ASSUME TypeInv, QueueInv, HolderInv, [Next]_vars PROVE PlaceInv'
<1> USE LoopsAndTasks DEF TypeInv
<1>0. PlaceInv /\ DistinctInv
  BY DEF HolderInv
<1>1. ASSUME NEW task \in ServerTasks, Submit(Parent, task) PROVE \A l \in Loops : Queued(l)' = Queued(l)
  BY <1>1, AddLast DEF Submit, Queued, TypeOK, ServerTasks
<1>2. CASE Bind
  BY <1>0, <1>1, <1>2, PlaceFrame DEF Bind, acceptor, ServerTasks
<1>3. ASSUME NEW how \in {"force", "close"}, CloseServer(how) PROVE PlaceInv'
  BY <1>0, <1>1, <1>3, PlaceFrame DEF CloseServer, serving, acceptor, ServerTasks
<1>4. CASE Synced \/ LeaveServerOpen \/ LeaveGroup \/ UNCHANGED vars
  BY <1>0, <1>4, PlaceFrame DEF Synced, LeaveServerOpen, LeaveGroup, vars, loops, serving, acceptor, Queued
<1>5. ASSUME NEW l \in Loops, Stop(l) PROVE PlaceInv'
  BY <1>0, <1>5, PlaceFrame DEF Stop, serving, acceptor, Queued
<1>6. ASSUME NEW k \in Loops, k = chosen, HandOver PROVE PlaceInv'
  <2> DEFINE c == Head(accepted)
  <2>1. /\ c \in Conns /\ k # Parent /\ Submit(k, c)
        /\ accepted' = Tail(accepted) /\ UNCHANGED <<table, backlog, socket>>
    BY <1>6, TakeHead DEF HandOver, ChosenInv, TypeOK, serving
  <2>2. Range(accepted) = Range(accepted') \cup {c} /\ c \notin Range(accepted')
    BY <1>0, <1>6, <2>1, TakeHead DEF HandOver, ChosenInv, TypeOK, DistinctInv
  <2>3. /\ queue'[k] = Append(queue[k], c)
        /\ \A l \in Loops \ {k} : queue'[l] = queue[l]
    BY <2>1 DEF Submit, TypeOK
  <2> HIDE DEF c
  <2>4. Range(queue'[k]) = Range(queue[k]) \cup {c}
    BY <2>1, <2>3, AddLast DEF TypeOK
  <2>5. /\ Queued(k)' = Queued(k) \cup {c}
        /\ \A l \in Loops \ {k} : Queued(l)' = Queued(l)
    BY <2>1, <2>3, <2>4 DEF Queued
  <2> QED
    BY <1>0, <2>1, <2>2, <2>5 DEF PlaceInv
<1>7. ASSUME NEW l \in Loops, RunTask(l) PROVE PlaceInv'
  <2> DEFINE task == Head(queue[l])
  <2>1. /\ \A k \in Loops \ {l} : Queued(k)' = Queued(k)
        /\ Queued(l)' = Queued(l) \ {task}
        /\ task \in Conns => task \in Queued(l)
        /\ accepted' = accepted
    BY <1>0, <1>7, TakeHead DEF RunTask, Queued, TypeOK, DistinctInv, acceptor
  <2>2. CASE task \in Conns /\ phase[l] = "open"
    <3>1. /\ table' = [table EXCEPT ![l] = @ \cup {task}]
          /\ UNCHANGED <<backlog, socket>>
      BY <1>7, <2>2 DEF RunTask, RunClose, RunRegister, serving
    <3>2. l # Parent
      BY <2>1, <2>2, ChildQueues
    <3>3. \A k \in Loops \ {l} : table'[k] = table[k]
      BY <3>1 DEF TypeOK
    <3>4. table'[l] = table[l] \cup {task}
      BY <3>1 DEF TypeOK
    <3> HIDE DEF task
    <3> QED
      BY <1>0, <2>1, <2>2, <3>1, <3>2, <3>3, <3>4 DEF PlaceInv
  <2>3. CASE task \in Conns /\ phase[l] # "open"
    <3>1. socket' = Becomes({task}, "refused") /\ UNCHANGED <<table, backlog>>
      BY <1>7, <2>3 DEF RunTask, RunClose, RunRegister
    <3> HIDE DEF task
    <3> QED
      BY <1>0, <2>1, <2>3, <3>1 DEF PlaceInv, Becomes
  <2>4. CASE task \notin Conns
    <3>1. \A k \in Loops : Queued(k)' = Queued(k)
      BY <2>1, <2>4 DEF Queued
    <3>2. table' = table /\ (UNCHANGED <<backlog, socket>> \/ ServerCloses)
      BY <1>7, <2>4 DEF RunTask, RunClose, RunRegister, serving
    <3>3. CASE UNCHANGED <<backlog, socket>>
      BY <1>0, <2>1, <3>1, <3>2, <3>3, PlaceFrame
    <3>4. CASE ServerCloses
      <4>1. socket' = Becomes(Range(backlog), "closed") /\ Range(backlog') = {}
        BY <3>4, Nothing DEF ServerCloses
      <4> HIDE DEF task
      <4> QED
        BY <1>0, <2>1, <3>1, <3>2, <4>1 DEF PlaceInv, Becomes
    <3> QED
      BY <3>2, <3>3, <3>4
  <2> QED
    BY <2>2, <2>3, <2>4
<1>8. ASSUME NEW l \in Loops, Terminate(l) PROVE PlaceInv'
  <2>1. /\ \A k \in Loops : Queued(k)' = Queued(k)
        /\ \A k \in Loops \ {l} : table'[k] = table[k]
        /\ table'[l] = {} /\ accepted' = accepted
    BY <1>8 DEF Terminate, TypeOK, acceptor, Queued
  <2>2. CASE l = Parent /\ server = "registered"
    <3>1. socket' = Becomes(Range(backlog), "closed") /\ Range(backlog') = {}
      BY <1>8, <2>2, Nothing DEF Terminate, ServerCloses
    <3>2. \A k \in Loops : table'[k] = table[k]
      BY <1>0, <2>1, <2>2 DEF PlaceInv
    <3> QED
      BY <1>0, <2>1, <3>1, <3>2 DEF PlaceInv, Becomes
  <2>3. CASE ~(l = Parent /\ server = "registered")
    <3>1. socket' = Becomes(table[l], "closed") /\ backlog' = backlog
      BY <1>8, <2>3 DEF Terminate
    <3>2. table[l] \subseteq Conns
      BY DEF TypeOK
    <3> QED
      BY <1>0, <2>1, <3>1, <3>2 DEF PlaceInv, Becomes
  <2> QED
    BY <2>2, <2>3
<1>9. ASSUME NEW c \in Conns, Connect(c) PROVE PlaceInv'
  <2>1. /\ \A l \in Loops : Queued(l)' = Queued(l)
        /\ table' = table /\ accepted' = accepted /\ socket[c] = "none"
        /\ socket' = [socket EXCEPT ![c] = "waiting"]
    BY <1>9 DEF Connect, loops, acceptor, Queued
  <2>2. Range(backlog') = Range(backlog) \cup {c}
    BY <1>9, AddLast DEF Connect, TypeOK
  <2>3. socket'[c] = "waiting" /\ \A d \in Conns \ {c} : socket'[d] = socket[d]
    BY <2>1 DEF TypeOK
  <2> QED
    BY <1>0, <2>1, <2>2, <2>3 DEF PlaceInv
<1>10. CASE AcceptAll
  <2>1. /\ \A l \in Loops : Queued(l)' = Queued(l)
        /\ table' = table /\ accepted' = backlog
        /\ Range(backlog') = {} /\ Range(accepted) = {}
    BY <1>10, Nothing DEF AcceptAll, loops, Busy, Queued
  <2>2. \A c \in Conns : socket'[c] = IF c \in Range(backlog) THEN "open" ELSE socket[c]
    BY <1>10 DEF AcceptAll, Becomes
  <2>3. \A l \in Loops : table[l] \subseteq Conns
    BY DEF TypeOK
  <2> QED
    BY <1>0, <2>1, <2>2, <2>3 DEF PlaceInv, Queued
<1>11. ASSUME NEW how \in {"refused", "closed"}, accepted # << >>, DropFirst(how), UNCHANGED <<loops, backlog>> PROVE PlaceInv'
  <2> DEFINE c == Head(accepted)
  <2>1. /\ \A l \in Loops : Queued(l)' = Queued(l)
        /\ table' = table /\ backlog' = backlog /\ socket' = Becomes({c}, how)
    BY <1>11 DEF DropFirst, loops, Queued
  <2>2. /\ c \in Conns /\ c \notin Range(accepted')
        /\ Range(accepted) = Range(accepted') \cup {c}
    BY <1>0, <1>11, TakeHead DEF DropFirst, TypeOK, DistinctInv
  <2> HIDE DEF c
  <2> QED
    BY <1>0, <2>1, <2>2 DEF PlaceInv, Becomes
<1>12. CASE WrapFails
  BY <1>11, <1>12 DEF WrapFails
<1>13. CASE Choose
  <2>1. CASE UNCHANGED <<socket, accepted>>
    BY <1>0, <1>13, <2>1, PlaceFrame DEF Choose, loops, Queued
  <2>2. CASE DropFirst("refused")
    BY <1>11, <1>13, <2>2 DEF Choose
  <2> QED
    BY <1>13, <2>1, <2>2 DEF Choose
<1>14. CASE HandOver
  BY <1>6, <1>14 DEF HandOver, TypeOK
<1>15. ASSUME NEW c \in Conns, Collect(c) PROVE PlaceInv'
  <2>1. /\ \A l \in Loops : Queued(l)' = Queued(l)
        /\ UNCHANGED <<table, backlog, accepted>>
        /\ socket[c] = "refused" /\ socket' = Becomes({c}, "closed")
    BY <1>15 DEF Collect, loops, acceptor, Queued
  <2> QED
    BY <1>0, <2>1 DEF PlaceInv, Becomes
<1> QED
  BY <1>2, <1>3, <1>4, <1>5, <1>7, <1>8, <1>9, <1>10, <1>12, <1>13, <1>14, <1>15
  DEF Next, AcceptorStep, LoopStep

LEMMA HolderInitial == Init => HolderInv
<1> SUFFICES ASSUME Init PROVE HolderInv
  OBVIOUS
<1>1. \A l \in Loops : Range(queue[l]) = {} /\ table[l] = {} /\ IsInjective(queue[l])
  BY Nothing DEF Init
<1>2. /\ Range(accepted) = {} /\ Range(backlog) = {}
      /\ IsInjective(accepted) /\ IsInjective(backlog)
  BY Nothing DEF Init
<1>3. app = "bind" /\ \A c \in Conns : socket[c] = "none"
  BY DEF Init
<1> QED
  BY <1>1, <1>2, <1>3, LoopsAndTasks DEF HolderInv, OnceInv, DistinctInv, PlaceInv, Queued

LEMMA HolderInvariance == Spec => [](TypeInv /\ QueueInv /\ HolderInv)
<1>1. ASSUME TypeInv, QueueInv, HolderInv, [Next]_vars PROVE HolderInv'
  BY <1>1, OnceStep, DistinctStep, PlaceStep DEF HolderInv
<1> QED
  BY <1>1, TypeInitial, TypeStep, QueueInitial, QueueStep, HolderInitial, PTL DEF Spec

\* An accepted connection is in the acceptor's list, in the queue of one loop or
\* registered with one loop, and never in two of these, until it is closed or a
\* stopping loop refuses it (eventloop.py:524, bootstrap.py:167-172).
THEOREM AcceptedOnceHeldOnce == Spec => []OneHolder
<1>1. TypeInv /\ QueueInv /\ HolderInv => OneHolder
  <2> SUFFICES ASSUME TypeInv, QueueInv, HolderInv PROVE OneHolder
    OBVIOUS
  <2>1. /\ IsInjective(accepted) /\ \A l \in Loops : IsInjective(queue[l])
        /\ PlaceInv
    BY DEF HolderInv, DistinctInv
  <2>2. \A l \in Loops : Holding(l) = Queued(l) \cup table[l] /\ table[l] \subseteq Conns
    BY DEF Holding, Queued, TypeInv, TypeOK
  <2>3. \A l \in Loops : Range(queue[l]) \cap table[l] = {}
    BY <2>1, <2>2 DEF PlaceInv, Queued
  <2>4. \A l \in Loops : Holding(l) \cap Range(accepted) = {}
    BY <2>1, <2>2 DEF PlaceInv
  <2>5. \A l \in Loops : \A k \in Loops \ {l} : Holding(k) \cap Holding(l) = {}
    BY <2>1, <2>2 DEF PlaceInv
  <2>6. Range(accepted) \subseteq Conns
    BY ElementOfSeq, LenProperties DEF Range, TypeInv, TypeOK
  <2>7. {c \in Conns : socket[c] = "open"} = Range(accepted) \cup UNION {Holding(l) : l \in Loops}
    <3>1. \A c \in Conns : socket[c] = "open" <=>
             c \in Range(accepted) \/ \E l \in Loops : c \in Holding(l)
      BY <2>1, <2>2 DEF PlaceInv
    <3>2. \A l \in Loops : Holding(l) \subseteq Conns
      BY <2>2 DEF Queued
    <3> QED
      BY <2>6, <3>1, <3>2
  <2> QED
    BY <2>1, <2>3, <2>4, <2>5, <2>7 DEF OneHolder
<1> QED
  BY <1>1, HolderInvariance, PTL
=============================================================================

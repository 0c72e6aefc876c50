--------------------------- MODULE WritePathProofs ---------------------------
(***************************************************************************)
(* The shape of the write path's state: the call stack of the loop thread, *)
(* the queue, and the local list and the batch of a send pass.  What       *)
(* follows from the stack alone is that a channel with something to send   *)
(* keeps its WRITE interest.  All of it holds for any number of writes of  *)
(* any size, any water marks, any nesting of calls, and whatever user code *)
(* does inside the callbacks.                                              *)
(*                                                                         *)
(* The sums over a queue are recursive functions; what is needed of them   *)
(* is proved from the well-foundedness of < on the naturals.               *)
(***************************************************************************)
EXTENDS WritePath, SequenceTheorems, WellFoundedInduction, TLAPS

-----------------------------------------------------------------------------
(* Call stacks                                                             *)

PassLabels == {"round", "complete", "sent"}

\* A send pass and the callback of a WRITE event begin on an empty stack.
Bottoms == PassLabels \cup {"writability"}

AtBottom(s) == \A i \in DOMAIN s : s[i] \in Bottoms => i = Len(s)

LEMMA LabelSets ==
  /\ {"listener", "closing", "fail", "stale", "socket", "inactive", "unregister"}
       \subseteq Labels \ Bottoms
  /\ Bottoms \subseteq Labels /\ PassLabels \subseteq Bottoms
  /\ {"round", "complete", "sent"} \subseteq PassLabels /\ "writability" \in Bottoms
BY DEF Labels, Bottoms, PassLabels, UserContexts

LEMMA EmptyStack == << >> \in Seq(Labels) /\ ToSet(<< >>) = {} /\ AtBottom(<< >>)
BY EmptySeq DEF ToSet, AtBottom

LEMMA Push ==
  ASSUME NEW s \in Seq(Labels), NEW l \in Labels, NEW t, t = <<l>> \o s,
         (AtBottom(s) /\ l \notin Bottoms) \/ s = << >>
  PROVE /\ t \in Seq(Labels) /\ t # << >> /\ AtBottom(t)
        /\ Head(t) = l /\ Tail(t) = s /\ ToSet(t) = {l} \cup ToSet(s)
<1>1. <<l>> \in Seq(Labels) /\ Len(<<l>>) = 1 /\ <<l>>[1] = l
  OBVIOUS
<1>2. /\ t \in Seq(Labels) /\ Len(t) = Len(s) + 1 /\ DOMAIN t = 1 .. Len(s) + 1
      /\ Len(s) \in Nat /\ DOMAIN s = 1 .. Len(s) /\ t[1] = l
      /\ \A i \in 1 .. Len(s) : i + 1 \in 2 .. Len(s) + 1 /\ t[i + 1] = s[i]
      /\ \A i \in 2 .. Len(s) + 1 : i - 1 \in 1 .. Len(s) /\ t[i] = s[i - 1]
  BY <1>1, ConcatProperties, LenProperties
<1>3. t # << >> /\ Head(t) = l /\ Tail(t) = s
  <2>1. t # << >>
    BY <1>2
  <2>2. /\ Tail(t) \in Seq(Labels) /\ Len(Tail(t)) = Len(s) /\ Head(t) = t[1]
        /\ \A i \in 1 .. Len(s) : Tail(t)[i] = t[i + 1]
    BY <1>2, <2>1, HeadTailProperties
  <2>3. Tail(t) = s
    BY <1>2, <2>2, SeqEqual
  <2> QED
    BY <1>2, <2>1, <2>2, <2>3
<1>4. \A i \in DOMAIN t : i = 1 \/ i \in 2 .. Len(s) + 1
  BY <1>2
<1>5. 1 \in DOMAIN t
  BY <1>2
<1>6. ToSet(t) = {l} \cup ToSet(s)
  <2>1. ASSUME NEW i \in DOMAIN t PROVE t[i] \in {l} \cup ToSet(s)
    BY <1>2, <1>4 DEF ToSet
  <2>2. ASSUME NEW i \in DOMAIN s PROVE s[i] \in ToSet(t)
    <3>1. i + 1 \in DOMAIN t /\ t[i + 1] = s[i]
      BY <1>2
    <3> QED
      BY <3>1 DEF ToSet
  <2>3. l \in ToSet(t)
    BY <1>2, <1>5 DEF ToSet
  <2> QED
    BY <2>1, <2>2, <2>3 DEF ToSet
<1>7. AtBottom(t)
  <2> SUFFICES ASSUME NEW i \in DOMAIN t, t[i] \in Bottoms PROVE i = Len(t)
    BY DEF AtBottom
  <2>1. CASE s = << >>
    BY <1>2, <2>1
  <2>2. CASE AtBottom(s) /\ l \notin Bottoms
    <3>1. i \in 2 .. Len(s) + 1 /\ i - 1 \in DOMAIN s /\ s[i - 1] \in Bottoms
      BY <1>2, <1>4, <2>2
    <3>2. i - 1 = Len(s)
      BY <2>2, <3>1 DEF AtBottom
    <3> QED
      BY <1>2, <3>1, <3>2
  <2> QED
    BY <2>1, <2>2
<1> QED
  BY <1>2, <1>3, <1>6, <1>7

LEMMA Pop ==
  ASSUME NEW s \in Seq(Labels), s # << >>, AtBottom(s)
  PROVE /\ Tail(s) \in Seq(Labels) /\ AtBottom(Tail(s)) /\ Head(s) \in Labels
        /\ ToSet(s) = {Head(s)} \cup ToSet(Tail(s))
        /\ Head(s) \in Bottoms => Tail(s) = << >>
<1>1. /\ Tail(s) \in Seq(Labels) /\ DOMAIN Tail(s) = 1 .. Len(s) - 1 /\ Len(Tail(s)) = Len(s) - 1
      /\ DOMAIN s = 1 .. Len(s) /\ Len(s) \in Nat \ {0} /\ Head(s) = s[1]
      /\ \A i \in 1 .. Len(s) - 1 : Tail(s)[i] = s[i + 1] /\ i + 1 \in 1 .. Len(s)
      /\ \A i \in 1 .. Len(s) : i = 1 \/ (i - 1 \in 1 .. Len(s) - 1 /\ Tail(s)[i - 1] = s[i])
  BY HeadTailProperties, LenProperties
<1>2. 1 \in DOMAIN s /\ Head(s) \in Labels
  BY <1>1, ElementOfSeq
<1>3. ToSet(s) = {Head(s)} \cup ToSet(Tail(s))
  <2>1. ASSUME NEW i \in DOMAIN s PROVE s[i] \in {Head(s)} \cup ToSet(Tail(s))
    BY <1>1 DEF ToSet
  <2>2. ASSUME NEW i \in DOMAIN Tail(s) PROVE Tail(s)[i] \in ToSet(s)
    BY <1>1 DEF ToSet
  <2>3. Head(s) \in ToSet(s)
    BY <1>1, <1>2 DEF ToSet
  <2> QED
    BY <2>1, <2>2, <2>3 DEF ToSet
<1>4. AtBottom(Tail(s))
  <2> SUFFICES ASSUME NEW i \in DOMAIN Tail(s), Tail(s)[i] \in Bottoms PROVE i = Len(Tail(s))
    BY DEF AtBottom
  <2>1. i + 1 = Len(s)
    BY <1>1 DEF AtBottom
  <2> QED
    BY <1>1, <2>1
<1>5. ASSUME Head(s) \in Bottoms PROVE Tail(s) = << >>
  <2>1. Len(Tail(s)) = 0
    BY <1>1, <1>2, <1>5 DEF AtBottom
  <2> QED
    BY <1>1, <2>1, EmptySeq
<1> QED
  BY <1>1, <1>2, <1>3, <1>4, <1>5

\* A close further down the stack works on a list that has been replaced.
Staled(s) == [i \in DOMAIN s |-> IF s[i] = "fail" THEN "stale" ELSE s[i]]

LEMMA StaledFrames ==
  ASSUME NEW s \in Seq(Labels), AtBottom(s)
  PROVE /\ Staled(s) \in Seq(Labels) /\ AtBottom(Staled(s))
        /\ ToSet(Staled(s)) = IF "fail" \in ToSet(s) THEN (ToSet(s) \ {"fail"}) \cup {"stale"}
                               ELSE ToSet(s)
<1>1. /\ Len(s) \in Nat /\ DOMAIN s = 1 .. Len(s) /\ DOMAIN Staled(s) = DOMAIN s
      /\ \A i \in DOMAIN s : s[i] \in Labels
      /\ \A i \in DOMAIN s : Staled(s)[i] = IF s[i] = "fail" THEN "stale" ELSE s[i]
  BY LenProperties, ElementOfSeq DEF Staled
<1>2. "stale" \in Labels \ Bottoms /\ "fail" \notin Bottoms
  BY LabelSets
<1>3. Staled(s) \in Seq(Labels) /\ Len(Staled(s)) = Len(s)
  BY <1>1, <1>2, IsASeq DEF Staled
<1>4. AtBottom(Staled(s))
  BY <1>1, <1>2, <1>3 DEF AtBottom
<1>5. ToSet(Staled(s)) = IF "fail" \in ToSet(s) THEN (ToSet(s) \ {"fail"}) \cup {"stale"}
                          ELSE ToSet(s)
  BY <1>1 DEF ToSet
<1> QED
  BY <1>3, <1>4, <1>5

-----------------------------------------------------------------------------
(* What each kind of step does to the stack                                *)

StackInv == stack \in Seq(Labels) /\ AtBottom(stack)

LEMMA RunningIsHead == stack # << >> => Running = Head(stack)
BY DEF Running

LEMMA LibraryRuns == Running # "task" => stack # << >> /\ Running = Head(stack)
BY DEF Running

LEMMA Entering ==
  ASSUME StackInv, NEW l \in Labels \ Bottoms, stack' = <<l>> \o stack
  PROVE StackInv' /\ stack' # << >> /\ ToSet(stack') = {l} \cup ToSet(stack)
BY Push DEF StackInv

\* The running code returns.
LEMMA Returning ==
  ASSUME StackInv, stack # << >>, stack' = Tail(stack)
  PROVE StackInv' /\ Running \in Labels /\ ToSet(stack) = {Running} \cup ToSet(stack')
BY Pop, RunningIsHead DEF StackInv

\* A send pass, or the callback of a WRITE event, is alone on the stack.
LEMMA BottomRuns ==
  ASSUME StackInv, Running \in Bottoms
  PROVE stack # << >> /\ Tail(stack) = << >> /\ ToSet(stack) = {Running}
<1>1. stack # << >> /\ Head(stack) = Running
  BY LibraryRuns DEF Bottoms, PassLabels
<1> QED
  BY <1>1, Pop, EmptyStack DEF StackInv

\* It goes on as something else.
LEMMA BottomBecomes ==
  ASSUME StackInv, Running \in Bottoms, NEW l \in Labels, stack' = <<l>> \o Tail(stack)
  PROVE StackInv' /\ ToSet(stack') = {l}
<1>1. stack' = <<l>> \o << >>
  BY BottomRuns
<1>2. stack' \in Seq(Labels) /\ AtBottom(stack') /\ ToSet(stack') = {l} \cup ToSet(<< >>)
  BY <1>1, EmptyStack, Push
<1> QED
  BY <1>2, EmptyStack DEF StackInv

LEMMA WritabilityFrames ==
  ASSUME NEW s \in Seq(Labels), AtBottom(s), NEW l \in Labels, l \notin Bottoms \/ s = << >>,
         NEW bytes, CheckWritability(bytes, l, s)
  PROVE StackInv' /\ (ToSet(stack') = ToSet(s) \/ ToSet(stack') = {l} \cup ToSet(s))
<1>1. stack' = s \/ stack' = <<l>> \o s
  BY DEF CheckWritability
<1> QED
  BY <1>1, Push DEF StackInv

\* A step of a close becomes the next, with or without a callback on top.
LEMMA ClosingFrames ==
  ASSUME StackInv, stack # << >>, Running \notin Bottoms,
         NEW changed, NEW n \in Labels \ Bottoms, ThenCallback(changed, <<n>>)
  PROVE StackInv' /\ ToSet(stack) = {Running} \cup ToSet(Tail(stack))
        /\ ToSet(stack') \in {{n} \cup ToSet(Tail(stack)), {"closing", n} \cup ToSet(Tail(stack))}
<1> DEFINE rest == Tail(stack)
           s == <<n>> \o rest
<1>1. rest \in Seq(Labels) /\ AtBottom(rest) /\ ToSet(stack) = {Running} \cup ToSet(rest)
  BY Pop, RunningIsHead DEF StackInv
<1> HIDE DEF rest
<1>2. s \in Seq(Labels) /\ AtBottom(s) /\ ToSet(s) = {n} \cup ToSet(rest)
  BY <1>1, Push
<1>3. "closing" \in Labels \ Bottoms
  BY LabelSets
<1>4. stack' = s \/ stack' = <<"closing">> \o s
  <2>1. stack' = (IF changed THEN <<"closing">> ELSE << >>) \o <<n>> \o rest
    BY DEF ThenCallback, rest
  <2>2. <<"closing">> \o <<n>> \o rest = <<"closing">> \o (<<n>> \o rest)
    BY <1>1, <1>3, ConcatAssociative
  <2>3. << >> \o <<n>> = <<n>>
    OBVIOUS
  <2>4. stack' = << >> \o <<n>> \o rest \/ stack' = <<"closing">> \o <<n>> \o rest
    BY <2>1
  <2> QED
    BY <2>2, <2>3, <2>4
<1> HIDE DEF s
<1>5. CASE stack' = s
  BY <1>1, <1>2, <1>5 DEF StackInv, rest
<1>6. CASE stack' = <<"closing">> \o s
  <2>1. StackInv' /\ ToSet(stack') = {"closing"} \cup ToSet(s)
    BY <1>2, <1>3, <1>6, Push DEF StackInv
  <2>2. ToSet(stack') = {"closing", n} \cup ToSet(rest)
    BY <1>2, <2>1
  <2> QED
    BY <1>1, <2>1, <2>2 DEF rest
<1> QED
  BY <1>4, <1>5, <1>6

LEMMA ClosedFrames ==
  ASSUME StackInv, stack # << >>, Running \notin Bottoms, NEW changed, ThenCallback(changed, << >>)
  PROVE StackInv' /\ ToSet(stack) = {Running} \cup ToSet(Tail(stack))
        /\ ToSet(stack') \in {ToSet(Tail(stack)), {"closing"} \cup ToSet(Tail(stack))}
<1> DEFINE rest == Tail(stack)
<1>1. rest \in Seq(Labels) /\ AtBottom(rest) /\ ToSet(stack) = {Running} \cup ToSet(rest)
  BY Pop, RunningIsHead DEF StackInv
<1> HIDE DEF rest
<1>2. stack' = rest \/ stack' = <<"closing">> \o rest
  <2>1. stack' = (IF changed THEN <<"closing">> ELSE << >>) \o << >> \o rest
    BY DEF ThenCallback, rest
  <2>2. << >> \o << >> = << >> /\ <<"closing">> \o << >> = <<"closing">> /\ << >> \o rest = rest
    BY <1>1
  <2>3. stack' = << >> \o << >> \o rest \/ stack' = <<"closing">> \o << >> \o rest
    BY <2>1
  <2> QED
    BY <2>2, <2>3
<1>3. "closing" \in Labels \ Bottoms
  BY LabelSets
<1>4. CASE stack' = rest
  BY <1>1, <1>4 DEF StackInv, rest
<1>5. CASE stack' = <<"closing">> \o rest
  BY <1>1, <1>3, <1>5, Push DEF StackInv, rest
<1> QED
  BY <1>2, <1>4, <1>5

\* The frames of closes further down are marked, and the close goes on.
LEMMA ResetFrames ==
  ASSUME StackInv, ResetPendings
  PROVE /\ StackInv' /\ Running \in {"fail", "stale"}
        /\ ToSet(stack) = {Running} \cup ToSet(Tail(stack))
        /\ {"socket"} \cup (ToSet(Tail(stack)) \ {"fail"}) \subseteq ToSet(stack')
        /\ ToSet(stack') \subseteq {"socket", "closing", "stale"} \cup (ToSet(Tail(stack)) \ {"fail"})
        /\ "stale" \in ToSet(stack') => "stale" \in ToSet(Tail(stack)) \/ "fail" \in ToSet(Tail(stack))
<1>1. Running \in {"fail", "stale"} /\ stack # << >>
  BY LibraryRuns DEF ResetPendings
<1>2. /\ Tail(stack) \in Seq(Labels) /\ AtBottom(Tail(stack))
      /\ ToSet(stack) = {Running} \cup ToSet(Tail(stack))
  BY <1>1, Pop, RunningIsHead DEF StackInv
<1> DEFINE rest == Staled(Tail(stack))
           s == <<"socket">> \o rest
<1>3. /\ rest \in Seq(Labels) /\ AtBottom(rest)
      /\ ToSet(rest) = IF "fail" \in ToSet(Tail(stack))
                        THEN (ToSet(Tail(stack)) \ {"fail"}) \cup {"stale"}
                        ELSE ToSet(Tail(stack))
  BY <1>2, StaledFrames
<1>4. CheckWritability(0, "closing", s)
  BY DEF ResetPendings, Staled
<1> HIDE DEF rest
<1>5. {"socket", "closing"} \subseteq Labels \ Bottoms
  BY LabelSets
<1>6. s \in Seq(Labels) /\ AtBottom(s) /\ ToSet(s) = {"socket"} \cup ToSet(rest)
  BY <1>3, <1>5, Push
<1> HIDE DEF s
<1>7. StackInv' /\ (ToSet(stack') = ToSet(s) \/ ToSet(stack') = {"closing"} \cup ToSet(s))
  BY <1>4, <1>5, <1>6, WritabilityFrames
<1> QED
  BY <1>1, <1>2, <1>3, <1>6, <1>7

\* The steps of user code: it goes on, or a callback or a close is entered.
LEMMA UserFrames ==
  ASSUME StackInv
  PROVE /\ \A n : Write(n) => StackInv' /\ (stack' = stack \/ stack' = <<"listener">> \o stack)
        /\ Close => StackInv' /\ stack' = stack
        /\ CloseForcibly => StackInv' /\ stack' = <<"fail">> \o stack
<1>l. {"listener", "fail"} \subseteq Labels \ Bottoms
  BY LabelSets
<1>1. ASSUME stack' = stack PROVE StackInv'
  BY <1>1 DEF StackInv
<1>2. ASSUME NEW n, Write(n) PROVE stack' = stack \/ stack' = <<"listener">> \o stack
  BY <1>2 DEF Write, Queued
<1>3. ASSUME Close PROVE stack' = stack
  BY <1>3 DEF Close
<1>4. ASSUME CloseForcibly PROVE stack' = <<"fail">> \o stack
  BY <1>4 DEF CloseForcibly
<1>5. ASSUME NEW l \in {"listener", "fail"}, stack' = <<l>> \o stack PROVE StackInv'
  BY <1>l, <1>5, Entering
<1> QED
  BY <1>1, <1>2, <1>3, <1>4, <1>5

LEMMA ReturnFrames ==
  ASSUME StackInv, UserReturns
  PROVE /\ StackInv' /\ Running \in UserContexts /\ stack # << >>
        /\ ToSet(stack) = {Running} \cup ToSet(stack')
<1>1. Running \in UserContexts /\ stack # << >> /\ stack' = Tail(stack)
  BY LibraryRuns DEF UserReturns, UserContexts
<1> QED
  BY <1>1, Returning

\* A WRITE event begins a send pass or runs the handler, on an empty stack.
LEMMA EventFrames ==
  ASSUME StackInv, WriteEvent
  PROVE /\ StackInv' /\ stack = << >>
        /\ pendings # << >> => stack' = <<"round">> /\ ToSet(stack') = {"round"}
        /\ pendings = << >> => ToSet(stack') \subseteq {"writability"}
<1>1. stack = << >>
  BY DEF WriteEvent
<1>2. {"round", "writability"} \subseteq Labels
  BY LabelSets
<1>3. CASE pendings # << >>
  <2>1. stack' = <<"round">> /\ <<"round">> = <<"round">> \o << >>
    BY <1>3 DEF WriteEvent
  <2> QED
    BY <1>1, <1>2, <1>3, <2>1, Push, EmptyStack DEF StackInv
<1>4. CASE pendings = << >>
  <2>1. CheckWritability(pendingBytes, "writability", << >>)
    BY <1>4 DEF WriteEvent
  <2> QED
    BY <1>1, <1>2, <1>4, <2>1, WritabilityFrames, EmptyStack
<1> QED
  BY <1>3, <1>4

LEMMA AfterFrames ==
  ASSUME StackInv, AfterPass
  PROVE StackInv' /\ ToSet(stack) = {"sent"} /\ ToSet(stack') \subseteq {"writability"}
<1>1. ToSet(stack) = {"sent"} /\ CheckWritability(pendingBytes, "writability", << >>)
  BY BottomRuns, LabelSets DEF AfterPass
<1>2. << >> \in Seq(Labels) /\ AtBottom(<< >>) /\ "writability" \in Labels
  BY LabelSets, EmptyStack
<1>3. /\ StackInv'
      /\ ToSet(stack') = ToSet(<< >>) \/ ToSet(stack') = {"writability"} \cup ToSet(<< >>)
  BY <1>1, <1>2, WritabilityFrames
<1> QED
  BY <1>1, <1>3, EmptyStack

\* A send pass goes on as another part of it.
LEMMA PassFrames ==
  ASSUME StackInv, Running \in PassLabels, NEW l \in PassLabels, stack' = <<l>> \o Tail(stack)
  PROVE /\ StackInv' /\ ToSet(stack) = {Running} /\ ToSet(stack') = {l}
BY BottomRuns, BottomBecomes, LabelSets

\* The head of the batch is accounted for: its listener runs on top of the pass.
LEMMA CompleteFrames ==
  ASSUME StackInv, CompleteChunk
  PROVE /\ StackInv' /\ ToSet(stack) = {"complete"} /\ Tail(stack) = << >> /\ stack # << >>
        /\ stack' = stack \/ stack' = <<"listener">> \o stack
<1>1. stack' = stack \/ stack' = <<"listener">> \o stack
  BY DEF CompleteChunk
<1>2. Running = "complete" /\ "complete" \in Bottoms /\ "listener" \in Labels \ Bottoms
  BY LabelSets DEF CompleteChunk
<1>3. ToSet(stack) = {"complete"} /\ Tail(stack) = << >> /\ stack # << >>
  BY <1>2, BottomRuns
<1>4. CASE stack' = stack
  BY <1>1, <1>3, <1>4 DEF StackInv
<1>5. CASE stack' = <<"listener">> \o stack
  BY <1>2, <1>3, <1>5, Entering
<1> QED
  BY <1>1, <1>4, <1>5

LEMMA CloseMarkFrames ==
  ASSUME StackInv, ReachCloseMark
  PROVE /\ StackInv' /\ ToSet(stack) = {"round"} /\ ToSet(stack') = {"fail", "sent"}
        /\ stack' # << >> /\ ToSet(Tail(stack')) = {"sent"}
<1>1. Running = "round" /\ Running \in Bottoms /\ "sent" \in Labels /\ "fail" \in Labels \ Bottoms
  BY LabelSets DEF ReachCloseMark
<1>2. ToSet(stack) = {"round"} /\ Tail(stack) = << >>
  BY <1>1, BottomRuns
<1> DEFINE s == <<"sent">>
<1>3. s = <<"sent">> \o << >>
  OBVIOUS
<1>4. stack' = <<"fail">> \o s
  <2>1. stack' = <<"fail", "sent">> \o << >>
    BY <1>2 DEF ReachCloseMark
  <2> QED
    BY <2>1
<1> HIDE DEF s
<1>5. s \in Seq(Labels) /\ AtBottom(s) /\ ToSet(s) = {"sent"}
  <2>1. s \in Seq(Labels) /\ AtBottom(s) /\ ToSet(s) = {"sent"} \cup ToSet(<< >>)
    BY <1>1, <1>3, Push, EmptyStack
  <2> QED
    BY <2>1, EmptyStack
<1>6. /\ stack' \in Seq(Labels) /\ AtBottom(stack') /\ stack' # << >> /\ Tail(stack') = s
      /\ ToSet(stack') = {"fail"} \cup ToSet(s)
  BY <1>1, <1>4, <1>5, Push
<1> QED
  BY <1>2, <1>5, <1>6 DEF StackInv

LEMMA FailFrames ==
  ASSUME StackInv, FailOne
  PROVE StackInv' /\ stack # << >> /\ Head(stack) = "fail" /\ stack' = <<"listener">> \o stack
BY LibraryRuns, LabelSets, Entering DEF FailOne

\* A close goes on: the socket, the active flag, the selector.
LEMMA CloseFrames ==
  ASSUME StackInv, CloseSocket \/ SetInactive \/ Unregister
  PROVE /\ StackInv' /\ Running \in {"socket", "inactive", "unregister"}
        /\ stack # << >> /\ Running = Head(stack)
        /\ ToSet(stack) = {Running} \cup ToSet(Tail(stack))
        /\ ToSet(Tail(stack)) \subseteq ToSet(stack')
        /\ ToSet(stack') \subseteq {"closing", "inactive", "unregister"} \cup ToSet(Tail(stack))
<1>1. /\ Running \in {"socket", "inactive", "unregister"} /\ stack # << >> /\ Running = Head(stack)
      /\ Running \notin Bottoms
  BY LibraryRuns, LabelSets DEF CloseSocket, SetInactive, Unregister
<1>2. CASE CloseSocket
  BY <1>1, <1>2, ClosingFrames, LabelSets DEF CloseSocket
<1>3. CASE SetInactive
  BY <1>1, <1>3, ClosingFrames, LabelSets DEF SetInactive
<1>4. CASE Unregister
  BY <1>1, <1>4, ClosedFrames DEF Unregister
<1> QED
  BY <1>1, <1>2, <1>3, <1>4

-----------------------------------------------------------------------------
(* Interest                                                                *)

\* A send pass holds chunks that it may put back.
Sending == ToSet(stack) \cap {"round", "complete"} # {}

\* There is interest as long as a chunk is queued, and during a send pass.
FlagInv == pendings # << >> \/ Sending => writeFlag

InterestInv == StackInv /\ FlagInv

LEMMA InterestInitial == Init => InterestInv
BY EmptyStack DEF Init, InterestInv, StackInv, FlagInv, Sending

\* A step that adds nothing to the queue and begins no send pass.
LEMMA InterestStays ==
  ASSUME InterestInv, StackInv', writeFlag' = writeFlag, pendings' \in {pendings, << >>},
         ToSet(stack') \cap {"round", "complete"} \subseteq ToSet(stack)
  PROVE InterestInv'
BY DEF InterestInv, FlagInv, Sending

\* A send pass goes on, with whatever it puts back.
LEMMA InterestOfPass ==
  ASSUME InterestInv, Running \in {"round", "complete"}, writeFlag' = writeFlag,
         NEW l \in PassLabels, stack' = <<l>> \o Tail(stack)
  PROVE InterestInv'
<1>1. StackInv' /\ ToSet(stack) = {Running}
  BY PassFrames DEF InterestInv, PassLabels
<1> QED
  BY <1>1 DEF InterestInv, FlagInv, Sending

LEMMA InterestStep == ASSUME InterestInv, [Next]_vars PROVE InterestInv'
<1>i. StackInv
  BY DEF InterestInv
<1>p. {"sent", "complete", "round"} \subseteq PassLabels /\ PassLabels \subseteq Bottoms
  BY LabelSets
<1>c. ASSUME StackInv', NEW l \in {"listener", "fail"}, stack' = stack \/ stack' = <<l>> \o stack
      PROVE ToSet(stack') \cap {"round", "complete"} \subseteq ToSet(stack)
  <2>1. stack \in Seq(Labels) /\ AtBottom(stack) /\ l \in Labels /\ l \notin Bottoms
    BY <1>i, LabelSets DEF StackInv
  <2>2. CASE stack' = stack
    BY <2>2
  <2>3. CASE stack' = <<l>> \o stack
    <3>1. ToSet(stack') = {l} \cup ToSet(stack)
      BY <2>1, <2>3, Push
    <3> QED
      BY <3>1
  <2> QED
    BY <1>c, <2>2, <2>3
<1>1. ASSUME NEW n \in Sizes, Write(n) PROVE InterestInv'
  <2>1. StackInv' /\ ToSet(stack') \cap {"round", "complete"} \subseteq ToSet(stack)
    BY <1>i, <1>1, <1>c, UserFrames
  <2>2. writeFlag' = TRUE \/ UNCHANGED queue
    BY <1>1 DEF Write, Queued, AddPending
  <2>3. CASE writeFlag' = TRUE
    BY <2>1, <2>3 DEF InterestInv, FlagInv
  <2>4. CASE UNCHANGED queue
    BY <2>1, <2>4, InterestStays DEF queue
  <2> QED
    BY <2>2, <2>3, <2>4
<1>2. CASE Close
  BY <1>i, <1>2, UserFrames DEF Close, AddPending, InterestInv, FlagInv
<1>3. CASE CloseForcibly
  BY <1>i, <1>3, <1>c, UserFrames, InterestStays DEF CloseForcibly, queue
<1>4. CASE UserReturns
  BY <1>i, <1>4, ReturnFrames, InterestStays DEF UserReturns, queue
<1>5. CASE WriteEvent
  <2>1. CASE pendings # << >>
    BY <1>i, <1>5, <2>1, EventFrames DEF WriteEvent, queue, InterestInv, FlagInv
  <2>2. CASE pendings = << >>
    BY <1>i, <1>5, <2>2, EventFrames DEF WriteEvent, InterestInv, FlagInv, Sending
  <2> QED
    BY <2>1, <2>2
<1>6. CASE AfterPass
  <2>1. pendings' = pendings /\ (pendings # << >> /\ writeFlag => writeFlag')
    BY <1>6 DEF AfterPass
  <2> QED
    BY <1>i, <1>6, <2>1, AfterFrames DEF InterestInv, FlagInv, Sending
<1>7. ASSUME NEW n, Running = "round", TrySend(n) PROVE InterestInv'
  <2>1. stack' = <<"sent">> \o Tail(stack) \/ stack' = <<"complete">> \o Tail(stack)
    BY <1>7 DEF TrySend, PassEnds
  <2> QED
    BY <1>7, <1>p, <2>1, InterestOfPass DEF TrySend
<1>8. CASE CompleteChunk
  BY <1>i, <1>8, <1>c, CompleteFrames, InterestStays DEF CompleteChunk, queue
<1>9. CASE KeepTail
  BY <1>9, <1>p, InterestOfPass DEF KeepTail, PassEnds
<1>10. CASE NextRound
  BY <1>10, <1>p, InterestOfPass DEF NextRound, queue
<1>11. CASE AllSent
  BY <1>11, <1>p, InterestOfPass DEF AllSent, PassEnds
<1>12. CASE ReachCloseMark
  BY <1>i, <1>12, CloseMarkFrames, InterestStays DEF ReachCloseMark, queue
<1>13. CASE EndOfFile
  <2>1. stack' = <<"fail">> \o stack
    BY <1>13 DEF EndOfFile
  <2>2. StackInv'
    BY <1>i, <2>1, Entering, LabelSets
  <2> QED
    BY <1>13, <1>c, <2>1, <2>2, InterestStays DEF EndOfFile, queue
<1>14. CASE FailOne
  BY <1>i, <1>14, <1>c, FailFrames, InterestStays DEF FailOne, queue
<1>15. CASE ResetPendings
  BY <1>i, <1>15, ResetFrames, InterestStays DEF ResetPendings
<1>16. CASE CloseSocket \/ SetInactive \/ Unregister
  BY <1>i, <1>16, CloseFrames, InterestStays DEF CloseSocket, SetInactive, Unregister, queue
<1>17. CASE UNCHANGED vars
  BY <1>17 DEF vars, queue, InterestInv, StackInv, FlagInv, Sending
<1> QED
  BY <1>1, <1>2, <1>3, <1>4, <1>5, <1>6, <1>7, <1>8, <1>9, <1>10, <1>11, <1>12, <1>13, <1>14,
     <1>15, <1>16, <1>17
  DEF Next, UserStep, SocketTakes, LibraryStep

LEMMA InterestInvariance == Spec => []InterestInv
BY InterestInitial, InterestStep, PTL DEF Spec

\* A channel with something to send has WRITE interest, whatever was written and
\* closed inside the callbacks of its send passes and closes.
THEOREM PendingKeepsInterest == Spec => []InterestWhilePending
<1>1. InterestInv => InterestWhilePending
  BY DEF InterestInv, FlagInv, InterestWhilePending
<1> QED
  BY <1>1, InterestInvariance, PTL

-----------------------------------------------------------------------------
(* Sums over a queue                                                       *)

\* A set of numbers that is not empty has a least one.
LEMMA LeastNumber ==
  ASSUME NEW T \in SUBSET Nat, T # {}
  PROVE \E x \in T : \A y \in T : x <= y
<1> DEFINE R == OpToRel(<, Nat)
<1>1. IsWellFoundedOn(R, Nat)
  BY NatLessThanWellFounded
<1>2. \A x, y \in Nat : y < x => <<y, x>> \in R
  BY DEF OpToRel
<1> HIDE DEF R
<1>3. PICK x \in T : \A y \in T : <<y, x>> \notin R
  BY <1>1, WFMin
<1>4. ASSUME NEW y \in T PROVE x <= y
  <2>1. ~(y < x)
    BY <1>2, <1>3
  <2> QED
    BY <2>1
<1> QED
  BY <1>4

\* u adds up f along s.
AddsUp(u, f, s) ==
  /\ DOMAIN u = 0 .. Len(s)
  /\ u[0] = 0
  /\ \A i \in 1 .. Len(s) : u[i] = u[i - 1] + f[s[i]]

LEMMA AddsUpOnce ==
  ASSUME NEW s, Len(s) \in Nat, NEW f, NEW u, NEW v, AddsUp(u, f, s), AddsUp(v, f, s)
  PROVE \A i \in 0 .. Len(s) : u[i] = v[i]
<1> DEFINE Bad == {i \in 0 .. Len(s) : u[i] # v[i]}
<1>1. SUFFICES ASSUME Bad # {} PROVE FALSE
  OBVIOUS
<1>2. PICK i \in Bad : \A j \in Bad : i <= j
  <2>1. Bad \in SUBSET Nat
    OBVIOUS
  <2> HIDE DEF Bad
  <2> QED
    BY <1>1, <2>1, LeastNumber
<1>3. i # 0
  BY DEF AddsUp
<1>4. i - 1 \in 0 .. Len(s) /\ i - 1 \notin Bad /\ i \in 1 .. Len(s)
  BY <1>2, <1>3
<1>5. u[i - 1] = v[i - 1]
  BY <1>4
<1>6. u[i] = u[i - 1] + f[s[i]] /\ v[i] = v[i - 1] + f[s[i]]
  BY <1>4 DEF AddsUp
<1> QED
  BY <1>5, <1>6

LEMMA AddsUpExists ==
  ASSUME NEW S, NEW s \in Seq(S), NEW f \in [S -> Nat]
  PROVE \E u \in [0 .. Len(s) -> Nat] : AddsUp(u, f, s)
<1> DEFINE Sum(n) == {u \in [0 .. n -> Nat] :
                        u[0] = 0 /\ \A i \in 1 .. n : u[i] = u[i - 1] + f[s[i]]}
           Bad == {n \in Nat : n <= Len(s) /\ Sum(n) = {}}
<1> HIDE DEF Sum
<1>l. Len(s) \in Nat /\ \A i \in 1 .. Len(s) : f[s[i]] \in Nat
  BY ElementOfSeq, LenProperties
<1>1. Bad = {}
  <2>1. SUFFICES ASSUME Bad # {} PROVE FALSE
    OBVIOUS
  <2>2. PICK n \in Bad : \A m \in Bad : n <= m
    BY <2>1, LeastNumber
  <2>n. n \in Nat /\ n <= Len(s) /\ Sum(n) = {}
    OBVIOUS
  <2>3. CASE n = 0
    <3>1. [i \in 0 .. 0 |-> 0] \in Sum(0)
      BY DEF Sum
    <3> QED
      BY <2>3, <2>n, <3>1
  <2>4. CASE n # 0
    <3>1. n - 1 \in Nat /\ n - 1 \notin Bad /\ n - 1 <= Len(s) /\ n \in 1 .. Len(s)
      BY <2>2, <2>4, <2>n, <1>l
    <3>2. PICK u : u \in Sum(n - 1)
      BY <3>1
    <3> USE DEF Sum
    <3> DEFINE v == [i \in 0 .. n |-> IF i = n THEN u[n - 1] + f[s[n]] ELSE u[i]]
    <3>3. v \in [0 .. n -> Nat] /\ v[0] = 0
      BY <1>l, <3>1, <3>2
    <3>4. \A i \in 1 .. n : v[i] = v[i - 1] + f[s[i]]
      BY <3>1, <3>2
    <3>5. v \in Sum(n)
      BY <3>3, <3>4
    <3> QED
      BY <2>n, <3>5
  <2> QED
    BY <2>3, <2>4
<1>2. PICK u : u \in Sum(Len(s))
  BY <1>1, <1>l
<1>3. u \in [0 .. Len(s) -> Nat] /\ AddsUp(u, f, s)
  BY <1>2 DEF AddsUp, Sum
<1> QED
  BY <1>3

LEMMA TotalIs ==
  ASSUME NEW s, Len(s) \in Nat, NEW f, NEW u, AddsUp(u, f, s)
  PROVE Total(f, s) = u[Len(s)]
<1> DEFINE up == CHOOSE t : t = [i \in 0 .. Len(s) |-> IF i = 0 THEN 0 ELSE t[i - 1] + f[s[i]]]
<1> DEFINE v == [i \in 0 .. Len(s) |-> u[i]]
<1>1. v = [i \in 0 .. Len(s) |-> IF i = 0 THEN 0 ELSE v[i - 1] + f[s[i]]]
  BY DEF AddsUp
<1>2. \E t : t = [i \in 0 .. Len(s) |-> IF i = 0 THEN 0 ELSE t[i - 1] + f[s[i]]]
  BY <1>1
<1>3. up = [i \in 0 .. Len(s) |-> IF i = 0 THEN 0 ELSE up[i - 1] + f[s[i]]]
  BY <1>2
<1>4. Total(f, s) = up[Len(s)]
  BY DEF Total
<1> HIDE DEF up
<1>5. AddsUp(up, f, s)
  BY <1>3 DEF AddsUp
<1>6. up[Len(s)] = u[Len(s)]
  BY <1>5, AddsUpOnce
<1> QED
  BY <1>4, <1>6

\* The first i elements of a sequence.
First(s, i) == SubSeq(s, 1, i)

LEMMA FirstShape ==
  ASSUME NEW S, NEW s \in Seq(S), NEW i \in 0 .. Len(s)
  PROVE /\ First(s, i) \in Seq(S) /\ Len(First(s, i)) = i
        /\ \A j \in 1 .. i : First(s, i)[j] = s[j]
        /\ Len(s) \in Nat /\ DOMAIN s = 1 .. Len(s) /\ DOMAIN First(s, i) = 1 .. i
<1>1. Len(s) \in Nat /\ DOMAIN s = 1 .. Len(s) /\ \A j \in 1 .. Len(s) : s[j] \in S
  BY ElementOfSeq, LenProperties
<1>2. First(s, i) = [j \in 1 .. i |-> s[j]]
  BY <1>1 DEF First
<1>3. First(s, i) \in Seq(S) /\ Len(First(s, i)) = i
  BY <1>1, <1>2, IsASeq
<1> QED
  BY <1>1, <1>2, <1>3

\* Sums of the prefixes of a sequence.
LEMMA PrefixSums ==
  ASSUME NEW S, NEW s \in Seq(S), NEW f \in [S -> Nat]
  PROVE /\ Len(s) \in Nat
        /\ \A i \in 0 .. Len(s) : Total(f, First(s, i)) \in Nat
        /\ Total(f, First(s, 0)) = 0
        /\ \A i \in 1 .. Len(s) : Total(f, First(s, i)) = Total(f, First(s, i - 1)) + f[s[i]]
        /\ Total(f, First(s, Len(s))) = Total(f, s)
<1>1. PICK u \in [0 .. Len(s) -> Nat] : AddsUp(u, f, s)
  BY AddsUpExists
<1>2. ASSUME NEW i \in 0 .. Len(s) PROVE Total(f, First(s, i)) = u[i]
  <2> DEFINE v == [j \in 0 .. i |-> u[j]]
  <2>1. /\ Len(First(s, i)) = i /\ \A j \in 1 .. i : First(s, i)[j] = s[j]
        /\ Len(s) \in Nat
    BY FirstShape
  <2>2. AddsUp(v, f, First(s, i))
    <3>1. u[0] = 0 /\ \A j \in 1 .. Len(s) : u[j] = u[j - 1] + f[s[j]]
      BY <1>1 DEF AddsUp
    <3>2. ASSUME NEW j \in 1 .. i PROVE v[j] = v[j - 1] + f[First(s, i)[j]]
      <4>1. j \in 1 .. Len(s) /\ j - 1 \in 0 .. i /\ j \in 0 .. i
        BY <2>1
      <4>2. v[j] = u[j] /\ v[j - 1] = u[j - 1]
        BY <4>1
      <4>3. First(s, i)[j] = s[j] /\ u[j] = u[j - 1] + f[s[j]]
        BY <2>1, <3>1, <4>1
      <4> HIDE DEF v
      <4> QED
        BY <4>2, <4>3
    <3>3. DOMAIN v = 0 .. i /\ v[0] = 0
      BY <2>1, <3>1
    <3> HIDE DEF v
    <3> QED
      BY <2>1, <3>2, <3>3 DEF AddsUp
  <2> HIDE DEF v
  <2>3. Total(f, First(s, i)) = v[i]
    BY <2>1, <2>2, TotalIs
  <2> QED
    BY <2>3 DEF v
<1>3. Len(s) \in Nat /\ Total(f, s) = u[Len(s)]
  BY <1>1, TotalIs, LenProperties
<1>4. u[0] = 0 /\ \A i \in 1 .. Len(s) : u[i] = u[i - 1] + f[s[i]]
  BY <1>1 DEF AddsUp
<1>5. \A i \in 1 .. Len(s) : i \in 0 .. Len(s) /\ i - 1 \in 0 .. Len(s)
  BY <1>3
<1>6. Len(s) \in 0 .. Len(s) /\ 0 \in 0 .. Len(s)
  BY <1>3
<1> QED
  BY <1>1, <1>2, <1>3, <1>4, <1>5, <1>6

LEMMA TotalNat ==
  ASSUME NEW S, NEW s \in Seq(S), NEW f \in [S -> Nat]
  PROVE Total(f, s) \in Nat
<1>1. Len(s) \in 0 .. Len(s)
  BY LenProperties
<1> QED
  BY <1>1, PrefixSums

LEMMA PrefixSumsGrow ==
  ASSUME NEW S, NEW s \in Seq(S), NEW f \in [S -> Nat],
         NEW i \in 0 .. Len(s), NEW j \in i .. Len(s)
  PROVE Total(f, First(s, i)) <= Total(f, First(s, j))
<1> DEFINE P(k) == Total(f, First(s, k))
           Bad == {k \in i .. Len(s) : ~(P(i) <= P(k))}
<1>1. /\ Len(s) \in Nat /\ \A k \in 0 .. Len(s) : P(k) \in Nat
      /\ \A k \in 1 .. Len(s) : P(k) = P(k - 1) + f[s[k]] /\ f[s[k]] \in Nat
  BY PrefixSums, ElementOfSeq
<1> HIDE DEF P
<1>2. SUFFICES ASSUME Bad # {} PROVE FALSE
  BY DEF P
<1>3. PICK k \in Bad : \A m \in Bad : k <= m
  <2>1. Bad \in SUBSET Nat
    BY <1>1
  <2> HIDE DEF Bad
  <2> QED
    BY <1>2, <2>1, LeastNumber
<1>k. k \in i .. Len(s) /\ ~(P(i) <= P(k)) /\ i \in 0 .. Len(s)
  OBVIOUS
<1>4. k # i /\ k \in 1 .. Len(s) /\ k - 1 \in i .. Len(s) /\ k - 1 \notin Bad
  BY <1>1, <1>3, <1>k
<1>5. P(i) <= P(k - 1) /\ P(k) = P(k - 1) + f[s[k]] /\ f[s[k]] \in Nat
  BY <1>1, <1>4
<1>6. P(i) \in Nat /\ P(k - 1) \in Nat /\ P(k) \in Nat
  BY <1>1, <1>4, <1>k
<1> QED
  BY <1>5, <1>6, <1>k

\* Only what f says of the elements counts.
LEMMA TotalSame ==
  ASSUME NEW S, NEW s \in Seq(S), NEW f \in [S -> Nat], NEW g,
         \A i \in 1 .. Len(s) : f[s[i]] = g[s[i]]
  PROVE Total(f, s) = Total(g, s)
<1>1. PICK u \in [0 .. Len(s) -> Nat] : AddsUp(u, f, s)
  BY AddsUpExists
<1>2. AddsUp(u, g, s)
  BY <1>1 DEF AddsUp
<1> QED
  BY <1>1, <1>2, TotalIs, LenProperties

LEMMA TotalEmpty == \A f : Total(f, << >>) = 0
<1> SUFFICES ASSUME NEW f PROVE Total(f, << >>) = 0
  OBVIOUS
<1> DEFINE u == [i \in 0 .. 0 |-> 0]
<1>1. AddsUp(u, f, << >>)
  BY DEF AddsUp
<1>2. Len(<< >>) = 0 /\ u[0] = 0
  OBVIOUS
<1> HIDE DEF u
<1> QED
  BY <1>1, <1>2, TotalIs

LEMMA TotalAppend ==
  ASSUME NEW S, NEW s \in Seq(S), NEW f \in [S -> Nat], NEW x \in S
  PROVE Total(f, Append(s, x)) = Total(f, s) + f[x]
<1> DEFINE t == Append(s, x)
           n == Len(s)
<1>1. t \in Seq(S) /\ Len(t) = n + 1 /\ t[n + 1] = x /\ \A i \in 1 .. n : t[i] = s[i]
  BY AppendProperties
<1>2. n \in Nat
  BY LenProperties
<1>3. /\ First(t, n) \in Seq(S) /\ Len(First(t, n)) = n /\ \A i \in 1 .. n : First(t, n)[i] = t[i]
  <2> HIDE DEF t
  <2>1. n \in 0 .. Len(t)
    BY <1>1, <1>2
  <2> HIDE DEF n
  <2> QED
    BY <1>1, <2>1, FirstShape
<1>4. First(t, n) = s
  BY <1>1, <1>3, SeqEqual
<1> HIDE DEF t, n
<1>5. t \in Seq(S) /\ Len(t) \in 1 .. Len(t)
  BY <1>1, <1>2
<1>6. /\ Total(f, First(t, Len(t))) = Total(f, First(t, Len(t) - 1)) + f[t[Len(t)]]
      /\ Total(f, First(t, Len(t))) = Total(f, t)
  BY <1>5, PrefixSums
<1>7. Len(t) - 1 = n
  BY <1>1, <1>2
<1>8. Total(f, t) = Total(f, First(t, n)) + f[t[n + 1]]
  BY <1>1, <1>6, <1>7
<1> QED
  BY <1>1, <1>4, <1>8 DEF t, n

LEMMA TotalTail ==
  ASSUME NEW S, NEW s \in Seq(S), s # << >>, NEW f \in [S -> Nat]
  PROVE /\ \A i \in 0 .. Len(s) - 1 :
             Total(f, First(s, i + 1)) = f[Head(s)] + Total(f, First(Tail(s), i))
        /\ Total(f, s) = f[Head(s)] + Total(f, Tail(s))
<1> DEFINE P(k) == Total(f, First(s, k))
           Q(k) == Total(f, First(Tail(s), k))
           Bad == {k \in 0 .. Len(s) - 1 : P(k + 1) # f[Head(s)] + Q(k)}
<1>1. /\ Tail(s) \in Seq(S) /\ Len(s) \in Nat \ {0} /\ Len(Tail(s)) = Len(s) - 1
      /\ Head(s) = s[1] /\ \A i \in 1 .. Len(s) - 1 : Tail(s)[i] = s[i + 1]
      /\ \A i \in 1 .. Len(s) : f[s[i]] \in Nat
  BY HeadTailProperties, LenProperties, ElementOfSeq
<1>2. /\ \A k \in 0 .. Len(s) : P(k) \in Nat
      /\ P(0) = 0 /\ P(Len(s)) = Total(f, s)
      /\ \A k \in 1 .. Len(s) : P(k) = P(k - 1) + f[s[k]]
  BY PrefixSums
<1>3. /\ \A k \in 0 .. Len(s) - 1 : Q(k) \in Nat
      /\ Q(0) = 0 /\ Q(Len(s) - 1) = Total(f, Tail(s))
      /\ \A k \in 1 .. Len(s) - 1 : Q(k) = Q(k - 1) + f[Tail(s)[k]]
  <2> DEFINE t == Tail(s)
             n == Len(s) - 1
  <2>1. t \in Seq(S) /\ Len(t) = n
    BY <1>1
  <2> HIDE DEF t, n
  <2>2. /\ \A i \in 0 .. n : Total(f, First(t, i)) \in Nat
        /\ Total(f, First(t, 0)) = 0
        /\ \A i \in 1 .. n : Total(f, First(t, i)) = Total(f, First(t, i - 1)) + f[t[i]]
        /\ Total(f, First(t, n)) = Total(f, t)
    BY <2>1, PrefixSums
  <2> QED
    BY <2>2 DEF t, n
<1> HIDE DEF P, Q
<1>4. Bad = {}
  <2>1. SUFFICES ASSUME Bad # {} PROVE FALSE
    OBVIOUS
  <2>2. PICK k \in Bad : \A m \in Bad : k <= m
    <3>1. Bad \in SUBSET Nat
      BY <1>1
    <3> HIDE DEF Bad
    <3> QED
      BY <2>1, <3>1, LeastNumber
  <2>3. CASE k = 0
    <3>1. P(1) = P(0) + f[s[1]]
      BY <1>1, <1>2
    <3> QED
      BY <1>1, <1>2, <1>3, <2>2, <2>3, <3>1
  <2>4. CASE k # 0
    <3>1. k \in 1 .. Len(s) - 1 /\ k - 1 \in 0 .. Len(s) - 1 /\ k - 1 \notin Bad /\ k + 1 \in 1 .. Len(s)
      BY <1>1, <2>2, <2>4
    <3>2. P(k - 1 + 1) = f[Head(s)] + Q(k - 1) /\ k - 1 + 1 = k
      BY <3>1
    <3>3. P(k + 1) = P(k + 1 - 1) + f[s[k + 1]] /\ k + 1 - 1 = k
      BY <1>2, <3>1
    <3>4. Q(k) = Q(k - 1) + f[s[k + 1]]
      BY <1>1, <1>3, <3>1
    <3>5. f[s[k + 1]] \in Nat /\ f[Head(s)] \in Nat /\ Q(k - 1) \in Nat /\ P(k) \in Nat /\ 1 \in 1 .. Len(s)
      BY <1>1, <1>2, <1>3, <3>1
    <3>6. P(k + 1) = f[Head(s)] + Q(k)
      BY <3>2, <3>3, <3>4, <3>5
    <3> QED
      BY <2>2, <3>6
  <2> QED
    BY <2>3, <2>4
<1>5. \A k \in 0 .. Len(s) - 1 : P(k + 1) = f[Head(s)] + Q(k)
  BY <1>4
<1>6. P(Len(s)) = f[Head(s)] + Q(Len(s) - 1)
  <2>1. Len(s) - 1 \in 0 .. Len(s) - 1 /\ Len(s) - 1 + 1 = Len(s)
    BY <1>1
  <2> QED
    BY <1>5, <2>1
<1> QED
  BY <1>2, <1>3, <1>5, <1>6 DEF P, Q

\* The greatest number of a bounded set.
LEMMA GreatestNumber ==
  ASSUME NEW n \in Nat, NEW T \in SUBSET (0 .. n), T # {}
  PROVE Max(T) \in T /\ \A y \in T : y <= Max(T)
<1> DEFINE R == {n - t : t \in T}
<1>1. PICK x \in R : \A y \in R : x <= y
  <2>1. \A t \in T : t \in 0 .. n /\ n - t \in Nat
    OBVIOUS
  <2>2. R \in SUBSET Nat /\ R # {}
    BY <2>1
  <2> HIDE DEF R
  <2> QED
    BY <2>2, LeastNumber
<1>2. PICK t \in T : x = n - t
  OBVIOUS
<1>3. ASSUME NEW y \in T PROVE y <= t
  <2>1. x <= n - y
    BY <1>1
  <2> QED
    BY <1>2, <2>1
<1>4. \A y \in T : t >= y
  BY <1>3
<1>5. Max(T) \in T /\ \A y \in T : Max(T) >= y
  BY <1>4 DEF Max
<1> QED
  BY <1>5

-----------------------------------------------------------------------------
(* Queues                                                                  *)

\* Writes stand in a queue in the order they were made, up to m.
Ascending(s, m) ==
  /\ \A i \in DOMAIN s : s[i] # CloseMark => s[i] <= m
  /\ \A i, j \in DOMAIN s : i < j /\ s[i] # CloseMark /\ s[j] # CloseMark => s[i] < s[j]

LEMMA WritesAreNumbers ==
  /\ \A w \in Writes : w \in Nat /\ w \in Chunks /\ w # CloseMark
  /\ \A chunk \in Chunks : chunk \in Writes \/ chunk = CloseMark
  /\ \A chunk \in Chunks : chunk \in Nat \/ chunk = CloseMark
  /\ CloseMark \in Chunks \ Writes
BY WritePathAssumption DEF Writes, Chunks

LEMMA WritesAreChunks == \A s \in Seq(Writes) : s \in Seq(Chunks)
<1> SUFFICES ASSUME NEW s \in Seq(Writes) PROVE s \in Seq(Chunks)
  OBVIOUS
<1>1. s = [i \in 1 .. Len(s) |-> s[i]] /\ Len(s) \in Nat /\ \A i \in 1 .. Len(s) : s[i] \in Writes
  BY LenProperties, ElementOfSeq
<1> QED
  BY <1>1, WritesAreNumbers, IsASeq

LEMMA AppendShape ==
  ASSUME NEW S, NEW s \in Seq(S), NEW x \in S
  PROVE /\ Append(s, x) \in Seq(S) /\ Len(s) \in Nat /\ DOMAIN s = 1 .. Len(s)
        /\ DOMAIN Append(s, x) = 1 .. Len(s) + 1
        /\ Len(Append(s, x)) = Len(s) + 1 /\ Append(s, x)[Len(s) + 1] = x
        /\ \A i \in 1 .. Len(s) : Append(s, x)[i] = s[i]
        /\ ToSet(Append(s, x)) = ToSet(s) \cup {x}
        /\ Append(s, x) # << >>
<1>1. /\ Append(s, x) \in Seq(S) /\ Len(s) \in Nat /\ DOMAIN s = 1 .. Len(s)
      /\ Len(Append(s, x)) = Len(s) + 1 /\ Append(s, x)[Len(s) + 1] = x
      /\ \A i \in 1 .. Len(s) : Append(s, x)[i] = s[i]
  BY AppendProperties, LenProperties
<1>2. DOMAIN Append(s, x) = 1 .. Len(s) + 1
  BY <1>1, LenProperties
<1>3. Append(s, x) # << >>
  BY <1>1
<1>4. \A i \in 1 .. Len(s) + 1 : i \in 1 .. Len(s) \/ i = Len(s) + 1
  BY <1>1
<1>5. ToSet(Append(s, x)) = ToSet(s) \cup {x}
  <2>1. ASSUME NEW i \in DOMAIN Append(s, x) PROVE Append(s, x)[i] \in ToSet(s) \cup {x}
    BY <1>1, <1>2, <1>4 DEF ToSet
  <2>2. ASSUME NEW i \in DOMAIN s PROVE s[i] \in ToSet(Append(s, x))
    <3>1. i \in DOMAIN Append(s, x) /\ Append(s, x)[i] = s[i]
      BY <1>1, <1>2
    <3> QED
      BY <3>1 DEF ToSet
  <2>3. x \in ToSet(Append(s, x))
    <3>1. Len(s) + 1 \in DOMAIN Append(s, x)
      BY <1>1, <1>2
    <3> QED
      BY <1>1, <3>1 DEF ToSet
  <2> QED
    BY <2>1, <2>2, <2>3 DEF ToSet
<1> QED
  BY <1>1, <1>2, <1>3, <1>5

LEMMA TailShape ==
  ASSUME NEW S, NEW s \in Seq(S), s # << >>
  PROVE /\ Tail(s) \in Seq(S) /\ Len(s) \in Nat \ {0} /\ DOMAIN s = 1 .. Len(s)
        /\ Len(Tail(s)) = Len(s) - 1 /\ DOMAIN Tail(s) = 1 .. Len(s) - 1
        /\ Head(s) = s[1] /\ Head(s) \in S /\ 1 \in DOMAIN s
        /\ \A i \in 1 .. Len(s) - 1 : Tail(s)[i] = s[i + 1] /\ i + 1 \in 1 .. Len(s)
        /\ ToSet(s) = {Head(s)} \cup ToSet(Tail(s))
<1>1. /\ Tail(s) \in Seq(S) /\ Len(s) \in Nat \ {0} /\ DOMAIN s = 1 .. Len(s)
      /\ Len(Tail(s)) = Len(s) - 1 /\ Head(s) = s[1] /\ 1 \in DOMAIN s
      /\ \A i \in 1 .. Len(s) - 1 : Tail(s)[i] = s[i + 1] /\ i + 1 \in 1 .. Len(s)
  BY HeadTailProperties, LenProperties
<1>2. DOMAIN Tail(s) = 1 .. Len(s) - 1 /\ Head(s) \in S
  BY <1>1, LenProperties, ElementOfSeq
<1>3. \A i \in 1 .. Len(s) : i = 1 \/ (i - 1 \in 1 .. Len(s) - 1 /\ Tail(s)[i - 1] = s[i])
  BY <1>1
<1>4. ToSet(s) = {Head(s)} \cup ToSet(Tail(s))
  <2>1. ASSUME NEW i \in DOMAIN s PROVE s[i] \in {Head(s)} \cup ToSet(Tail(s))
    BY <1>1, <1>2, <1>3 DEF ToSet
  <2>2. ASSUME NEW i \in DOMAIN Tail(s) PROVE Tail(s)[i] \in ToSet(s)
    BY <1>1, <1>2 DEF ToSet
  <2>3. Head(s) \in ToSet(s)
    BY <1>1 DEF ToSet
  <2> QED
    BY <2>1, <2>2, <2>3 DEF ToSet
<1> QED
  BY <1>1, <1>2, <1>4

LEMMA AscendingAppend ==
  ASSUME NEW s \in Seq(Chunks), NEW m \in Nat, Ascending(s, m)
  PROVE /\ Ascending(s, m + 1)
        /\ m + 1 \in Writes => Ascending(Append(s, m + 1), m + 1)
        /\ Ascending(Append(s, CloseMark), m)
<1>1. /\ Len(s) \in Nat /\ DOMAIN s = 1 .. Len(s)
      /\ \A i \in DOMAIN s : s[i] \in Nat \/ s[i] = CloseMark
  <2>1. Len(s) \in Nat /\ DOMAIN s = 1 .. Len(s)
    BY LenProperties
  <2>2. \A i \in 1 .. Len(s) : s[i] \in Chunks
    BY ElementOfSeq
  <2> QED
    BY <2>1, <2>2, WritesAreNumbers
<1>2. ASSUME NEW x \in Chunks, NEW k \in {m, m + 1}, x # CloseMark => x = m + 1 /\ k = m + 1
      PROVE Ascending(Append(s, x), k)
  <2> DEFINE t == Append(s, x)
  <2>1. /\ DOMAIN t = 1 .. Len(s) + 1 /\ t[Len(s) + 1] = x
        /\ \A i \in 1 .. Len(s) : t[i] = s[i]
    BY AppendShape
  <2>2. \A i \in 1 .. Len(s) + 1 : i \in 1 .. Len(s) \/ i = Len(s) + 1
    BY <1>1
  <2> HIDE DEF t
  <2>3. \A i \in DOMAIN t : t[i] # CloseMark => t[i] <= k
    BY <1>1, <1>2, <2>1, <2>2 DEF Ascending
  <2>4. ASSUME NEW i \in DOMAIN t, NEW j \in DOMAIN t, i < j, t[i] # CloseMark, t[j] # CloseMark
        PROVE t[i] < t[j]
    <3>1. i \in 1 .. Len(s) /\ t[i] = s[i]
      BY <1>1, <2>1, <2>2, <2>4
    <3>2. CASE j \in 1 .. Len(s)
      BY <1>1, <2>1, <2>4, <3>1, <3>2 DEF Ascending
    <3>3. CASE j = Len(s) + 1
      <4>1. t[i] \in Nat /\ t[i] <= m /\ t[j] = m + 1
        BY <1>1, <1>2, <2>1, <2>4, <3>1, <3>3 DEF Ascending
      <4> QED
        BY <4>1
    <3> QED
      BY <2>1, <2>2, <3>2, <3>3
  <2>5. Ascending(t, k)
    BY <2>3, <2>4 DEF Ascending
  <2> QED
    BY <2>5 DEF t
<1>3. Ascending(s, m + 1)
  BY <1>1 DEF Ascending
<1>4. m + 1 \in Writes => Ascending(Append(s, m + 1), m + 1)
  BY <1>2, WritesAreNumbers
<1>5. Ascending(Append(s, CloseMark), m)
  BY <1>2, WritesAreNumbers
<1> QED
  BY <1>3, <1>4, <1>5

LEMMA AscendingTail ==
  ASSUME NEW s \in Seq(Chunks), s # << >>, NEW m \in Nat, Ascending(s, m)
  PROVE /\ Ascending(Tail(s), m)
        /\ Head(s) # CloseMark => Head(s) \notin ToSet(Tail(s))
<1>1. /\ Len(s) \in Nat \ {0} /\ DOMAIN s = 1 .. Len(s) /\ DOMAIN Tail(s) = 1 .. Len(s) - 1
      /\ Head(s) = s[1] /\ 1 \in DOMAIN s
      /\ \A i \in 1 .. Len(s) - 1 : Tail(s)[i] = s[i + 1] /\ i + 1 \in 1 .. Len(s)
  BY TailShape
<1>2. Ascending(Tail(s), m)
  BY <1>1 DEF Ascending
<1>3. ASSUME Head(s) # CloseMark PROVE Head(s) \notin ToSet(Tail(s))
  <2>1. SUFFICES ASSUME NEW i \in DOMAIN Tail(s), Tail(s)[i] = Head(s) PROVE FALSE
    BY DEF ToSet
  <2>2. i + 1 \in DOMAIN s /\ 1 < i + 1 /\ s[i + 1] = s[1] /\ s[1] # CloseMark
    BY <1>1, <1>3, <2>1
  <2>3. s[1] < s[1] /\ s[1] \in Nat
    <3>1. s[1] < s[i + 1]
      BY <1>1, <2>2 DEF Ascending
    <3>2. s[1] \in Chunks
      BY <1>1, ElementOfSeq
    <3>3. s[1] \in Nat
      BY <2>2, <3>2, WritesAreNumbers
    <3> QED
      BY <2>2, <3>1, <3>3
  <2> QED
    BY <2>3
<1> QED
  BY <1>2, <1>3

\* What a queue holds depends on nothing but the lengths of its chunks.
LEMMA BytesSame ==
  ASSUME left \in [Chunks -> Nat], NEW s \in Seq(Chunks), \A w \in ToSet(s) : left'[w] = left[w]
  PROVE /\ Total(left', s) = Total(left, s)
        /\ \A i \in 0 .. Len(s) : Total(left', First(s, i)) = Total(left, First(s, i))
<1>1. /\ Len(s) \in Nat /\ DOMAIN s = 1 .. Len(s)
      /\ \A i \in 1 .. Len(s) : left[s[i]] = left'[s[i]]
  BY LenProperties DEF ToSet
<1>2. ASSUME NEW i \in 0 .. Len(s) PROVE Total(left', First(s, i)) = Total(left, First(s, i))
  <2> DEFINE t == First(s, i)
  <2>1. t \in Seq(Chunks) /\ Len(t) = i /\ \A j \in 1 .. i : t[j] = s[j]
    BY FirstShape
  <2>j. \A j \in 1 .. i : j \in 1 .. Len(s)
    BY <1>1
  <2>2. \A j \in 1 .. Len(t) : left[t[j]] = left'[t[j]]
    BY <1>1, <2>1, <2>j
  <2> HIDE DEF t
  <2>3. Total(left, t) = Total(left', t)
    BY <2>1, <2>2, TotalSame
  <2> QED
    BY <2>3 DEF t
<1>3. Total(left, s) = Total(left', s)
  BY <1>1, TotalSame
<1> QED
  BY <1>2, <1>3

\* How much of a chunk of length a the socket took when b bytes reach it.
Clip(a, b) == IF b <= 0 THEN 0 ELSE IF a <= b THEN a ELSE b

LEMMA ClipIs == \A a \in Nat, b \in Int : Max({0, Min({a, b})}) = Clip(a, b) /\ Clip(a, b) \in 0 .. a
<1> SUFFICES ASSUME NEW a \in Nat, NEW b \in Int
             PROVE Max({0, Min({a, b})}) = Clip(a, b) /\ Clip(a, b) \in 0 .. a
  OBVIOUS
<1> DEFINE m == Min({a, b})
<1>1. m = IF a <= b THEN a ELSE b
  BY DEF Min
<1>2. Max({0, m}) = IF m <= 0 THEN 0 ELSE m
  <2>1. m \in Int
    BY <1>1
  <2> HIDE DEF m
  <2> QED
    BY <2>1 DEF Max
<1> HIDE DEF m
<1> QED
  BY <1>1, <1>2 DEF Clip, m

\* Of a batch, the socket takes the first n bytes.
LEMMA TakenIs ==
  ASSUME left \in [Chunks -> Nat], NEW s \in Seq(Writes), NEW n \in Nat,
         \A i, j \in DOMAIN s : i < j => s[i] < s[j]
  PROVE /\ Taken(s, n) \in [Writes -> Nat]
        /\ \A w \in Writes \ ToSet(s) : Taken(s, n)[w] = 0
        /\ \A i \in DOMAIN s : Taken(s, n)[s[i]] = Clip(left[s[i]], n - Bytes(First(s, i - 1)))
        /\ n = 0 => \A w \in Writes : Taken(s, n)[w] = 0
<1>1. /\ Len(s) \in Nat /\ DOMAIN s = 1 .. Len(s) /\ \A i \in DOMAIN s : s[i] \in Writes
      /\ \A i \in DOMAIN s : i - 1 \in 0 .. Len(s)
  BY LenProperties, ElementOfSeq
<1>2. \A i \in DOMAIN s : Bytes(First(s, i - 1)) \in Nat
  BY <1>1, WritesAreChunks, PrefixSums DEF Bytes
<1>3. ASSUME NEW i \in DOMAIN s, NEW j \in DOMAIN s, s[i] = s[j] PROVE i = j
  <2>1. s[i] \in Nat /\ s[j] \in Nat /\ i \in Nat /\ j \in Nat
    BY <1>1, WritesAreNumbers
  <2> QED
    BY <1>3, <2>1
<1>4. ASSUME NEW i \in DOMAIN s
      PROVE Taken(s, n)[s[i]] = Clip(left[s[i]], n - Bytes(First(s, i - 1)))
  <2>1. (CHOOSE j \in DOMAIN s : s[j] = s[i]) = i
    BY <1>3
  <2>2. Taken(s, n)[s[i]] = Max({0, Min({left[s[i]], n - Bytes(SubSeq(s, 1, i - 1))})})
    BY <1>1, <2>1 DEF Taken
  <2>3. left[s[i]] \in Nat
    BY <1>1, WritesAreNumbers
  <2>4. n - Bytes(First(s, i - 1)) \in Int
    BY <1>2
  <2> QED
    BY <2>2, <2>3, <2>4, ClipIs DEF First
<1>5. \A w \in Writes \ ToSet(s) : Taken(s, n)[w] = 0
  BY DEF Taken, ToSet
<1>6. ASSUME NEW w \in Writes PROVE Taken(s, n)[w] \in Nat /\ (n = 0 => Taken(s, n)[w] = 0)
  <2>1. CASE w \in ToSet(s)
    <3>1. PICK i \in DOMAIN s : w = s[i]
      BY <2>1 DEF ToSet
    <3>2. left[w] \in Nat /\ Bytes(First(s, i - 1)) \in Nat
      BY <1>2, WritesAreNumbers
    <3>3. Taken(s, n)[w] = Clip(left[w], n - Bytes(First(s, i - 1)))
      BY <1>4, <3>1
    <3>4. n - Bytes(First(s, i - 1)) \in Int
      BY <3>2
    <3>5. Clip(left[w], n - Bytes(First(s, i - 1))) \in 0 .. left[w]
      BY <3>2, <3>4, ClipIs
    <3>6. n = 0 => Clip(left[w], n - Bytes(First(s, i - 1))) = 0
      BY <3>2 DEF Clip
    <3> QED
      BY <3>2, <3>3, <3>5, <3>6
  <2>2. CASE w \notin ToSet(s)
    BY <1>5, <2>2
  <2> QED
    BY <2>1, <2>2
<1>7. Taken(s, n) \in [Writes -> Nat]
  <2>1. DOMAIN Taken(s, n) = Writes /\ Taken(s, n) = [w \in Writes |-> Taken(s, n)[w]]
    BY DEF Taken
  <2> QED
    BY <1>6, <2>1
<1> QED
  BY <1>4, <1>5, <1>6, <1>7

\* A batch is a beginning of the queue without a close chunk.
LEMMA BatchIs ==
  ASSUME chunks \in Seq(Chunks), chunks # << >>, Head(chunks) # CloseMark
  PROVE \E k \in 1 .. Len(chunks) :
          /\ PendingWriteBatch = First(chunks, k)
          /\ First(chunks, k) \in Seq(Writes) /\ Len(First(chunks, k)) = k
          /\ \A i \in 1 .. k : First(chunks, k)[i] = chunks[i] /\ chunks[i] \in Writes
<1>1. /\ Len(chunks) \in Nat \ {0} /\ DOMAIN chunks = 1 .. Len(chunks) /\ Head(chunks) = chunks[1]
      /\ \A i \in 1 .. Len(chunks) : chunks[i] \in Chunks
  BY TailShape, ElementOfSeq
<1> DEFINE T == {k \in DOMAIN chunks : IsBatch(k)}
<1>2. T \in SUBSET (0 .. Len(chunks))
  BY <1>1
<1>3. 1 \in T
  BY <1>1 DEF IsBatch
<1> HIDE DEF T
<1>4. Max(T) \in T
  BY <1>1, <1>2, <1>3, GreatestNumber
<1> DEFINE k == Max(T)
<1>5. k \in 1 .. Len(chunks) /\ IsBatch(k)
  BY <1>1, <1>4 DEF T
<1>6. PendingWriteBatch = First(chunks, k)
  BY DEF PendingWriteBatch, First, T
<1> HIDE DEF k
<1>7. \A i \in 1 .. k : chunks[i] \in Writes
  BY <1>1, <1>5 DEF IsBatch, Chunks
<1>8. Len(First(chunks, k)) = k /\ \A i \in 1 .. k : First(chunks, k)[i] = chunks[i]
  BY <1>1, <1>5, FirstShape
<1>9. First(chunks, k) \in Seq(Writes)
  <2>1. First(chunks, k) = [i \in 1 .. k |-> chunks[i]]
    BY <1>1, <1>5 DEF First
  <2> QED
    BY <1>1, <1>5, <1>7, <2>1, IsASeq
<1> QED
  BY <1>5, <1>6, <1>7, <1>8, <1>9

-----------------------------------------------------------------------------
(* The shape of the queue and of a send pass                               *)

\* TypeOK, but for the stack, the flags, and that pendingBytes is not negative,
\* which has a deeper reason.
TypeInv ==
  /\ pendings \in Seq(Chunks) /\ chunks \in Seq(Chunks) /\ batch \in Seq(Writes)
  /\ pendingBytes \in Int /\ bytesLeft \in Nat
  /\ left \in [Chunks -> Nat] /\ size \in [Writes -> Nat] /\ sent \in [Writes -> Nat]
  /\ future \in [Writes -> {"none", "pending", "ok", "failed"}]
  /\ written \in 0 .. MaxWrites

FreshInv ==
  \A w \in Writes : w > written => size[w] = 0 /\ sent[w] = 0 /\ left[w] = 0 /\ future[w] = "none"

\* The batch is the beginning of the local list, and there is one only while it
\* is being accounted for.
BatchInv ==
  /\ Len(batch) <= Len(chunks) /\ \A i \in DOMAIN batch : batch[i] = chunks[i]
  /\ "complete" \notin ToSet(stack) => batch = << >> /\ bytesLeft = 0
  /\ bytesLeft <= Bytes(batch)

\* There is a local list only during a send pass.
LocalInv == ~Sending => chunks = << >> /\ ~aliased

SortedInv ==
  /\ left[CloseMark] = 0
  /\ Ascending(pendings, written) /\ Ascending(chunks, written)

ShapeInv == TypeInv /\ FreshInv /\ BatchInv /\ LocalInv /\ SortedInv

\* Where the stack stands: no list is being sent or failed.
Calm(s) == ToSet(s) \cap {"round", "complete", "fail"} = {}

\* No close has replaced the queue.
Live == open /\ "socket" \notin ToSet(stack)

\* A step that leaves the queue, the pass and the writes alone.
Settles ==
  /\ UNCHANGED <<pendings, pendingBytes, pass, writes>>
  /\ open' => open
  /\ ToSet(stack') \cap {"round", "complete"} = ToSet(stack) \cap {"round", "complete"}
  /\ "fail" \in ToSet(stack) => "fail" \in ToSet(stack')
  /\ "socket" \in ToSet(stack) => "socket" \in ToSet(stack') \/ ~open'

\* What a write of n bytes does when "rest" of them are not taken at once.
Writing(n, rest, answer) ==
  LET w == written + 1 IN
  /\ w \in Writes /\ written' = w
  /\ size' = [size EXCEPT ![w] = n] /\ sent' = [sent EXCEPT ![w] = n - rest]
  /\ left' = [left EXCEPT ![w] = rest] /\ future' = [future EXCEPT ![w] = answer]
  /\ (answer = "pending" /\ (rest > 0 \/ n = 0)) \/ (answer = "ok" /\ rest = 0)
  /\ IF rest = 0 THEN UNCHANGED <<queue, chunks>>
     ELSE answer = "pending" /\ AddPending(w, rest)
  /\ n - rest > 0 => pendings = << >> /\ open
  /\ UNCHANGED <<lifecycle, aliased, batch, bytesLeft, crashed>>

LEMMA WriteDoes ==
  ASSUME TypeInv, FreshInv, NEW n \in Sizes, Write(n)
  PROVE n \in Nat /\ \E rest \in 0 .. n, answer \in {"pending", "ok"} : Writing(n, rest, answer)
<1> DEFINE w == written + 1
<1>1. n \in Nat /\ w \in Writes /\ w > written /\ written \in Nat
  BY WritePathAssumption DEF Write, TypeInv, Writes
<1>2. /\ written' = w /\ size' = [size EXCEPT ![w] = n]
      /\ UNCHANGED <<lifecycle, aliased, batch, bytesLeft, crashed>>
  BY DEF Write
<1>3. ASSUME NEW rest \in 0 .. n, Queued(w, rest, n), n - rest > 0 => pendings = << >> /\ open,
             rest > 0 \/ n = 0
      PROVE Writing(n, rest, "pending")
  BY <1>1, <1>2, <1>3 DEF Queued, Writing
<1>4. ASSUME future' = [future EXCEPT ![w] = "ok"], sent' = [sent EXCEPT ![w] = n],
             UNCHANGED <<queue, chunks, left>>, TrySocketFirst, open \/ n = 0
      PROVE Writing(n, 0, "ok")
  <2>1. left' = [left EXCEPT ![w] = 0]
    BY <1>1, <1>4, WritesAreNumbers DEF TypeInv, FreshInv
  <2>2. n - 0 = n
    BY <1>1
  <2>3. sent' = [sent EXCEPT ![w] = n - 0]
    BY <1>4, <2>2
  <2>4. n - 0 > 0 => pendings = << >> /\ open
    BY <1>1, <1>4, <2>2 DEF TrySocketFirst
  <2> HIDE DEF w
  <2>5. UNCHANGED <<queue, chunks>>
    BY <1>4
  <2> QED
    BY <1>1, <1>2, <1>4, <2>1, <2>3, <2>4, <2>5 DEF Writing, w
<1>5. CASE TrySocketFirst
  <2>1. PICK rest \in 0 .. n :
          /\ open \/ rest = n
          /\ \/ rest > 0 /\ Queued(w, rest, n)
             \/ /\ rest = 0
                /\ future' = [future EXCEPT ![w] = "ok"]
                /\ sent' = [sent EXCEPT ![w] = n]
                /\ UNCHANGED <<queue, chunks, left>>
    BY <1>5 DEF Write
  <2>2. CASE rest > 0 /\ Queued(w, rest, n)
    <3>1. n - rest > 0 => pendings = << >> /\ open
      BY <1>1, <1>5, <2>1 DEF TrySocketFirst
    <3> QED
      BY <1>1, <1>3, <2>2, <3>1
  <2>3. CASE rest = 0 /\ ~(rest > 0)
    BY <1>1, <1>4, <1>5, <2>1, <2>3
  <2> QED
    BY <2>1, <2>2, <2>3
<1>6. CASE ~TrySocketFirst
  <2>1. Queued(w, n, n)
    BY <1>6 DEF Write
  <2>2. n \in 0 .. n /\ ~(n - n > 0) /\ (n > 0 \/ n = 0)
    BY <1>1
  <2> QED
    BY <1>1, <1>3, <2>1, <2>2
<1> QED
  BY <1>1, <1>5, <1>6

LEMMA SettlingSteps ==
  ASSUME StackInv,
         \/ CloseForcibly \/ UserReturns \/ EndOfFile \/ AfterPass
         \/ CloseSocket \/ SetInactive \/ Unregister
         \/ WriteEvent /\ pendings = << >>
         \/ CompleteChunk /\ Done(Head(batch))
         \/ UNCHANGED vars
  PROVE Settles
<1>1. CASE CloseForcibly
  <2>1. ToSet(stack') = {"fail"} \cup ToSet(stack)
    BY <1>1, UserFrames, Entering, LabelSets
  <2> QED
    BY <1>1, <2>1 DEF CloseForcibly, Settles, queue, lifecycle
<1>2. CASE EndOfFile
  <2>1. ToSet(stack') = {"fail"} /\ ToSet(stack) = {}
    BY <1>2, EmptyStack DEF EndOfFile, ToSet
  <2> QED
    BY <1>2, <2>1 DEF EndOfFile, Settles, queue, lifecycle
<1>3. CASE UserReturns
  BY <1>3, ReturnFrames DEF UserReturns, Settles, queue, lifecycle, UserContexts
<1>4. CASE AfterPass
  BY <1>4, AfterFrames DEF AfterPass, Settles, lifecycle
<1>5. CASE CloseSocket
  BY <1>5, CloseFrames DEF CloseSocket, Settles, queue
<1>6. CASE SetInactive
  BY <1>6, CloseFrames DEF SetInactive, Settles, queue
<1>7. CASE Unregister
  BY <1>7, CloseFrames DEF Unregister, Settles, queue
<1>8. CASE WriteEvent /\ pendings = << >>
  <2>1. ToSet(stack) = {} /\ ToSet(stack') \subseteq {"writability"}
    BY <1>8, EventFrames, EmptyStack
  <2> QED
    BY <1>8, <2>1 DEF WriteEvent, Settles, lifecycle
<1>9. CASE CompleteChunk /\ Done(Head(batch))
  BY <1>9 DEF CompleteChunk, Settles, queue, pass, writes, lifecycle
<1>10. CASE UNCHANGED vars
  BY <1>10 DEF vars, Settles, queue, lifecycle
<1> QED
  BY <1>1, <1>2, <1>3, <1>4, <1>5, <1>6, <1>7, <1>8, <1>9, <1>10

\* A beginning of the local list in which no close chunk stands.
IsBeginning(s) ==
  /\ s \in Seq(Writes) /\ Len(s) \in 1 .. Len(chunks) /\ DOMAIN s = 1 .. Len(s)
  /\ \A i \in DOMAIN s : s[i] = chunks[i]
  /\ \A i, j \in DOMAIN s : i < j => s[i] < s[j]

LEMMA NextBatch ==
  ASSUME ShapeInv, chunks # << >>, Head(chunks) # CloseMark
  PROVE IsBeginning(PendingWriteBatch)
<1> DEFINE next == PendingWriteBatch
<1>1. PICK k \in 1 .. Len(chunks) :
        /\ next \in Seq(Writes) /\ Len(next) = k
        /\ \A i \in 1 .. k : next[i] = chunks[i] /\ chunks[i] \in Writes
  BY BatchIs DEF ShapeInv, TypeInv
<1> HIDE DEF next
<1>2. DOMAIN next = 1 .. k /\ DOMAIN chunks = 1 .. Len(chunks) /\ Len(chunks) \in Nat
  BY <1>1, LenProperties DEF ShapeInv, TypeInv
<1>3. ASSUME NEW i \in DOMAIN next, NEW j \in DOMAIN next, i < j PROVE next[i] < next[j]
  <2>1. chunks[i] # CloseMark /\ chunks[j] # CloseMark /\ i \in DOMAIN chunks /\ j \in DOMAIN chunks
    BY <1>1, <1>2, WritesAreNumbers
  <2> QED
    BY <1>1, <1>2, <1>3, <2>1 DEF ShapeInv, SortedInv, Ascending
<1> QED
  BY <1>1, <1>2, <1>3 DEF IsBeginning, next

\* The head of the batch is the head of the local list.
LEMMA HeadOfBatch ==
  ASSUME ShapeInv, batch # << >>
  PROVE /\ Head(batch) \in Writes /\ Head(batch) <= written
        /\ chunks # << >> /\ Head(chunks) = Head(batch)
        /\ Head(batch) \notin ToSet(Tail(chunks)) /\ Head(batch) \notin ToSet(Tail(batch))
        /\ Len(Tail(batch)) <= Len(Tail(chunks))
        /\ \A i \in DOMAIN Tail(batch) : Tail(batch)[i] = Tail(chunks)[i]
<1>1. /\ Head(batch) = batch[1] /\ Head(batch) \in Writes /\ 1 \in DOMAIN batch
      /\ Len(batch) \in Nat \ {0} /\ DOMAIN Tail(batch) = 1 .. Len(batch) - 1
      /\ Len(Tail(batch)) = Len(batch) - 1 /\ DOMAIN batch = 1 .. Len(batch)
      /\ \A i \in 1 .. Len(batch) - 1 : Tail(batch)[i] = batch[i + 1] /\ i + 1 \in 1 .. Len(batch)
  BY TailShape DEF ShapeInv, TypeInv
<1>2. chunks # << >>
  BY <1>1, EmptySeq DEF ShapeInv, BatchInv
<1>3. /\ Head(chunks) = chunks[1] /\ DOMAIN chunks = 1 .. Len(chunks) /\ 1 \in DOMAIN chunks
      /\ Len(chunks) \in Nat /\ Len(Tail(chunks)) = Len(chunks) - 1
      /\ DOMAIN Tail(chunks) = 1 .. Len(chunks) - 1
      /\ \A i \in 1 .. Len(chunks) - 1 : Tail(chunks)[i] = chunks[i + 1] /\ i + 1 \in 1 .. Len(chunks)
  BY <1>2, TailShape DEF ShapeInv, TypeInv
<1>4. chunks[1] = batch[1] /\ Len(batch) <= Len(chunks) /\ \A i \in DOMAIN batch : batch[i] = chunks[i]
  BY <1>1 DEF ShapeInv, BatchInv
<1>5. Head(chunks) # CloseMark /\ Head(chunks) <= written /\ Head(batch) \notin ToSet(Tail(chunks))
  <2>1. Head(chunks) # CloseMark
    BY <1>1, <1>3, <1>4, WritesAreNumbers
  <2>2. Head(chunks) <= written
    BY <1>3, <2>1 DEF ShapeInv, SortedInv, Ascending
  <2>3. Head(chunks) \notin ToSet(Tail(chunks))
    BY <1>2, <2>1, AscendingTail DEF ShapeInv, SortedInv, TypeInv
  <2> QED
    BY <1>1, <1>3, <1>4, <2>1, <2>2, <2>3
<1>6. ASSUME NEW i \in DOMAIN Tail(batch)
      PROVE i \in DOMAIN Tail(chunks) /\ Tail(batch)[i] = Tail(chunks)[i]
  BY <1>1, <1>3, <1>4
<1>7. Head(batch) \notin ToSet(Tail(batch))
  BY <1>5, <1>6 DEF ToSet
<1> QED
  BY <1>1, <1>2, <1>3, <1>4, <1>5, <1>6, <1>7

\* The socket is given the next batch.
LEMMA SendDoes ==
  ASSUME StackInv, ShapeInv, SocketTakes(0)
  PROVE \E n \in Nat :
          /\ TrySend(n) /\ n <= Bytes(PendingWriteBatch)
          /\ StackInv' /\ ToSet(stack) = {"round"} /\ batch = << >> /\ bytesLeft = 0
          /\ chunks # << >> /\ IsBeginning(PendingWriteBatch)
          /\ UNCHANGED <<writable, writeFlag, lifecycle, left, future, written, size, crashed>>
          /\ pendingBytes' = pendingBytes - n
          /\ sent' = [w \in Writes |-> sent[w] + Taken(PendingWriteBatch, n)[w]]
          /\ \/ /\ n = 0 /\ ToSet(stack') = {"sent"} /\ stack' = <<"sent">> \o Tail(stack)
                /\ pendings' = chunks /\ chunks' = << >> /\ aliased' = FALSE
                /\ UNCHANGED <<batch, bytesLeft>>
             \/ /\ n # 0 /\ open /\ ToSet(stack') = {"complete"} /\ stack' = <<"complete">> \o Tail(stack)
                /\ batch' = PendingWriteBatch /\ bytesLeft' = n
                /\ UNCHANGED <<pendings, chunks, aliased>>
<1>1. IsBeginning(PendingWriteBatch)
  BY NextBatch DEF SocketTakes
<1>2. Bytes(PendingWriteBatch) \in Nat
  <2>1. PendingWriteBatch \in Seq(Chunks) /\ left \in [Chunks -> Nat]
    BY <1>1, WritesAreChunks DEF IsBeginning, ShapeInv, TypeInv
  <2> QED
    BY <2>1, TotalNat DEF Bytes
<1>3. PICK n \in 0 .. Bytes(PendingWriteBatch) : TrySend(n)
  BY DEF SocketTakes
<1>4. n \in Nat /\ n <= Bytes(PendingWriteBatch)
  BY <1>2
<1>5. Running = "round" /\ Running \in PassLabels /\ {"sent", "complete"} \subseteq PassLabels
  BY LabelSets DEF SocketTakes
<1>6. ToSet(stack) = {"round"} /\ batch = << >> /\ bytesLeft = 0
  <2>1. ToSet(stack) = {"round"}
    BY <1>5, BottomRuns, LabelSets
  <2> QED
    BY <2>1 DEF ShapeInv, BatchInv
<1>7. CASE n = 0
  <2>1. stack' = <<"sent">> \o Tail(stack)
    BY <1>3, <1>7 DEF TrySend, PassEnds
  <2>2. StackInv' /\ ToSet(stack') = {"sent"}
    BY <1>5, <2>1, PassFrames
  <2> QED
    BY <1>1, <1>3, <1>4, <1>6, <1>7, <2>1, <2>2 DEF TrySend, PassEnds, SetPendings, SocketTakes
<1>8. CASE n # 0
  <2>1. stack' = <<"complete">> \o Tail(stack)
    BY <1>3, <1>8 DEF TrySend
  <2>2. StackInv' /\ ToSet(stack') = {"complete"}
    BY <1>5, <2>1, PassFrames
  <2> QED
    BY <1>1, <1>3, <1>4, <1>6, <1>8, <2>1, <2>2 DEF TrySend, SocketTakes
<1> QED
  BY <1>7, <1>8

\* The head of the batch went out as a whole.
LEMMA CompleteDoes ==
  ASSUME StackInv, ShapeInv, CompleteChunk, ~Done(Head(batch))
  PROVE /\ StackInv' /\ batch # << >> /\ left[Head(batch)] <= bytesLeft
        /\ ToSet(stack) = {"complete"} /\ ToSet(stack') = {"listener", "complete"}
        /\ bytesLeft' = bytesLeft - left[Head(batch)] /\ bytesLeft' \in Nat
        /\ batch' = Tail(batch) /\ chunks' = Tail(chunks) /\ UNCHANGED <<aliased, queue, lifecycle>>
        /\ future' = [future EXCEPT ![Head(batch)] = "ok"]
        /\ UNCHANGED <<left, written, size, sent, crashed>>
<1>1. StackInv' /\ ToSet(stack) = {"complete"} /\ ToSet(stack') = {"listener", "complete"}
  BY CompleteFrames, Entering, LabelSets DEF CompleteChunk
<1>2. batch # << >> /\ bytesLeft >= left[Head(batch)]
  BY DEF CompleteChunk, WentOut
<1>3. left[Head(batch)] \in Nat /\ bytesLeft \in Nat
  BY <1>2, HeadOfBatch, WritesAreNumbers DEF ShapeInv, TypeInv
<1>4. bytesLeft' = bytesLeft - left[Head(batch)]
  BY DEF CompleteChunk
<1> QED
  BY <1>1, <1>2, <1>3, <1>4 DEF CompleteChunk

\* It went out in part.
LEMMA KeepDoes ==
  ASSUME StackInv, ShapeInv, KeepTail
  PROVE /\ StackInv' /\ batch # << >> /\ bytesLeft < left[Head(batch)]
        /\ ToSet(stack) = {"complete"} /\ ToSet(stack') = {"sent"}
        /\ left[Head(batch)] \in Nat /\ bytesLeft \in Nat
        /\ left' = [left EXCEPT ![Head(batch)] = left[Head(batch)] - bytesLeft]
        /\ batch' = << >> /\ bytesLeft' = 0
        /\ pendings' = chunks /\ chunks' = << >> /\ aliased' = FALSE
        /\ UNCHANGED <<pendingBytes, writable, writeFlag, lifecycle, future, written, size, sent, crashed>>
<1>1. Running \in PassLabels /\ Running = "complete" /\ "sent" \in PassLabels
  BY LabelSets DEF KeepTail
<1>2. StackInv' /\ ToSet(stack) = {"complete"} /\ ToSet(stack') = {"sent"}
  BY <1>1, PassFrames DEF KeepTail, PassEnds
<1>3. batch # << >>
  BY DEF KeepTail
<1>4. left[Head(batch)] \in Nat /\ bytesLeft \in Nat
  BY <1>3, HeadOfBatch, WritesAreNumbers DEF ShapeInv, TypeInv
<1>5. bytesLeft < left[Head(batch)]
  BY <1>4 DEF KeepTail, WentOut
<1> QED
  BY <1>2, <1>3, <1>4, <1>5 DEF KeepTail, PassEnds, SetPendings

\* The whole batch went out.
LEMMA NextDoes ==
  ASSUME StackInv, ShapeInv, NextRound
  PROVE /\ StackInv' /\ batch = << >> /\ bytesLeft = 0 /\ aliased' = FALSE
        /\ ToSet(stack) = {"complete"} /\ ToSet(stack') = {"round"}
        /\ stack' = <<"round">> \o Tail(stack)
        /\ UNCHANGED <<queue, lifecycle, chunks, batch, bytesLeft, writes, crashed>>
<1>1. Running \in PassLabels /\ "round" \in PassLabels /\ Running = "complete"
  BY LabelSets DEF NextRound
<1>2. StackInv' /\ ToSet(stack) = {"complete"} /\ ToSet(stack') = {"round"}
  BY <1>1, PassFrames DEF NextRound
<1>3. batch = << >> /\ bytesLeft = 0
  <2>1. batch = << >> /\ bytesLeft <= Bytes(batch) /\ bytesLeft \in Nat
    BY DEF NextRound, ShapeInv, BatchInv, TypeInv
  <2>2. Bytes(batch) = 0
    BY <2>1, TotalEmpty DEF Bytes
  <2> QED
    BY <2>1, <2>2
<1> QED
  BY <1>2, <1>3 DEF NextRound

\* Nothing is left to send.
LEMMA AllSentDoes ==
  ASSUME StackInv, ShapeInv, AllSent
  PROVE /\ StackInv' /\ batch = << >> /\ bytesLeft = 0 /\ aliased' = FALSE
        /\ ToSet(stack) = {"round"} /\ ToSet(stack') = {"sent"}
        /\ stack' = <<"sent">> \o Tail(stack) /\ pendings' = << >> /\ chunks = << >>
        /\ UNCHANGED <<pendingBytes, writable, writeFlag, lifecycle, chunks, batch, bytesLeft, writes, crashed>>
<1>1. Running \in PassLabels /\ "sent" \in PassLabels /\ Running = "round"
  BY LabelSets DEF AllSent
<1>2. StackInv' /\ ToSet(stack) = {"round"} /\ ToSet(stack') = {"sent"}
  BY <1>1, PassFrames DEF AllSent, PassEnds
<1>3. batch = << >> /\ bytesLeft = 0
  BY <1>2 DEF ShapeInv, BatchInv
<1> QED
  BY <1>2, <1>3 DEF AllSent, PassEnds, SetPendings

\* A close chunk is reached: the local list is given up.
LEMMA CloseMarkDoes ==
  ASSUME StackInv, ShapeInv, ReachCloseMark
  PROVE /\ StackInv' /\ batch = << >> /\ bytesLeft = 0
        /\ ToSet(stack) = {"round"} /\ ToSet(stack') = {"fail", "sent"}
        /\ chunks' = << >> /\ aliased' = FALSE
        /\ UNCHANGED <<queue, lifecycle, batch, bytesLeft, writes, crashed>>
<1>1. StackInv' /\ ToSet(stack) = {"round"} /\ ToSet(stack') = {"fail", "sent"}
  BY CloseMarkFrames
<1> QED
  BY <1>1 DEF ReachCloseMark, ShapeInv, BatchInv

\* A WRITE event finds something to send.
LEMMA EventDoes ==
  ASSUME StackInv, WriteEvent, pendings # << >>
  PROVE /\ StackInv' /\ stack = << >> /\ ToSet(stack) = {}
        /\ stack' = <<"round">> /\ ToSet(stack') = {"round"}
        /\ chunks' = pendings /\ aliased' = TRUE
        /\ UNCHANGED <<queue, lifecycle, batch, bytesLeft, writes, crashed>>
BY EventFrames, EmptyStack DEF WriteEvent

\* fail_pendings fails the first unresolved write.
LEMMA FailDoes ==
  ASSUME StackInv, TypeInv, FailOne
  PROVE /\ StackInv' /\ stack # << >> /\ Head(stack) = "fail" /\ stack' = <<"listener">> \o stack
        /\ ToSet(stack') = {"listener"} \cup ToSet(stack) /\ "fail" \in ToSet(stack)
        /\ UNCHANGED <<queue, lifecycle, pass, left, written, size, sent, crashed>>
        /\ \E w \in Writes : /\ w \in ToSet(pendings) /\ ~Done(w)
                             /\ future' = [future EXCEPT ![w] = "failed"]
<1>1. StackInv' /\ stack # << >> /\ Head(stack) = "fail" /\ stack' = <<"listener">> \o stack
  BY FailFrames
<1>2. ToSet(stack') = {"listener"} \cup ToSet(stack) /\ "fail" \in ToSet(stack)
  BY <1>1, Entering, LabelSets, Pop DEF StackInv
<1>3. Unresolved # {} /\ Unresolved \in SUBSET Nat
  <2>1. DOMAIN pendings = 1 .. Len(pendings) /\ Len(pendings) \in Nat
    BY LenProperties DEF TypeInv
  <2> QED
    BY <2>1 DEF FailOne, Unresolved
<1> DEFINE i == Min(Unresolved)
<1>4. i \in Unresolved
  <2>1. \E x \in Unresolved : \A y \in Unresolved : x <= y
    BY <1>3, LeastNumber
  <2> QED
    BY <2>1 DEF Min
<1>5. future' = [future EXCEPT ![pendings[i]] = "failed"]
  BY DEF FailOne
<1> HIDE DEF i
<1>6. i \in DOMAIN pendings /\ pendings[i] # CloseMark /\ ~Done(pendings[i])
  BY <1>4 DEF Unresolved
<1>7. pendings[i] \in Writes /\ pendings[i] \in ToSet(pendings)
  <2>1. pendings[i] \in Chunks
    BY <1>6, ElementOfSeq, LenProperties DEF TypeInv
  <2> QED
    BY <1>6, <2>1, WritesAreNumbers DEF ToSet
<1>8. \E w \in Writes : /\ w \in ToSet(pendings) /\ ~Done(w)
                        /\ future' = [future EXCEPT ![w] = "failed"]
  BY <1>5, <1>6, <1>7
<1>9. UNCHANGED <<queue, lifecycle, pass, left, written, size, sent, crashed>>
  BY DEF FailOne
<1> QED
  BY <1>1, <1>2, <1>8, <1>9

LEMMA ResetDoes ==
  ASSUME StackInv, ResetPendings
  PROVE /\ StackInv' /\ "socket" \in ToSet(stack') /\ Running \in {"fail", "stale"}
        /\ ToSet(stack') \cap {"round", "complete"} = ToSet(stack) \cap {"round", "complete"}
        /\ pendings' = << >> /\ pendingBytes' = 0 /\ aliased' = FALSE
        /\ UNCHANGED <<writeFlag, lifecycle, chunks, batch, bytesLeft, writes, crashed>>
<1>1. UNCHANGED <<writeFlag, lifecycle, chunks, batch, bytesLeft, writes, crashed>>
  BY DEF ResetPendings
<1>2. ToSet(stack') \cap {"round", "complete"} = ToSet(stack) \cap {"round", "complete"}
  BY ResetFrames
<1> QED
  BY <1>1, <1>2, ResetFrames DEF ResetPendings

\* Every step is one of these.
LEMMA Kinds ==
  ASSUME StackInv, [Next]_vars
  PROVE \/ Settles
        \/ \E n \in Sizes : Write(n)
        \/ Close
        \/ WriteEvent /\ pendings # << >>
        \/ SocketTakes(0)
        \/ CompleteChunk /\ ~Done(Head(batch))
        \/ KeepTail
        \/ NextRound \/ AllSent
        \/ ReachCloseMark
        \/ FailOne
        \/ ResetPendings
BY SettlingSteps DEF Next, UserStep, LibraryStep

LEMMA ShapeInitial == Init => ShapeInv /\ StackInv
<1> SUFFICES ASSUME Init PROVE ShapeInv /\ StackInv
  OBVIOUS
<1>1. /\ pendings = << >> /\ chunks = << >> /\ batch = << >> /\ stack = << >>
      /\ pendingBytes = 0 /\ bytesLeft = 0 /\ written = 0 /\ aliased = FALSE
      /\ left = [chunk \in Chunks |-> 0] /\ future = [w \in Writes |-> "none"]
      /\ size = [w \in Writes |-> 0] /\ sent = [w \in Writes |-> 0]
  BY DEF Init
<1>2. TypeInv
  BY <1>1, EmptySeq, WritePathAssumption DEF TypeInv
<1>3. FreshInv
  BY <1>1, WritesAreNumbers DEF FreshInv
<1>4. BatchInv
  <2>1. Bytes(<< >>) = 0
    BY TotalEmpty DEF Bytes
  <2> QED
    BY <1>1, <2>1 DEF BatchInv
<1>5. LocalInv
  BY <1>1 DEF LocalInv
<1>6. SortedInv
  BY <1>1, WritesAreNumbers DEF SortedInv, Ascending
<1>7. StackInv
  BY <1>1, EmptyStack DEF StackInv
<1> QED
  BY <1>2, <1>3, <1>4, <1>5, <1>6, <1>7 DEF ShapeInv

LEMMA ShapeOfWrite ==
  ASSUME StackInv, ShapeInv, NEW n \in Sizes, Write(n)
  PROVE ShapeInv'
<1> DEFINE w == written + 1
<1> USE DEF ShapeInv
<1>1. PICK rest \in 0 .. n, answer \in {"pending", "ok"} : n \in Nat /\ Writing(n, rest, answer)
  BY WriteDoes
<1>2. w \in Writes /\ w \in Nat /\ w \in Chunks /\ w # CloseMark /\ written \in Nat /\ w \in 0 .. MaxWrites
  BY <1>1, WritesAreNumbers, WritePathAssumption DEF Writing, TypeInv, Writes
<1>3. /\ UNCHANGED <<pendings, chunks, pendingBytes>>
      \/ /\ pendings' = Append(pendings, w)
         /\ chunks' = IF aliased THEN Append(chunks, w) ELSE chunks
         /\ pendingBytes' = pendingBytes + rest
  BY <1>1 DEF Writing, AddPending, queue
<1>4. TypeInv'
  <2>1. pendings' \in Seq(Chunks) /\ chunks' \in Seq(Chunks) /\ pendingBytes' \in Int
    <3>1. Append(pendings, w) \in Seq(Chunks) /\ Append(chunks, w) \in Seq(Chunks)
      BY <1>2, AppendShape DEF TypeInv
    <3>2. pendingBytes \in Int /\ pendingBytes + rest \in Int
      BY <1>1 DEF TypeInv
    <3> HIDE DEF w
    <3> QED
      BY <1>3, <3>1, <3>2 DEF TypeInv
  <2>2. batch' \in Seq(Writes) /\ bytesLeft' \in Nat /\ written' \in 0 .. MaxWrites
    BY <1>1, <1>2 DEF Writing, TypeInv
  <2>3. /\ left' \in [Chunks -> Nat] /\ size' \in [Writes -> Nat] /\ sent' \in [Writes -> Nat]
        /\ future' \in [Writes -> {"none", "pending", "ok", "failed"}]
    BY <1>1, <1>2 DEF Writing, TypeInv
  <2> QED
    BY <2>1, <2>2, <2>3 DEF TypeInv
<1>5. FreshInv'
  <2> SUFFICES ASSUME NEW v \in Writes, v > w
               PROVE size'[v] = 0 /\ sent'[v] = 0 /\ left'[v] = 0 /\ future'[v] = "none"
    BY <1>1, <1>2 DEF FreshInv, Writing
  <2>1. v > written /\ v # w /\ v \in Chunks
    BY <1>2, WritesAreNumbers
  <2> QED
    BY <1>1, <2>1 DEF FreshInv, Writing, TypeInv
<1>6. BatchInv'
  <2>1. batch' = batch /\ bytesLeft' = bytesLeft
    BY <1>1 DEF Writing
  <2>2. Len(chunks) \in Nat /\ DOMAIN chunks = 1 .. Len(chunks) /\ DOMAIN batch = 1 .. Len(batch)
        /\ Len(batch) \in Nat
    BY LenProperties DEF TypeInv
  <2>3. Len(chunks') >= Len(chunks) /\ \A i \in DOMAIN chunks : chunks'[i] = chunks[i]
    BY <1>2, <1>3, <2>2, AppendShape DEF TypeInv
  <2>4. "complete" \in ToSet(stack') <=> "complete" \in ToSet(stack)
    BY UserFrames, Entering, LabelSets
  <2>5. Total(left', batch) = Total(left, batch)
    <3>1. \A i \in DOMAIN batch : batch[i] = chunks[i] /\ i \in DOMAIN chunks
      BY <2>2 DEF BatchInv
    <3>2. w \notin ToSet(chunks)
      <4>1. \A i \in DOMAIN chunks : chunks[i] # CloseMark => chunks[i] <= written
        BY DEF SortedInv, Ascending
      <4> QED
        BY <1>2, <4>1 DEF ToSet
    <3>3. \A x \in ToSet(batch) : x # w
      BY <3>1, <3>2 DEF ToSet
    <3>4. \A x \in ToSet(batch) : left'[x] = left[x]
      <4>1. \A x \in ToSet(batch) : x \in Chunks
        BY ElementOfSeq, WritesAreNumbers, LenProperties DEF ToSet, TypeInv
      <4> QED
        BY <1>1, <3>3, <4>1 DEF Writing, TypeInv
    <3>5. batch \in Seq(Chunks) /\ left \in [Chunks -> Nat]
      BY WritesAreChunks DEF TypeInv
    <3> QED
      BY <3>4, <3>5, BytesSame
  <2>6. Len(batch') <= Len(chunks') /\ \A i \in DOMAIN batch' : batch'[i] = chunks'[i]
    <3>1. Len(chunks') \in Nat
      BY <1>4, LenProperties DEF TypeInv
    <3> QED
      BY <2>1, <2>2, <2>3, <3>1 DEF BatchInv
  <2> QED
    BY <2>1, <2>4, <2>5, <2>6 DEF BatchInv, Bytes
<1>7. LocalInv'
  <2>1. Sending' <=> Sending
    BY UserFrames, Entering, LabelSets DEF Sending
  <2>2. aliased' = aliased
    BY <1>1 DEF Writing
  <2> QED
    BY <1>3, <2>1, <2>2 DEF LocalInv
<1>8. SortedInv'
  <2>1. left'[CloseMark] = left[CloseMark]
    BY <1>1, <1>2, WritesAreNumbers DEF Writing, TypeInv
  <2>2. written' = w
    BY <1>1 DEF Writing
  <2>3. Ascending(pendings', w) /\ Ascending(chunks', w)
    BY <1>2, <1>3, AscendingAppend DEF SortedInv, TypeInv
  <2> QED
    BY <2>1, <2>2, <2>3 DEF SortedInv
<1> QED
  BY <1>4, <1>5, <1>6, <1>7, <1>8

\* The parts of the shape that a step of a send pass or of a close can disturb.
LEMMA ShapeOfPass ==
  ASSUME ShapeInv, UNCHANGED <<written, size>>,
         pendings' \in Seq(Chunks), chunks' \in Seq(Chunks), batch' \in Seq(Writes),
         pendingBytes' \in Int, bytesLeft' \in Nat,
         left' \in [Chunks -> Nat], sent' \in [Writes -> Nat],
         future' \in [Writes -> {"none", "pending", "ok", "failed"}],
         \A w \in Writes : w > written => left'[w] = left[w] /\ sent'[w] = sent[w] /\ future'[w] = future[w],
         left'[CloseMark] = left[CloseMark],
         Ascending(pendings', written), Ascending(chunks', written),
         BatchInv', LocalInv'
  PROVE ShapeInv'
<1>1. TypeInv'
  BY DEF ShapeInv, TypeInv
<1>2. FreshInv' /\ SortedInv'
  BY DEF ShapeInv, FreshInv, SortedInv
<1> QED
  BY <1>1, <1>2 DEF ShapeInv

LEMMA NoBatch ==
  ASSUME batch' = << >>, bytesLeft' = 0, chunks' \in Seq(Chunks)
  PROVE BatchInv'
<1>1. Bytes(batch)' = 0
  BY TotalEmpty DEF Bytes
<1>2. Len(batch') = 0 /\ DOMAIN batch' = {} /\ Len(chunks') \in Nat
  BY EmptySeq, LenProperties
<1> QED
  BY <1>1, <1>2 DEF BatchInv

LEMMA NoList == ((chunks' = << >> /\ aliased' = FALSE) \/ Sending') => LocalInv'
BY DEF LocalInv

LEMMA ShapeStep == ASSUME StackInv, ShapeInv, [Next]_vars PROVE ShapeInv'
<1> USE DEF ShapeInv
<1>t. /\ pendings \in Seq(Chunks) /\ chunks \in Seq(Chunks) /\ batch \in Seq(Writes)
      /\ pendingBytes \in Int /\ bytesLeft \in Nat /\ written \in Nat
      /\ left \in [Chunks -> Nat] /\ sent \in [Writes -> Nat]
      /\ future \in [Writes -> {"none", "pending", "ok", "failed"}]
      /\ Ascending(pendings, written) /\ Ascending(chunks, written)
  BY WritePathAssumption DEF TypeInv, SortedInv
<1>e. /\ << >> \in Seq(Chunks) /\ << >> \in Seq(Writes) /\ Ascending(<< >>, written)
      /\ Total(left', << >>) = 0 /\ Len(<< >>) = 0 /\ DOMAIN << >> = {}
  BY TotalEmpty, EmptySeq DEF Ascending
<1>l. Len(chunks) \in Nat /\ Len(pendings) \in Nat
  BY <1>t, LenProperties
<1>1. CASE Settles
  <2>1. BatchInv' /\ LocalInv' /\ FreshInv' /\ SortedInv'
    BY <1>1 DEF Settles, pass, writes, BatchInv, LocalInv, FreshInv, SortedInv, Sending, Bytes
  <2>2. TypeInv'
    BY <1>1 DEF Settles, pass, writes, TypeInv
  <2> QED
    BY <2>1, <2>2
<1>2. CASE \E n \in Sizes : Write(n)
  BY <1>2, ShapeOfWrite
<1>3. CASE Close
  <2>1. /\ pendings' = Append(pendings, CloseMark)
        /\ chunks' = chunks \/ (aliased /\ chunks' = Append(chunks, CloseMark))
        /\ pendingBytes' = pendingBytes + 0 /\ stack' = stack
        /\ UNCHANGED <<aliased, batch, bytesLeft, writes>>
    BY <1>3 DEF Close, AddPending
  <2>2. /\ pendings' \in Seq(Chunks) /\ chunks' \in Seq(Chunks)
        /\ Ascending(pendings', written) /\ Ascending(chunks', written)
    <3>1. Append(pendings, CloseMark) \in Seq(Chunks) /\ Append(chunks, CloseMark) \in Seq(Chunks)
      BY <1>t, WritesAreNumbers, AppendShape
    <3>2. Ascending(Append(pendings, CloseMark), written) /\ Ascending(Append(chunks, CloseMark), written)
      BY <1>t, AscendingAppend
    <3> QED
      BY <1>t, <2>1, <3>1, <3>2
  <2>3. Len(chunks') >= Len(chunks) /\ Len(chunks') \in Nat
        /\ \A i \in 1 .. Len(chunks) : chunks'[i] = chunks[i]
    <3>1. Len(Append(chunks, CloseMark)) = Len(chunks) + 1
          /\ \A i \in 1 .. Len(chunks) : Append(chunks, CloseMark)[i] = chunks[i]
      BY <1>t, WritesAreNumbers, AppendShape
    <3> QED
      BY <1>l, <2>1, <3>1
  <2>4. BatchInv'
    <3>1. DOMAIN batch = 1 .. Len(batch) /\ Len(batch) \in Nat
      BY <1>t, LenProperties
    <3> QED
      BY <1>l, <2>1, <2>3, <3>1 DEF BatchInv, Bytes, writes
  <2>5. LocalInv'
    BY <2>1 DEF LocalInv, Sending
  <2> QED
    BY <1>t, <2>1, <2>2, <2>4, <2>5, ShapeOfPass DEF writes
<1>4. CASE WriteEvent /\ pendings # << >>
  <2>1. BatchInv' /\ LocalInv'
    <3>1. batch = << >> /\ bytesLeft = 0
      BY <1>4, EventDoes DEF BatchInv
    <3> QED
      BY <1>4, <1>e, <1>l, <3>1, EventDoes DEF BatchInv, LocalInv, Sending, Bytes, queue
  <2> QED
    BY <1>t, <1>4, <2>1, ShapeOfPass, EventDoes DEF queue, writes
<1>5. CASE SocketTakes(0)
  <2>1. PICK n \in Nat :
          /\ TrySend(n) /\ n <= Bytes(PendingWriteBatch)
          /\ StackInv' /\ ToSet(stack) = {"round"} /\ batch = << >> /\ bytesLeft = 0
          /\ IsBeginning(PendingWriteBatch)
          /\ UNCHANGED <<left, future, written, size>>
          /\ pendingBytes' = pendingBytes - n
          /\ sent' = [w \in Writes |-> sent[w] + Taken(PendingWriteBatch, n)[w]]
          /\ \/ /\ n = 0 /\ ToSet(stack') = {"sent"}
                /\ pendings' = chunks /\ chunks' = << >> /\ aliased' = FALSE
                /\ UNCHANGED <<batch, bytesLeft>>
             \/ /\ n # 0 /\ ToSet(stack') = {"complete"}
                /\ batch' = PendingWriteBatch /\ bytesLeft' = n
                /\ UNCHANGED <<pendings, chunks, aliased>>
    BY <1>5, SendDoes
  <2>2. /\ Taken(PendingWriteBatch, n) \in [Writes -> Nat]
        /\ \A w \in Writes \ ToSet(PendingWriteBatch) : Taken(PendingWriteBatch, n)[w] = 0
    BY <1>t, <2>1, TakenIs DEF IsBeginning
  <2>3. ASSUME NEW w \in Writes, w > written PROVE sent'[w] = sent[w]
    <3>1. w \notin ToSet(PendingWriteBatch)
      <4>1. SUFFICES ASSUME NEW i \in DOMAIN PendingWriteBatch, PendingWriteBatch[i] = w PROVE FALSE
        BY DEF ToSet
      <4>2. i \in DOMAIN chunks /\ chunks[i] = w /\ w # CloseMark
        <5>1. /\ i \in 1 .. Len(PendingWriteBatch) /\ chunks[i] = w
              /\ Len(PendingWriteBatch) \in 1 .. Len(chunks)
          BY <2>1, <4>1 DEF IsBeginning
        <5>2. i \in 1 .. Len(chunks)
          BY <1>l, <5>1
        <5>3. DOMAIN chunks = 1 .. Len(chunks)
          BY <1>t, LenProperties
        <5> QED
          BY <5>1, <5>2, <5>3, WritesAreNumbers
      <4>3. w <= written /\ w \in Nat
        BY <1>t, <4>2, WritesAreNumbers DEF Ascending
      <4> QED
        BY <1>t, <2>3, <4>3
    <3> QED
      BY <1>t, <2>1, <2>2, <3>1
  <2>4. sent' \in [Writes -> Nat]
    <3>1. \A w \in Writes : sent[w] + Taken(PendingWriteBatch, n)[w] \in Nat
      BY <1>t, <2>2
    <3> QED
      BY <2>1, <3>1
  <2>5. BatchInv' /\ LocalInv'
    <3>1. CASE n = 0
      BY <1>e, <2>1, <3>1 DEF BatchInv, LocalInv, Sending, Bytes
    <3>2. CASE n # 0
      <4>1. LocalInv'
        BY <2>1, <3>2 DEF LocalInv, Sending
      <4>2. bytesLeft' <= Bytes(batch)'
        BY <2>1, <3>2 DEF Bytes
      <4>3. Len(PendingWriteBatch) <= Len(chunks) /\ \A i \in DOMAIN PendingWriteBatch : PendingWriteBatch[i] = chunks[i]
        BY <1>l, <2>1 DEF IsBeginning
      <4>4. batch' = PendingWriteBatch /\ chunks' = chunks /\ "complete" \in ToSet(stack')
        BY <2>1, <3>2
      <4> QED
        BY <4>1, <4>2, <4>3, <4>4 DEF BatchInv
    <3> QED
      BY <3>1, <3>2
  <2>6. pendings' \in Seq(Chunks) /\ chunks' \in Seq(Chunks) /\ batch' \in Seq(Writes)
        /\ pendingBytes' \in Int /\ bytesLeft' \in Nat
        /\ Ascending(pendings', written) /\ Ascending(chunks', written)
    <3>1. pendingBytes' \in Int
      BY <1>t, <2>1
    <3>2. PendingWriteBatch \in Seq(Writes)
      BY <2>1 DEF IsBeginning
    <3> QED
      BY <1>t, <1>e, <2>1, <3>1, <3>2
  <2> QED
    BY <1>t, <2>1, <2>3, <2>4, <2>5, <2>6, ShapeOfPass
<1>6. CASE CompleteChunk /\ ~Done(Head(batch))
  <2> DEFINE w == Head(batch)
  <2>1. w \in Writes /\ w <= written /\ chunks # << >> /\ batch # << >>
    BY <1>6, CompleteDoes, HeadOfBatch
  <2>2. Tail(chunks) \in Seq(Chunks) /\ Tail(batch) \in Seq(Writes) /\ Ascending(Tail(chunks), written)
    BY <1>t, <2>1, TailShape, AscendingTail
  <2>3. bytesLeft - left[w] <= Total(left, Tail(batch))
    <3>1. batch \in Seq(Chunks)
      BY <1>t, WritesAreChunks
    <3>2. Total(left, batch) = left[w] + Total(left, Tail(batch))
      BY <1>t, <2>1, <3>1, TotalTail
    <3>3. left[w] \in Nat /\ Total(left, Tail(batch)) \in Nat
      BY <1>t, <2>1, <2>2, WritesAreNumbers, WritesAreChunks, TotalNat
    <3>4. bytesLeft <= Total(left, batch)
      BY DEF BatchInv, Bytes
    <3> HIDE DEF w
    <3> QED
      BY <1>t, <3>2, <3>3, <3>4
  <2>4. BatchInv'
    <3>1. bytesLeft' <= Bytes(batch)'
      BY <1>6, <2>3, CompleteDoes DEF Bytes
    <3>2. Len(batch') <= Len(chunks') /\ \A i \in DOMAIN batch' : batch'[i] = chunks'[i]
      BY <1>6, CompleteDoes, HeadOfBatch
    <3> QED
      BY <1>6, <3>1, <3>2, CompleteDoes DEF BatchInv
  <2>5. LocalInv'
    BY <1>6, CompleteDoes DEF LocalInv, Sending
  <2>6. \A v \in Writes : v > written => v # w
    BY <1>t, <2>1, WritesAreNumbers
  <2>7. future' = [future EXCEPT ![w] = "ok"] /\ UNCHANGED <<left, written, size, sent, queue>>
        /\ batch' = Tail(batch) /\ chunks' = Tail(chunks) /\ bytesLeft' \in Nat
    BY <1>6, CompleteDoes
  <2> HIDE DEF w
  <2>8. \A v \in Writes : v > written => left'[v] = left[v] /\ sent'[v] = sent[v] /\ future'[v] = future[v]
    BY <1>t, <2>6, <2>7
  <2>9. future' \in [Writes -> {"none", "pending", "ok", "failed"}]
    BY <1>t, <2>1, <2>7
  <2> QED
    BY <1>t, <2>2, <2>4, <2>5, <2>7, <2>8, <2>9, ShapeOfPass DEF queue
<1>7. CASE KeepTail
  <2> DEFINE w == Head(batch)
  <2>1. w \in Writes /\ w <= written
    BY <1>7, KeepDoes, HeadOfBatch
  <2>2. BatchInv' /\ LocalInv'
    BY <1>7, <1>e, KeepDoes, NoBatch, NoList
  <2>3. \A v \in Writes : v > written => v # w
    BY <1>t, <2>1, WritesAreNumbers
  <2>4. /\ left' = [left EXCEPT ![w] = left[w] - bytesLeft] /\ left[w] - bytesLeft \in Nat
        /\ pendings' = chunks /\ chunks' = << >> /\ batch' = << >> /\ bytesLeft' = 0
        /\ UNCHANGED <<pendingBytes, future, written, size, sent>>
    BY <1>7, KeepDoes
  <2> HIDE DEF w
  <2>5. /\ \A v \in Writes : v > written => left'[v] = left[v] /\ sent'[v] = sent[v] /\ future'[v] = future[v]
        /\ left'[CloseMark] = left[CloseMark] /\ left' \in [Chunks -> Nat]
    BY <1>t, <2>1, <2>3, <2>4, WritesAreNumbers
  <2> QED
    BY <1>t, <1>e, <2>2, <2>4, <2>5, ShapeOfPass
<1>8. CASE NextRound \/ AllSent
  <2>1. BatchInv' /\ LocalInv'
    <3>1. BatchInv'
      BY <1>8, <1>t, NextDoes, AllSentDoes, NoBatch
    <3>2. ToSet(stack') = {"round"} => Sending'
      BY DEF Sending
    <3>3. LocalInv'
      BY <1>8, <3>2, NextDoes, AllSentDoes, NoList
    <3> QED
      BY <3>1, <3>3
  <2> QED
    BY <1>t, <1>e, <1>8, <2>1, NextDoes, AllSentDoes, ShapeOfPass DEF queue, writes
<1>9. CASE ReachCloseMark
  <2>1. BatchInv' /\ LocalInv'
    BY <1>9, <1>e, CloseMarkDoes, NoBatch, NoList
  <2> QED
    BY <1>t, <1>e, <1>9, <2>1, CloseMarkDoes, ShapeOfPass DEF writes, queue
<1>10. CASE FailOne
  <2>1. PICK w \in Writes : w \in ToSet(pendings) /\ ~Done(w) /\ future' = [future EXCEPT ![w] = "failed"]
    BY <1>10, FailDoes
  <2>2. w <= written
    <3>1. w # CloseMark
      BY WritesAreNumbers
    <3> QED
      BY <1>t, <2>1, <3>1 DEF ToSet, Ascending
  <2>3. \A v \in Writes : v > written => v # w
    BY <1>t, <2>2, WritesAreNumbers
  <2>4. UNCHANGED <<queue, pass, left, written, size, sent>>
    BY <1>10, FailDoes
  <2>5. "complete" \in ToSet(stack') <=> "complete" \in ToSet(stack)
    BY <1>10, FailDoes
  <2>6. "round" \in ToSet(stack') <=> "round" \in ToSet(stack)
    BY <1>10, FailDoes
  <2>7. BatchInv' /\ LocalInv'
    BY <2>4, <2>5, <2>6 DEF BatchInv, LocalInv, Sending, Bytes, pass
  <2>8. /\ future' \in [Writes -> {"none", "pending", "ok", "failed"}]
        /\ \A v \in Writes : v > written => left'[v] = left[v] /\ sent'[v] = sent[v] /\ future'[v] = future[v]
    BY <1>t, <2>1, <2>3, <2>4
  <2> QED
    BY <1>t, <2>4, <2>7, <2>8, ShapeOfPass DEF queue, pass
<1>11. CASE ResetPendings
  <2>1. BatchInv' /\ LocalInv'
    BY <1>11, ResetDoes DEF BatchInv, LocalInv, Sending, Bytes, writes
  <2> QED
    BY <1>t, <1>e, <1>11, <2>1, ResetDoes, ShapeOfPass DEF writes
<1> QED
  BY <1>1, <1>2, <1>3, <1>4, <1>5, <1>6, <1>7, <1>8, <1>9, <1>10, <1>11, Kinds

LEMMA ShapeInvariance == Spec => [](InterestInv /\ ShapeInv)
<1>1. Init => InterestInv /\ ShapeInv
  BY InterestInitial, ShapeInitial
<1>2. InterestInv /\ ShapeInv /\ [Next]_vars => InterestInv' /\ ShapeInv'
  BY InterestStep, ShapeStep DEF InterestInv
<1> QED
  BY <1>1, <1>2, PTL DEF Spec
=============================================================================

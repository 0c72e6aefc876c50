--------------------------- MODULE ReadingProofs ----------------------------
(***************************************************************************)
(* What recvall keeps and what it may lose, proved for any sizes of the    *)
(* buffers and of the records and any number of rounds and bytes.          *)
(***************************************************************************)
EXTENDS Reading, TLAPS

\* What the end of the stream says of the bytes before it: once recvall has seen
\* it nothing is left to read, and a closed channel has handed over all.
EndInv ==
  /\ eof /\ pc = "handle" => stream # "open" /\ kernel = 0 /\ kept = 0
  /\ pc = "closed" => stream # "open" /\ kernel = 0 /\ kept = 0
  /\ pc \in {"recv", "peek"} => ~eof
  /\ pc \in {"select", "closed"} => collected = 0

\* Only the TLS layer keeps bytes.
PlainInv == record = 0 => kept = 0

ReadInv == TypeOK /\ PlainInv /\ BytesAccountedFor /\ EndInv

-----------------------------------------------------------------------------
\* adaptive_bufsize stays within its limits, whatever has been received.
LEMMA BufsizeStaysWithin ==
  ASSUME NEW previous \in Min .. Max, NEW size \in Nat
  PROVE AdaptiveBufsize(previous, size) \in Min .. Max
<1>1. /\ Min \in Nat \ {0} /\ Max \in Nat \ {0}
      /\ previous \in Nat
  BY ReadingAssumption DEF ReadingAssumption
<1>2. previous \div 2 \in Nat /\ previous \div 2 <= previous
  BY <1>1, SMT
<1> QED
  BY <1>1, <1>2 DEF AdaptiveBufsize, Least, Greatest

\* recvall begins within them.
LEMMA BufsizeBegins == Initial \in Min .. Max
<1>1. Min \in Nat /\ Max \in Nat /\ Initial \in Nat /\ Min <= Initial /\ Initial <= Max
  BY ReadingAssumption DEF ReadingAssumption
<1> QED
  BY <1>1

\* recv has at hand what the kernel or the TLS layer holds, and no more.
LEMMA AtHand ==
  ASSUME TypeOK
  PROVE /\ Available \in Nat
        /\ Available <= kernel + kept
        /\ Available = 0 => kernel = 0 /\ (record # 0 => kept = 0)
<1>1. record \in Nat /\ kernel \in Nat /\ kept \in Nat
  BY ReadingAssumption DEF ReadingAssumption, TypeOK
<1> QED
  BY <1>1 DEF Available, Least

LEMMA ReadInitial == Init => ReadInv
<1> SUFFICES ASSUME Init PROVE ReadInv
  OBVIOUS
<1>1. TypeOK
  <2>1. bufsize \in Min .. Max
    BY BufsizeBegins DEF Init
  <2>2. {sent, kernel, kept, lost, rounds, collected, delivered} \subseteq Nat
    BY DEF Init
  <2>3. eof \in BOOLEAN
    BY DEF Init
  <2> QED
    BY <2>1, <2>2, <2>3 DEF Init, TypeOK
<1>2. PlainInv /\ BytesAccountedFor /\ EndInv
  BY DEF Init, PlainInv, BytesAccountedFor, EndInv
<1> QED
  BY <1>1, <1>2 DEF ReadInv

LEMMA ReadStep == ASSUME ReadInv, [Next]_vars PROVE ReadInv'
<1> USE ReadingAssumption DEF ReadingAssumption, ReadInv, peer, locals
<1>1. ASSUME NEW n \in 1 .. MaxBytes, Send(n) PROVE ReadInv'
  <2>1. TypeOK'
    BY <1>1 DEF Send, TypeOK
  <2>2. PlainInv' /\ BytesAccountedFor'
    BY <1>1 DEF Send, TypeOK, PlainInv, BytesAccountedFor
  <2>3. EndInv'
    BY <1>1 DEF Send, TypeOK, PlainInv, EndInv
  <2> QED
    BY <2>1, <2>2, <2>3
<1>2. ASSUME NEW how \in {"fin", "reset"}, End(how) PROVE ReadInv'
  <2>1. TypeOK'
    BY <1>2 DEF End, TypeOK
  <2>2. PlainInv' /\ BytesAccountedFor'
    BY <1>2 DEF End, TypeOK, PlainInv, BytesAccountedFor
  <2>3. EndInv'
    BY <1>2 DEF End, TypeOK, PlainInv, EndInv
  <2> QED
    BY <2>1, <2>2, <2>3
<1>3. CASE ReadEvent
  <2>1. TypeOK'
    <3>1. bufsize' \in Min .. Max
      BY <1>3, BufsizeBegins DEF ReadEvent
    <3>2. rounds' \in Nat /\ collected' \in Nat /\ eof' \in BOOLEAN
      BY <1>3 DEF ReadEvent
    <3> QED
      BY <1>3, <3>1, <3>2 DEF ReadEvent, TypeOK
  <2>2. PlainInv' /\ BytesAccountedFor'
    BY <1>3 DEF ReadEvent, TypeOK, PlainInv, BytesAccountedFor, EndInv
  <2>3. EndInv'
    BY <1>3 DEF ReadEvent, TypeOK, PlainInv, EndInv
  <2> QED
    BY <2>1, <2>2, <2>3
<1>4. CASE ReceiveEnd
  <2>1. TypeOK'
    BY <1>4 DEF ReceiveEnd, TypeOK
  <2>2. PlainInv' /\ BytesAccountedFor'
    BY <1>4 DEF ReceiveEnd, TypeOK, PlainInv, BytesAccountedFor
  <2>3. EndInv'
    BY <1>4, AtHand DEF ReceiveEnd, TypeOK, PlainInv, EndInv
  <2> QED
    BY <2>1, <2>2, <2>3
<1>5. CASE WouldBlock
  <2>1. TypeOK'
    BY <1>5 DEF WouldBlock, TypeOK
  <2>2. PlainInv' /\ BytesAccountedFor'
    BY <1>5 DEF WouldBlock, TypeOK, PlainInv, BytesAccountedFor
  <2>3. EndInv'
    BY <1>5 DEF WouldBlock, TypeOK, PlainInv, EndInv
  <2> QED
    BY <2>1, <2>2, <2>3
<1>6. CASE Peek
  <2>1. TypeOK'
    BY <1>6 DEF Peek, TypeOK
  <2>2. PlainInv' /\ BytesAccountedFor'
    BY <1>6 DEF Peek, TypeOK, PlainInv, BytesAccountedFor
  <2>3. EndInv'
    BY <1>6 DEF Peek, TypeOK, PlainInv, EndInv
  <2> QED
    BY <2>1, <2>2, <2>3
<1>7. CASE Handle
  <2>1. TypeOK'
    BY <1>7 DEF Handle, TypeOK
  <2>2. PlainInv' /\ BytesAccountedFor'
    BY <1>7 DEF Handle, TypeOK, PlainInv, BytesAccountedFor
  <2>3. EndInv'
    BY <1>7 DEF Handle, TypeOK, PlainInv, EndInv
  <2> QED
    BY <2>1, <2>2, <2>3
<1>8. ASSUME NEW n \in 1 .. Max, Receive(n) PROVE ReadInv'
  <2>1. /\ n \in Nat /\ n <= Available
        /\ Available \in Nat /\ Available <= kernel + kept
    BY <1>8, AtHand DEF Receive, TypeOK, Least
  <2>2. /\ kernel' \in Nat /\ kept' \in Nat
        /\ kernel' + kept' = kernel + kept - n
        /\ record = 0 => kept' = kept
    BY <1>8, <2>1 DEF Takes, Receive, Available, Least, TypeOK, PlainInv
  <2>3. TypeOK'
    <3>1. bufsize' \in Min .. Max
      BY <1>8, <2>1, BufsizeStaysWithin DEF Receive, TypeOK
    <3>2. collected' \in Nat /\ rounds' \in Nat
      BY <1>8, <2>1 DEF Receive, TypeOK
    <3>3. pc' \in {"recv", "handle"}
      BY <1>8, Zenon DEF Receive
    <3> QED
      BY <1>8, <2>2, <3>1, <3>2, <3>3 DEF Receive, TypeOK
  <2>4. PlainInv' /\ BytesAccountedFor'
    BY <1>8, <2>1, <2>2 DEF Receive, TypeOK, PlainInv, BytesAccountedFor
  <2>5. EndInv'
    BY <1>8 DEF Receive, EndInv
  <2> QED
    BY <2>3, <2>4, <2>5
<1>9. CASE UNCHANGED vars
  BY <1>9 DEF vars, TypeOK, PlainInv, BytesAccountedFor, EndInv
<1> QED
  BY <1>1, <1>2, <1>3, <1>4, <1>5, <1>6, <1>7, <1>8, <1>9 DEF Next, Loop

LEMMA ReadInvariance == Spec => []ReadInv
BY ReadInitial, ReadStep, PTL DEF Spec

-----------------------------------------------------------------------------
\* The variables of recvall keep their types, and the buffer its limits.
THEOREM ReadingTypeCorrect == Spec => []TypeOK
<1>1. ReadInv => TypeOK
  BY DEF ReadInv
<1> QED
  BY <1>1, ReadInvariance, PTL

\* A channel that is closed for the end of the stream has given its handler every
\* byte before the end that no reset has thrown away.
THEOREM NothingIsLeftBehind == Spec => []ClosedAfterAll
<1>1. ReadInv => ClosedAfterAll
  BY DEF ReadInv, TypeOK, BytesAccountedFor, EndInv, ClosedAfterAll
<1> QED
  BY <1>1, ReadInvariance, PTL

\* No byte is lost or duplicated between the kernel and the handler, of a plain
\* socket or one with TLS.
THEOREM EveryByteIsSomewhere == Spec => []BytesAccountedFor
<1>1. ReadInv => BytesAccountedFor
  BY DEF ReadInv
<1> QED
  BY <1>1, ReadInvariance, PTL
=============================================================================

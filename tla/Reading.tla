------------------------------ MODULE Reading -------------------------------
(***************************************************************************)
(* How the bytes of a connected channel reach its handler: the READ event, *)
(* recvall with its rounds and its adaptive buffer, and the end of the     *)
(* stream (channel.py 367-412, eventloop.py 538-550).                      *)
(*                                                                         *)
(* Bytes are counted: recv takes them from the front.  A plain socket keeps*)
(* them in the kernel, where the selector sees them.  A TLS socket takes a *)
(* record from the kernel and keeps what recv does not ask for, where the  *)
(* selector does not see it.                                               *)
(***************************************************************************)
EXTENDS Integers

CONSTANTS
  Rounds, Initial, Min, Max,  \* _ROUNDS, _INITIAL_BUFFER_SIZE, _MIN_..., _MAX_...
  Records,    \* sizes a TLS record may have; 0 stands for a plain socket
  MaxBytes    \* bound: what the peer sends

ASSUME ReadingAssumption ==
  /\ {Rounds, Initial, Min, Max} \subseteq Nat \ {0}
  /\ MaxBytes \in Nat /\ Records \subseteq Nat
  /\ Min <= Initial /\ Initial <= Max

VARIABLES
  record,     \* the size of the connection's records, or 0
  sent,       \* bytes the peer has sent
  kernel,     \* bytes in the receive buffer of the kernel
  kept,       \* decrypted bytes that the TLS layer keeps
  lost,       \* bytes a reset has thrown away
  stream,     \* "open", "fin" or "reset"; "dead" after recv has reported the reset
  pc,         \* "select", "recv", "peek", "handle", or "closed"
  bufsize, rounds, collected, eof,  \* the variables of recvall
  delivered   \* bytes the handler has been given

peer == <<record, sent, stream, lost>>
locals == <<bufsize, rounds, collected, eof>>
vars == <<peer, kernel, kept, pc, locals, delivered>>

TypeOK ==
  /\ record \in Records
  /\ {sent, kernel, kept, lost, rounds, collected, delivered} \subseteq Nat
  /\ stream \in {"open", "fin", "reset", "dead"}
  /\ pc \in {"select", "recv", "peek", "handle", "closed"}
  /\ bufsize \in Min .. Max
  /\ eof \in BOOLEAN

Init ==
  /\ record \in Records
  /\ sent = 0 /\ kernel = 0 /\ kept = 0 /\ lost = 0
  /\ stream = "open"
  /\ pc = "select"
  /\ bufsize = Initial /\ rounds = 0 /\ collected = 0 /\ eof = FALSE
  /\ delivered = 0

Least(a, b) == IF a < b THEN a ELSE b
Greatest(a, b) == IF a < b THEN b ELSE a

-----------------------------------------------------------------------------
(* The peer                                                                *)

\* A TLS peer sends whole records.
Send(n) ==
  /\ stream = "open" /\ n > 0 /\ sent + n <= MaxBytes
  /\ record # 0 => n % record = 0
  /\ sent' = sent + n /\ kernel' = kernel + n
  /\ UNCHANGED <<record, kept, lost, stream, pc, locals, delivered>>

\* Whether a reset throws away what has arrived depends on the system.
End(how) ==
  /\ stream = "open"
  /\ stream' = how
  /\ \E keep \in BOOLEAN :
       /\ how = "fin" => keep
       /\ kernel' = IF keep THEN kernel ELSE 0
       /\ lost' = IF keep THEN lost ELSE lost + kernel
  /\ UNCHANGED <<record, sent, kept, pc, locals, delivered>>

-----------------------------------------------------------------------------
(* recvall                                                                 *)

\* Slip: the buffer is doubled without a limit.
Unlimited(previous, size) ==
  IF size < previous \div 2 /\ previous > Min THEN Greatest(previous \div 2, Min)
  ELSE IF size = previous THEN previous * 2
  ELSE previous

AdaptiveBufsize(previous, size) ==
  IF size < previous \div 2 /\ previous > Min THEN Greatest(previous \div 2, Min)
  ELSE IF size = previous /\ previous < Max THEN Least(previous * 2, Max)
  ELSE previous

\* The selector reports the channel: there are bytes in the kernel, or the end.
ReadEvent ==
  /\ pc = "select" /\ (kernel > 0 \/ stream # "open")
  /\ pc' = "recv"
  /\ bufsize' = Initial /\ rounds' = 0 /\ collected' = 0 /\ eof' = FALSE
  /\ UNCHANGED <<peer, kernel, kept, delivered>>

\* What recv has at hand: the bytes of the kernel, or the rest of a record and,
\* when there is none, the next one.
Available == IF record = 0 THEN kernel ELSE IF kept > 0 THEN kept ELSE Least(kernel, record)

Takes(n) ==
  IF record = 0
  THEN kernel' = kernel - n /\ UNCHANGED kept
  ELSE IF kept > 0
  THEN kept' = kept - n /\ UNCHANGED kernel
  ELSE kernel' = kernel - Available /\ kept' = Available - n

\* One round; whether it was slow is the clock's.
Receive(n) ==
  /\ pc = "recv" /\ Available > 0
  /\ n = Least(bufsize, Available)
  /\ Takes(n)
  /\ collected' = collected + n
  /\ rounds' = rounds + 1
  /\ bufsize' = AdaptiveBufsize(bufsize, n)
  /\ \E slow \in BOOLEAN : pc' = IF rounds' = Rounds \/ slow THEN "handle" ELSE "recv"
  /\ UNCHANGED <<peer, eof, delivered>>

\* recv reports the end: nothing for a FIN, and for what follows a reset; an
\* error for the reset itself, after which is_readable finds nothing.
ReceiveEnd ==
  /\ pc = "recv" /\ Available = 0 /\ stream # "open"
  /\ eof' = TRUE
  /\ pc' = "handle"
  /\ stream' = IF stream = "reset" THEN "dead" ELSE stream
  /\ rounds' = rounds + 1
  /\ UNCHANGED <<record, sent, lost, kernel, kept, bufsize, collected, delivered>>

\* recv would block.
WouldBlock ==
  /\ pc = "recv" /\ Available = 0 /\ stream = "open"
  /\ pc' = "peek"
  /\ rounds' = rounds + 1
  /\ UNCHANGED <<peer, kernel, kept, bufsize, collected, eof, delivered>>

\* Slip: the round is repeated until recv has something.
PeekAgain ==
  /\ pc = "peek"
  /\ pc' = "recv"
  /\ rounds' = rounds - 1
  /\ UNCHANGED <<peer, kernel, kept, bufsize, collected, eof, delivered>>

\* is_readable: bytes may have come meanwhile.  A TLS socket does not peek, and
\* a reset that came meanwhile is reported here and swallowed.
Peek ==
  /\ pc = "peek"
  /\ pc' = IF record = 0 /\ kernel > 0 THEN "recv" ELSE "handle"
  /\ stream' = IF record = 0 /\ kernel = 0 /\ stream = "reset" THEN "dead" ELSE stream
  /\ UNCHANGED <<record, sent, lost, kernel, kept, locals, delivered>>

\* Slip: an end of the stream counts before the bytes that came with it.
HandleEndFirst ==
  /\ pc = "handle"
  /\ pc' = IF eof THEN "closed" ELSE "select"
  /\ delivered' = IF eof THEN delivered ELSE delivered + collected
  /\ collected' = 0
  /\ UNCHANGED <<peer, kernel, kept, bufsize, rounds, eof>>

\* Slip: the end of the stream is never acted on.
HandleNoEnd ==
  /\ pc = "handle"
  /\ pc' = "select"
  /\ delivered' = delivered + collected
  /\ collected' = 0
  /\ UNCHANGED <<peer, kernel, kept, bufsize, rounds, eof>>

\* The handler is given the bytes; an end that came with them waits for the next
\* event.
Handle ==
  /\ pc = "handle"
  /\ pc' = IF collected = 0 /\ eof THEN "closed" ELSE "select"
  /\ delivered' = delivered + collected
  /\ collected' = 0
  /\ UNCHANGED <<peer, kernel, kept, bufsize, rounds, eof>>

Loop == ReadEvent \/ ReceiveEnd \/ WouldBlock \/ Peek \/ Handle \/ \E n \in 1 .. Max : Receive(n)

Next ==
  \/ \E n \in 1 .. MaxBytes : Send(n)
  \/ \E how \in {"fin", "reset"} : End(how)
  \/ Loop

\* The loop thread is scheduled and polls; the peer need not do anything.
Spec == Init /\ [][Next]_vars /\ WF_vars(Loop)

-----------------------------------------------------------------------------
\* Every byte the peer has sent is in one place: the kernel, the TLS layer, the
\* buffers of recvall, or with the handler; a reset loses what was in the kernel.
BytesAccountedFor == sent = lost + kernel + kept + collected + delivered

\* A channel is closed for the end of the stream after its handler was given all
\* that came before the end.
ClosedAfterAll == pc = "closed" => stream # "open" /\ sent = lost + delivered

\* The end of the stream is seen, however the bytes before it were read.
EndIsSeen == stream # "open" ~> pc = "closed"

\* recvall stops after some rounds or some time; what it leaves in the kernel
\* reaches the handler all the same, and only the TLS layer may keep bytes.
ArrivedIsRead == \A n \in 1 .. MaxBytes : sent = n ~> delivered + lost + kept >= n

\* recvall gives the loop back after _ROUNDS calls of recv.
RoundsAreLimited == rounds <= Rounds

\* All bytes reach the handler, of a TLS socket too.
ArrivedIsDelivered == \A n \in 1 .. MaxBytes : sent = n ~> delivered + lost >= n
==============================================================================

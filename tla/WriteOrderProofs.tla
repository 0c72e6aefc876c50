--------------------------- MODULE WriteOrderProofs ---------------------------
(***************************************************************************)
(* What the write path promises of the bytes.                              *)
(*                                                                         *)
(* Whatever user code does inside the callbacks: a write reported as a     *)
(* success was sent as a whole, and bytes leave in the order of the write  *)
(* calls.  If listeners neither write nor close: what is queued is counted *)
(* exactly, a drained channel is writable, and no write is forgotten.  If  *)
(* the callbacks of a close do not either: no byte is skipped.             *)
(*                                                                         *)
(* Six inductive invariants carry this, each proved on top of the shape of *)
(* the state: AwaitedInv and AccountInv, OrderInv, BytesInv with QuietInv, *)
(* DrainInv, KeptInv, and GapInv.                                          *)
(***************************************************************************)
EXTENDS WritePathProofs

-----------------------------------------------------------------------------
(* Accounts: what was asked for is what was sent and what is left          *)

\* Of the i-th write of the batch, what the socket took and is not accounted for.
Credit(i) == Clip(left[batch[i]], bytesLeft - Bytes(First(batch, i - 1)))

AccountInv ==
  /\ OkMeansSent
  /\ \A w \in Writes \ ToSet(batch) : future[w] # "ok" => sent[w] + left[w] = size[w]
  /\ \A i \in DOMAIN batch : sent[batch[i]] + left[batch[i]] = size[batch[i]] + Credit(i)

\* No write that a pass sends, or that stands in the queue between passes, has
\* been answered with success.
AwaitedInv ==
  /\ \A w \in ToSet(chunks) \ {CloseMark} : future[w] # "ok"
  /\ Calm(stack) => \A w \in ToSet(pendings) \ {CloseMark} : future[w] # "ok"

LEMMA CalmSettles == Settles /\ Calm(stack') => Calm(stack)
BY DEF Settles, Calm

LEMMA AwaitedStep == ASSUME StackInv, ShapeInv, AwaitedInv, [Next]_vars PROVE AwaitedInv'
<1>t. /\ pendings \in Seq(Chunks) /\ chunks \in Seq(Chunks) /\ written \in Nat
      /\ future \in [Writes -> {"none", "pending", "ok", "failed"}]
      /\ Ascending(pendings, written) /\ Ascending(chunks, written)
  BY WritePathAssumption DEF ShapeInv, TypeInv, SortedInv
<1>1. CASE Settles
  BY <1>1, CalmSettles DEF Settles, AwaitedInv, writes, pass
<1>2. ASSUME NEW n \in Sizes, Write(n) PROVE AwaitedInv'
  <2> DEFINE w == written + 1
  <2>1. PICK rest \in 0 .. n, answer \in {"pending", "ok"} : Writing(n, rest, answer)
    BY <1>2, WriteDoes DEF ShapeInv
  <2>2. w \in Writes /\ w \in Chunks /\ future' = [future EXCEPT ![w] = answer]
    BY <2>1, WritesAreNumbers DEF Writing
  <2>3. UNCHANGED <<pendings, chunks>>
        \/ /\ answer = "pending" /\ pendings' = Append(pendings, w)
           /\ chunks' \in {chunks, Append(chunks, w)}
    BY <2>1 DEF Writing, AddPending, queue
  <2>4. \A v \in ToSet(chunks) \cup ToSet(pendings) : v \in Writes \/ v = CloseMark
    BY <1>t, ElementOfSeq, LenProperties, WritesAreNumbers DEF ToSet
  <2>5. \A v \in ToSet(chunks) \cup ToSet(pendings) : v # CloseMark => v # w
    BY <1>t DEF ToSet, Ascending
  <2>6. Calm(stack') => Calm(stack)
    BY <1>2, UserFrames, Entering, LabelSets DEF Calm
  <2>7. /\ ToSet(Append(pendings, w)) = ToSet(pendings) \cup {w}
        /\ ToSet(Append(chunks, w)) = ToSet(chunks) \cup {w}
    BY <1>t, <2>2, AppendShape
  <2> HIDE DEF w
  <2>8. \A v \in ToSet(chunks) \cup ToSet(pendings) : v # CloseMark => future'[v] = future[v]
    BY <1>t, <2>2, <2>4, <2>5
  <2>9. answer = "pending" => future'[w] # "ok"
    BY <1>t, <2>2
  <2> QED
    BY <2>3, <2>6, <2>7, <2>8, <2>9 DEF AwaitedInv
<1>3. CASE Close
  <2>1. /\ pendings' = Append(pendings, CloseMark) /\ chunks' \in {chunks, Append(chunks, CloseMark)}
        /\ stack' = stack /\ future' = future
    BY <1>3 DEF Close, AddPending, writes
  <2>2. /\ ToSet(Append(pendings, CloseMark)) = ToSet(pendings) \cup {CloseMark}
        /\ ToSet(Append(chunks, CloseMark)) = ToSet(chunks) \cup {CloseMark}
    BY <1>t, WritesAreNumbers, AppendShape
  <2> QED
    BY <2>1, <2>2 DEF AwaitedInv, Calm
<1>4. CASE WriteEvent /\ pendings # << >>
  BY <1>4, EventDoes DEF AwaitedInv, Calm, queue, writes
<1>5. CASE SocketTakes(0)
  BY <1>5, SendDoes, EmptyStack DEF AwaitedInv, Calm
<1>6. CASE CompleteChunk /\ ~Done(Head(batch))
  <2>1. chunks # << >> /\ Head(batch) \notin ToSet(Tail(chunks)) /\ Head(batch) \in Writes
    BY <1>6, CompleteDoes, HeadOfBatch
  <2>2. \A v \in ToSet(Tail(chunks)) : v \in ToSet(chunks)
    BY <1>t, <2>1, TailShape
  <2>3. \A v \in ToSet(chunks) : v \in Writes \/ v = CloseMark
    BY <1>t, ElementOfSeq, LenProperties, WritesAreNumbers DEF ToSet
  <2>4. ~Calm(stack')
    BY <1>6, CompleteDoes DEF Calm
  <2>5. chunks' = Tail(chunks) /\ future' = [future EXCEPT ![Head(batch)] = "ok"]
    BY <1>6, CompleteDoes
  <2> QED
    BY <1>t, <2>1, <2>2, <2>3, <2>4, <2>5 DEF AwaitedInv
<1>7. CASE KeepTail
  BY <1>7, KeepDoes, EmptyStack DEF AwaitedInv, Calm
<1>8. CASE NextRound \/ AllSent
  BY <1>8, NextDoes, AllSentDoes, EmptyStack DEF AwaitedInv, Calm, queue, writes
<1>9. CASE ReachCloseMark
  BY <1>9, CloseMarkDoes, EmptyStack DEF AwaitedInv, Calm, writes
<1>10. CASE FailOne
  <2>1. PICK w \in Writes : future' = [future EXCEPT ![w] = "failed"]
    BY <1>10, FailDoes DEF ShapeInv
  <2>2. ~Calm(stack') /\ chunks' = chunks
    BY <1>10, FailDoes DEF Calm, ShapeInv, pass
  <2>3. \A v \in ToSet(chunks) : v \in Writes \/ v = CloseMark
    BY <1>t, ElementOfSeq, LenProperties, WritesAreNumbers DEF ToSet
  <2> QED
    BY <1>t, <2>1, <2>2, <2>3 DEF AwaitedInv
<1>11. CASE ResetPendings
  BY <1>11, ResetDoes, EmptyStack DEF AwaitedInv, Calm, writes
<1> QED
  BY <1>1, <1>2, <1>3, <1>4, <1>5, <1>6, <1>7, <1>8, <1>9, <1>10, <1>11, Kinds

\* What the lengths of the chunks of the batch say of the credits.
LEMMA CreditIs ==
  ASSUME ShapeInv
  PROVE \A i \in DOMAIN batch :
          /\ batch[i] \in Writes /\ i - 1 \in 0 .. Len(batch) /\ i \in 0 .. Len(batch) /\ i \in Nat \ {0}
          /\ left[batch[i]] \in Nat /\ Bytes(First(batch, i - 1)) \in Nat
          /\ Bytes(First(batch, i)) = Bytes(First(batch, i - 1)) + left[batch[i]]
          /\ Credit(i) \in Nat
<1>1. batch \in Seq(Writes) /\ batch \in Seq(Chunks) /\ left \in [Chunks -> Nat] /\ bytesLeft \in Nat
  BY WritesAreChunks DEF ShapeInv, TypeInv
<1>2. DOMAIN batch = 1 .. Len(batch) /\ Len(batch) \in Nat /\ \A i \in 1 .. Len(batch) : batch[i] \in Writes
  BY <1>1, LenProperties, ElementOfSeq
<1> SUFFICES ASSUME NEW i \in DOMAIN batch
             PROVE /\ batch[i] \in Writes /\ i - 1 \in 0 .. Len(batch) /\ i \in 0 .. Len(batch) /\ i \in Nat \ {0}
                   /\ left[batch[i]] \in Nat /\ Bytes(First(batch, i - 1)) \in Nat
                   /\ Bytes(First(batch, i)) = Bytes(First(batch, i - 1)) + left[batch[i]]
                   /\ Credit(i) \in Nat
  OBVIOUS
<1>3. i \in 1 .. Len(batch) /\ i - 1 \in 0 .. Len(batch) /\ i \in 0 .. Len(batch) /\ i \in Nat \ {0}
  BY <1>2
<1>4. /\ \A j \in 0 .. Len(batch) : Total(left, First(batch, j)) \in Nat
      /\ \A j \in 1 .. Len(batch) : Total(left, First(batch, j)) = Total(left, First(batch, j - 1)) + left[batch[j]]
  BY <1>1, PrefixSums
<1>5. Bytes(First(batch, i - 1)) \in Nat
      /\ Bytes(First(batch, i)) = Bytes(First(batch, i - 1)) + left[batch[i]]
  BY <1>3, <1>4 DEF Bytes
<1>6. left[batch[i]] \in Nat
  BY <1>1, <1>2, WritesAreNumbers
<1>7. Credit(i) \in Nat
  <2>1. bytesLeft - Bytes(First(batch, i - 1)) \in Int
    BY <1>1, <1>5
  <2>2. Clip(left[batch[i]], bytesLeft - Bytes(First(batch, i - 1))) \in 0 .. left[batch[i]]
    BY <1>6, <2>1, ClipIs
  <2> QED
    BY <1>6, <2>2 DEF Credit
<1> QED
  BY <1>2, <1>3, <1>5, <1>6, <1>7

LEMMA AccountStep == ASSUME StackInv, ShapeInv, AwaitedInv, AccountInv, [Next]_vars PROVE AccountInv'
<1>t. /\ chunks \in Seq(Chunks) /\ batch \in Seq(Writes) /\ batch \in Seq(Chunks) /\ bytesLeft \in Nat
      /\ left \in [Chunks -> Nat] /\ size \in [Writes -> Nat] /\ sent \in [Writes -> Nat]
      /\ future \in [Writes -> {"none", "pending", "ok", "failed"}]
      /\ Ascending(chunks, written) /\ written \in Nat
  BY WritesAreChunks, WritePathAssumption DEF ShapeInv, TypeInv, SortedInv
<1>n. \A w \in Writes : left[w] \in Nat /\ sent[w] \in Nat /\ size[w] \in Nat
  BY <1>t, WritesAreNumbers
<1>b. \A i \in DOMAIN batch : batch[i] = chunks[i] /\ i \in DOMAIN chunks /\ batch[i] \in Writes /\ batch[i] # CloseMark
  <2>1. /\ DOMAIN batch = 1 .. Len(batch) /\ Len(batch) \in Nat /\ DOMAIN chunks = 1 .. Len(chunks)
        /\ Len(chunks) \in Nat /\ Len(batch) <= Len(chunks)
    BY <1>t, LenProperties DEF ShapeInv, BatchInv
  <2> QED
    BY <1>t, <2>1, ElementOfSeq, WritesAreNumbers DEF ShapeInv, BatchInv
<1>1. CASE UNCHANGED <<batch, bytesLeft, writes>>
  BY <1>1 DEF AccountInv, OkMeansSent, Credit, Bytes, writes
<1>2. ASSUME NEW n \in Sizes, Write(n) PROVE AccountInv'
  <2> DEFINE w == written + 1
  <2>1. PICK rest \in 0 .. n, answer \in {"pending", "ok"} : n \in Nat /\ Writing(n, rest, answer)
    BY <1>2, WriteDoes DEF ShapeInv
  <2>2. /\ w \in Writes /\ w \in Chunks /\ future' = [future EXCEPT ![w] = answer]
        /\ size' = [size EXCEPT ![w] = n] /\ sent' = [sent EXCEPT ![w] = n - rest]
        /\ left' = [left EXCEPT ![w] = rest] /\ (answer = "ok" => rest = 0)
        /\ batch' = batch /\ bytesLeft' = bytesLeft
    BY <2>1, WritesAreNumbers DEF Writing
  <2>3. \A i \in DOMAIN batch : batch[i] # w
    BY <1>t, <1>b DEF Ascending
  <2> HIDE DEF w
  <2>4. \A v \in ToSet(batch) : v \in Chunks /\ v # w
    BY <1>t, <1>b, <2>3, WritesAreNumbers DEF ToSet
  <2>5. \A i \in 0 .. Len(batch) : Total(left', First(batch, i)) = Total(left, First(batch, i))
    BY <1>t, <2>2, <2>4, BytesSame
  <2>6. ASSUME NEW i \in DOMAIN batch
        PROVE sent'[batch'[i]] + left'[batch'[i]] = size'[batch'[i]] + Credit(i)'
    <3>1. batch[i] \in Writes /\ batch[i] \in Chunks /\ batch[i] # w /\ i - 1 \in 0 .. Len(batch)
      BY <1>b, <2>3, CreditIs, WritesAreNumbers
    <3>2. left'[batch[i]] = left[batch[i]] /\ sent'[batch[i]] = sent[batch[i]] /\ size'[batch[i]] = size[batch[i]]
      BY <1>t, <2>2, <3>1
    <3>3. Credit(i)' = Credit(i)
      BY <2>2, <2>5, <3>1, <3>2 DEF Credit, Bytes
    <3> QED
      BY <2>2, <3>2, <3>3 DEF AccountInv
  <2>7. OkMeansSent'
    <3> SUFFICES ASSUME NEW v \in Writes, future'[v] = "ok" PROVE sent'[v] = size'[v]
      BY DEF OkMeansSent
    <3>1. CASE v = w
      <4>1. answer = "ok" /\ sent'[v] = n - rest /\ size'[v] = n
        BY <1>t, <2>2, <3>1
      <4> QED
        BY <2>1, <2>2, <4>1
    <3>2. CASE v # w
      BY <1>t, <2>2, <3>2 DEF AccountInv, OkMeansSent
    <3> QED
      BY <3>1, <3>2
  <2>8. ASSUME NEW v \in Writes, v \notin ToSet(batch), future'[v] # "ok"
        PROVE sent'[v] + left'[v] = size'[v]
    <3>1. CASE v = w
      <4>1. sent'[v] = n - rest /\ left'[v] = rest /\ size'[v] = n
        BY <1>t, <2>2, <3>1
      <4> QED
        BY <2>1, <4>1
    <3>2. CASE v # w
      <4>1. v \in Chunks
        BY WritesAreNumbers
      <4> QED
        BY <1>t, <2>2, <2>8, <3>2, <4>1 DEF AccountInv
    <3> QED
      BY <3>1, <3>2
  <2> QED
    BY <2>2, <2>6, <2>7, <2>8 DEF AccountInv
<1>3. CASE SocketTakes(0)
  <2> DEFINE next == PendingWriteBatch
  <2>1. PICK n \in Nat :
          /\ batch = << >> /\ bytesLeft = 0
          /\ IsBeginning(next)
          /\ UNCHANGED <<left, future, size>>
          /\ sent' = [w \in Writes |-> sent[w] + Taken(next, n)[w]]
          /\ \/ n = 0 /\ UNCHANGED <<batch, bytesLeft>>
             \/ n # 0 /\ batch' = next /\ bytesLeft' = n
    BY <1>3, SendDoes
  <2> HIDE DEF next
  <2>2. /\ Taken(next, n) \in [Writes -> Nat]
        /\ \A w \in Writes \ ToSet(next) : Taken(next, n)[w] = 0
        /\ \A i \in DOMAIN next : Taken(next, n)[next[i]] = Clip(left[next[i]], n - Bytes(First(next, i - 1)))
        /\ n = 0 => \A w \in Writes : Taken(next, n)[w] = 0
    BY <1>t, <2>1, TakenIs DEF IsBeginning
  <2>3. \A w \in ToSet(next) : w \in Writes /\ w \in ToSet(chunks) \ {CloseMark}
    <3>1. /\ DOMAIN next = 1 .. Len(next) /\ Len(next) \in 1 .. Len(chunks) /\ DOMAIN chunks = 1 .. Len(chunks)
          /\ Len(chunks) \in Nat /\ \A i \in DOMAIN next : next[i] = chunks[i]
      BY <1>t, <2>1, LenProperties DEF IsBeginning
    <3>2. \A i \in DOMAIN next : next[i] \in Writes
      BY <2>1, ElementOfSeq, LenProperties DEF IsBeginning
    <3> QED
      BY <3>1, <3>2, WritesAreNumbers DEF ToSet
  <2>4. \A w \in ToSet(next) : future[w] # "ok"
    BY <2>3 DEF AwaitedInv
  <2>5. \A w \in Writes : sent'[w] = sent[w] + Taken(next, n)[w]
    BY <2>1
  <2>6. ToSet(batch) = {}
    BY <2>1, EmptyStack
  <2>7. OkMeansSent'
    <3> SUFFICES ASSUME NEW w \in Writes, future'[w] = "ok" PROVE sent'[w] = size'[w]
      BY DEF OkMeansSent
    <3>1. w \notin ToSet(next) /\ sent[w] = size[w]
      BY <2>1, <2>4 DEF AccountInv, OkMeansSent
    <3> QED
      BY <1>n, <2>1, <2>2, <2>5, <3>1
  <2>8. ASSUME NEW w \in Writes, w \notin ToSet(batch'), future'[w] # "ok"
        PROVE sent'[w] + left'[w] = size'[w]
    <3>1. Taken(next, n)[w] = 0
      BY <2>1, <2>2, <2>8
    <3> QED
      BY <1>n, <2>1, <2>5, <2>6, <2>8, <3>1 DEF AccountInv
  <2>9. ASSUME NEW i \in DOMAIN batch'
        PROVE sent'[batch'[i]] + left'[batch'[i]] = size'[batch'[i]] + Credit(i)'
    <3>1. n # 0 /\ batch' = next /\ bytesLeft' = n
      BY <2>1, <2>9, EmptySeq
    <3>2. next[i] \in ToSet(next) /\ i \in DOMAIN next
      BY <2>9, <3>1 DEF ToSet
    <3>3. next[i] \in Writes /\ future[next[i]] # "ok"
      BY <2>3, <2>4, <3>2
    <3>4. sent[next[i]] + left[next[i]] = size[next[i]]
      BY <2>6, <3>3 DEF AccountInv
    <3>5. Credit(i)' = Taken(next, n)[next[i]]
      BY <2>1, <2>2, <3>1, <3>2 DEF Credit, Bytes
    <3>6. Taken(next, n)[next[i]] \in Nat /\ sent'[next[i]] = sent[next[i]] + Taken(next, n)[next[i]]
      BY <2>2, <2>5, <3>3
    <3> QED
      BY <1>n, <2>1, <3>1, <3>3, <3>4, <3>5, <3>6
  <2> QED
    BY <2>7, <2>8, <2>9 DEF AccountInv

<1>4. ASSUME batch # << >>
      PROVE /\ Head(batch) \in Writes /\ Credit(1) = Clip(left[Head(batch)], bytesLeft)
            /\ sent[Head(batch)] + left[Head(batch)] = size[Head(batch)] + Credit(1)
            /\ Len(batch) \in Nat \ {0} /\ DOMAIN batch = 1 .. Len(batch)
            /\ Tail(batch) \in Seq(Chunks) /\ DOMAIN Tail(batch) = 1 .. Len(batch) - 1
            /\ ToSet(batch) = {Head(batch)} \cup ToSet(Tail(batch))
            /\ \A i \in 1 .. Len(batch) - 1 :
                 /\ Tail(batch)[i] = batch[i + 1] /\ i + 1 \in DOMAIN batch /\ i - 1 \in 0 .. Len(batch) - 1
                 /\ Total(left, First(Tail(batch), i - 1)) \in Nat
                 /\ Bytes(First(batch, i)) = left[Head(batch)] + Total(left, First(Tail(batch), i - 1))
  <2>1. /\ Len(batch) \in Nat \ {0} /\ DOMAIN batch = 1 .. Len(batch) /\ Head(batch) = batch[1]
        /\ Head(batch) \in Writes /\ 1 \in DOMAIN batch
        /\ Tail(batch) \in Seq(Writes) /\ DOMAIN Tail(batch) = 1 .. Len(batch) - 1
        /\ Len(Tail(batch)) = Len(batch) - 1
        /\ ToSet(batch) = {Head(batch)} \cup ToSet(Tail(batch))
        /\ \A i \in 1 .. Len(batch) - 1 : Tail(batch)[i] = batch[i + 1] /\ i + 1 \in 1 .. Len(batch)
    BY <1>t, <1>4, TailShape
  <2>2. Tail(batch) \in Seq(Chunks)
    BY <2>1, WritesAreChunks
  <2>3. Bytes(First(batch, 1 - 1)) = 0
    BY <1>t, PrefixSums DEF Bytes
  <2>4. Credit(1) = Clip(left[Head(batch)], bytesLeft)
    BY <1>t, <2>1, <2>3 DEF Credit
  <2>5. sent[Head(batch)] + left[Head(batch)] = size[Head(batch)] + Credit(1)
    BY <2>1 DEF AccountInv
  <2>6. ASSUME NEW i \in 1 .. Len(batch) - 1
        PROVE /\ Total(left, First(Tail(batch), i - 1)) \in Nat /\ i - 1 \in 0 .. Len(batch) - 1
              /\ Bytes(First(batch, i)) = left[Head(batch)] + Total(left, First(Tail(batch), i - 1))
    <3>1. i - 1 \in 0 .. Len(batch) - 1 /\ i - 1 \in 0 .. Len(Tail(batch)) /\ i - 1 + 1 = i
      BY <2>1
    <3>2. Total(left, First(batch, i - 1 + 1)) = left[Head(batch)] + Total(left, First(Tail(batch), i - 1))
      BY <1>t, <1>4, <3>1, TotalTail
    <3>3. Total(left, First(Tail(batch), i - 1)) \in Nat
      BY <1>t, <2>2, <3>1, PrefixSums
    <3> QED
      BY <3>1, <3>2, <3>3 DEF Bytes
  <2> QED
    BY <2>1, <2>2, <2>4, <2>5, <2>6
<1>5. CASE CompleteChunk /\ ~Done(Head(batch))
  <2> DEFINE w == Head(batch)
  <2>1. /\ batch # << >> /\ left[w] <= bytesLeft
        /\ bytesLeft' = bytesLeft - left[w] /\ batch' = Tail(batch)
        /\ future' = [future EXCEPT ![w] = "ok"] /\ UNCHANGED <<left, size, sent>>
    BY <1>5, CompleteDoes
  <2>2. w \in Writes /\ left[w] \in Nat /\ w \notin ToSet(Tail(batch))
    BY <1>n, <2>1, HeadOfBatch
  <2>3. sent[w] = size[w]
    <3>1. Credit(1) = left[w]
      BY <1>t, <1>4, <2>1, <2>2 DEF Clip
    <3> QED
      BY <1>n, <1>4, <2>1, <2>2, <3>1
  <2>4. ASSUME NEW i \in DOMAIN batch'
        PROVE sent'[batch'[i]] + left'[batch'[i]] = size'[batch'[i]] + Credit(i)'
    <3>1. i \in 1 .. Len(batch) - 1 /\ Tail(batch)[i] = batch[i + 1] /\ i + 1 \in DOMAIN batch /\ i + 1 - 1 = i
      BY <1>4, <2>1, <2>4
    <3>2. Credit(i + 1) = Clip(left[batch[i + 1]], bytesLeft - Bytes(First(batch, i)))
      BY <3>1 DEF Credit
    <3>3. Credit(i)' = Clip(left[batch[i + 1]], (bytesLeft - left[w]) - Total(left, First(Tail(batch), i - 1)))
      BY <2>1, <3>1 DEF Credit, Bytes
    <3>4. bytesLeft - Bytes(First(batch, i)) = (bytesLeft - left[w]) - Total(left, First(Tail(batch), i - 1))
      <4>1. /\ Bytes(First(batch, i)) = left[w] + Total(left, First(Tail(batch), i - 1))
            /\ Total(left, First(Tail(batch), i - 1)) \in Nat
        BY <1>4, <2>1, <3>1
      <4> HIDE DEF w
      <4> QED
        BY <1>t, <2>2, <4>1
    <3>5. sent[batch[i + 1]] + left[batch[i + 1]] = size[batch[i + 1]] + Credit(i + 1)
      BY <3>1 DEF AccountInv
    <3> HIDE DEF w
    <3> QED
      BY <2>1, <3>1, <3>2, <3>3, <3>4, <3>5
  <2>5. ToSet(batch) = {w} \cup ToSet(batch')
    BY <1>4, <2>1
  <2> HIDE DEF w
  <2>6. OkMeansSent'
    BY <1>t, <2>1, <2>2, <2>3 DEF AccountInv, OkMeansSent
  <2>7. ASSUME NEW v \in Writes, v \notin ToSet(batch'), future'[v] # "ok"
        PROVE sent'[v] + left'[v] = size'[v]
    <3>1. v # w /\ future[v] # "ok" /\ v \notin ToSet(batch)
      BY <1>t, <2>1, <2>2, <2>5, <2>7
    <3> QED
      BY <2>1, <3>1 DEF AccountInv
  <2> QED
    BY <2>4, <2>6, <2>7 DEF AccountInv
<1>6. CASE KeepTail
  <2> DEFINE w == Head(batch)
  <2>1. /\ batch # << >> /\ bytesLeft < left[w]
        /\ left' = [left EXCEPT ![w] = left[w] - bytesLeft]
        /\ batch' = << >> /\ UNCHANGED <<future, size, sent>>
    BY <1>6, KeepDoes
  <2>2. w \in Writes /\ w \in Chunks /\ left[w] \in Nat
    BY <1>n, <2>1, HeadOfBatch, WritesAreNumbers
  <2>3. OkMeansSent'
    BY <2>1 DEF AccountInv, OkMeansSent
  <2>4. sent[w] + left[w] = size[w] + bytesLeft
    <3>1. Credit(1) = bytesLeft
      BY <1>t, <1>4, <2>1, <2>2 DEF Clip
    <3> QED
      BY <1>4, <2>1, <3>1
  <2>5. ASSUME NEW i \in DOMAIN batch, i # 1 PROVE Credit(i) = 0
    <3>1. i - 1 \in 1 .. Len(batch) - 1
      BY <1>4, <2>1, <2>5
    <3>2. Bytes(First(batch, i - 1)) = left[w] + Total(left, First(Tail(batch), i - 1 - 1))
          /\ Total(left, First(Tail(batch), i - 1 - 1)) \in Nat
      BY <1>4, <2>1, <3>1
    <3> HIDE DEF w
    <3>3. bytesLeft - Bytes(First(batch, i - 1)) <= 0
      BY <1>t, <2>1, <2>2, <3>2
    <3> QED
      BY <3>3 DEF Credit, Clip
  <2>6. ToSet(batch) = {w} \cup ToSet(Tail(batch)) /\ batch[1] = w /\ 1 \in DOMAIN batch
    BY <1>t, <2>1, TailShape
  <2> HIDE DEF w
  <2>7. ASSUME NEW v \in Writes, future[v] # "ok" PROVE sent[v] + left'[v] = size[v]
    <3>1. CASE v = w
      <4>1. left'[w] = left[w] - bytesLeft
        BY <1>t, <2>1, <2>2
      <4> QED
        BY <1>t, <1>n, <2>2, <2>4, <3>1, <4>1
    <3>2. CASE v # w
      <4>1. left'[v] = left[v]
        BY <1>t, <2>1, <3>2, WritesAreNumbers
      <4>2. CASE v \in ToSet(batch)
        <5>1. PICK i \in DOMAIN batch : v = batch[i]
          BY <4>2 DEF ToSet
        <5>2. Credit(i) = 0
          BY <2>5, <2>6, <3>2, <5>1
        <5> QED
          BY <1>n, <4>1, <5>1, <5>2 DEF AccountInv
      <4>3. CASE v \notin ToSet(batch)
        BY <2>7, <4>1, <4>3 DEF AccountInv
      <4> QED
        BY <4>2, <4>3
    <3> QED
      BY <3>1, <3>2
  <2>8. DOMAIN batch' = {}
    BY <2>1, EmptySeq
  <2> QED
    BY <2>1, <2>3, <2>7, <2>8 DEF AccountInv
<1>7. CASE FailOne
  <2>1. PICK w \in Writes : w \in ToSet(pendings) /\ ~Done(w) /\ future' = [future EXCEPT ![w] = "failed"]
    BY <1>7, FailDoes DEF ShapeInv
  <2>2. UNCHANGED <<batch, bytesLeft, left, size, sent>>
    BY <1>7, FailDoes DEF ShapeInv, pass
  <2>3. \A v \in Writes : future'[v] = "ok" <=> future[v] = "ok"
    BY <1>t, <2>1 DEF Done
  <2> QED
    BY <2>2, <2>3 DEF AccountInv, OkMeansSent, Credit, Bytes
<1>8. CASE Settles
  BY <1>1, <1>8 DEF Settles, pass
<1>9. CASE Close
  BY <1>1, <1>9 DEF Close
<1>10. CASE WriteEvent /\ pendings # << >>
  BY <1>1, <1>10, EventDoes
<1>11. CASE NextRound \/ AllSent
  BY <1>1, <1>11, NextDoes, AllSentDoes
<1>12. CASE ReachCloseMark
  BY <1>1, <1>12, CloseMarkDoes
<1>13. CASE ResetPendings
  BY <1>1, <1>13, ResetDoes
<1> QED
  BY <1>2, <1>3, <1>5, <1>6, <1>7, <1>8, <1>9, <1>10, <1>11, <1>12, <1>13, Kinds

LEMMA AccountInvariance == Spec => [](AwaitedInv /\ AccountInv)
<1>1. Init => AwaitedInv /\ AccountInv
  <2> SUFFICES ASSUME Init PROVE AwaitedInv /\ AccountInv
    OBVIOUS
  <2>1. /\ pendings = << >> /\ chunks = << >> /\ batch = << >>
        /\ left = [chunk \in Chunks |-> 0] /\ future = [w \in Writes |-> "none"]
        /\ size = [w \in Writes |-> 0] /\ sent = [w \in Writes |-> 0]
    BY DEF Init
  <2>2. DOMAIN batch = {} /\ ToSet(<< >>) = {}
    BY <2>1, EmptyStack, EmptySeq
  <2>3. AwaitedInv
    BY <2>1, <2>2 DEF AwaitedInv
  <2>4. AccountInv
    BY <2>1, <2>2, WritesAreNumbers DEF AccountInv, OkMeansSent
  <2> QED
    BY <2>3, <2>4
<1>2. InterestInv /\ ShapeInv /\ AwaitedInv /\ AccountInv /\ [Next]_vars => AwaitedInv' /\ AccountInv'
  BY AwaitedStep, AccountStep DEF InterestInv
<1> QED
  BY <1>1, <1>2, ShapeInvariance, PTL DEF Spec

\* A write whose future reports success was taken by the socket to the last
\* byte, however it was queued, batched and sent in parts, and whatever user
\* code does inside the callbacks.
THEOREM SuccessMeansSent == Spec => []OkMeansSent
<1>1. AccountInv => OkMeansSent
  BY DEF AccountInv
<1> QED
  BY <1>1, AccountInvariance, PTL

-----------------------------------------------------------------------------
(* Order: bytes leave in the order of the write calls                      *)

NothingAfter(f, w) == \A v \in Writes : v > w => f[v] = 0

OrderInv ==
  /\ Live => \A i \in DOMAIN chunks :
               i > Len(batch) /\ chunks[i] # CloseMark => NothingAfter(sent, chunks[i])
  /\ Live => \A i \in DOMAIN batch, v \in Writes :
               v > batch[i] /\ sent[v] > 0 => Bytes(First(batch, i)) <= bytesLeft
  /\ Live /\ Sending => pendings # << >>
  /\ open /\ Calm(stack) => \A w \in ToSet(pendings) \ {CloseMark} : NothingAfter(sent, w)

LEMMA OrderStep == ASSUME StackInv, ShapeInv, OrderInv, [Next]_vars PROVE OrderInv'
<1>t. /\ pendings \in Seq(Chunks) /\ chunks \in Seq(Chunks) /\ batch \in Seq(Writes) /\ batch \in Seq(Chunks)
      /\ bytesLeft \in Nat /\ left \in [Chunks -> Nat] /\ sent \in [Writes -> Nat]
      /\ Ascending(pendings, written) /\ Ascending(chunks, written) /\ written \in Nat
  BY WritesAreChunks, WritePathAssumption DEF ShapeInv, TypeInv, SortedInv
<1>n. \A w \in Writes : left[w] \in Nat /\ sent[w] \in Nat
  BY <1>t, WritesAreNumbers
<1>s. \A w \in (ToSet(pendings) \cup ToSet(chunks)) \ {CloseMark} : w \in Writes /\ w <= written
  <2>1. \A w \in ToSet(pendings) \cup ToSet(chunks) : w \in Chunks
    BY <1>t, ElementOfSeq, LenProperties DEF ToSet
  <2> QED
    BY <1>t, <2>1, WritesAreNumbers DEF ToSet, Ascending
<1>l. /\ Len(batch) \in Nat /\ DOMAIN batch = 1 .. Len(batch) /\ Len(chunks) \in Nat /\ DOMAIN chunks = 1 .. Len(chunks)
      /\ Len(batch) <= Len(chunks)
      /\ \A i \in DOMAIN batch : i \in DOMAIN chunks /\ batch[i] = chunks[i] /\ batch[i] \in Writes /\ batch[i] # CloseMark
  <2>1. /\ Len(batch) \in Nat /\ DOMAIN batch = 1 .. Len(batch) /\ Len(chunks) \in Nat /\ DOMAIN chunks = 1 .. Len(chunks)
        /\ Len(batch) <= Len(chunks)
    BY <1>t, LenProperties DEF ShapeInv, BatchInv
  <2> QED
    BY <1>t, <2>1, ElementOfSeq, WritesAreNumbers DEF ShapeInv, BatchInv
<1>e. ToSet(<< >>) = {} /\ DOMAIN << >> = {} /\ Len(<< >>) = 0
  BY EmptyStack, EmptySeq
<1>1. CASE Settles
  <2>1. (Live' => Live) /\ (open' => open) /\ (Sending' <=> Sending) /\ (Calm(stack') => Calm(stack))
    BY <1>1, CalmSettles DEF Settles, Live, Sending
  <2>2. UNCHANGED <<pendings, chunks, batch, bytesLeft, left, sent>>
    BY <1>1 DEF Settles, pass, writes
  <2> QED
    BY <2>1, <2>2 DEF OrderInv, NothingAfter, Bytes
<1>2. ASSUME NEW n \in Sizes, Write(n) PROVE OrderInv'
  <2> DEFINE w == written + 1
  <2>1. PICK rest \in 0 .. n, answer \in {"pending", "ok"} : n \in Nat /\ Writing(n, rest, answer)
    BY <1>2, WriteDoes DEF ShapeInv
  <2>2. /\ w \in Writes /\ w \in Chunks /\ w # CloseMark /\ w \in Nat /\ w > written
        /\ sent' = [sent EXCEPT ![w] = n - rest] /\ left' = [left EXCEPT ![w] = rest]
        /\ batch' = batch /\ bytesLeft' = bytesLeft /\ open' = open
        /\ n - rest > 0 => pendings = << >> /\ open
    BY <1>t, <2>1, WritesAreNumbers DEF Writing, lifecycle
  <2>3. UNCHANGED <<pendings, chunks>>
        \/ (pendings' = Append(pendings, w) /\ chunks' \in {chunks, Append(chunks, w)})
    BY <2>1 DEF Writing, AddPending, queue
  <2>4. (Live' <=> Live) /\ (Sending' <=> Sending) /\ (Calm(stack') <=> Calm(stack))
    <3>1. ToSet(stack') \cap {"round", "complete", "fail", "socket"} = ToSet(stack) \cap {"round", "complete", "fail", "socket"}
      BY <1>2, UserFrames, Entering, LabelSets
    <3> QED
      BY <2>2, <3>1 DEF Live, Sending, Calm
  <2> HIDE DEF w
  <2>5. \A v \in Writes : v > w => sent'[v] = 0
    BY <1>t, <2>2, WritesAreNumbers DEF ShapeInv, FreshInv
  <2>6. ASSUME NEW v \in Writes, NothingAfter(sent, v), v <= written, n - rest > 0 => FALSE PROVE NothingAfter(sent', v)
    <3> SUFFICES ASSUME NEW x \in Writes, x > v PROVE sent'[x] = 0
      BY DEF NothingAfter
    <3>1. CASE x = w
      BY <1>t, <2>1, <2>2, <2>6, <3>1
    <3>2. CASE x # w
      BY <1>t, <2>2, <2>6, <3>2 DEF NothingAfter
    <3> QED
      BY <3>1, <3>2
  <2>7. NothingAfter(sent', w)
    BY <2>5 DEF NothingAfter
  <2>8. Live /\ n - rest > 0 => chunks = << >> /\ batch = << >>
    BY <2>2, LabelSets DEF OrderInv, ShapeInv, LocalInv, BatchInv, Sending
  <2>9. /\ ToSet(Append(pendings, w)) = ToSet(pendings) \cup {w} /\ Append(pendings, w) # << >>
        /\ DOMAIN Append(chunks, w) = 1 .. Len(chunks) + 1 /\ Append(chunks, w)[Len(chunks) + 1] = w
        /\ \A i \in 1 .. Len(chunks) : Append(chunks, w)[i] = chunks[i]
    BY <1>t, <2>2, AppendShape
  <2>10. ASSUME Live', NEW i \in DOMAIN chunks', i > Len(batch'), chunks'[i] # CloseMark
         PROVE NothingAfter(sent', chunks'[i])
    <3>1. chunks'[i] = w \/ (i \in DOMAIN chunks /\ chunks'[i] = chunks[i])
      BY <1>l, <2>3, <2>9, <2>10
    <3>2. CASE i \in DOMAIN chunks /\ chunks'[i] = chunks[i]
      <4>1. chunks[i] \in Writes /\ chunks[i] <= written
        BY <1>s, <2>10, <3>2 DEF ToSet
      <4>2. ~(n - rest > 0)
        BY <1>e, <2>4, <2>8, <2>10, <3>2
      <4>3. NothingAfter(sent, chunks[i])
        BY <2>2, <2>4, <2>10, <3>2 DEF OrderInv
      <4>4. NothingAfter(sent', chunks[i])
        BY <2>6, <4>1, <4>2, <4>3 DEF NothingAfter
      <4> QED
        BY <3>2, <4>4 DEF NothingAfter
    <3> QED
      BY <2>7, <3>1, <3>2 DEF NothingAfter
  <2>11. ASSUME Live', NEW i \in DOMAIN batch', NEW v \in Writes, v > batch'[i], sent'[v] > 0
         PROVE Bytes(First(batch, i))' <= bytesLeft'
    <3>1. i \in DOMAIN batch /\ batch[i] \in Writes /\ batch[i] # w /\ i \in 0 .. Len(batch)
      BY <1>t, <1>l, <2>2, <2>11 DEF Ascending
    <3>2. \A x \in ToSet(batch) : x \in Chunks /\ x # w
      BY <1>t, <1>l, <2>2, WritesAreNumbers DEF ToSet, Ascending
    <3>3. Bytes(First(batch, i))' = Bytes(First(batch, i))
      <4>1. Total(left', First(batch, i)) = Total(left, First(batch, i))
        BY <1>t, <2>2, <3>1, <3>2, BytesSame
      <4> QED
        BY <2>2, <4>1 DEF Bytes
    <3>4. sent[v] > 0
      <4>1. ~(n - rest > 0)
        BY <1>e, <2>4, <2>8, <2>11, <3>1
      <4>2. v # w
        BY <1>t, <2>1, <2>2, <2>11, <4>1
      <4> QED
        BY <1>t, <2>2, <2>11, <4>2
    <3> QED
      BY <2>2, <2>4, <2>11, <3>1, <3>3, <3>4 DEF OrderInv
  <2>12. Live' /\ Sending' => pendings' # << >>
    BY <2>3, <2>4, <2>9 DEF OrderInv
  <2>13. ASSUME open', Calm(stack'), NEW v \in ToSet(pendings') \ {CloseMark} PROVE NothingAfter(sent', v)
    <3>1. CASE v = w
      BY <2>7, <3>1 DEF NothingAfter
    <3>2. CASE v # w
      <4>1. v \in ToSet(pendings)
        BY <2>3, <2>9, <2>13, <3>2
      <4>2. ~(n - rest > 0)
        BY <1>e, <2>2, <4>1
      <4>3. v \in Writes /\ v <= written /\ NothingAfter(sent, v)
        BY <1>s, <2>2, <2>4, <2>13, <4>1 DEF OrderInv
      <4> QED
        BY <2>6, <4>2, <4>3
    <3> QED
      BY <3>1, <3>2
  <2> QED
    BY <2>10, <2>11, <2>12, <2>13 DEF OrderInv

<1>3. CASE Close
  <2>1. /\ pendings' = Append(pendings, CloseMark) /\ chunks' \in {chunks, Append(chunks, CloseMark)}
        /\ UNCHANGED <<stack, open, batch, bytesLeft, left, sent>>
    BY <1>3 DEF Close, AddPending, writes, lifecycle
  <2>2. /\ ToSet(Append(pendings, CloseMark)) = ToSet(pendings) \cup {CloseMark}
        /\ Append(pendings, CloseMark) # << >>
        /\ DOMAIN Append(chunks, CloseMark) = 1 .. Len(chunks) + 1
        /\ Append(chunks, CloseMark)[Len(chunks) + 1] = CloseMark
        /\ \A i \in 1 .. Len(chunks) : Append(chunks, CloseMark)[i] = chunks[i]
    <3>1. CloseMark \in Chunks
      BY WritesAreNumbers
    <3>2. /\ ToSet(Append(pendings, CloseMark)) = ToSet(pendings) \cup {CloseMark}
          /\ Append(pendings, CloseMark) # << >>
      BY <1>t, <3>1, AppendShape
    <3>3. /\ DOMAIN Append(chunks, CloseMark) = 1 .. Len(chunks) + 1
          /\ Append(chunks, CloseMark)[Len(chunks) + 1] = CloseMark
          /\ \A i \in 1 .. Len(chunks) : Append(chunks, CloseMark)[i] = chunks[i]
      BY <1>t, <3>1, AppendShape
    <3> QED
      BY <3>2, <3>3
  <2>3. \A i \in DOMAIN chunks' : chunks'[i] # CloseMark => i \in DOMAIN chunks /\ chunks'[i] = chunks[i]
    BY <1>l, <2>1, <2>2
  <2>4. (Live' <=> Live) /\ (Sending' <=> Sending) /\ (Calm(stack') <=> Calm(stack))
    BY <2>1 DEF Live, Sending, Calm
  <2> QED
    BY <2>1, <2>2, <2>3, <2>4 DEF OrderInv, Bytes
<1>4. CASE WriteEvent /\ pendings # << >>
  <2>1. /\ ToSet(stack) = {} /\ chunks' = pendings /\ pendings' = pendings
        /\ UNCHANGED <<open, batch, sent>> /\ ~Calm(stack') /\ batch = << >>
    BY <1>4, EventDoes DEF Calm, queue, lifecycle, writes, ShapeInv, BatchInv
  <2>2. Calm(stack) /\ (Live' => open)
    BY <2>1 DEF Calm, Live
  <2>3. \A i \in DOMAIN pendings : pendings[i] \in ToSet(pendings)
    BY DEF ToSet
  <2> QED
    BY <1>e, <1>4, <2>1, <2>2, <2>3 DEF OrderInv, NothingAfter
<1>5. CASE SocketTakes(0)
  <2> DEFINE next == PendingWriteBatch
  <2>1. PICK n \in Nat :
          /\ ToSet(stack) = {"round"} /\ batch = << >> /\ bytesLeft = 0
          /\ IsBeginning(next)
          /\ UNCHANGED <<lifecycle, left>>
          /\ sent' = [w \in Writes |-> sent[w] + Taken(next, n)[w]]
          /\ \/ /\ n = 0 /\ ToSet(stack') = {"sent"}
                /\ pendings' = chunks /\ chunks' = << >> /\ UNCHANGED <<batch, bytesLeft>>
             \/ /\ n # 0 /\ open /\ ToSet(stack') = {"complete"}
                /\ batch' = next /\ bytesLeft' = n
                /\ UNCHANGED <<pendings, chunks>>
    BY <1>5, SendDoes
  <2> HIDE DEF next
  <2>2. /\ Taken(next, n) \in [Writes -> Nat]
        /\ \A w \in Writes \ ToSet(next) : Taken(next, n)[w] = 0
        /\ \A i \in DOMAIN next : Taken(next, n)[next[i]] = Clip(left[next[i]], n - Bytes(First(next, i - 1)))
        /\ n = 0 => \A w \in Writes : Taken(next, n)[w] = 0
    BY <1>t, <2>1, TakenIs DEF IsBeginning
  <2>3. (Live <=> open) /\ Sending /\ open' = open
    BY <2>1 DEF Live, Sending, lifecycle
  <2>4. open => \A i \in DOMAIN chunks : chunks[i] # CloseMark => NothingAfter(sent, chunks[i])
    BY <1>l, <1>e, <2>1, <2>3 DEF OrderInv
  <2>5. CASE n = 0
    <3>1. \A w \in Writes : sent'[w] = sent[w]
      BY <1>n, <2>1, <2>2, <2>5
    <3>2. \A v \in Writes : NothingAfter(sent, v) => NothingAfter(sent', v)
      BY <3>1 DEF NothingAfter
    <3>3. open' => \A w \in ToSet(pendings') \ {CloseMark} : NothingAfter(sent', w)
      BY <1>s, <2>1, <2>3, <2>4, <2>5, <3>2 DEF ToSet
    <3>4. ~Sending'
      BY <2>1, <2>5 DEF Sending
    <3> QED
      BY <1>e, <2>1, <2>5, <3>3, <3>4 DEF OrderInv
  <2>6. CASE n # 0
    <3>1. /\ open /\ batch' = next /\ bytesLeft' = n /\ UNCHANGED <<pendings, chunks, left>>
          /\ ~Calm(stack') /\ Sending'
      BY <2>1, <2>6 DEF Calm, Sending
    <3>2. /\ DOMAIN next = 1 .. Len(next) /\ Len(next) \in 1 .. Len(chunks)
          /\ \A i \in DOMAIN next : next[i] = chunks[i] /\ next[i] \in Writes /\ i \in DOMAIN chunks
          /\ \A i, j \in DOMAIN next : i < j => next[i] < next[j]
          /\ next \in Seq(Chunks)
      <4>1. next \in Seq(Writes) /\ next \in Seq(Chunks)
        BY <2>1, WritesAreChunks DEF IsBeginning
      <4>2. /\ DOMAIN next = 1 .. Len(next) /\ Len(next) \in 1 .. Len(chunks)
            /\ \A i \in DOMAIN next : next[i] = chunks[i]
            /\ \A i, j \in DOMAIN next : i < j => next[i] < next[j]
        BY <2>1 DEF IsBeginning
      <4>3. \A i \in DOMAIN next : next[i] \in Writes /\ i \in DOMAIN chunks
        BY <1>l, <4>1, <4>2, ElementOfSeq
      <4> QED
        BY <4>1, <4>2, <4>3
    <3>3. \A w \in Writes : sent'[w] = sent[w] + Taken(next, n)[w] /\ Taken(next, n)[w] \in Nat
      BY <2>1, <2>2
    <3>4. ASSUME NEW v \in Writes, Taken(next, n)[v] > 0
          PROVE \E j \in DOMAIN next : v = next[j] /\ Bytes(First(next, j - 1)) < n
      <4>1. v \in ToSet(next)
        BY <2>2, <3>4
      <4>2. PICK j \in DOMAIN next : v = next[j]
        BY <4>1 DEF ToSet
      <4>3. Clip(left[v], n - Bytes(First(next, j - 1))) > 0
        BY <2>2, <3>4, <4>2
      <4>4. Bytes(First(next, j - 1)) \in Nat
        <5>1. j - 1 \in 0 .. Len(next)
          BY <1>l, <3>2
        <5> QED
          BY <1>t, <3>2, <5>1, PrefixSums DEF Bytes
      <4>5. ~(n - Bytes(First(next, j - 1)) <= 0)
        BY <4>3 DEF Clip
      <4> QED
        BY <4>2, <4>4, <4>5
    <3>5. ASSUME NEW i \in DOMAIN chunks, i > Len(next), chunks[i] # CloseMark PROVE NothingAfter(sent', chunks[i])
      <4> SUFFICES ASSUME NEW v \in Writes, v > chunks[i] PROVE sent'[v] = 0
        BY <3>1 DEF NothingAfter
      <4>1. sent[v] = 0
        BY <2>4, <3>1, <3>5 DEF NothingAfter
      <4>2. SUFFICES ASSUME Taken(next, n)[v] > 0 PROVE FALSE
        BY <3>3, <4>1
      <4>3. PICK j \in DOMAIN next : v = next[j]
        BY <3>4, <4>2
      <4>4. j < i /\ chunks[j] = v /\ chunks[j] # CloseMark /\ j \in DOMAIN chunks
        BY <1>l, <3>2, <3>5, <4>3, WritesAreNumbers
      <4>5. chunks[j] < chunks[i]
        BY <1>t, <3>5, <4>4 DEF Ascending
      <4>6. v \in Nat /\ chunks[i] \in Nat
        BY <1>s, <3>5, WritesAreNumbers DEF ToSet
      <4> QED
        BY <4>4, <4>5, <4>6
    <3>6. ASSUME NEW i \in DOMAIN next, NEW v \in Writes, v > next[i], sent'[v] > 0
          PROVE Bytes(First(next, i)) <= n
      <4>1. sent[v] = 0
        BY <2>4, <3>1, <3>2, <3>6, WritesAreNumbers DEF NothingAfter
      <4>2. Taken(next, n)[v] > 0
        BY <3>3, <3>6, <4>1
      <4>3. PICK j \in DOMAIN next : v = next[j] /\ Bytes(First(next, j - 1)) < n
        BY <3>4, <4>2
      <4>4. i < j
        <5>1. next[i] \in Nat /\ next[j] \in Nat /\ i \in Nat /\ j \in Nat
          BY <1>l, <3>2, WritesAreNumbers
        <5>2. ~(j < i) /\ j # i
          BY <3>2, <3>6, <4>3, <5>1
        <5> QED
          BY <5>1, <5>2
      <4>5. i \in 0 .. Len(next) /\ j - 1 \in i .. Len(next) /\ j - 1 \in 0 .. Len(next)
        BY <1>l, <3>2, <4>4
      <4>6. /\ Total(left, First(next, i)) <= Total(left, First(next, j - 1))
            /\ Total(left, First(next, i)) \in Nat /\ Total(left, First(next, j - 1)) \in Nat
        BY <1>t, <3>2, <4>5, PrefixSums, PrefixSumsGrow
      <4> QED
        BY <4>3, <4>6 DEF Bytes
    <3>7. Live => pendings # << >>
      BY <2>3 DEF OrderInv
    <3>8. \A i \in DOMAIN next : Bytes(First(batch, i))' = Bytes(First(next, i))
      BY <3>1 DEF Bytes
    <3> QED
      BY <2>3, <3>1, <3>5, <3>6, <3>7, <3>8 DEF OrderInv, NothingAfter
  <2> QED
    BY <2>5, <2>6

<1>6. CASE CompleteChunk /\ ~Done(Head(batch))
  <2> DEFINE w == Head(batch)
  <2>1. /\ batch # << >> /\ chunks # << >> /\ left[w] <= bytesLeft /\ w \in Writes
        /\ bytesLeft' = bytesLeft - left[w] /\ batch' = Tail(batch) /\ chunks' = Tail(chunks)
        /\ UNCHANGED <<left, sent, queue, lifecycle>>
        /\ ToSet(stack) = {"complete"} /\ ToSet(stack') = {"listener", "complete"}
    BY <1>6, CompleteDoes, HeadOfBatch
  <2>2. /\ (Live' <=> Live) /\ Sending /\ ~Calm(stack') /\ pendings' = pendings
    BY <2>1 DEF Live, Sending, Calm, queue, lifecycle
  <2>3. /\ Len(Tail(chunks)) = Len(chunks) - 1 /\ DOMAIN Tail(chunks) = 1 .. Len(chunks) - 1
        /\ \A i \in 1 .. Len(chunks) - 1 : Tail(chunks)[i] = chunks[i + 1] /\ i + 1 \in 1 .. Len(chunks)
        /\ Len(Tail(batch)) = Len(batch) - 1 /\ DOMAIN Tail(batch) = 1 .. Len(batch) - 1
        /\ \A i \in 1 .. Len(batch) - 1 : Tail(batch)[i] = batch[i + 1] /\ i + 1 \in 1 .. Len(batch)
        /\ Tail(batch) \in Seq(Writes)
    BY <1>t, <2>1, TailShape
  <2>4. ASSUME Live', NEW i \in DOMAIN chunks', i > Len(batch'), chunks'[i] # CloseMark
        PROVE NothingAfter(sent', chunks'[i])
    <3>1. i + 1 \in DOMAIN chunks /\ i + 1 > Len(batch) /\ chunks'[i] = chunks[i + 1]
      BY <1>l, <2>1, <2>3, <2>4
    <3>2. NothingAfter(sent, chunks[i + 1])
      BY <2>2, <2>4, <3>1 DEF OrderInv
    <3> QED
      BY <2>1, <3>1, <3>2 DEF NothingAfter
  <2>5. ASSUME Live', NEW i \in DOMAIN batch', NEW v \in Writes, v > batch'[i], sent'[v] > 0
        PROVE Bytes(First(batch, i))' <= bytesLeft'
    <3>1. i \in 1 .. Len(batch) - 1 /\ i + 1 \in DOMAIN batch /\ batch'[i] = batch[i + 1]
          /\ i \in 0 .. Len(batch) - 1 /\ i \in 0 .. Len(Tail(batch))
      BY <1>l, <2>1, <2>3, <2>5
    <3>2. Bytes(First(batch, i + 1)) <= bytesLeft
      BY <2>1, <2>2, <2>5, <3>1 DEF OrderInv
    <3>3. Total(left, First(batch, i + 1)) = left[w] + Total(left, First(Tail(batch), i))
      BY <1>t, <2>1, <3>1, TotalTail
    <3>4. Total(left, First(Tail(batch), i)) \in Nat /\ left[w] \in Nat
      BY <1>t, <1>n, <2>1, <2>3, <3>1, WritesAreChunks, PrefixSums
    <3>5. Bytes(First(batch, i))' = Total(left, First(Tail(batch), i))
      BY <2>1 DEF Bytes
    <3>6. Total(left, First(batch, i + 1)) <= bytesLeft
      BY <3>2 DEF Bytes
    <3>7. bytesLeft' = bytesLeft - left[w]
      BY <2>1
    <3> HIDE DEF w
    <3>8. Total(left, First(Tail(batch), i)) <= bytesLeft'
      BY <1>t, <3>3, <3>4, <3>6, <3>7
    <3> QED
      BY <3>5, <3>8
  <2>6. Live' /\ Sending' => pendings' # << >>
    BY <2>2 DEF OrderInv
  <2> QED
    BY <2>2, <2>4, <2>5, <2>6 DEF OrderInv
<1>7. CASE KeepTail
  <2> DEFINE w == Head(batch)
  <2>1. /\ batch # << >> /\ bytesLeft < left[w] /\ left[w] \in Nat
        /\ ToSet(stack) = {"complete"} /\ ToSet(stack') = {"sent"}
        /\ batch' = << >> /\ pendings' = chunks /\ chunks' = << >>
        /\ UNCHANGED <<lifecycle, sent>>
    BY <1>7, KeepDoes
  <2>2. ~Sending' /\ open' = open /\ (open => Live)
    BY <2>1 DEF Sending, Live, lifecycle
  <2>3. ASSUME open, NEW i \in DOMAIN batch PROVE NothingAfter(sent, batch[i])
    <3> SUFFICES ASSUME NEW v \in Writes, v > batch[i], sent[v] # 0 PROVE FALSE
      BY DEF NothingAfter
    <3>1. Bytes(First(batch, i)) <= bytesLeft
      BY <1>n, <2>2, <2>3 DEF OrderInv
    <3>2. 1 \in 0 .. Len(batch) /\ i \in 1 .. Len(batch) /\ 0 \in 0 .. Len(batch) /\ i \in 0 .. Len(batch)
          /\ 1 \in 1 .. Len(batch)
      BY <1>l
    <3>3. Total(left, First(batch, 1)) <= Total(left, First(batch, i))
      BY <1>t, <3>2, PrefixSumsGrow
    <3>4. Total(left, First(batch, 1)) = Total(left, First(batch, 1 - 1)) + left[batch[1]]
      BY <1>t, <3>2, PrefixSums
    <3>5. Total(left, First(batch, 1 - 1)) = 0 /\ Total(left, First(batch, i)) \in Nat
      BY <1>t, <3>2, PrefixSums
    <3>6. batch[1] = w
      BY <1>t, <2>1, TailShape
    <3> HIDE DEF w
    <3> QED
      BY <1>t, <2>1, <3>1, <3>3, <3>4, <3>5, <3>6 DEF Bytes
  <2>4. ASSUME open, NEW i \in DOMAIN chunks, chunks[i] # CloseMark PROVE NothingAfter(sent, chunks[i])
    <3>1. CASE i > Len(batch)
      BY <2>2, <2>4, <3>1 DEF OrderInv
    <3>2. CASE ~(i > Len(batch))
      <4>1. i \in DOMAIN batch /\ batch[i] = chunks[i]
        BY <1>l, <3>2
      <4> QED
        BY <2>3, <2>4, <4>1
    <3> QED
      BY <3>1, <3>2
  <2>5. open' => \A v \in ToSet(pendings') \ {CloseMark} : NothingAfter(sent', v)
    <3>1. open => \A v \in ToSet(chunks) \ {CloseMark} : NothingAfter(sent, v)
      BY <2>4 DEF ToSet
    <3> QED
      BY <2>1, <2>2, <3>1 DEF NothingAfter
  <2> QED
    BY <1>e, <2>1, <2>2, <2>5 DEF OrderInv
<1>8. CASE NextRound
  <2>1. /\ ToSet(stack) = {"complete"} /\ ToSet(stack') = {"round"}
        /\ UNCHANGED <<queue, lifecycle, chunks, batch, bytesLeft, writes>>
    BY <1>8, NextDoes
  <2>2. (Live' <=> Live) /\ Sending /\ ~Calm(stack')
    BY <2>1 DEF Live, Sending, Calm, lifecycle
  <2> QED
    BY <2>1, <2>2 DEF OrderInv, NothingAfter, Bytes, queue, writes
<1>9. CASE AllSent
  <2>1. ToSet(stack') = {"sent"} /\ chunks' = << >> /\ batch' = << >> /\ pendings' = << >>
    BY <1>9, AllSentDoes
  <2>2. ~Sending'
    BY <2>1 DEF Sending
  <2> QED
    BY <1>e, <2>1, <2>2 DEF OrderInv
<1>10. CASE ReachCloseMark
  <2>1. ToSet(stack') = {"fail", "sent"} /\ chunks' = << >> /\ batch' = << >>
    BY <1>10, CloseMarkDoes
  <2>2. ~Sending' /\ ~Calm(stack')
    BY <2>1 DEF Sending, Calm
  <2> QED
    BY <1>e, <2>1, <2>2 DEF OrderInv
<1>11. CASE FailOne
  <2>1. /\ ToSet(stack') = {"listener"} \cup ToSet(stack) /\ "fail" \in ToSet(stack)
        /\ UNCHANGED <<queue, lifecycle, pass, left, sent>>
    BY <1>11, FailDoes DEF ShapeInv
  <2>2. (Live' <=> Live) /\ (Sending' <=> Sending) /\ ~Calm(stack')
    BY <2>1 DEF Live, Sending, Calm, lifecycle
  <2> QED
    BY <2>1, <2>2 DEF OrderInv, NothingAfter, Bytes, queue, pass
<1>12. CASE ResetPendings
  <2>1. pendings' = << >> /\ ~Live'
    BY <1>12, ResetDoes DEF Live
  <2> QED
    BY <1>e, <2>1 DEF OrderInv
<1> QED
  BY <1>1, <1>2, <1>3, <1>4, <1>5, <1>6, <1>7, <1>8, <1>9, <1>10, <1>11, <1>12, Kinds

LEMMA OrderInvariance == Spec => []OrderInv
<1>1. Init => OrderInv
  <2> SUFFICES ASSUME Init PROVE OrderInv
    OBVIOUS
  <2>1. pendings = << >> /\ chunks = << >> /\ batch = << >> /\ stack = << >>
    BY DEF Init
  <2>2. DOMAIN << >> = {} /\ ToSet(<< >>) = {}
    BY EmptyStack, EmptySeq
  <2> QED
    BY <2>1, <2>2 DEF OrderInv, Sending
<1>2. InterestInv /\ ShapeInv /\ OrderInv /\ [Next]_vars => OrderInv'
  BY OrderStep DEF InterestInv
<1> QED
  BY <1>1, <1>2, ShapeInvariance, PTL DEF Spec

\* Once the socket has taken a byte of a write, it takes none of an earlier one,
\* however writes are queued, batched, sent in part, failed, and made from inside
\* the callbacks of a pass or of a close.
THEOREM BytesInOrder == Spec => NoOvertaking
<1> DEFINE Keeps == \A w, v \in Writes : w < v /\ sent[v] > 0 => sent'[w] = sent[w]
<1>1. ASSUME StackInv, ShapeInv, OrderInv, [Next]_vars PROVE Keeps \/ UNCHANGED vars
  <2>t. sent \in [Writes -> Nat] /\ chunks \in Seq(Chunks)
    BY <1>1 DEF ShapeInv, TypeInv
  <2>1. CASE sent' = sent
    BY <2>1
  <2>2. ASSUME NEW n \in Sizes, Write(n) PROVE Keeps
    <3> DEFINE new == written + 1
    <3>1. PICK rest \in 0 .. n, answer \in {"pending", "ok"} : n \in Nat /\ Writing(n, rest, answer)
      BY <1>1, <2>2, WriteDoes DEF ShapeInv
    <3>2. new \in Writes /\ sent' = [sent EXCEPT ![new] = n - rest] /\ written \in Nat
      BY <1>1, <3>1, WritePathAssumption DEF Writing, ShapeInv, TypeInv
    <3>3. \A v \in Writes : sent[v] > 0 => v <= written
      BY <1>1, <2>t, <3>2, WritesAreNumbers DEF ShapeInv, FreshInv
    <3>4. \A w, v \in Writes : w < v /\ sent[v] > 0 => w # new
      BY <3>2, <3>3, WritesAreNumbers
    <3> HIDE DEF new
    <3> QED
      BY <2>t, <3>2, <3>4
  <2>3. CASE SocketTakes(0)
    <3> DEFINE next == PendingWriteBatch
    <3>1. PICK n \in Nat :
            /\ ToSet(stack) = {"round"} /\ batch = << >> /\ IsBeginning(next)
            /\ sent' = [w \in Writes |-> sent[w] + Taken(next, n)[w]]
            /\ n = 0 \/ open
      BY <1>1, <2>3, SendDoes
    <3> HIDE DEF next
    <3>2. /\ Taken(next, n) \in [Writes -> Nat]
          /\ \A w \in Writes \ ToSet(next) : Taken(next, n)[w] = 0
          /\ n = 0 => \A w \in Writes : Taken(next, n)[w] = 0
      BY <1>1, <3>1, TakenIs DEF IsBeginning, ShapeInv, TypeInv
    <3>3. ASSUME NEW w \in Writes, NEW v \in Writes, w < v, sent[v] > 0 PROVE Taken(next, n)[w] = 0
      <4>1. SUFFICES ASSUME open, w \in ToSet(next) PROVE FALSE
        BY <3>1, <3>2
      <4>2. PICK i \in DOMAIN next : w = next[i]
        BY <4>1 DEF ToSet
      <4>3. i \in DOMAIN chunks /\ chunks[i] = w /\ i > Len(batch) /\ w # CloseMark
        BY <2>t, <3>1, <4>2, LenProperties, EmptySeq, WritesAreNumbers DEF IsBeginning
      <4>4. Live
        BY <3>1, <4>1 DEF Live
      <4>5. NothingAfter(sent, w)
        BY <1>1, <4>3, <4>4 DEF OrderInv
      <4>6. sent[v] = 0
        BY <3>3, <4>5, WritesAreNumbers DEF NothingAfter
      <4> QED
        BY <3>3, <4>6
    <3> QED
      BY <2>t, <3>1, <3>2, <3>3
  <2>4. (\E n \in Sizes : Write(n)) \/ SocketTakes(0) \/ sent' = sent
    <3>1. CompleteChunk /\ ~Done(Head(batch)) => sent' = sent
      BY <1>1, CompleteDoes
    <3>2. KeepTail => sent' = sent
      BY <1>1, KeepDoes
    <3>3. NextRound \/ AllSent \/ ReachCloseMark => sent' = sent
      BY <1>1, NextDoes, AllSentDoes, CloseMarkDoes DEF writes
    <3>4. FailOne \/ ResetPendings => sent' = sent
      BY <1>1, FailDoes, ResetDoes DEF ShapeInv, writes
    <3>5. Settles \/ Close \/ (WriteEvent /\ pendings # << >>) => sent' = sent
      BY <1>1, EventDoes DEF Settles, Close, writes
    <3> QED
      BY <1>1, <3>1, <3>2, <3>3, <3>4, <3>5, Kinds
  <2> HIDE DEF Keeps
  <2> QED
    BY <2>1, <2>2, <2>3, <2>4
<1>2. InterestInv /\ ShapeInv /\ OrderInv /\ [Next]_vars => [Keeps]_vars
  BY <1>1 DEF InterestInv
<1> QED
  BY <1>2, ShapeInvariance, OrderInvariance, PTL DEF Spec, NoOvertaking

-----------------------------------------------------------------------------
(* When listeners neither write nor close                                  *)

\* The hypothesis of the comment in WritePath: no calls from inside a future's
\* listener.
QuietListeners == \A p \in Allowed : p[1] # "listener"

\* A list is sent or failed by the code on top of the stack, or by the code
\* that waits for the listener on top.
Atop(s) ==
  s # << >> => \/ Calm(Tail(s))
               \/ Head(s) = "listener" /\ Tail(s) # << >> /\ Calm(Tail(Tail(s)))

QuietInv == Atop(stack) /\ "stale" \notin ToSet(stack)

LEMMA CalmAtop == ASSUME NEW s \in Seq(Labels), Calm(s) PROVE Atop(s)
BY TailShape DEF Atop, Calm

\* Code on top of a stack where no list is being sent or failed.
LEMMA AtopCalm ==
  ASSUME NEW s \in Seq(Labels), Calm(s), NEW l \in Labels, NEW t, t = <<l>> \o s,
         (AtBottom(s) /\ l \notin Bottoms) \/ s = << >>
  PROVE Atop(t)
BY Push DEF Atop

LEMMA CalmEmpty == Calm(<< >>)
BY EmptyStack DEF Calm

LEMMA EmptyNotStale == "stale" \notin ToSet(<< >>)
BY EmptyStack

\* User code then runs only where no list is being sent or failed.
LEMMA QuietCalls ==
  ASSUME StackInv, QuietListeners, QuietInv, NEW call, MayCall(call)
  PROVE Calm(stack)
<1>1. Running \in Contexts /\ Running # "listener"
  <2>1. <<Context, call>> \in Allowed
    BY DEF MayCall
  <2>2. Context \in Contexts /\ Context # "listener"
    BY <2>1, AllowedAssumption DEF QuietListeners
  <2>3. Context = Running \/ Running \in {"task", "writability"}
    BY <2>2 DEF Context, Contexts, UserContexts
  <2> QED
    BY <2>2, <2>3 DEF Contexts, UserContexts
<1>2. CASE stack = << >>
  BY <1>2, CalmEmpty
<1>3. CASE stack # << >>
  <2>1. Running = Head(stack) /\ ToSet(stack) = {Running} \cup ToSet(Tail(stack))
    BY <1>3, RunningIsHead, Pop DEF StackInv
  <2>2. Calm(Tail(stack))
    BY <1>1, <1>3, <2>1 DEF QuietInv, Atop
  <2> QED
    BY <1>1, <2>1, <2>2 DEF Calm, Contexts, UserContexts
<1> QED
  BY <1>2, <1>3

LEMMA QuietStep ==
  ASSUME StackInv, TypeInv, QuietListeners, QuietInv, [Next]_vars
  PROVE QuietInv'
<1>s. stack \in Seq(Labels) /\ AtBottom(stack)
  BY DEF StackInv
<1>1. ASSUME NEW l \in {"listener", "fail"}, Calm(stack), stack' = <<l>> \o stack PROVE QuietInv'
  <2>1. l \in Labels \ Bottoms /\ l # "stale"
    BY LabelSets
  <2>2. ToSet(stack') = {l} \cup ToSet(stack)
    BY <1>1, <2>1, Entering
  <2>3. Atop(stack')
    BY <1>1, <1>s, <2>1, AtopCalm
  <2> QED
    BY <2>1, <2>2, <2>3 DEF QuietInv
<1>2. ASSUME StackInv', Calm(stack'), "stale" \notin ToSet(stack') PROVE QuietInv'
  BY <1>2, CalmAtop DEF QuietInv, StackInv
<1>3. ASSUME Running \in PassLabels, NEW l \in PassLabels, stack' = <<l>> \o Tail(stack) PROVE QuietInv'
  <2>1. ToSet(stack') = {l} /\ Tail(stack) = << >> /\ l \in Labels /\ l # "stale"
    BY <1>3, PassFrames, BottomRuns, LabelSets DEF PassLabels
  <2>2. Atop(stack')
    BY <1>3, <2>1, AtopCalm, CalmEmpty, EmptyStack
  <2> QED
    BY <2>1, <2>2 DEF QuietInv
<1>4. ASSUME NEW n \in Sizes, Write(n) PROVE QuietInv'
  <2>1. Calm(stack)
    BY <1>4, QuietCalls DEF Write
  <2>2. stack' = stack \/ stack' = <<"listener">> \o stack
    BY <1>4, UserFrames
  <2> QED
    BY <1>1, <2>1, <2>2 DEF QuietInv
<1>5. CASE CloseForcibly
  <2>1. Calm(stack) /\ stack' = <<"fail">> \o stack
    BY <1>5, QuietCalls, UserFrames DEF CloseForcibly
  <2> QED
    BY <1>1, <2>1
<1>6. CASE UserReturns
  <2>1. /\ StackInv' /\ stack # << >> /\ stack' = Tail(stack)
        /\ ToSet(stack) = {Running} \cup ToSet(stack')
    BY <1>6, ReturnFrames DEF UserReturns
  <2>2. CASE Calm(Tail(stack))
    BY <1>2, <2>1, <2>2 DEF QuietInv
  <2>3. CASE Tail(stack) # << >> /\ Calm(Tail(Tail(stack)))
    BY <2>1, <2>3 DEF QuietInv, Atop
  <2> QED
    BY <2>1, <2>2, <2>3 DEF QuietInv, Atop
<1>7. CASE WriteEvent
  <2>1. CASE pendings # << >>
    <3>1. stack' = <<"round">> \o << >> /\ "round" \in Labels /\ ToSet(stack') = {"round"}
      BY <1>7, <2>1, EventFrames, LabelSets
    <3> QED
      BY <3>1, AtopCalm, CalmEmpty, EmptyStack DEF QuietInv
  <2>2. CASE pendings = << >>
    <3>1. StackInv' /\ ToSet(stack') \subseteq {"writability"}
      BY <1>7, <2>2, EventFrames
    <3> QED
      BY <1>2, <3>1 DEF Calm
  <2> QED
    BY <2>1, <2>2
<1>8. CASE SocketTakes(0)
  <2>1. PICK n : TrySend(n) /\ Running = "round"
    BY <1>8 DEF SocketTakes
  <2>2. stack' = <<"sent">> \o Tail(stack) \/ stack' = <<"complete">> \o Tail(stack)
    BY <2>1 DEF TrySend, PassEnds
  <2> QED
    BY <1>3, <2>1, <2>2, LabelSets
<1>9. CASE CompleteChunk
  <2>1. /\ StackInv' /\ stack # << >> /\ Tail(stack) = << >> /\ ToSet(stack) = {"complete"}
        /\ stack' = stack \/ stack' = <<"listener">> \o stack
    BY <1>9, CompleteFrames
  <2>2. CASE stack' = <<"listener">> \o stack
    <3>1. /\ Head(stack') = "listener" /\ Tail(stack') = stack
          /\ ToSet(stack') = {"listener"} \cup ToSet(stack)
      BY <1>s, <2>2, Push, LabelSets
    <3> QED
      BY <2>1, <3>1, CalmEmpty DEF QuietInv, Atop
  <2> QED
    BY <2>1, <2>2 DEF QuietInv
<1>10. CASE KeepTail \/ NextRound \/ AllSent
  <2>1. Running \in PassLabels /\ {"sent", "round"} \subseteq PassLabels
    BY <1>10, LabelSets DEF KeepTail, NextRound, AllSent
  <2>2. stack' = <<"sent">> \o Tail(stack) \/ stack' = <<"round">> \o Tail(stack)
    BY <1>10 DEF KeepTail, NextRound, AllSent, PassEnds
  <2> QED
    BY <1>3, <2>1, <2>2
<1>11. CASE AfterPass
  BY <1>2, <1>11, AfterFrames DEF Calm
<1>12. CASE ReachCloseMark
  <2>1. /\ ToSet(stack') = {"fail", "sent"} /\ stack' # << >>
        /\ ToSet(Tail(stack')) = {"sent"}
    BY <1>12, CloseMarkFrames
  <2> QED
    BY <2>1 DEF QuietInv, Atop, Calm
<1>13. CASE EndOfFile
  BY <1>1, <1>13, CalmEmpty DEF EndOfFile
<1>14. CASE FailOne
  <2>1. stack # << >> /\ Head(stack) = "fail" /\ stack' = <<"listener">> \o stack
    BY <1>14, FailFrames
  <2>2. /\ Head(stack') = "listener" /\ Tail(stack') = stack
        /\ ToSet(stack') = {"listener"} \cup ToSet(stack)
    BY <1>s, <2>1, Push, LabelSets
  <2> QED
    BY <2>1, <2>2 DEF QuietInv, Atop
<1>15. CASE ResetPendings
  <2>1. /\ StackInv' /\ Running \in {"fail", "stale"}
        /\ ToSet(stack) = {Running} \cup ToSet(Tail(stack))
        /\ ToSet(stack') \subseteq {"socket", "closing", "stale"} \cup (ToSet(Tail(stack)) \ {"fail"})
        /\ "stale" \in ToSet(stack') => "stale" \in ToSet(Tail(stack)) \/ "fail" \in ToSet(Tail(stack))
    BY <1>15, ResetFrames
  <2>2. Running = Head(stack) /\ stack # << >>
    BY <2>1, LibraryRuns
  <2>3. Calm(Tail(stack))
    BY <2>1, <2>2 DEF QuietInv, Atop
  <2> QED
    BY <1>2, <2>1, <2>3 DEF QuietInv, Calm
<1>16. CASE CloseSocket \/ SetInactive \/ Unregister
  <2>1. /\ StackInv' /\ Running \in {"socket", "inactive", "unregister"}
        /\ stack # << >> /\ Running = Head(stack)
        /\ ToSet(stack) = {Running} \cup ToSet(Tail(stack))
        /\ ToSet(stack') \subseteq {"closing", "inactive", "unregister"} \cup ToSet(Tail(stack))
    BY <1>16, CloseFrames
  <2>2. Calm(Tail(stack))
    BY <2>1 DEF QuietInv, Atop
  <2> QED
    BY <1>2, <2>1, <2>2 DEF QuietInv, Calm
<1>17. CASE Close \/ UNCHANGED vars
  BY <1>17, UserFrames DEF vars, QuietInv
<1> QED
  BY <1>4, <1>5, <1>6, <1>7, <1>8, <1>9, <1>10, <1>11, <1>12, <1>13, <1>14, <1>15, <1>16, <1>17
  DEF Next, UserStep, LibraryStep

-----------------------------------------------------------------------------
(* The counter behind the water marks                                      *)

\* What a pass still has to send, or what is queued between passes, is counted:
\* at least as long as the channel is open, and exactly if listeners are quiet.
BytesInv ==
  /\ pendingBytes \in Nat
  /\ Sending /\ (Live \/ QuietListeners) => Bytes(chunks) <= pendingBytes + bytesLeft
  /\ Sending /\ QuietListeners => pendingBytes + bytesLeft <= Bytes(chunks)
  /\ Calm(stack) /\ (open \/ QuietListeners) => Bytes(pendings) <= pendingBytes
  /\ Calm(stack) /\ QuietListeners => pendingBytes <= Bytes(pendings)

LEMMA CalmSends == Calm(stack) => ~Sending
BY DEF Calm, Sending

\* The socket takes no more than the local list holds.
LEMMA BatchBytes ==
  ASSUME ShapeInv, chunks # << >>, Head(chunks) # CloseMark
  PROVE Bytes(PendingWriteBatch) <= Bytes(chunks)
<1>1. chunks \in Seq(Chunks) /\ left \in [Chunks -> Nat] /\ Len(chunks) \in Nat
  BY LenProperties DEF ShapeInv, TypeInv
<1>2. PICK k \in 1 .. Len(chunks) : PendingWriteBatch = First(chunks, k)
  BY <1>1, BatchIs
<1>3. k \in 0 .. Len(chunks) /\ Len(chunks) \in k .. Len(chunks)
  BY <1>1
<1>4. Total(left, First(chunks, k)) <= Total(left, First(chunks, Len(chunks)))
  BY <1>1, <1>3, PrefixSumsGrow
<1>5. Total(left, First(chunks, Len(chunks))) = Total(left, chunks)
  BY <1>1, PrefixSums
<1> QED
  BY <1>2, <1>4, <1>5 DEF Bytes

LEMMA BytesStep ==
  ASSUME StackInv, ShapeInv, QuietListeners => QuietInv, BytesInv, [Next]_vars
  PROVE BytesInv'
<1>t. /\ pendings \in Seq(Chunks) /\ chunks \in Seq(Chunks) /\ bytesLeft \in Nat /\ pendingBytes \in Nat
      /\ left \in [Chunks -> Nat] /\ left[CloseMark] = 0 /\ written \in Nat
      /\ Ascending(pendings, written) /\ Ascending(chunks, written)
  BY WritePathAssumption DEF ShapeInv, TypeInv, SortedInv, BytesInv
<1>n. Bytes(pendings) \in Nat /\ Bytes(chunks) \in Nat
  BY <1>t, TotalNat DEF Bytes
<1>e. Bytes(<< >>) = 0 /\ Bytes(<< >>)' = 0
  BY TotalEmpty DEF Bytes
<1>b. "complete" \notin ToSet(stack) => bytesLeft = 0
  BY DEF ShapeInv, BatchInv
\* Bytes are added to the queue, and to the local list if it is the same.
<1>a. ASSUME UNCHANGED <<bytesLeft, open>>, NEW b \in Nat,
             Live' => Live, Sending' <=> Sending, Calm(stack') => Calm(stack),
             QuietListeners => Calm(stack) \/ b = 0,
             pendingBytes' = pendingBytes + b,
             Bytes(pendings)' = Bytes(pendings) + b,
             Bytes(chunks)' \in {Bytes(chunks), Bytes(chunks) + b}
      PROVE BytesInv'
  <2>1. pendingBytes' \in Nat
    BY <1>t, <1>a
  <2>2. Sending' /\ (Live' \/ QuietListeners) => Bytes(chunks)' <= pendingBytes' + bytesLeft'
    BY <1>t, <1>n, <1>a DEF BytesInv
  <2>3. Sending' /\ QuietListeners => pendingBytes' + bytesLeft' <= Bytes(chunks)'
    BY <1>t, <1>n, <1>a, CalmSends DEF BytesInv
  <2>4. Calm(stack') /\ (open' \/ QuietListeners) => Bytes(pendings)' <= pendingBytes'
    BY <1>t, <1>n, <1>a DEF BytesInv
  <2>5. Calm(stack') /\ QuietListeners => pendingBytes' <= Bytes(pendings)'
    BY <1>t, <1>n, <1>a DEF BytesInv
  <2> QED
    BY <2>1, <2>2, <2>3, <2>4, <2>5 DEF BytesInv
\* A pass ends: what is left of the local list is the queue.
<1>p. ASSUME ToSet(stack) \in {{"round"}, {"complete"}}, ToSet(stack') = {"sent"}, UNCHANGED lifecycle,
             pendingBytes' = pendingBytes,
             Bytes(pendings)' + bytesLeft = Bytes(chunks), Bytes(pendings)' \in Nat
      PROVE BytesInv'
  <2>1. ~Sending' /\ Sending /\ (open' \/ QuietListeners => Live \/ QuietListeners)
    BY <1>p DEF Sending, Live, lifecycle
  <2>2. Bytes(chunks) <= pendingBytes + bytesLeft => Bytes(pendings)' <= pendingBytes'
    BY <1>t, <1>p
  <2>3. pendingBytes + bytesLeft <= Bytes(chunks) => pendingBytes' <= Bytes(pendings)'
    BY <1>t, <1>p
  <2>4. pendingBytes' \in Nat
    BY <1>t, <1>p
  <2> QED
    BY <2>1, <2>2, <2>3, <2>4 DEF BytesInv
\* Neither a pass goes on nor is the queue at rest.
<1>q. ASSUME ~Sending', ~Calm(stack'), pendingBytes' = pendingBytes PROVE BytesInv'
  BY <1>t, <1>q DEF BytesInv
<1>1. CASE Settles
  <2>1. (Live' => Live) /\ (open' => open) /\ (Sending' <=> Sending) /\ (Calm(stack') => Calm(stack))
    BY <1>1, CalmSettles DEF Settles, Live, Sending
  <2>2. UNCHANGED <<pendings, pendingBytes, chunks, bytesLeft, left>>
    BY <1>1 DEF Settles, pass, writes
  <2>3. UNCHANGED <<Bytes(pendings), Bytes(chunks)>>
    BY <2>2 DEF Bytes
  <2> QED
    BY <2>1, <2>2, <2>3 DEF BytesInv
<1>2. ASSUME NEW n \in Sizes, Write(n) PROVE BytesInv'
  <2> DEFINE w == written + 1
  <2>1. PICK rest \in 0 .. n, answer \in {"pending", "ok"} : n \in Nat /\ Writing(n, rest, answer)
    BY <1>2, WriteDoes DEF ShapeInv
  <2>2. /\ w \in Writes /\ w \in Chunks /\ w # CloseMark /\ rest \in Nat
        /\ left' = [left EXCEPT ![w] = rest] /\ bytesLeft' = bytesLeft /\ open' = open
    BY <1>t, <2>1, WritesAreNumbers DEF Writing, lifecycle
  <2>3. \/ UNCHANGED <<pendings, chunks, pendingBytes>> /\ rest = 0
        \/ /\ pendings' = Append(pendings, w) /\ chunks' \in {chunks, Append(chunks, w)}
           /\ pendingBytes' = pendingBytes + rest
    BY <2>1 DEF Writing, AddPending, queue
  <2>4. (Live' => Live) /\ (Sending' <=> Sending) /\ (Calm(stack') => Calm(stack))
    <3>1. ToSet(stack') \cap {"round", "complete", "fail", "socket"} = ToSet(stack) \cap {"round", "complete", "fail", "socket"}
      BY <1>2, UserFrames, Entering, LabelSets
    <3> QED
      BY <2>2, <3>1 DEF Live, Sending, Calm
  <2>5. QuietListeners => Calm(stack)
    BY <1>2, QuietCalls DEF Write
  <2>6. \A v \in ToSet(pendings) \cup ToSet(chunks) : v \in Chunks /\ v # w
    <3>1. \A v \in ToSet(pendings) \cup ToSet(chunks) : v \in Chunks
      BY <1>t, ElementOfSeq, LenProperties DEF ToSet
    <3> QED
      BY <1>t, <2>2, <3>1, WritesAreNumbers DEF ToSet, Ascending
  <2> HIDE DEF w
  <2>7. \A v \in ToSet(pendings) \cup ToSet(chunks) : left'[v] = left[v]
    BY <1>t, <2>2, <2>6
  <2>8. Total(left', pendings) = Total(left, pendings) /\ Total(left', chunks) = Total(left, chunks)
    BY <1>t, <2>7, BytesSame
  <2>9. left' \in [Chunks -> Nat] /\ left'[w] = rest
    BY <1>t, <2>2
  <2>10. \A s \in Seq(Chunks) : Total(left', Append(s, w)) = Total(left', s) + rest
    <3>1. \A f \in [Chunks -> Nat], s \in Seq(Chunks) : Total(f, Append(s, w)) = Total(f, s) + f[w]
      BY <2>2, TotalAppend
    <3> QED
      BY <2>9, <3>1
  <2>11. Bytes(pendings)' = Bytes(pendings) + rest
    <3>1. CASE pendings' = pendings /\ rest = 0
      BY <1>n, <2>8, <3>1 DEF Bytes
    <3>2. CASE pendings' = Append(pendings, w)
      <4>1. Total(left', Append(pendings, w)) = Total(left', pendings) + rest
        BY <1>t, <2>10
      <4> QED
        BY <2>8, <3>2, <4>1 DEF Bytes
    <3> QED
      BY <2>3, <3>1, <3>2
  <2>12. Bytes(chunks)' \in {Bytes(chunks), Bytes(chunks) + rest}
    <3>1. Total(left', Append(chunks, w)) = Total(left', chunks) + rest
      BY <1>t, <2>10
    <3> QED
      BY <2>3, <2>8, <3>1 DEF Bytes
  <2>13. pendingBytes' = pendingBytes + rest
    BY <1>t, <2>3
  <2> QED
    BY <1>a, <2>2, <2>4, <2>5, <2>11, <2>12, <2>13
<1>3. CASE Close
  <2>1. /\ pendings' = Append(pendings, CloseMark) /\ chunks' \in {chunks, Append(chunks, CloseMark)}
        /\ pendingBytes' = pendingBytes + 0 /\ UNCHANGED <<stack, left, bytesLeft, open>>
    BY <1>3 DEF Close, AddPending, lifecycle, writes
  <2>2. /\ Total(left, Append(pendings, CloseMark)) = Total(left, pendings) + 0
        /\ Total(left, Append(chunks, CloseMark)) = Total(left, chunks) + 0
    BY <1>t, WritesAreNumbers, TotalAppend
  <2>3. Bytes(pendings)' = Bytes(pendings) + 0 /\ Bytes(chunks)' \in {Bytes(chunks), Bytes(chunks) + 0}
    BY <2>1, <2>2 DEF Bytes
  <2>4. (Live' => Live) /\ (Sending' <=> Sending) /\ (Calm(stack') => Calm(stack))
    BY <2>1 DEF Live, Sending
  <2> QED
    BY <1>a, <2>1, <2>3, <2>4
<1>4. CASE WriteEvent /\ pendings # << >>
  <2>1. /\ ToSet(stack) = {} /\ ToSet(stack') = {"round"} /\ chunks' = pendings
        /\ UNCHANGED <<pendingBytes, open, left, bytesLeft>>
    BY <1>4, EventDoes DEF queue, lifecycle, writes
  <2>2. Calm(stack) /\ ~Calm(stack') /\ (Live' => open) /\ bytesLeft = 0
    BY <1>b, <2>1 DEF Calm, Live
  <2>3. Bytes(chunks)' = Bytes(pendings)
    BY <2>1 DEF Bytes
  <2> QED
    BY <1>t, <1>n, <2>1, <2>2, <2>3 DEF BytesInv
<1>5. CASE SocketTakes(0)
  <2>1. PICK n \in Nat :
          /\ n <= Bytes(PendingWriteBatch) /\ ToSet(stack) = {"round"} /\ bytesLeft = 0
          /\ UNCHANGED <<lifecycle, left>> /\ pendingBytes' = pendingBytes - n
          /\ \/ n = 0 /\ ToSet(stack') = {"sent"} /\ pendings' = chunks
             \/ /\ n # 0 /\ open /\ ToSet(stack') = {"complete"}
                /\ bytesLeft' = n /\ UNCHANGED <<pendings, chunks, aliased>>
    BY <1>5, SendDoes
  <2>2. CASE n = 0
    <3>1. Bytes(pendings)' + bytesLeft = Bytes(chunks)
      BY <1>n, <2>1, <2>2 DEF Bytes
    <3>2. Bytes(pendings)' \in Nat
      BY <1>n, <2>1, <2>2 DEF Bytes
    <3>3. pendingBytes' = pendingBytes
      BY <1>t, <2>1, <2>2
    <3> QED
      BY <1>p, <2>1, <2>2, <3>1, <3>2, <3>3
  <2>3. CASE n # 0
    <3>1. Sending /\ Live /\ ~Calm(stack') /\ open
      BY <2>1, <2>3 DEF Sending, Live, Calm
    <3>2. Bytes(PendingWriteBatch) <= Bytes(chunks) /\ Bytes(PendingWriteBatch) \in Nat
      <4>1. PendingWriteBatch \in Seq(Chunks)
        BY <1>5, NextBatch, WritesAreChunks DEF SocketTakes, IsBeginning
      <4> QED
        BY <1>5, <1>t, <4>1, BatchBytes, TotalNat DEF SocketTakes, Bytes
    <3>3. n <= pendingBytes
      BY <1>t, <1>n, <2>1, <3>1, <3>2 DEF BytesInv
    <3>4. pendingBytes' \in Nat /\ pendingBytes' + bytesLeft' = pendingBytes + bytesLeft
      BY <1>t, <2>1, <2>3, <3>3
    <3>5. Bytes(chunks)' = Bytes(chunks)
      BY <2>1, <2>3 DEF Bytes
    <3> QED
      BY <3>1, <3>4, <3>5 DEF BytesInv
  <2> QED
    BY <2>2, <2>3
<1>6. CASE CompleteChunk /\ ~Done(Head(batch))
  <2> DEFINE w == Head(batch)
  <2>1. /\ left[w] <= bytesLeft /\ bytesLeft' = bytesLeft - left[w] /\ batch # << >>
        /\ ToSet(stack) = {"complete"} /\ ToSet(stack') = {"listener", "complete"}
        /\ chunks' = Tail(chunks) /\ UNCHANGED <<left, pendingBytes, open>>
    BY <1>6, CompleteDoes DEF queue, lifecycle
  <2>2. chunks # << >> /\ Head(chunks) = w /\ w \in Chunks
    BY <2>1, HeadOfBatch, WritesAreNumbers
  <2>3. Total(left, chunks) = left[w] + Total(left, Tail(chunks))
    BY <1>t, <2>2, TotalTail
  <2>4. left[w] \in Nat /\ Total(left, Tail(chunks)) \in Nat
    BY <1>t, <2>2, TailShape, TotalNat
  <2>5. Bytes(chunks)' = Total(left, Tail(chunks)) /\ Bytes(chunks) = Total(left, chunks)
    BY <2>1 DEF Bytes
  <2> HIDE DEF w
  <2>6. Sending /\ ~Calm(stack') /\ (Live' => Live)
    BY <2>1 DEF Sending, Calm, Live
  <2>7. Bytes(chunks) <= pendingBytes + bytesLeft => Bytes(chunks)' <= pendingBytes' + bytesLeft'
    BY <1>t, <2>1, <2>3, <2>4, <2>5
  <2>8. pendingBytes + bytesLeft <= Bytes(chunks) => pendingBytes' + bytesLeft' <= Bytes(chunks)'
    BY <1>t, <2>1, <2>3, <2>4, <2>5
  <2> QED
    BY <1>t, <2>1, <2>6, <2>7, <2>8 DEF BytesInv
<1>7. CASE KeepTail
  <2> DEFINE w == Head(batch)
  <2>1. /\ batch # << >> /\ bytesLeft < left[w] /\ left[w] \in Nat
        /\ ToSet(stack) = {"complete"} /\ ToSet(stack') = {"sent"}
        /\ left' = [left EXCEPT ![w] = left[w] - bytesLeft]
        /\ pendings' = chunks /\ UNCHANGED <<pendingBytes, lifecycle>>
    BY <1>7, KeepDoes
  <2>2. chunks # << >> /\ Head(chunks) = w /\ w \in Chunks /\ w \notin ToSet(Tail(chunks))
    BY <2>1, HeadOfBatch, WritesAreNumbers
  <2>3. Tail(chunks) \in Seq(Chunks) /\ left[w] - bytesLeft \in Nat
    BY <1>t, <2>1, <2>2, TailShape
  <2>4. Total(left, chunks) = left[w] + Total(left, Tail(chunks)) /\ Total(left, Tail(chunks)) \in Nat
    BY <1>t, <2>2, <2>3, TotalTail, TotalNat
  <2> HIDE DEF w
  <2>5. left' \in [Chunks -> Nat] /\ left'[w] = left[w] - bytesLeft
    BY <1>t, <2>1, <2>2, <2>3
  <2>6. Total(left', chunks) = left'[w] + Total(left', Tail(chunks))
    BY <1>t, <2>2, <2>5, TotalTail
  <2>7. \A v \in ToSet(Tail(chunks)) : left'[v] = left[v]
    <3>1. \A v \in ToSet(Tail(chunks)) : v \in Chunks /\ v # w
      BY <2>2, <2>3, ElementOfSeq, LenProperties DEF ToSet
    <3> QED
      BY <1>t, <2>1, <3>1
  <2>8. Total(left', Tail(chunks)) = Total(left, Tail(chunks))
    BY <1>t, <2>3, <2>7, BytesSame
  <2>9. Bytes(pendings)' = Total(left', chunks) /\ Bytes(chunks) = Total(left, chunks)
    BY <2>1 DEF Bytes
  <2>10. Bytes(pendings)' + bytesLeft = Bytes(chunks) /\ Bytes(pendings)' \in Nat
    BY <1>t, <2>1, <2>3, <2>4, <2>5, <2>6, <2>8, <2>9
  <2> QED
    BY <1>p, <2>1, <2>10
<1>8. CASE NextRound
  <2>1. /\ ToSet(stack) = {"complete"} /\ ToSet(stack') = {"round"}
        /\ UNCHANGED <<pendingBytes, open, chunks, bytesLeft, left>>
    BY <1>8, NextDoes DEF queue, lifecycle, writes
  <2>2. Sending /\ ~Calm(stack') /\ (Live' => Live) /\ Bytes(chunks)' = Bytes(chunks)
    BY <2>1 DEF Sending, Calm, Live, Bytes
  <2> QED
    BY <1>t, <2>1, <2>2 DEF BytesInv
<1>9. CASE AllSent
  <2>1. /\ ToSet(stack) = {"round"} /\ ToSet(stack') = {"sent"} /\ pendings' = << >> /\ chunks = << >>
        /\ bytesLeft = 0 /\ UNCHANGED <<pendingBytes, lifecycle>>
    BY <1>9, AllSentDoes
  <2>2. Bytes(pendings)' = 0 /\ Bytes(chunks) = 0
    BY <2>1, TotalEmpty DEF Bytes
  <2> QED
    BY <1>p, <2>1, <2>2
<1>10. CASE ReachCloseMark
  <2>1. ToSet(stack') = {"fail", "sent"} /\ pendingBytes' = pendingBytes
    BY <1>10, CloseMarkDoes DEF queue
  <2> QED
    BY <1>q, <2>1 DEF Sending, Calm
<1>11. CASE FailOne
  <2>1. /\ ToSet(stack') = {"listener"} \cup ToSet(stack) /\ "fail" \in ToSet(stack)
        /\ UNCHANGED <<pendingBytes, open, chunks, bytesLeft, left>>
    BY <1>11, FailDoes DEF ShapeInv, queue, lifecycle, pass
  <2>2. (Sending' <=> Sending) /\ ~Calm(stack') /\ (Live' => Live) /\ Bytes(chunks)' = Bytes(chunks)
    BY <2>1 DEF Sending, Calm, Live, Bytes
  <2> QED
    BY <1>t, <2>1, <2>2 DEF BytesInv
<1>12. CASE ResetPendings
  <2>1. /\ "socket" \in ToSet(stack') /\ pendings' = << >> /\ pendingBytes' = 0
        /\ ToSet(stack') \cap {"round", "complete"} = ToSet(stack) \cap {"round", "complete"}
        /\ Running \in {"fail", "stale"}
    BY <1>12, ResetDoes
  <2>2. Bytes(pendings)' = 0
    BY <2>1, TotalEmpty DEF Bytes
  <2>3. QuietListeners => ~Sending
    <3>1. stack # << >> /\ Running = Head(stack) /\ ToSet(stack) = {Running} \cup ToSet(Tail(stack))
      BY <2>1, LibraryRuns, Pop DEF StackInv
    <3>2. QuietListeners => Calm(Tail(stack))
      BY <2>1, <3>1 DEF QuietInv, Atop
    <3> QED
      BY <2>1, <3>1, <3>2 DEF Calm, Sending
  <2>4. ~Live' /\ (Sending' <=> Sending)
    BY <2>1 DEF Live, Sending
  <2> QED
    BY <2>1, <2>2, <2>3, <2>4 DEF BytesInv
<1> QED
  BY <1>1, <1>2, <1>3, <1>4, <1>5, <1>6, <1>7, <1>8, <1>9, <1>10, <1>11, <1>12, Kinds

LEMMA BytesInvariance == Spec => [](BytesInv /\ (QuietListeners => QuietInv))
<1>1. Init => BytesInv /\ QuietInv
  <2> SUFFICES ASSUME Init PROVE BytesInv /\ QuietInv
    OBVIOUS
  <2>1. pendings = << >> /\ pendingBytes = 0 /\ stack = << >>
    BY DEF Init
  <2>2. Bytes(<< >>) = 0
    BY TotalEmpty DEF Bytes
  <2>3. ~Sending
    BY <2>1, CalmEmpty, CalmSends
  <2> QED
    BY <2>1, <2>2, <2>3, EmptyNotStale DEF BytesInv, QuietInv, Atop
<1>2. InterestInv /\ ShapeInv /\ (BytesInv /\ (QuietListeners => QuietInv)) /\ [Next]_vars
        => BytesInv' /\ (QuietListeners => QuietInv')
  BY BytesStep, QuietStep DEF InterestInv, ShapeInv
<1>3. (BytesInv /\ (QuietListeners => QuietInv))' <=> BytesInv' /\ (QuietListeners => QuietInv')
  OBVIOUS
<1> QED
  BY <1>1, <1>2, <1>3, ShapeInvariance, PTL DEF Spec

Switches ==
  /\ writable \in BOOLEAN /\ writeFlag \in BOOLEAN /\ aliased \in BOOLEAN /\ crashed \in BOOLEAN
  /\ open \in BOOLEAN /\ closeDone \in BOOLEAN /\ active \in BOOLEAN /\ registered \in BOOLEAN

LEMMA SwitchesStep == ASSUME Switches, [Next]_vars PROVE Switches'
<1>w. ASSUME NEW bytes, NEW context, NEW callers, CheckWritability(bytes, context, callers)
      PROVE writable' \in BOOLEAN
  BY <1>w DEF CheckWritability, Switches
<1>1. ASSUME NEW n \in Sizes, Write(n) PROVE Switches'
  BY <1>1 DEF Write, Queued, AddPending, queue, lifecycle, Switches
<1>2. CASE Close \/ CloseForcibly \/ UserReturns \/ EndOfFile
  BY <1>2 DEF Close, CloseForcibly, UserReturns, EndOfFile, AddPending, queue, lifecycle, pass, Switches
<1>3. CASE WriteEvent
  <2>1. writable' \in BOOLEAN
    BY <1>w, <1>3 DEF WriteEvent, queue, Switches
  <2> QED
    BY <1>3, <2>1 DEF WriteEvent, queue, lifecycle, pass, Switches
<1>4. CASE AfterPass
  <2>1. writable' \in BOOLEAN
    BY <1>w, <1>4 DEF AfterPass
  <2>2. writeFlag' \in BOOLEAN
    BY <1>4 DEF AfterPass
  <2> QED
    BY <1>4, <2>1, <2>2 DEF AfterPass, lifecycle, pass, Switches
<1>5. CASE SocketTakes(0)
  BY <1>5 DEF SocketTakes, TrySend, PassEnds, SetPendings, lifecycle, Switches
<1>6. CASE CompleteChunk
  BY <1>6 DEF CompleteChunk, queue, lifecycle, pass, Switches
<1>7. CASE KeepTail \/ AllSent
  BY <1>7 DEF KeepTail, AllSent, PassEnds, SetPendings, lifecycle, Switches
<1>8. CASE NextRound \/ ReachCloseMark \/ FailOne
  BY <1>8 DEF NextRound, ReachCloseMark, FailOne, queue, lifecycle, pass, Switches
<1>9. CASE ResetPendings
  <2>1. writable' \in BOOLEAN
    BY <1>w, <1>9 DEF ResetPendings
  <2> QED
    BY <1>9, <2>1 DEF ResetPendings, lifecycle, Switches
<1>10. CASE CloseSocket \/ SetInactive \/ Unregister
  BY <1>10 DEF CloseSocket, SetInactive, Unregister, queue, lifecycle, pass, Switches
<1>11. CASE UNCHANGED vars
  BY <1>11 DEF vars, queue, lifecycle, pass, Switches
<1> QED
  BY <1>1, <1>2, <1>3, <1>4, <1>5, <1>6, <1>7, <1>8, <1>9, <1>10, <1>11
  DEF Next, UserStep, LibraryStep

\* Every variable has its type.  That pendingBytes is never negative, although a
\* close may reset it while a pass goes on sending, rests on the order of the
\* close: the socket takes nothing of a channel whose counter was reset.
THEOREM WriteTypes == Spec => []TypeOK
<1>1. Init => Switches
  BY DEF Init, Switches
<1>2. Switches /\ [Next]_vars => Switches'
  BY SwitchesStep
<1>3. InterestInv /\ ShapeInv /\ BytesInv /\ Switches => TypeOK
  BY DEF InterestInv, StackInv, ShapeInv, TypeInv, BytesInv, Switches, TypeOK
<1> QED
  BY <1>1, <1>2, <1>3, ShapeInvariance, BytesInvariance, PTL DEF Spec

\* Between callbacks the counter behind the water marks is what is queued.
THEOREM QueueIsCounted == ASSUME QuietListeners PROVE Spec => []BytesAccountedFor
<1>1. InterestInv /\ ShapeInv /\ BytesInv => BytesAccountedFor
  <2> SUFFICES ASSUME ShapeInv, BytesInv, stack = << >> PROVE pendingBytes = Bytes(pendings)
    BY DEF BytesAccountedFor
  <2>1. Bytes(pendings) \in Nat /\ pendingBytes \in Nat
    BY TotalNat DEF ShapeInv, TypeInv, BytesInv, Bytes
  <2> QED
    BY <2>1, CalmEmpty DEF BytesInv
<1> QED
  BY <1>1, ShapeInvariance, BytesInvariance, PTL

\* A channel that has nothing to send, and has said so, is writable.
DrainInv == pendings = << >> /\ ~writeFlag => writable

LEMMA DrainStep ==
  ASSUME InterestInv, ShapeInv, QuietListeners, BytesInv, DrainInv, [Next]_vars
  PROVE DrainInv'
<1>i. StackInv
  BY DEF InterestInv
<1>m. 0 < High /\ 0 <= Low /\ High \in Nat
  BY WritePathAssumption
<1>w. ASSUME NEW context, NEW callers, CheckWritability(0, context, callers) PROVE writable'
  <2>1. ~(0 >= High) /\ 0 <= Low
    BY <1>m
  <2>2. writable' = IF 0 >= High THEN FALSE ELSE 0 <= Low \/ writable
    BY <1>w DEF CheckWritability
  <2> QED
    BY <2>1, <2>2, Zenon
<1>b. Calm(stack) /\ pendings = << >> => pendingBytes = 0
  <2>1. Bytes(<< >>) = 0
    BY TotalEmpty DEF Bytes
  <2> QED
    BY <2>1 DEF BytesInv
<1>s. ASSUME UNCHANGED <<pendings, writable, writeFlag>> PROVE DrainInv'
  BY <1>s DEF DrainInv
<1>1. ASSUME NEW n \in Sizes, Write(n) PROVE DrainInv'
  BY <1>1, <1>s DEF Write, Queued, AddPending, DrainInv, queue
<1>2. CASE Close
  BY <1>2 DEF Close, AddPending, DrainInv
<1>3. CASE WriteEvent
  <2>1. CASE pendings # << >>
    BY <1>3, <1>s, <2>1 DEF WriteEvent, queue
  <2>2. CASE pendings = << >>
    <3>1. CheckWritability(0, "writability", << >>)
      BY <1>3, <1>b, <2>2, CalmEmpty DEF WriteEvent
    <3> QED
      BY <1>w, <3>1 DEF DrainInv
  <2> QED
    BY <2>1, <2>2
<1>4. CASE AfterPass
  <2>1. pendings' = pendings /\ (writeFlag' => writeFlag)
    BY <1>4 DEF AfterPass
  <2>2. CASE pendings = << >>
    <3>1. Calm(stack)
      BY <1>i, <1>4, AfterFrames DEF Calm
    <3>2. CheckWritability(0, "writability", Tail(stack))
      BY <1>4, <1>b, <2>2, <3>1 DEF AfterPass
    <3> QED
      BY <1>w, <3>2 DEF DrainInv
  <2> QED
    BY <2>1, <2>2 DEF DrainInv
\* A pass has kept its interest.
<1>p. ASSUME Running \in {"round", "complete"}, writeFlag' = writeFlag PROVE DrainInv'
  <2>1. Running \in Bottoms
    BY <1>p, LabelSets DEF PassLabels
  <2>2. Sending
    BY <1>i, <1>p, <2>1, BottomRuns DEF Sending
  <2> QED
    BY <1>p, <2>2 DEF InterestInv, FlagInv, DrainInv
<1>5. CASE SocketTakes(0)
  BY <1>5, <1>p DEF SocketTakes, TrySend
<1>6. CASE KeepTail \/ AllSent
  BY <1>6, <1>p DEF KeepTail, AllSent
<1>7. CASE ResetPendings
  <2>1. PICK callers : CheckWritability(0, "closing", callers)
    BY <1>7 DEF ResetPendings
  <2> QED
    BY <1>w, <2>1 DEF DrainInv
<1>8. CASE \/ CloseForcibly \/ UserReturns \/ EndOfFile \/ CompleteChunk \/ NextRound \/ ReachCloseMark
           \/ FailOne \/ CloseSocket \/ SetInactive \/ Unregister \/ UNCHANGED vars
  <2>1. UNCHANGED queue
    BY <1>8 DEF CloseForcibly, UserReturns, EndOfFile, CompleteChunk, NextRound, ReachCloseMark,
                FailOne, CloseSocket, SetInactive, Unregister, vars
  <2> QED
    BY <1>s, <2>1 DEF queue
<1> QED
  BY <1>1, <1>2, <1>3, <1>4, <1>5, <1>6, <1>7, <1>8 DEF Next, UserStep, LibraryStep

\* A drained channel is writable: no count is left behind that would hold the
\* writer up for good.
THEOREM DrainedIsWritable == ASSUME QuietListeners PROVE Spec => []WritableWhenDrained
<1>1. Init => DrainInv
  BY DEF Init, DrainInv
<1>2. InterestInv /\ ShapeInv /\ BytesInv /\ DrainInv /\ [Next]_vars => DrainInv'
  BY DrainStep
<1>3. DrainInv => WritableWhenDrained
  BY DEF DrainInv, WritableWhenDrained
<1> QED
  BY <1>1, <1>2, <1>3, InterestInvariance, ShapeInvariance, BytesInvariance, PTL DEF Spec

-----------------------------------------------------------------------------
(* No write is forgotten                                                   *)

\* An unanswered write is queued, and a running pass is going to send it.
KeptInv ==
  \A w \in Writes : future[w] = "pending" =>
    w \in ToSet(pendings) /\ (Sending => w \in ToSet(chunks))

LEMMA KeptStep ==
  ASSUME StackInv, ShapeInv, QuietListeners, 0 \notin Sizes, QuietInv, KeptInv, [Next]_vars
  PROVE KeptInv'
<1>t. /\ pendings \in Seq(Chunks) /\ chunks \in Seq(Chunks) /\ written \in Nat
      /\ future \in [Writes -> {"none", "pending", "ok", "failed"}]
  BY WritePathAssumption DEF ShapeInv, TypeInv
<1>e. ToSet(<< >>) = {}
  BY EmptyStack
\* Nothing new is unanswered, and the queue holds what the pass held.
<1>p. ASSUME future' = future, Sending, ~Sending', pendings' = chunks PROVE KeptInv'
  BY <1>p DEF KeptInv
<1>s. ASSUME UNCHANGED <<future, pendings, chunks>>, Sending' => Sending PROVE KeptInv'
  BY <1>s DEF KeptInv
<1>1. CASE Settles
  BY <1>1, <1>s DEF Settles, Sending, pass, writes
<1>2. ASSUME NEW n \in Sizes, Write(n) PROVE KeptInv'
  <2> DEFINE w == written + 1
  <2>1. PICK rest \in 0 .. n, answer \in {"pending", "ok"} : n \in Nat /\ Writing(n, rest, answer)
    BY <1>2, WriteDoes DEF ShapeInv
  <2>2. w \in Writes /\ w \in Chunks /\ future' = [future EXCEPT ![w] = answer] /\ n # 0
    BY <2>1, WritesAreNumbers DEF Writing
  <2>3. \/ answer = "ok" /\ pendings' = pendings
        \/ answer = "pending" /\ pendings' = Append(pendings, w)
    BY <2>1, <2>2 DEF Writing, AddPending, queue
  <2>4. ToSet(Append(pendings, w)) = ToSet(pendings) \cup {w}
    BY <1>t, <2>2, AppendShape
  <2>5. ~Sending'
    <3>1. ~Sending
      BY <1>2, QuietCalls, CalmSends DEF Write
    <3> QED
      BY <1>2, <3>1, UserFrames, Entering, LabelSets DEF Sending
  <2> HIDE DEF w
  <2>6. \A v \in Writes : v # w => future'[v] = future[v]
    BY <1>t, <2>2
  <2>7. future'[w] = answer
    BY <1>t, <2>2
  <2>8. ASSUME NEW v \in Writes, future'[v] = "pending" PROVE v \in ToSet(pendings')
    BY <2>3, <2>4, <2>6, <2>7, <2>8 DEF KeptInv
  <2> QED
    BY <2>5, <2>8 DEF KeptInv
<1>3. CASE Close
  <2>1. /\ pendings' = Append(pendings, CloseMark) /\ chunks' \in {chunks, Append(chunks, CloseMark)}
        /\ UNCHANGED <<stack, future>>
    BY <1>3 DEF Close, AddPending, writes
  <2>2. /\ ToSet(Append(pendings, CloseMark)) = ToSet(pendings) \cup {CloseMark}
        /\ ToSet(Append(chunks, CloseMark)) = ToSet(chunks) \cup {CloseMark}
    BY <1>t, WritesAreNumbers, AppendShape
  <2> QED
    BY <2>1, <2>2 DEF KeptInv, Sending
<1>4. CASE WriteEvent /\ pendings # << >>
  <2>1. chunks' = pendings /\ UNCHANGED <<pendings, future>>
    BY <1>4, EventDoes DEF queue, writes
  <2> QED
    BY <2>1 DEF KeptInv
<1>5. CASE SocketTakes(0)
  <2>1. /\ ToSet(stack) = {"round"} /\ future' = future
        /\ \/ ToSet(stack') = {"sent"} /\ pendings' = chunks
           \/ UNCHANGED <<pendings, chunks>>
    BY <1>5, SendDoes
  <2> QED
    BY <1>p, <1>s, <2>1 DEF Sending
<1>6. CASE CompleteChunk /\ ~Done(Head(batch))
  <2> DEFINE w == Head(batch)
  <2>1. /\ batch # << >> /\ ToSet(stack) = {"complete"} /\ chunks' = Tail(chunks)
        /\ pendings' = pendings /\ future' = [future EXCEPT ![w] = "ok"]
    BY <1>6, CompleteDoes DEF queue
  <2>2. chunks # << >> /\ Head(chunks) = w
    BY <2>1, HeadOfBatch
  <2>3. ToSet(chunks) = {w} \cup ToSet(Tail(chunks))
    BY <1>t, <2>2, TailShape
  <2> HIDE DEF w
  <2>4. \A v \in Writes : future'[v] = "pending" => future[v] = "pending" /\ v # w
    BY <1>t, <2>1
  <2>5. Sending
    BY <2>1 DEF Sending
  <2> QED
    BY <2>1, <2>3, <2>4, <2>5 DEF KeptInv
<1>7. CASE KeepTail
  BY <1>7, <1>p, KeepDoes DEF Sending
<1>8. CASE NextRound
  BY <1>8, <1>s, NextDoes DEF Sending, queue, writes
<1>9. CASE AllSent
  BY <1>9, <1>p, AllSentDoes DEF Sending, writes
<1>10. CASE ReachCloseMark
  <2>1. ToSet(stack') = {"fail", "sent"} /\ UNCHANGED <<pendings, future>>
    BY <1>10, CloseMarkDoes DEF queue, writes
  <2> QED
    BY <2>1 DEF KeptInv, Sending
<1>11. CASE FailOne
  <2>1. PICK w \in Writes : future' = [future EXCEPT ![w] = "failed"]
    BY <1>11, FailDoes DEF ShapeInv
  <2>2. UNCHANGED <<pendings, chunks>> /\ ToSet(stack') = {"listener"} \cup ToSet(stack)
    BY <1>11, FailDoes DEF ShapeInv, queue, pass
  <2>3. \A v \in Writes : future'[v] = "pending" => future[v] = "pending"
    BY <1>t, <2>1
  <2> QED
    BY <2>2, <2>3 DEF KeptInv, Sending
<1>12. CASE ResetPendings
  <2>1. Running \in {"fail", "stale"} /\ future' = future
    BY <1>12, ResetDoes DEF writes
  <2>2. Unresolved = {}
    <3>1. Running \in ToSet(stack)
      BY <2>1, LibraryRuns, Pop DEF StackInv
    <3> QED
      BY <1>12, <2>1, <3>1 DEF ResetPendings, QuietInv
  <2>3. ASSUME NEW w \in Writes PROVE future[w] # "pending"
    <3>1. SUFFICES ASSUME w \in ToSet(pendings), future[w] = "pending" PROVE FALSE
      BY DEF KeptInv
    <3>2. PICK i \in DOMAIN pendings : pendings[i] = w
      BY <3>1 DEF ToSet
    <3> QED
      BY <2>2, <3>1, <3>2, WritesAreNumbers DEF Unresolved, Done
  <2> QED
    BY <2>1, <2>3 DEF KeptInv
<1> QED
  BY <1>1, <1>2, <1>3, <1>4, <1>5, <1>6, <1>7, <1>8, <1>9, <1>10, <1>11, <1>12, Kinds

\* As long as its future is unresolved, a write is in the queue or in the local
\* list of the pass.  An empty buffer is neither queued nor answered if the
\* socket is not tried at once, which is why no write may be empty.
THEOREM NothingForgotten ==
  ASSUME QuietListeners, 0 \notin Sizes
  PROVE Spec => []NoWriteForgotten
<1>1. Init => KeptInv
  BY DEF Init, KeptInv
<1>2. InterestInv /\ ShapeInv /\ (BytesInv /\ (QuietListeners => QuietInv)) /\ KeptInv /\ [Next]_vars => KeptInv'
  BY KeptStep DEF InterestInv
<1>3. KeptInv => NoWriteForgotten
  BY DEF KeptInv, NoWriteForgotten, Queue
<1> QED
  BY <1>1, <1>2, <1>3, InterestInvariance, ShapeInvariance, BytesInvariance, PTL DEF Spec

-----------------------------------------------------------------------------
(* No byte is skipped                                                      *)

\* Neither listeners nor the callbacks of a close write or close.
Silent == \A p \in Allowed : p[1] \notin {"listener", "closing"}

LEMMA SilentIsQuiet == Silent => QuietListeners
BY DEF Silent, QuietListeners

\* No close has begun.
Intact == open /\ ToSet(stack) \cap {"fail", "socket"} = {}

\* What was not sent is queued, and a running pass is going to send it.
GapInv ==
  /\ Intact => \A w \in Writes : w <= written =>
                 \/ sent[w] = size[w]
                 \/ w \in ToSet(pendings) /\ (Sending => w \in ToSet(chunks))
  /\ NoGap

\* User code then runs from tasks and from the callback of a WRITE event only.
LEMMA SilentCalls ==
  ASSUME StackInv, Silent, NEW call, MayCall(call)
  PROVE ToSet(stack) \subseteq {"writability"}
<1>1. Running \in {"task", "writability"}
  <2>1. <<Context, call>> \in Allowed
    BY DEF MayCall
  <2>2. Context \in Contexts /\ Context \notin {"listener", "closing"}
    BY <2>1, AllowedAssumption DEF Silent
  <2>3. Running = "task" \/ Running \in Labels
    BY RunningIsHead, Pop DEF StackInv, Running
  <2> QED
    BY <2>2, <2>3 DEF Context, Contexts, UserContexts, Labels
<1>2. CASE Running = "task"
  <2>1. stack = << >>
    BY <1>2, RunningIsHead, Pop DEF StackInv, Labels, UserContexts
  <2> QED
    BY <2>1, EmptyStack
<1>3. CASE Running = "writability"
  BY <1>3, BottomRuns, LabelSets
<1> QED
  BY <1>1, <1>2, <1>3

\* The socket takes no more of a write that it has taken as a whole.
LEMMA NothingMore ==
  ASSUME ShapeInv, AwaitedInv, AccountInv, batch = << >>, NEW n \in Nat,
         NEW s, IsBeginning(s), NEW w \in Writes, sent[w] = size[w]
  PROVE Taken(s, n)[w] = 0
<1>t. /\ s \in Seq(Writes) /\ left \in [Chunks -> Nat] /\ chunks \in Seq(Chunks)
      /\ sent[w] \in Nat /\ left[w] \in Nat /\ size[w] \in Nat
  BY WritesAreNumbers DEF IsBeginning, ShapeInv, TypeInv
<1>1. /\ \A v \in Writes \ ToSet(s) : Taken(s, n)[v] = 0
      /\ \A i \in DOMAIN s : Taken(s, n)[s[i]] = Clip(left[s[i]], n - Bytes(First(s, i - 1)))
  BY <1>t, TakenIs DEF IsBeginning
<1>2. SUFFICES ASSUME NEW i \in DOMAIN s, w = s[i] PROVE Taken(s, n)[w] = 0
  BY <1>1 DEF ToSet
<1>3. w \in ToSet(chunks)
  <2>1. DOMAIN chunks = 1 .. Len(chunks) /\ Len(chunks) \in Nat
    BY <1>t, LenProperties
  <2>2. i \in DOMAIN chunks /\ chunks[i] = w
    BY <1>2, <2>1 DEF IsBeginning
  <2> QED
    BY <2>2 DEF ToSet
<1>4. future[w] # "ok" /\ w \notin ToSet(batch)
  BY <1>3, EmptyStack, WritesAreNumbers DEF AwaitedInv
<1>5. left[w] = 0
  <2>1. sent[w] + left[w] = size[w]
    BY <1>4 DEF AccountInv
  <2> QED
    BY <1>t, <2>1
<1>6. Bytes(First(s, i - 1)) \in Nat
  <2>1. i - 1 \in 0 .. Len(s)
    BY <1>t, <1>2, LenProperties
  <2>2. s \in Seq(Chunks)
    BY <1>t, WritesAreChunks
  <2> QED
    BY <1>t, <2>1, <2>2, PrefixSums DEF Bytes
<1>7. Taken(s, n)[w] = Clip(0, n - Bytes(First(s, i - 1)))
  BY <1>1, <1>2, <1>5
<1> QED
  BY <1>6, <1>7 DEF Clip

\* If it takes a byte of a write, it takes all of what stands before it.
LEMMA AllBefore ==
  ASSUME ShapeInv, NEW n \in Nat, NEW s, IsBeginning(s),
         NEW v \in ToSet(s), Taken(s, n)[v] > 0, NEW w \in Writes, w < v, w \in ToSet(chunks)
  PROVE Taken(s, n)[w] = left[w] /\ w \in ToSet(s)
<1>t. /\ s \in Seq(Writes) /\ s \in Seq(Chunks) /\ left \in [Chunks -> Nat] /\ chunks \in Seq(Chunks)
      /\ Len(s) \in Nat /\ DOMAIN s = 1 .. Len(s) /\ DOMAIN chunks = 1 .. Len(chunks) /\ Len(chunks) \in Nat
      /\ Len(s) <= Len(chunks) /\ Ascending(chunks, written)
  BY WritesAreChunks, LenProperties DEF IsBeginning, ShapeInv, TypeInv, SortedInv
<1>1. /\ \A i \in DOMAIN s : Taken(s, n)[s[i]] = Clip(left[s[i]], n - Bytes(First(s, i - 1)))
      /\ \A i \in DOMAIN s : s[i] = chunks[i] /\ s[i] \in Writes
  BY <1>t, TakenIs, ElementOfSeq DEF IsBeginning
<1>2. PICK j \in DOMAIN s : v = s[j]
  BY DEF ToSet
<1>3. PICK i \in DOMAIN chunks : w = chunks[i]
  BY DEF ToSet
<1>4. i \in DOMAIN s /\ i \in 0 .. j - 1 /\ w = s[i] /\ j - 1 \in 0 .. Len(s)
  <2>1. v \in Nat /\ w \in Nat /\ v = chunks[j] /\ j \in DOMAIN chunks /\ w # CloseMark /\ v # CloseMark
    BY <1>t, <1>1, <1>2, WritesAreNumbers
  <2>2. ~(j <= i)
    <3>1. SUFFICES ASSUME j <= i PROVE FALSE
      OBVIOUS
    <3>2. CASE j = i
      BY <1>3, <2>1, <3>2
    <3>3. CASE j < i
      <4>1. v < w
        BY <1>t, <1>3, <2>1, <3>3 DEF Ascending
      <4> QED
        BY <2>1, <4>1
    <3> QED
      BY <1>t, <1>2, <1>3, <3>1, <3>2, <3>3
  <2> QED
    BY <1>t, <1>1, <1>2, <1>3, <2>2
<1> DEFINE u(k) == Total(left, First(s, k))
<1>5. /\ u(i - 1) \in Nat /\ u(j - 1) \in Nat /\ u(i) = u(i - 1) + left[w]
  <2>1. i - 1 \in 0 .. Len(s) /\ i \in 1 .. Len(s)
    <3>1. DOMAIN s = 1 .. Len(s) /\ Len(s) \in Nat
      BY <1>t
    <3> QED
      BY <1>4, <3>1
  <2> QED
    BY <1>t, <1>4, <2>1, PrefixSums
<1>6. u(i) <= u(j - 1)
  <2>1. i \in 0 .. Len(s) /\ j - 1 \in i .. Len(s)
    BY <1>t, <1>4
  <2> QED
    BY <1>t, <2>1, PrefixSumsGrow
<1> HIDE DEF u
<1>7. n - u(j - 1) > 0
  <2>1. Clip(left[v], n - u(j - 1)) > 0
    BY <1>1, <1>2 DEF Bytes, u
  <2> QED
    BY <1>5, <2>1 DEF Clip
<1>8. left[w] \in Nat
  BY <1>t, WritesAreNumbers
<1>9. left[w] <= n - u(i - 1)
  BY <1>5, <1>6, <1>7, <1>8
<1>10. Taken(s, n)[w] = Clip(left[w], n - u(i - 1))
  BY <1>1, <1>4 DEF Bytes, u
<1>11. Clip(left[w], n - u(i - 1)) = left[w]
  BY <1>5, <1>8, <1>9 DEF Clip
<1> QED
  BY <1>4, <1>10, <1>11 DEF ToSet

LEMMA GapStep ==
  ASSUME StackInv, ShapeInv, AwaitedInv, AccountInv, Silent, GapInv, [Next]_vars
  PROVE GapInv'
<1>t. /\ pendings \in Seq(Chunks) /\ chunks \in Seq(Chunks) /\ written \in Nat
      /\ left \in [Chunks -> Nat] /\ size \in [Writes -> Nat] /\ sent \in [Writes -> Nat]
      /\ future \in [Writes -> {"none", "pending", "ok", "failed"}]
  BY WritePathAssumption DEF ShapeInv, TypeInv
<1>n. \A w \in Writes : w \in Nat /\ left[w] \in Nat /\ sent[w] \in Nat /\ size[w] \in Nat
  BY <1>t, WritesAreNumbers
<1>e. ToSet(<< >>) = {}
  BY EmptyStack
\* Nothing is sent, and no queue that counts loses a write that is not sent.
<1>s. ASSUME UNCHANGED <<sent, size, written>>, Intact' => Intact,
             Intact' => \A w \in Writes : w <= written /\ sent[w] # size[w]
                           /\ w \in ToSet(pendings) /\ (Sending => w \in ToSet(chunks))
                           => w \in ToSet(pendings') /\ (Sending' => w \in ToSet(chunks'))
      PROVE GapInv'
  <2>1. NoGap'
    BY <1>s DEF GapInv, NoGap
  <2> QED
    BY <1>s, <2>1 DEF GapInv
<1>1. CASE Settles
  <2>1. Intact' => Intact
    BY <1>1 DEF Settles, Intact
  <2> QED
    BY <1>1, <1>s, <2>1 DEF Settles, Sending, pass, writes
<1>2. ASSUME NEW n \in Sizes, Write(n) PROVE GapInv'
  <2> DEFINE w == written + 1
  <2>1. PICK rest \in 0 .. n, answer \in {"pending", "ok"} : n \in Nat /\ Writing(n, rest, answer)
    BY <1>2, WriteDoes DEF ShapeInv
  <2>2. /\ w \in Writes /\ w \in Chunks /\ w \in Nat /\ w > written /\ written' = w
        /\ size' = [size EXCEPT ![w] = n] /\ sent' = [sent EXCEPT ![w] = n - rest]
        /\ n - rest > 0 => pendings = << >> /\ open
    BY <1>t, <2>1, WritesAreNumbers DEF Writing
  <2>3. \/ pendings' = pendings /\ (rest = 0)
        \/ pendings' = Append(pendings, w)
    BY <2>1 DEF Writing, AddPending, queue
  <2>4. ToSet(Append(pendings, w)) = ToSet(pendings) \cup {w}
    BY <1>t, <2>2, AppendShape
  <2>5. ToSet(stack) \subseteq {"writability"} /\ ToSet(stack') \subseteq {"writability", "listener"}
    <3>1. ToSet(stack) \subseteq {"writability"}
      BY <1>2, SilentCalls DEF Write
    <3> QED
      BY <1>2, <3>1, UserFrames, Entering, LabelSets
  <2>6. open' = open
    BY <2>1 DEF Writing, lifecycle
  <2>7. ~Sending' /\ ~Sending /\ (open => Intact)
    BY <2>5 DEF Sending, Intact
  <2> HIDE DEF w
  <2>8. /\ \A v \in Writes : v # w => sent'[v] = sent[v] /\ size'[v] = size[v]
        /\ sent'[w] = n - rest /\ size'[w] = n
    BY <1>t, <2>2
  <2>9. ASSUME Intact', NEW v \in Writes, v <= written', sent'[v] # size'[v]
        PROVE v \in ToSet(pendings')
    <3>1. CASE v = w
      <4>1. rest # 0
        BY <2>1, <2>8, <2>9, <3>1
      <4> QED
        BY <2>3, <2>4, <3>1, <4>1
    <3>2. CASE v # w
      <4>1. v <= written /\ sent[v] # size[v]
        <5>1. v <= written
          BY <1>t, <1>n, <2>2, <2>9, <3>2 DEF w
        <5> QED
          BY <2>8, <2>9, <3>2, <5>1
      <4>2. Intact
        BY <2>6, <2>7, <2>9 DEF Intact
      <4> QED
        BY <2>3, <2>4, <4>1, <4>2 DEF GapInv
    <3> QED
      BY <3>1, <3>2
  <2>10. ASSUME NEW x \in Writes, NEW v \in Writes, x < v, sent'[v] > 0 PROVE sent'[x] = size'[x]
    <3>1. CASE v = w
      <4>1. pendings = << >> /\ Intact
        BY <2>2, <2>7, <2>8, <2>10, <3>1
      <4>2. x <= written /\ x # w
        BY <1>t, <1>n, <2>2, <2>10, <3>1 DEF w
      <4>3. sent[x] = size[x]
        BY <1>e, <4>1, <4>2 DEF GapInv
      <4> QED
        BY <2>8, <4>2, <4>3
    <3>2. CASE v # w
      <4>1. sent[v] > 0
        BY <2>8, <2>10, <3>2
      <4>2. v <= written
        <5>1. v > written => sent[v] = 0
          BY DEF ShapeInv, FreshInv
        <5> QED
          BY <1>t, <1>n, <4>1, <5>1
      <4>3. x # w
        BY <1>t, <1>n, <2>2, <2>10, <4>2
      <4>4. sent[x] = size[x]
        BY <2>10, <4>1 DEF GapInv, NoGap
      <4> QED
        BY <2>8, <4>3, <4>4
    <3> QED
      BY <3>1, <3>2
  <2> QED
    BY <2>7, <2>9, <2>10 DEF GapInv, NoGap
<1>3. CASE Close
  <2>1. /\ pendings' = Append(pendings, CloseMark) /\ chunks' \in {chunks, Append(chunks, CloseMark)}
        /\ UNCHANGED <<stack, open, sent, size, written>>
    BY <1>3 DEF Close, AddPending, lifecycle, writes
  <2>2. /\ ToSet(Append(pendings, CloseMark)) = ToSet(pendings) \cup {CloseMark}
        /\ ToSet(Append(chunks, CloseMark)) = ToSet(chunks) \cup {CloseMark}
    BY <1>t, WritesAreNumbers, AppendShape
  <2> QED
    BY <1>s, <2>1, <2>2 DEF Intact, Sending
<1>4. CASE WriteEvent /\ pendings # << >>
  <2>1. /\ ToSet(stack) = {} /\ chunks' = pendings
        /\ UNCHANGED <<pendings, open, sent, size, written>>
    BY <1>4, EventDoes DEF queue, lifecycle, writes
  <2> QED
    BY <1>s, <2>1 DEF Intact
<1>5. CASE SocketTakes(0)
  <2> DEFINE next == PendingWriteBatch
  <2>1. PICK n \in Nat :
          /\ ToSet(stack) = {"round"} /\ batch = << >> /\ IsBeginning(next)
          /\ UNCHANGED <<lifecycle, left, future, written, size>>
          /\ sent' = [w \in Writes |-> sent[w] + Taken(next, n)[w]]
          /\ \/ n = 0 /\ ToSet(stack') = {"sent"} /\ pendings' = chunks
             \/ n # 0 /\ open /\ ToSet(stack') = {"complete"} /\ UNCHANGED <<pendings, chunks>>
    BY <1>5, SendDoes
  <2> HIDE DEF next
  <2>2. /\ Taken(next, n) \in [Writes -> Nat]
        /\ \A w \in Writes \ ToSet(next) : Taken(next, n)[w] = 0
        /\ n = 0 => \A w \in Writes : Taken(next, n)[w] = 0
    BY <1>t, <2>1, TakenIs DEF IsBeginning
  <2>3. \A w \in Writes : sent'[w] = sent[w] + Taken(next, n)[w]
    BY <2>1
  <2>4. Sending /\ (open => Intact) /\ (Intact' => open)
    BY <2>1 DEF Sending, Intact, lifecycle
  <2>5. ASSUME NEW w \in Writes, sent[w] = size[w] PROVE sent'[w] = size'[w]
    <3>1. Taken(next, n)[w] = 0
      BY <2>1, <2>5, NothingMore
    <3> QED
      BY <1>n, <2>1, <2>3, <2>5, <3>1
  <2>6. ASSUME NEW x \in Writes, NEW v \in Writes, x < v, sent'[v] > 0 PROVE sent'[x] = size'[x]
    <3>1. CASE sent[v] > 0
      BY <2>5, <2>6, <3>1 DEF GapInv, NoGap
    <3>2. CASE ~(sent[v] > 0)
      <4>1. Taken(next, n)[v] > 0
        BY <1>n, <2>2, <2>3, <2>6, <3>2
      <4>2. v \in ToSet(next) /\ open
        BY <2>1, <2>2, <4>1
      <4>3. x <= written
        <5>1. v <= written
          <6>1. PICK i \in DOMAIN next : v = next[i]
            BY <4>2 DEF ToSet
          <6>2. DOMAIN chunks = 1 .. Len(chunks) /\ Len(chunks) \in Nat
            BY <1>t, LenProperties
          <6>3. i \in DOMAIN chunks /\ chunks[i] = v
            BY <2>1, <6>1, <6>2 DEF IsBeginning
          <6> QED
            BY <6>3, WritesAreNumbers DEF ShapeInv, SortedInv, Ascending
        <5> QED
          BY <1>t, <1>n, <2>6, <5>1
      <4>4. CASE sent[x] = size[x]
        BY <2>5, <4>4
      <4>5. CASE sent[x] # size[x]
        <5>1. x \in ToSet(chunks)
          BY <2>4, <4>2, <4>3, <4>5 DEF GapInv
        <5>2. Taken(next, n)[x] = left[x]
          BY <2>1, <2>6, <4>1, <4>2, <5>1, AllBefore
        <5>3. sent[x] + left[x] = size[x]
          <6>1. x \in ToSet(chunks) \ {CloseMark} /\ x \notin ToSet(batch)
            BY <1>e, <2>1, <5>1, WritesAreNumbers
          <6>2. future[x] # "ok"
            BY <6>1 DEF AwaitedInv
          <6> QED
            BY <6>1, <6>2 DEF AccountInv
        <5> QED
          BY <2>1, <2>3, <5>2, <5>3
      <4> QED
        BY <4>4, <4>5
    <3> QED
      BY <3>1, <3>2
  <2>7. ASSUME Intact', NEW w \in Writes, w <= written', sent'[w] # size'[w]
        PROVE w \in ToSet(pendings') /\ (Sending' => w \in ToSet(chunks'))
    <3>1. sent[w] # size[w] /\ w <= written
      BY <2>1, <2>5, <2>7
    <3>2. w \in ToSet(pendings) /\ w \in ToSet(chunks)
      BY <2>4, <2>7, <3>1 DEF GapInv
    <3> QED
      BY <2>1, <3>2 DEF Sending
  <2> QED
    BY <2>6, <2>7 DEF GapInv, NoGap
<1>6. CASE CompleteChunk /\ ~Done(Head(batch))
  <2> DEFINE w == Head(batch)
  <2>1. /\ batch # << >> /\ ToSet(stack) = {"complete"} /\ ToSet(stack') = {"listener", "complete"}
        /\ chunks' = Tail(chunks) /\ UNCHANGED <<pendings, open, written, size, sent>>
        /\ future' = [future EXCEPT ![w] = "ok"]
    BY <1>6, CompleteDoes DEF queue, lifecycle
  <2>2. chunks # << >> /\ Head(chunks) = w /\ w \in Writes
    BY <2>1, HeadOfBatch
  <2>3. ToSet(chunks) = {w} \cup ToSet(Tail(chunks))
    BY <1>t, <2>2, TailShape
  <2>4. AccountInv'
    BY AccountStep
  <2> HIDE DEF w
  <2>5. sent[w] = size[w]
    <3>1. future'[w] = "ok"
      BY <1>t, <2>1, <2>2
    <3> QED
      BY <2>1, <2>2, <2>4, <3>1 DEF AccountInv, OkMeansSent
  <2>6. Sending /\ (Intact' => Intact)
    BY <2>1 DEF Sending, Intact
  <2> QED
    BY <1>s, <2>1, <2>3, <2>5, <2>6
<1>7. CASE KeepTail
  <2>1. /\ ToSet(stack) = {"complete"} /\ ToSet(stack') = {"sent"} /\ pendings' = chunks
        /\ UNCHANGED <<open, written, size, sent>>
    BY <1>7, KeepDoes DEF lifecycle
  <2> QED
    BY <1>s, <2>1 DEF Sending, Intact
<1>8. CASE NextRound
  <2>1. /\ ToSet(stack) = {"complete"} /\ ToSet(stack') = {"round"}
        /\ UNCHANGED <<pendings, chunks, open, written, size, sent>>
    BY <1>8, NextDoes DEF queue, lifecycle, writes
  <2> QED
    BY <1>s, <2>1 DEF Sending, Intact
<1>9. CASE AllSent
  <2>1. /\ ToSet(stack) = {"round"} /\ ToSet(stack') = {"sent"} /\ chunks = << >>
        /\ UNCHANGED <<open, written, size, sent>>
    BY <1>9, AllSentDoes DEF lifecycle, writes
  <2> QED
    BY <1>s, <1>e, <2>1 DEF Sending, Intact
<1>10. CASE ReachCloseMark \/ ResetPendings
  <2>1. ToSet(stack') \cap {"fail", "socket"} # {} /\ UNCHANGED <<written, size, sent>>
    BY <1>10, CloseMarkDoes, ResetDoes DEF writes
  <2> QED
    BY <1>s, <2>1 DEF Intact
<1>11. CASE FailOne
  <2>1. "fail" \in ToSet(stack') /\ UNCHANGED <<written, size, sent>>
    BY <1>11, FailDoes DEF ShapeInv
  <2> QED
    BY <1>s, <2>1 DEF Intact
<1> QED
  BY <1>1, <1>2, <1>3, <1>4, <1>5, <1>6, <1>7, <1>8, <1>9, <1>10, <1>11, Kinds

\* The bytes of a later write go out after all of an earlier one: between the
\* first byte the socket takes and the close, no write that was accepted is left
\* out or cut short.
THEOREM NoByteSkipped == ASSUME Silent PROVE Spec => []NoGap
<1>1. Init => GapInv
  <2> SUFFICES ASSUME Init PROVE GapInv
    OBVIOUS
  <2>1. size = [w \in Writes |-> 0] /\ sent = [w \in Writes |-> 0]
    BY DEF Init
  <2> QED
    BY <2>1 DEF GapInv, NoGap
<1>2. InterestInv /\ ShapeInv /\ (AwaitedInv /\ AccountInv) /\ GapInv /\ [Next]_vars => GapInv'
  BY GapStep DEF InterestInv
<1>3. GapInv => NoGap
  BY DEF GapInv
<1> QED
  BY <1>1, <1>2, <1>3, ShapeInvariance, AccountInvariance, PTL DEF Spec
=============================================================================

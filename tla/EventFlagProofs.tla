-------------------------- MODULE EventFlagProofs ---------------------------
(***************************************************************************)
(* With one thread that sets and one that clears, the flag and the pipe    *)
(* agree, for any number of waiters and any size of the pipe.              *)
(***************************************************************************)
EXTENDS EventFlag, TLAPS

\* The bytes in the pipe and the one about to be written are those the flag stands
\* for and the one about to be read.
Balance(s, c) ==
  pipe + (IF pc[s] = "write" THEN 1 ELSE 0)
    = (IF flag THEN 1 ELSE 0) + (IF pc[c] = "read" THEN 1 ELSE 0)

\* Who raises finds the flag down, who lowers finds it up.
Turns(s, c) ==
  /\ pc[s] = "raise" => ~flag
  /\ pc[c] = "lower" => flag
  /\ \A t \in Threads \ {s} : pc[t] \notin {"raise", "write"}
  /\ \A t \in Threads \ {c} : pc[t] \notin {"lower", "read"}

PairInv(s, c) == TypeOK /\ Turns(s, c) /\ Balance(s, c)

\* One setter and one clearer, and not the same thread.
Pair(s, c) == Setters = {s} /\ Clearers = {c} /\ s # c

LEMMA PairInitial ==
  ASSUME NEW s, NEW c, Pair(s, c), Init
  PROVE PairInv(s, c)
<1>1. s \in Threads /\ c \in Threads
  BY DEF Pair, Threads
<1>2. TypeOK
  <2>1. pipe \in 0 .. MaxBytes
    BY MaxBytesAssumption DEF MaxBytesAssumption, Init
  <2> QED
    BY <2>1, Zenon DEF Init, TypeOK
<1>3. Turns(s, c) /\ Balance(s, c)
  BY <1>1 DEF Init, Turns, Balance
<1> QED
  BY <1>2, <1>3 DEF PairInv

LEMMA PairStep ==
  ASSUME NEW s, NEW c, Pair(s, c), PairInv(s, c), [Next]_vars
  PROVE PairInv(s, c)'
<1> USE MaxBytesAssumption DEF MaxBytesAssumption, PairInv, Pair, Goto
<1>0. s \in Threads /\ c \in Threads
  BY DEF Threads
<1>1. ASSUME NEW t \in Setters, CallSet(t) PROVE PairInv(s, c)'
  <2>1. t \in Threads
    BY DEF Threads
  <2>2. TypeOK'
    BY <1>1, <2>1 DEF CallSet, TypeOK
  <2>3. Turns(s, c)'
    BY <1>0, <1>1, <2>1 DEF CallSet, TypeOK, Turns
  <2>4. Balance(s, c)'
    BY <1>0, <1>1, <2>1 DEF CallSet, TypeOK, Turns, Balance
  <2> QED
    BY <2>2, <2>3, <2>4
<1>2. ASSUME NEW t \in Clearers, CallClear(t) PROVE PairInv(s, c)'
  <2>1. t \in Threads
    BY DEF Threads
  <2>2. TypeOK'
    BY <1>2, <2>1 DEF CallClear, TypeOK
  <2>3. Turns(s, c)'
    BY <1>0, <1>2, <2>1 DEF CallClear, TypeOK, Turns
  <2>4. Balance(s, c)'
    BY <1>0, <1>2, <2>1 DEF CallClear, TypeOK, Turns, Balance
  <2> QED
    BY <2>2, <2>3, <2>4
<1>3. ASSUME NEW t \in Waiters, CallWait(t) PROVE PairInv(s, c)'
  <2>1. t \in Threads
    BY DEF Threads
  <2>2. TypeOK'
    BY <1>3, <2>1 DEF CallWait, TypeOK
  <2>3. Turns(s, c)'
    BY <1>0, <1>3, <2>1 DEF CallWait, TypeOK, Turns
  <2>4. Balance(s, c)'
    BY <1>0, <1>3, <2>1 DEF CallWait, TypeOK, Turns, Balance
  <2> QED
    BY <2>2, <2>3, <2>4
<1>4. ASSUME NEW t \in Threads, RaiseFlag(t) PROVE PairInv(s, c)'
  <2>1. TypeOK'
    BY <1>4 DEF RaiseFlag, TypeOK
  <2>2. Turns(s, c)'
    BY <1>0, <1>4 DEF RaiseFlag, TypeOK, Turns
  <2>3. Balance(s, c)'
    BY <1>0, <1>4 DEF RaiseFlag, TypeOK, Turns, Balance
  <2> QED
    BY <2>1, <2>2, <2>3
<1>5. ASSUME NEW t \in Threads, WriteByte(t) PROVE PairInv(s, c)'
  <2>1. TypeOK'
    BY <1>5 DEF WriteByte, TypeOK
  <2>2. Turns(s, c)'
    BY <1>0, <1>5 DEF WriteByte, TypeOK, Turns
  <2>3. Balance(s, c)'
    BY <1>0, <1>5 DEF WriteByte, TypeOK, Turns, Balance
  <2> QED
    BY <2>1, <2>2, <2>3
<1>6. ASSUME NEW t \in Threads, LowerFlag(t) PROVE PairInv(s, c)'
  <2>1. TypeOK'
    BY <1>6 DEF LowerFlag, TypeOK
  <2>2. Turns(s, c)'
    BY <1>0, <1>6 DEF LowerFlag, TypeOK, Turns
  <2>3. Balance(s, c)'
    BY <1>0, <1>6 DEF LowerFlag, TypeOK, Turns, Balance
  <2> QED
    BY <2>1, <2>2, <2>3
<1>7. ASSUME NEW t \in Threads, ReadByte(t) PROVE PairInv(s, c)'
  <2>1. TypeOK'
    BY <1>7 DEF ReadByte, TypeOK
  <2>2. Turns(s, c)'
    BY <1>0, <1>7 DEF ReadByte, TypeOK, Turns
  <2>3. Balance(s, c)'
    BY <1>0, <1>7 DEF ReadByte, TypeOK, Turns, Balance
  <2> QED
    BY <2>1, <2>2, <2>3
<1>8. ASSUME NEW t \in Threads, Selected(t) PROVE PairInv(s, c)'
  <2>1. TypeOK'
    BY <1>8 DEF Selected, TypeOK
  <2>2. Turns(s, c)'
    BY <1>0, <1>8 DEF Selected, TypeOK, Turns
  <2>3. Balance(s, c)'
    BY <1>0, <1>8 DEF Selected, TypeOK, Turns, Balance
  <2> QED
    BY <2>1, <2>2, <2>3
<1>9. ASSUME NEW t \in Threads, ReturnFlag(t) PROVE PairInv(s, c)'
  <2>1. TypeOK'
    BY <1>9 DEF ReturnFlag, TypeOK
  <2>2. Turns(s, c)'
    BY <1>0, <1>9 DEF ReturnFlag, TypeOK, Turns
  <2>3. Balance(s, c)'
    BY <1>0, <1>9 DEF ReturnFlag, TypeOK, Turns, Balance
  <2> QED
    BY <2>1, <2>2, <2>3
<1>10. CASE UNCHANGED vars
  BY <1>10 DEF vars, TypeOK, Turns, Balance
<1> QED
  BY <1>1, <1>2, <1>3, <1>4, <1>5, <1>6, <1>7, <1>8, <1>9, <1>10 DEF Next, Step

\* While nobody is setting or clearing, a waiter blocks if and only if the flag is
\* down: set() and clear() of one thread each keep the flag and the pipe together,
\* without the lock.
THEOREM PipeAgreesWithFlag ==
  ASSUME NEW s, NEW c, Pair(s, c)
  PROVE Spec => []PipeShowsFlag
<1>1. PairInv(s, c) => PipeShowsFlag
  BY DEF Pair, PairInv, Balance, Settled, PipeShowsFlag, TypeOK, Threads
<1>2. Spec => []PairInv(s, c)
  BY PairInitial, PairStep, PTL DEF Spec
<1> QED
  BY <1>1, <1>2, PTL

\* A cleared flag makes waiters block: the pipe holds no byte that no set() stands
\* for.
COROLLARY ClearedPipeIsEmpty ==
  ASSUME NEW s, NEW c, Pair(s, c)
  PROVE Spec => []ClearedFlagBlocks
<1>1. PipeShowsFlag => ClearedFlagBlocks
  BY DEF PipeShowsFlag, ClearedFlagBlocks
<1> QED
  BY <1>1, PipeAgreesWithFlag, PTL
=============================================================================

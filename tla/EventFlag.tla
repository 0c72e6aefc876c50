------------------------------ MODULE EventFlag ------------------------------
(***************************************************************************)
(* The other face of py_netty/eventfd.py: set, clear and wait, offered as  *)
(* the operations of a threading.Event that can be selected.  None of them *)
(* takes the lock, so the flag and the pipe are two variables that other   *)
(* threads see change one after the other.                                 *)
(***************************************************************************)
EXTENDS Integers

CONSTANTS
  Setters, Clearers, Waiters,   \* who calls what; a thread may be in several
  MaxBytes                      \* bound: bytes in the pipe

Threads == Setters \cup Clearers \cup Waiters

ASSUME MaxBytesAssumption == MaxBytes \in Nat \ {0}

VARIABLES
  flag,     \* _flag
  pipe,     \* bytes in the pipe
  pc,       \* the next line of each thread
  answer    \* what the last wait() of each thread returned

vars == <<flag, pipe, pc, answer>>

TypeOK ==
  /\ flag \in BOOLEAN
  /\ pipe \in 0 .. MaxBytes
  /\ pc \in [Threads -> {"idle", "raise", "write", "lower", "read", "select", "return"}]
  /\ answer \in [Threads -> BOOLEAN]

Init ==
  /\ flag = FALSE
  /\ pipe = 0
  /\ pc = [t \in Threads |-> "idle"]
  /\ answer = [t \in Threads |-> TRUE]

Goto(t, label) == pc' = [pc EXCEPT ![t] = label]

\* set: check, raise the flag, write a byte.
CallSet(t) ==
  /\ pc[t] = "idle"
  /\ Goto(t, IF flag THEN "idle" ELSE "raise")
  /\ UNCHANGED <<flag, pipe, answer>>

RaiseFlag(t) ==
  /\ pc[t] = "raise"
  /\ flag' = TRUE
  /\ Goto(t, "write")
  /\ UNCHANGED <<pipe, answer>>

\* Slip: the flag is raised for those who look, those who wait are not told.
WriteNothing(t) ==
  /\ pc[t] = "write"
  /\ Goto(t, "idle")
  /\ UNCHANGED <<flag, pipe, answer>>

WriteByte(t) ==
  /\ pc[t] = "write"
  /\ pipe < MaxBytes
  /\ pipe' = pipe + 1
  /\ Goto(t, "idle")
  /\ UNCHANGED <<flag, answer>>

\* clear: check, lower the flag, read a byte, which blocks until there is one.
CallClear(t) ==
  /\ pc[t] = "idle"
  /\ Goto(t, IF flag THEN "lower" ELSE "idle")
  /\ UNCHANGED <<flag, pipe, answer>>

LowerFlag(t) ==
  /\ pc[t] = "lower"
  /\ flag' = FALSE
  /\ Goto(t, "read")
  /\ UNCHANGED <<pipe, answer>>

\* Slip: the byte stays in the pipe.
ReadNothing(t) ==
  /\ pc[t] = "read"
  /\ Goto(t, "idle")
  /\ UNCHANGED <<flag, pipe, answer>>

ReadByte(t) ==
  /\ pc[t] = "read"
  /\ pipe > 0
  /\ pipe' = pipe - 1
  /\ Goto(t, "idle")
  /\ UNCHANGED <<flag, answer>>

\* wait() without a timeout: check, select, and return the flag as it is then.
CallWait(t) ==
  /\ pc[t] = "idle"
  /\ Goto(t, IF flag THEN "return" ELSE "select")
  /\ UNCHANGED <<flag, pipe, answer>>

Selected(t) ==
  /\ pc[t] = "select"
  /\ pipe > 0
  /\ Goto(t, "return")
  /\ UNCHANGED <<flag, pipe, answer>>

ReturnFlag(t) ==
  /\ pc[t] = "return"
  /\ answer' = [answer EXCEPT ![t] = flag]
  /\ Goto(t, "idle")
  /\ UNCHANGED <<flag, pipe>>

Step(t) ==
  \/ RaiseFlag(t) \/ WriteByte(t) \/ LowerFlag(t) \/ ReadByte(t) \/ Selected(t) \/ ReturnFlag(t)

Next ==
  \/ \E t \in Setters : CallSet(t)
  \/ \E t \in Clearers : CallClear(t)
  \/ \E t \in Waiters : CallWait(t)
  \/ \E t \in Threads : Step(t)

\* Threads inside a call are scheduled.
Spec == Init /\ [][Next]_vars /\ \A t \in Threads : WF_vars(Step(t))

-----------------------------------------------------------------------------
Settled == \A t \in Setters \cup Clearers : pc[t] \in {"idle", "select", "return"}

\* While nobody is setting or clearing, the pipe says what the flag says: a
\* waiter blocks if and only if the flag is down.
PipeShowsFlag == Settled => pipe = IF flag THEN 1 ELSE 0

\* A thread that waits is awakened if the flag is raised and stays up; if clear() takes
\* the byte before the thread's select() has returned, it goes on to wait.
RaisedFlagAwakens == \A t \in Waiters : pc[t] = "select" /\ flag ~> pc[t] # "select" \/ ~flag

\* "All threads waiting for it to become true are awakened", says the docstring of
\* set(), whatever comes after it.
SetAwakensWaiters == \A t \in Waiters : pc[t] = "select" /\ flag ~> pc[t] # "select"

\* "It will always return True except if a timeout is given."
WaitReturnsTrue == \A t \in Waiters : answer[t]

\* "Subsequently, threads calling wait() will block until set() is called."
ClearedFlagBlocks == Settled /\ ~flag => pipe = 0
==============================================================================

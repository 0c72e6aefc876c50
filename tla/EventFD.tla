------------------------------- MODULE EventFD -------------------------------
(***************************************************************************)
(* The wake-up device of an event loop (py_netty/eventfd.py): a pipe whose *)
(* read end sits in the selector, and a counter that coalesces wake-ups so *)
(* that at most one byte is ever in flight.                                *)
(*                                                                         *)
(* unsafe_write and close run entirely under the device's lock, so each is *)
(* one step.  unsafe_read takes its byte outside the lock and the lock     *)
(* only for the decrement, so it is two steps: between them a writer still *)
(* sees the old count and writes nothing.                                  *)
(***************************************************************************)
EXTENDS Integers

VARIABLES
  pipe,          \* bytes in the pipe that the loop has not read
  unsafeCounts,  \* BaseEventFD._unsafe_counts
  efdClosed      \* BaseEventFD._closed

efdVars == <<pipe, unsafeCounts, efdClosed>>

EfdTypeOK ==
  /\ pipe \in Nat
  /\ unsafeCounts \in Int
  /\ efdClosed \in BOOLEAN

EfdInit ==
  /\ pipe = 0
  /\ unsafeCounts = 0
  /\ efdClosed = FALSE

\* unsafe_write: dropped when closed or when a byte is already on its way.
UnsafeWrite ==
  \/ /\ efdClosed \/ unsafeCounts > 0
     /\ UNCHANGED efdVars
  \/ /\ ~efdClosed
     /\ unsafeCounts <= 0
     /\ pipe' = pipe + 1
     /\ unsafeCounts' = unsafeCounts + 1
     /\ UNCHANGED efdClosed

\* Slip: reads whether or not the selector has reported a byte.
UnsafeReadByteUnpolled ==
  /\ ~efdClosed
  /\ pipe' = pipe - 1
  /\ UNCHANGED <<unsafeCounts, efdClosed>>

\* unsafe_read, first half: the byte leaves the pipe (the read blocks on none).
UnsafeReadByte ==
  /\ ~efdClosed
  /\ pipe > 0
  /\ pipe' = pipe - 1
  /\ UNCHANGED <<unsafeCounts, efdClosed>>

\* unsafe_read, second half, under the lock.
UnsafeReadCount ==
  /\ unsafeCounts' = unsafeCounts - 1
  /\ UNCHANGED <<pipe, efdClosed>>

\* close: idempotent; closing both ends discards what was in the pipe.
CloseEventFD ==
  /\ efdClosed' = TRUE
  /\ pipe' = 0
  /\ UNCHANGED unsafeCounts
==============================================================================

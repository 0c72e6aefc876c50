---------------------------- MODULE TaskExecutor ----------------------------
(***************************************************************************)
(* What an event loop promises to the threads that submit tasks to it,     *)
(* with no wake-up device, barrier, lock or thread pool: accepted tasks    *)
(* run one at a time in the order of acceptance, each at most once, and    *)
(* every one of them runs unless a stop is requested.  After a stop the    *)
(* executor terminates, and what is still queued is never run.             *)
(***************************************************************************)
EXTENDS Sequences

CONSTANT Tasks

VARIABLES
  queue,   \* accepted tasks that have not run, oldest first
  done,    \* tasks that have run
  phase    \* "open", "stopping" (may still run tasks) or "terminated"

vars == <<queue, done, phase>>

Init ==
  /\ queue = <<>>
  /\ done = {}
  /\ phase = "open"

Accept(t) ==
  /\ t \notin done
  /\ \A i \in DOMAIN queue : queue[i] # t
  /\ queue' = Append(queue, t)
  /\ UNCHANGED <<done, phase>>

Run ==
  /\ phase # "terminated"
  /\ queue # <<>>
  /\ done' = done \cup {Head(queue)}
  /\ queue' = Tail(queue)
  /\ UNCHANGED phase

Stop ==
  /\ phase = "open"
  /\ phase' = "stopping"
  /\ UNCHANGED <<queue, done>>

Terminate ==
  /\ phase = "stopping"
  /\ phase' = "terminated"
  /\ UNCHANGED <<queue, done>>

Next ==
  \/ \E t \in Tasks : Accept(t)
  \/ Run
  \/ Stop
  \/ Terminate

Spec ==
  /\ Init
  /\ [][Next]_vars
  /\ WF_vars(phase = "open" /\ Run)
  /\ WF_vars(Terminate)
==============================================================================

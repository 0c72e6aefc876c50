---------------------------- MODULE MCEventLoop ----------------------------
(* The event loop with small sets of threads, tasks and channels.          *)
EXTENDS EventLoop, TLC

\* Threads are interchangeable, and so are tasks; for safety runs only.
Symmetry == Permutations(Callers) \cup Permutations(Tasks)
============================================================================

---------------------------- MODULE MCEventFlag ----------------------------
(* Threads for the set/clear/wait interface.                               *)
EXTENDS EventFlag
CONSTANTS s1, s2, w1, w2

FirstController == {s1}
OtherController == {s2}
TwoControllers == {s1, s2}
TwoWaiters == {w1, w2}
OneWaiter == {w1}
============================================================================

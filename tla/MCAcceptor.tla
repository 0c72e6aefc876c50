----------------------------- MODULE MCAcceptor -----------------------------
(* A server with one acceptor loop and two child loops.                     *)
EXTENDS Acceptor, TLC
CONSTANTS c1, c2, c3, p, l1, l2

TwoConns == {c1, c2}
ThreeConns == {c1, c2, c3}
TwoChildren == <<l1, l2>>
=============================================================================

----------------------------- MODULE MCReading ------------------------------
(* Buffers of a few bytes in place of some kilobytes.                       *)
EXTENDS Reading
=============================================================================

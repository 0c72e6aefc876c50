----------------------------- MODULE MCPerfEcho -----------------------------
(* The engines and modes of a run.                                          *)
EXTENDS PerfEcho

AllCases == Engines \X BOOLEAN
SequentialNetty == {<<"py-netty", TRUE>>}
AsyncioBurst == {<<"asyncio", FALSE>>}
=============================================================================

---------------------------- MODULE MCWritePath ----------------------------
(* The write path with a few writes, and with what user code does where.   *)
EXTENDS WritePath

Calls == {"write", "close", "force"}
MCSizes == {1, 2}

\* Tasks and handlers write and close; listeners and callbacks of a close only
\* look.
TopLevel == {"task", "writability"} \X Calls

\* Every callback may do anything, and so may tasks before and after a close.
Everywhere == Contexts \X Calls

\* A listener writes again.
WritingListener == {<<"task", "write">>, <<"listener", "write">>}

\* A listener gives up on the connection.
ForcingListener == {<<"task", "write">>, <<"listener", "force">>}

\* The application writes although the channel is closed.
WriteAfterClose == {"task", "afterClose"} \X {"write", "force"}
============================================================================

---------------------------- MODULE MCEventLoop ----------------------------
(* Instances of EventLoop for TLC.                                           *)
EXTENDS EventLoop, TLC

\* All jobs have keys of their own and the same priority.
MCKey == [j \in Jobs |-> NoKey]
MCPriority == [j \in Jobs |-> 0]

\* A server three units west of UTC
WestOfUtc == -3

=============================================================================

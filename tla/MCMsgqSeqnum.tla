----------------------------- MODULE MCMsgqSeqnum -----------------------------
(* MsgqSeqnum with two servers and three clients, two of which get the same *)
(* pid, on a queue of two messages; ints from -5 to 4: a server grants two     *)
(* ranges of two numbers before the third wraps, or -1 moves it down.        *)
EXTENDS MsgqSeqnum

CONSTANTS s1, s2, c1, c2, c3, p1, p2

MCServer == {s1, s2}
MCClient == {c1, c2, c3}
MCPid    == {p1, p2}
MCPidOf  == [c \in MCClient |-> IF c = c3 THEN p2 ELSE p1]
MCAmount == {-1, 2}

\* Every client with a pid of its own.
MCOwnPid == [c \in MCClient |-> c]

=============================================================================

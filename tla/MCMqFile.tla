------------------------------ MODULE MCMqFile ------------------------------
(* MqFile with two servers and three clients, two of which get the same     *)
(* pid: one file longer than a queue, one empty, one that does not exist.   *)
EXTENDS MqFile

CONSTANTS s1, s2, c1, c2, c3, p1, p2, x, y

MCServer  == {s1, s2}
MCClient  == {c1, c2, c3}
MCPid     == {p1, p2}
MCPidOf   == [c \in MCClient |-> IF c = c3 THEN p2 ELSE p1]
MCContent == [f \in {"long", "empty"} |-> IF f = "long" THEN <<x, y, x>>
                                                        ELSE <<>>]
MCWantOf  == [c \in MCClient |-> CASE c = c1 -> "long"
                                   [] c = c2 -> "empty"
                                   [] c = c3 -> NoFile]

=============================================================================

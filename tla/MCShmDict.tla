----------------------------- MODULE MCShmDict -----------------------------
(* Small instances of ShmDict: two clients, one word the dictionary has and *)
(* one it has not.                                                         *)
EXTENDS ShmDict

CONSTANTS c1, c2, hit, miss

MCClient == {c1, c2}
MCWord   == {hit, miss}
MCDict   == {hit}

\* A client may end anywhere, or only at the prompt.
Anywhere == ClientPC \ {"gone"}
AtPrompt == {"idle"}
Nowhere  == {}


=============================================================================

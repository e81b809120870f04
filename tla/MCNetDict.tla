----------------------------- MODULE MCNetDict -----------------------------
(* NetDict with two servers and two clients, a word the file has and one it *)
(* has not; one client asks twice, the other once.  The text before the     *)
(* first lookup is no answer; that it is XXXX happens before the second.    *)
EXTENDS NetDict

CONSTANTS s1, s2, c1, c2, in, out

MCServer == {s1, s2}
MCClient == {c1, c2}
MCWord   == {in, out}
MCDict   == {in}
MCMaxAsk == [c \in MCClient |-> IF c = c1 THEN 2 ELSE 1]

=============================================================================

----------------------------- MODULE MCPrograms -----------------------------
(***************************************************************************)
(* The small programs on small instances.                                  *)
(***************************************************************************)
EXTENDS Programs

CONSTANTS n1, n2, n3  \* the nodes

MCTable  == <<1, 3, 5, 7, 9, 11, 13, 15>>
MCSought == 0..16
MCPow2   == [n \in 0..4 |-> 2^n]

\* 22-4: a SIGINT may come at any point of these.
MCCallers ==
  {<<"sigset handler", "sighold", "sigrelse", "sigignore">>,
   <<"sighold", "sigset handler", "sighold", "sigpause", "sigset HOLD">>,
   <<"sigset handler", "sigset DFL", "sigrelse", "sigset IGN">>,
   <<"sighold", "sigset IGN", "sigset handler", "sigpause">>,
   <<"sighold", "sigrelse">>}

\* A "kill yourself" alone, after a shorter and after a longer line.
MCInputs == {<<>>, <<"kill", "short">>, <<"short", "kill">>, <<"long", "kill", "short">>}

\* The first node to all, the second to the first, the third to itself or not,
\* as they are accepted.
MCReceiver == [n \in {n1, n2, n3} |-> CASE n = n1 -> 0 [] n = n2 -> 1 [] n = n3 -> 3]

\* Three chunks of tail and of cp in the longer ones.
MCContents == UNION {[1..n -> {Zero, Letter, Newline}] : n \in 0..3} \cup
  {<<Newline, Letter, Newline, Newline, Letter>>, <<Zero, Zero, Letter, Zero, Zero>>,
   <<Letter, Newline, Letter, Newline, Newline>>, <<Zero, Letter, Zero, Zero, Zero>>}
MCOld      == <<Letter, Letter, Letter, Letter, Letter>>
MCTexts    == UNION {[1..n -> 0..2] : n \in 0..5}

=============================================================================

----------------------------- MODULE FileChannel -----------------------------
(* What a file server promises each of its clients: the chunks of the file  *)
(* it asked for, in order, each once, and after the last one an end mark;   *)
(* or a refusal, when there is no such file.                                *)
EXTENDS Sequences, Naturals

CONSTANTS Client, Content, WantOf, NoFile

VARIABLES got,  \* the chunks delivered
          end   \* "open", "complete" or "refused"

Missing(c) == WantOf[c] = NoFile

Init == /\ got = [c \in Client |-> <<>>]
        /\ end = [c \in Client |-> "open"]

Deliver(c) ==
  /\ end[c] = "open" /\ ~Missing(c)
  /\ Len(got[c]) < Len(Content[WantOf[c]])
  /\ got' = [got EXCEPT ![c] = Append(@, Content[WantOf[c]][Len(@) + 1])]
  /\ UNCHANGED end

Complete(c) ==
  /\ end[c] = "open" /\ ~Missing(c)
  /\ got[c] = Content[WantOf[c]]
  /\ end' = [end EXCEPT ![c] = "complete"]
  /\ UNCHANGED got

Refuse(c) ==
  /\ end[c] = "open" /\ Missing(c)
  /\ end' = [end EXCEPT ![c] = "refused"]
  /\ UNCHANGED got

Next == \E c \in Client : Deliver(c) \/ Complete(c) \/ Refuse(c)

Spec == Init /\ [][Next]_<<got, end>>

=============================================================================

----------------------------- MODULE LineChannel -----------------------------
(***************************************************************************)
(* What a transfer of lines promises, one channel per writer: every line   *)
(* is delivered once and in order, and the next one is not put before the  *)
(* last one was delivered.  A channel may stop at any point.               *)
(***************************************************************************)
EXTENDS Sequences

CONSTANTS Channel, Line

VARIABLES sent,    \* sent[c]: the lines put into channel c
          got,     \* got[c]: the lines delivered from it
          closed   \* closed[c]: the writer has finished with it

ChannelInit == /\ sent = [c \in Channel |-> <<>>]
               /\ got = [c \in Channel |-> <<>>]
               /\ closed = [c \in Channel |-> FALSE]

Put(c, l) == /\ ~closed[c]
             /\ got[c] = sent[c]
             /\ sent' = [sent EXCEPT ![c] = Append(@, l)]
             /\ UNCHANGED <<got, closed>>

Get(c, l) == /\ sent[c] = Append(got[c], l)
             /\ got' = [got EXCEPT ![c] = sent[c]]
             /\ UNCHANGED <<sent, closed>>

\* Everything was delivered.
Close(c) == /\ got[c] = sent[c]
            /\ closed' = [closed EXCEPT ![c] = TRUE]
            /\ UNCHANGED <<sent, got>>

ChannelNext == \E c \in Channel : \/ \E l \in Line : Put(c, l) \/ Get(c, l)
                                  \/ Close(c)

ChannelSpec == ChannelInit /\ [][ChannelNext]_<<sent, got, closed>>

=============================================================================

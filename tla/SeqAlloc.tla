------------------------------- MODULE SeqAlloc -------------------------------
(***************************************************************************)
(* What a sequence-number server of SP_HW8 promises: a client that asks    *)
(* for n numbers is granted the next n.  The counter is a C int in the     *)
(* memory of one server process; it starts at 0.  Several servers know     *)
(* nothing of each other.                                                  *)
(***************************************************************************)
EXTENDS Integers

CONSTANTS
  Server,   \* server processes, each with a counter of its own
  Client,   \* who may be granted numbers
  Amount,   \* how many numbers may be asked for
  IntMax    \* INT_MAX

CInt == -(IntMax + 1) .. IntMax

\* What the allocator needs of its constants.
IntsGiven == IntMax \in Nat /\ Amount \subseteq CInt

\* Signed addition as the compiled code does it: it wraps around.
Wrap(n) == ((n + IntMax + 1) % (2 * (IntMax + 1))) - (IntMax + 1)

VARIABLES
  next,     \* the counter of each server
  granted,  \* the grants so far
  sunk      \* the servers whose counter has moved down once

allocVars == <<next, granted, sunk>>

AllocInit == /\ next = [s \in Server |-> 0]
             /\ granted = {}
             /\ sunk = {}

\* The counter passes n numbers.
Advance(s, n) ==
  /\ next' = [next EXCEPT ![s] = Wrap(@ + n)]
  /\ sunk' = IF Wrap(next[s] + n) < next[s] THEN sunk \cup {s} ELSE sunk

Grant(s, c, n) ==
  /\ granted' = granted \cup
       {[by |-> s, to |-> c, from |-> next[s], amount |-> n]}
  /\ Advance(s, n)

AllocNext == \E s \in Server, c \in Client, n \in Amount : Grant(s, c, n)

AllocSpec == AllocInit /\ [][AllocNext]_allocVars

-----------------------------------------------------------------------------
\* The numbers of a grant; none when the amount is negative.
Numbers(g) == g.from .. g.from + g.amount - 1

\* A server whose counter has never moved down grants no number twice.
GrantsAreDisjoint ==
  \A g, h \in granted :
    /\ g # h
    /\ g.by = h.by
    /\ g.by \notin sunk
    => Numbers(g) \cap Numbers(h) = {}

=============================================================================

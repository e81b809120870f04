------------------------------- MODULE CondVar -------------------------------
(***************************************************************************)
(* quiz_2/1.c: one producer thread, a one-byte buffer, consumers that wait *)
(* on a condition variable without a predicate.  A consumer that sees the  *)
(* terminator leaves with the mutex locked.  The data are numbered.        *)
(*                                                                         *)
(* External: pthread_cond_wait gives the mutex back and sleeps in one      *)
(* step, and may return although nobody has called (Spurious).             *)
(***************************************************************************)
EXTENDS Integers, Sequences, FiniteSets

CONSTANTS Consumer,    \* threads there may be
          NumData,     \* num_datapoints
          MaxSpurious, \* bound: calls nobody made
          Free         \* no owner

Initially  == 0            \* the character '&'
Terminator == NumData + 1  \* the character '#'

VARIABLES
  program,
  threads,     \* num_consumers of them
  ppc,         \* the producer
  i,           \* data it has written
  buffer,
  created,     \* consumers created
  mtx,         \* owner of the mutex
  cpc,         \* consumers
  got,         \* history: what each has added up
  broadcasts,  \* history
  spurious
vars == <<program, threads, ppc, i, buffer, created, mtx, cpc, got, broadcasts, spurious>>

-----------------------------------------------------------------------------
(* The producer.                                                           *)

ProdRest == UNCHANGED <<program, threads, mtx, got, spurious>>

Create(c) ==
  /\ program = "condvar" /\ ppc = "create" /\ c \in threads \ created
  /\ created' = created \cup {c}
  /\ cpc' = [cpc EXCEPT ![c] = "lock"]
  /\ ProdRest /\ UNCHANGED <<ppc, i, buffer, broadcasts>>

\* The loop is entered when all are created.
Write ==
  /\ program = "condvar" /\ i < NumData
  /\ ppc = "write" \/ (ppc = "create" /\ created = threads)
  /\ i' = i + 1 /\ buffer' = i + 1
  /\ ppc' = "broadcast"
  /\ ProdRest /\ UNCHANGED <<created, cpc, broadcasts>>

\* The mutex is not held: who does not wait yet is not called.
Broadcast ==
  /\ ppc = "broadcast"
  /\ cpc' = [c \in Consumer |-> IF cpc[c] = "waiting" THEN "woken" ELSE cpc[c]]
  /\ broadcasts' = broadcasts + 1
  /\ ppc' = "write"
  /\ ProdRest /\ UNCHANGED <<i, buffer, created>>

\* The terminator is not broadcast.
Terminate ==
  /\ ppc = "write" /\ i = NumData
  /\ buffer' = Terminator
  /\ ppc' = "join"
  /\ ProdRest /\ UNCHANGED <<i, created, cpc, broadcasts>>

Join ==
  /\ ppc = "join" /\ \A c \in threads : cpc[c] = "exited"
  /\ ppc' = "ended"
  /\ ProdRest /\ UNCHANGED <<i, buffer, created, cpc, broadcasts>>

-----------------------------------------------------------------------------
(* A consumer.                                                             *)

Turn(c, l) == cpc' = [cpc EXCEPT ![c] = l]
ConsRest == UNCHANGED <<program, threads, ppc, i, buffer, created, broadcasts>>

LockAndWait(c) ==
  /\ cpc[c] = "lock" /\ mtx = Free
  /\ Turn(c, "waiting")
  /\ ConsRest /\ UNCHANGED <<mtx, got, spurious>>

Spurious(c) ==
  /\ cpc[c] = "waiting" /\ spurious < MaxSpurious
  /\ spurious' = spurious + 1
  /\ Turn(c, "woken")
  /\ ConsRest /\ UNCHANGED <<mtx, got>>

Relock(c) ==
  /\ cpc[c] = "woken" /\ mtx = Free
  /\ mtx' = c
  /\ Turn(c, "check")
  /\ ConsRest /\ UNCHANGED <<got, spurious>>

\* pthread_exit without unlocking, or the sum goes on.
Check(c) ==
  /\ cpc[c] = "check"
  /\ IF buffer = Terminator
       THEN Turn(c, "exited") /\ UNCHANGED got
       ELSE Turn(c, "unlock") /\ got' = [got EXCEPT ![c] = Append(@, buffer)]
  /\ ConsRest /\ UNCHANGED <<mtx, spurious>>

Unlock(c) ==
  /\ cpc[c] = "unlock"
  /\ mtx' = Free
  /\ Turn(c, "lock")
  /\ ConsRest /\ UNCHANGED <<got, spurious>>

-----------------------------------------------------------------------------
Init == /\ threads \in IF program = "condvar" THEN SUBSET Consumer \ {{}} ELSE {{}}
        /\ ppc = "create" /\ i = 0 /\ buffer = Initially /\ created = {}
        /\ mtx = Free
        /\ cpc = [c \in Consumer |-> "none"]
        /\ got = [c \in Consumer |-> <<>>]
        /\ broadcasts = 0 /\ spurious = 0

ProducerNext == (\E c \in Consumer : Create(c)) \/ Write \/ Broadcast \/ Terminate
                \/ Join
ConsumerNext(c) == LockAndWait(c) \/ Relock(c) \/ Check(c) \/ Unlock(c)

Next == ProducerNext \/ \E c \in Consumer : ConsumerNext(c) \/ Spurious(c)

Fairness == WF_vars(ProducerNext) /\ \A c \in Consumer : WF_vars(ConsumerNext(c))

-----------------------------------------------------------------------------
\* 1.c:34-51 and 85-94: a consumer adds at most one value for each time it is
\* called, and no older one after a newer, though one may be lost or counted
\* twice; only the first that sees the terminator gets past the mutex, so with
\* two consumers the program is never at its end.
OneValuePerCall ==
  \A c \in Consumer :
    /\ Len(got[c]) + (IF cpc[c] \in {"woken", "check"} THEN 1 ELSE 0)
         <= broadcasts + spurious
    /\ \A m, n \in DOMAIN got[c] : m < n => got[c][m] <= got[c][n]
    /\ cpc[c] = "exited" => mtx = c
    /\ ppc = "ended" /\ c \in threads => threads = {c}

\* The producer gets to its join, and no consumer keeps the mutex otherwise.
JoinIsReached ==
  program = "condvar" ~>
    /\ ppc \in {"join", "ended"}
    /\ mtx = Free \/ cpc[mtx] = "exited"

=============================================================================

--------------------------- MODULE ProducerConsumer ---------------------------
(***************************************************************************)
(* SP_HW10: a producer writes numbered data into a ring in shared memory   *)
(* without waiting for anybody and announces each datum to every consumer  *)
(* with sigqueue(SIGUSR1).  A consumer's handler compares the slot with    *)
(* the announced number and, if it is still there, counts it in cnt under  *)
(* the semaphore sem1.  At the end the producer kills the consumers and    *)
(* prints cnt.                                                             *)
(*                                                                         *)
(* SIGUSR1 is a standard signal: while one is pending for a process the    *)
(* kernel drops the next ones, values included, and it stays blocked while *)
(* its handler runs.  The kernel's part (delivery, death) is external.     *)
(***************************************************************************)
EXTENDS Integers, FiniteSets

CONSTANTS
  DataAmount,      \* how many data the producer makes
  ConsumerAmount,  \* how many consumers it forks
  BufferRow,       \* slots of the ring
  NoDatum          \* no number

ASSUME ProducerConsumerAssumption ==
  /\ DataAmount \in Nat \ {0}
  /\ ConsumerAmount \in Nat \ {0}
  /\ BufferRow \in Nat \ {0}
  /\ NoDatum \notin Int

Datum    == 0 .. DataAmount - 1
Consumer == 0 .. ConsumerAmount - 1
Row      == 0 .. BufferRow - 1

ProducerPC == {"write", "writing", "send", "kill", "lock", "report", "unlock",
               "done"}
ConsumerPC == {"start", "ready", "compare", "wait", "load", "store", "post"}

VARIABLES
  ppc,      \* the next statement of the producer
  i, j,     \* its loop variables: the datum and the consumer
  buf,      \* buf[r]: the number in slot r; None when nothing was written yet
            \* or the producer is writing it
  pc,       \* pc[c]: the next statement of consumer c, where it died if dead
  pending,  \* pending[c]: the value of its pending SIGUSR1
  hand,     \* hand[c]: the value its handler was called with
  reg,      \* reg[c]: cnt as the increment of c has read it
  fate,     \* "alive", "doomed" (SIGKILL sent, not yet acted on) or "dead"
  sem1,     \* the semaphore in the segment
  cnt,      \* the counter in the segment
  counted   \* history: the pairs <<c, v>> consumer c has counted

producer == <<ppc, i, j, buf>>
consumer == <<pc, hand, reg>>
ringVars == <<ppc, i, j, buf, pc, pending, hand, reg, fate, sem1, cnt, counted>>

Slot(v) == v % BufferRow

-----------------------------------------------------------------------------
(* The producer.                                                           *)

\* snprintf into the slot, byte by byte: it begins ...
WriteBegin ==
  /\ ppc = "write"
  /\ ppc' = "writing"
  /\ buf' = [buf EXCEPT ![Slot(i)] = NoDatum]
  /\ UNCHANGED <<i, j, consumer, pending, fate, sem1, cnt, counted>>

\* Mutant: the number goes to the next slot.
WriteEnd_NextSlot ==
  /\ ppc = "writing"
  /\ ppc' = "send"
  /\ j' = 0
  /\ buf' = [buf EXCEPT ![Slot(i + 1)] = i]
  /\ UNCHANGED <<i, consumer, pending, fate, sem1, cnt, counted>>

\* ... and ends.
WriteEnd ==
  /\ ppc = "writing"
  /\ ppc' = "send"
  /\ j' = 0
  /\ buf' = [buf EXCEPT ![Slot(i)] = i]
  /\ UNCHANGED <<i, consumer, pending, fate, sem1, cnt, counted>>

\* Mutant: one datum too many.
NextDatum_OneMore ==
  /\ i' = i + 1
  /\ j' = 0
  /\ ppc' = IF i <= DataAmount THEN "write" ELSE "kill"

\* The next round of the outer loop, or the kills.
NextDatum ==
  /\ i' = i + 1
  /\ j' = 0
  /\ ppc' = IF i + 1 < DataAmount THEN "write" ELSE "kill"

\* sigqueue(c, SIGUSR1, v): lost when one is pending or c is a zombie.
Signal(c, v) ==
  pending' = IF pending[c] = NoDatum /\ fate[c] # "dead"
             THEN [pending EXCEPT ![c] = v]
             ELSE pending

\* Mutant: every round of the inner loop signals the first consumer.
Send_ToTheFirst ==
  /\ ppc = "send"
  /\ Signal(0, i)
  /\ IF j + 1 < ConsumerAmount THEN j' = j + 1 /\ UNCHANGED <<ppc, i>>
                               ELSE NextDatum
  /\ UNCHANGED <<buf, consumer, fate, sem1, cnt, counted>>

\* One round of the inner loop; the time is up after it or not.
Send ==
  /\ ppc = "send"
  /\ Signal(j, i)
  /\ \/ /\ j + 1 < ConsumerAmount
        /\ j' = j + 1
        /\ UNCHANGED <<ppc, i>>
     \/ NextDatum
  /\ UNCHANGED <<buf, consumer, fate, sem1, cnt, counted>>

\* kill(consumers[j], SIGKILL); killing a zombie succeeds and does nothing.
Kill ==
  /\ ppc = "kill"
  /\ fate' = [fate EXCEPT ![j] = IF @ = "dead" THEN "dead" ELSE "doomed"]
  /\ IF j + 1 < ConsumerAmount THEN j' = j + 1 /\ UNCHANGED ppc
                               ELSE ppc' = "lock" /\ UNCHANGED j
  /\ UNCHANGED <<i, buf, consumer, pending, sem1, cnt, counted>>

\* sem_wait: for ever when a consumer died with the semaphore.
Lock ==
  /\ ppc = "lock"
  /\ sem1 > 0
  /\ sem1' = sem1 - 1
  /\ ppc' = "report"
  /\ UNCHANGED <<i, j, buf, consumer, pending, fate, cnt, counted>>

\* cnt is printed.
Report ==
  /\ ppc = "report"
  /\ ppc' = "unlock"
  /\ UNCHANGED <<i, j, buf, consumer, pending, fate, sem1, cnt, counted>>

\* sem_post; the mapping and the name go.
Unlock ==
  /\ ppc = "unlock"
  /\ sem1' = sem1 + 1
  /\ ppc' = "done"
  /\ UNCHANGED <<i, j, buf, consumer, pending, fate, cnt, counted>>

-----------------------------------------------------------------------------
(* A consumer.                                                             *)

Step(c, from, to) == /\ pc[c] = from
                     /\ fate[c] # "dead"
                     /\ pc' = [pc EXCEPT ![c] = to]

\* sigaction: from here on SIGUSR1 calls the handler.
Install(c) ==
  /\ Step(c, "start", "ready")
  /\ UNCHANGED <<producer, pending, hand, reg, fate, sem1, cnt, counted>>

\* The pending signal interrupts sigsuspend (or what main does around it).
Deliver(c) ==
  /\ Step(c, "ready", "compare")
  /\ pending[c] # NoDatum
  /\ hand' = [hand EXCEPT ![c] = pending[c]]
  /\ pending' = [pending EXCEPT ![c] = NoDatum]
  /\ UNCHANGED <<producer, reg, fate, sem1, cnt, counted>>

\* The signal comes before sigaction: its default action ends the process.
DieBySignal(c) ==
  /\ pc[c] = "start"
  /\ fate[c] # "dead"
  /\ pending[c] # NoDatum
  /\ fate' = [fate EXCEPT ![c] = "dead"]
  /\ UNCHANGED <<producer, consumer, pending, sem1, cnt, counted>>

\* SIGKILL takes effect.
DieByKill(c) ==
  /\ fate[c] = "doomed"
  /\ fate' = [fate EXCEPT ![c] = "dead"]
  /\ UNCHANGED <<producer, consumer, pending, sem1, cnt, counted>>

\* strcmp of the slot with the value; in a half-written slot it may find
\* either.
Compare(c) ==
  /\ \/ /\ Step(c, "compare", "wait")
        /\ buf[Slot(hand[c])] \in {hand[c], NoDatum}
     \/ /\ Step(c, "compare", "ready")
        /\ buf[Slot(hand[c])] # hand[c]
  /\ UNCHANGED <<producer, pending, hand, reg, fate, sem1, cnt, counted>>

\* Mutant: the counter is not protected.
Wait_Skipped(c) ==
  /\ Step(c, "wait", "load")
  /\ UNCHANGED <<producer, pending, hand, reg, fate, sem1, cnt, counted>>

Wait(c) ==
  /\ Step(c, "wait", "load")
  /\ sem1 > 0
  /\ sem1' = sem1 - 1
  /\ UNCHANGED <<producer, pending, hand, reg, fate, cnt, counted>>

\* cnt++ reads ...
Load(c) ==
  /\ Step(c, "load", "store")
  /\ reg' = [reg EXCEPT ![c] = cnt]
  /\ UNCHANGED <<producer, pending, hand, fate, sem1, cnt, counted>>

\* ... and writes.
Store(c) ==
  /\ Step(c, "store", "post")
  /\ cnt' = reg[c] + 1
  /\ counted' = counted \cup {<<c, hand[c]>>}
  /\ UNCHANGED <<producer, pending, hand, reg, fate, sem1>>

\* Mutant: the handler returns without posting.
Post_Forgotten(c) ==
  /\ Step(c, "post", "ready")
  /\ UNCHANGED <<producer, pending, hand, reg, fate, sem1, cnt, counted>>

\* sem_post, and the handler returns.
Post(c) ==
  /\ Step(c, "post", "ready")
  /\ sem1' = sem1 + 1
  /\ UNCHANGED <<producer, pending, hand, reg, fate, cnt, counted>>

-----------------------------------------------------------------------------
\* After the fork loop: every consumer exists, none has got to sigaction.
RingInit ==
  /\ ppc = "write"
  /\ i = 0
  /\ j = 0
  /\ buf = [r \in Row |-> NoDatum]
  /\ pc = [c \in Consumer |-> "start"]
  /\ pending = [c \in Consumer |-> NoDatum]
  /\ hand = [c \in Consumer |-> NoDatum]
  /\ reg = [c \in Consumer |-> 0]
  /\ fate = [c \in Consumer |-> "alive"]
  /\ sem1 = 1
  /\ cnt = 0
  /\ counted = {}

ProducerNext == \/ WriteBegin
                \/ WriteEnd
                \/ Send
                \/ Kill
                \/ Lock
                \/ Report
                \/ Unlock

\* The handler once it was called.
Handler(c) == \/ Compare(c)
              \/ Wait(c)
              \/ Load(c)
              \/ Store(c)
              \/ Post(c)

ConsumerNext(c) == \/ Install(c)
                   \/ Deliver(c)
                   \/ DieBySignal(c)
                   \/ DieByKill(c)
                   \/ Handler(c)

RingNext == \/ ProducerNext
            \/ \E c \in Consumer : ConsumerNext(c)

RingSpec == RingInit /\ [][RingNext]_ringVars

\* Every process that can run is scheduled; a signal is delivered and a
\* SIGKILL takes effect.
FairRingSpec == /\ RingSpec
                /\ WF_ringVars(ProducerNext)
                /\ \A c \in Consumer : /\ WF_ringVars(ConsumerNext(c))
                                       /\ WF_ringVars(DieByKill(c))

-----------------------------------------------------------------------------
(* Properties.                                                             *)

\* Type correctness of every variable.
RingTypeOK ==
  /\ ppc \in ProducerPC
  /\ i \in 0 .. DataAmount
  /\ j \in Consumer
  /\ buf \in [Row -> Datum \cup {NoDatum}]
  /\ pc \in [Consumer -> ConsumerPC]
  /\ pending \in [Consumer -> Datum \cup {NoDatum}]
  /\ hand \in [Consumer -> Datum \cup {NoDatum}]
  /\ reg \in [Consumer -> Nat]
  /\ fate \in [Consumer -> {"alive", "doomed", "dead"}]
  /\ sem1 \in 0 .. 1
  /\ cnt \in Nat
  /\ counted \subseteq Consumer \X Datum

\* Who is between sem_wait and sem_post, dead or alive.
Holds(c) == pc[c] \in {"load", "store", "post"}
ProducerHolds == ppc \in {"report", "unlock"}

\* consumer.c:13-15, producer.c:119-123: sem1 has one holder at a time and is
\* 0 exactly while there is one, even one that was killed.
MutualExclusion ==
  /\ \A c, d \in Consumer : Holds(c) /\ Holds(d) => c = d
  /\ ProducerHolds => \A c \in Consumer : ~Holds(c)
  /\ sem1 = 0 <=> ProducerHolds \/ \E c \in Consumer : Holds(c)

\* producer_consumer.h:25 and consumer.c:14: no increment of cnt is lost: it
\* is the number of counted announcements whatever the interleaving, also
\* after consumers died anywhere in the handler.
CountIsExact == cnt = Cardinality(counted)

\* producer.c:72-105, consumer.c:7: a consumer gets the data in the order they
\* were made, no datum twice, although signals are dropped while one is
\* pending: what waits is newer than what the handler holds, and both are
\* newer than everything that was counted before.
InOrder ==
  \A c \in Consumer :
    /\ \A v \in Datum : <<c, v>> \in counted =>
         /\ pending[c] # NoDatum => v < pending[c]
         /\ pc[c] \in {"compare", "wait", "load", "store"} => v < hand[c]
    /\ pending[c] # NoDatum /\ hand[c] # NoDatum => hand[c] < pending[c]

\* producer.c:122: the sum never exceeds the messages, so that the loss rate
\* is never negative.
LossRateIsARate == cnt <= DataAmount * ConsumerAmount

\* producer.c:80, consumer.c:12: the datum of an announcement that waits or is
\* in the hand of a handler is in its slot until the producer is a full lap
\* ahead: only overwriting makes a consumer reject it.
AnnouncedUntilLapped ==
  \A c \in Consumer :
    \A v \in {pending[c]} \cup (IF pc[c] = "compare" THEN {hand[c]} ELSE {}) :
      v # NoDatum => buf[Slot(v)] = v \/ i >= v + BufferRow

\* producer.c:119: the producer comes to its end, or it sleeps on the semaphore
\* of a consumer it killed in the handler.
ProducerEnds ==
  <>(\/ ppc = "done"
     \/ /\ ppc = "lock"
        /\ \E c \in Consumer : Holds(c) /\ fate[c] = "dead")

=============================================================================

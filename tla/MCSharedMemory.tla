--------------------------- MODULE MCSharedMemory ---------------------------
(***************************************************************************)
(* The two systems that pass data through shared memory under semaphores,  *)
(* on small instances: ShmXfr with two writers, two readers, one text and  *)
(* one blank line, and ProducerConsumer with three data, two consumers and *)
(* two slots.  A behaviour is one of the one or of the other.              *)
(***************************************************************************)
EXTENDS ShmXfr, ProducerConsumer

CONSTANTS w1, w2, r1, r2, text, blank

MCWriter == {w1, w2}
MCReader == {r1, r2}
MCLine   == {text, blank}
MCBlank  == {blank}

VARIABLE system

Transfer == system = "transfer"
Ring     == system = "ring"

EitherInit == system \in {"transfer", "ring"} /\ Init /\ RingInit

EitherNext == /\ UNCHANGED system
              /\ \/ Transfer /\ Next /\ UNCHANGED ringVars
                 \/ Ring /\ RingNext /\ UNCHANGED vars

\* Both with their own fairness.
FairEither ==
  /\ EitherInit /\ [][EitherNext]_<<system, vars, ringVars>>
  /\ \A w \in Writer : WF_vars(Transfer /\ WriterGoesOn(w))
  /\ \A r \in Reader : WF_vars(Transfer /\ ReaderGoesOn(r))
  /\ WF_ringVars(Ring /\ ProducerNext)
  /\ \A c \in Consumer : /\ WF_ringVars(Ring /\ ConsumerNext(c))
                         /\ WF_ringVars(Ring /\ DieByKill(c))

\* producer.c:119: the producer comes to its end, or it sleeps on the semaphore
\* of a consumer it killed in the handler.
RingEnds == Ring => ProducerEnds

=============================================================================

-------------------------- MODULE MsgqSeqnum_proofs --------------------------
(***************************************************************************)
(* Proofs about MsgqSeqnum, for every number of servers and clients, every *)
(* size of the queue and width of int, and any number of kills: a server   *)
(* is a sequence allocator, a client gets the answer to its own request,   *)
(* the ranges of numbers the clients print are disjoint, no request is     *)
(* lost or doubled, and it takes a crowd to fill the queue under a server. *)
(***************************************************************************)
EXTENDS MsgqSeqnum, SequenceTheorems, FiniteSetTheorems, TLAPS

\* A queue in use was created by a server that has been started.
Names == /\ live = None => queue = <<>>
         /\ live # None => spc[live] # "new"
         /\ \A p \in Server \cup Client :
              msgid[p] # None => spc[msgid[p]] # "new"

Kills == \A c \in Client : c \in killed <=> cpc[c] = "killed"

OnePid == \A c, d \in Client :
            Running(c) /\ Running(d) /\ c # d => PidOf[c] # PidOf[d]

\* A message says what its client asked for, and a reply what it was granted.
Well(m) == /\ m.request_value = increment[m.who]
           /\ m.mtype = Request => m.seq_num = PidOf[m.who]
           /\ m.mtype # Request => /\ m.mtype = PidOf[m.who]
                                   /\ GrantOf(m) \in granted

\* Client c's own message may still be under way.
Pending(c) == \/ cpc[c] \in {"wait", "killed"}
              \/ cpc[c] = "done" /\ Inherits(c)

Known(m) == msgid[m.who] = live /\ Pending(m.who)

Holds(s) == spc[s] = "reply" /\ Opened(s)

Queued == \A i \in 1..Len(queue) : Well(queue[i]) /\ Known(queue[i])

Held == \A s \in Server : \A m \in msg[s] :
          /\ Well(m)
          /\ m.mtype # Request
          /\ Holds(s) => Known(m)

\* No client has two messages.
Single ==
  /\ \A i, j \in 1..Len(queue) : queue[i].who = queue[j].who => i = j
  /\ \A s \in Server : \A m \in msg[s] :
       Holds(s) =>
         /\ \A i \in 1..Len(queue) : queue[i].who # m.who
         /\ \A t \in Server : \A n \in msg[t] :
              Holds(t) /\ n.who = m.who => t = s

Answers == /\ \A c \in Client : \A m \in answer[c] : cpc[c] = "done"
           /\ AnswerIsMine

IInv == TypeOK /\ Names /\ Kills /\ OnePid /\ Queued /\ Held /\ Single /\ Answers

\* A message that stands for client c exists on the live queue.
UnderWay(c) == \/ \E i \in 1..Len(queue) : queue[i].who = c
               \/ \E s \in Server : Holds(s) /\ \E m \in msg[s] : m.who = c

\* A server has one message at most; a client that waits has its message under
\* way or lost, and one whose answer was taken has none.
KeptInv ==
  /\ \A s \in Server : /\ \A m, n \in msg[s] : m.who = n.who
                       /\ s \in killed => spc[s] = "killed"
  /\ \A c \in Client : cpc[c] = "wait" /\ Opened(c) => UnderWay(c) \/ Lost(c)
  /\ \A c \in Client : \A m \in answer[c] :
       cpc[m.who] \in {"done", "killed"} /\ ~UnderWay(m.who)

\* Every message under way stands for a client that waits or was killed: its
\* own, or one with the same pid whose answer that client has taken.
Waiting == {c \in Client : cpc[c] \in {"wait", "killed"}}
Crowd   == {c \in Waiting : Opened(c)}
Busy    == {s \in Server : Holds(s)}

CrowdInv == /\ IsFiniteSet(Waiting)
            /\ IsFiniteSet(Busy)
            /\ Len(queue) + Cardinality(Busy) <= Cardinality(Crowd)

-----------------------------------------------------------------------------
(* Sequences.                                                              *)

\* Where element k of a sequence without its i-th element comes from.
Origin(i, k) == IF k < i THEN k ELSE k + 1

LEMMA Removal ==
  ASSUME NEW T, NEW q \in Seq(T), NEW i \in 1..Len(q)
  PROVE  /\ RemoveAt(q, i) \in Seq(T)
         /\ Len(RemoveAt(q, i)) = Len(q) - 1
         /\ \A k \in 1..Len(RemoveAt(q, i)) :
              /\ Origin(i, k) \in 1..Len(q)
              /\ Origin(i, k) # i
              /\ RemoveAt(q, i)[k] = q[Origin(i, k)]
<1> DEFINE a == SubSeq(q, 1, i - 1)
           b == SubSeq(q, i + 1, Len(q))
<1>1. /\ a \in Seq(T)
      /\ Len(a) = i - 1
      /\ \A k \in 1..(i - 1) : a[k] = q[k]
  BY SMT
<1>2. /\ b \in Seq(T)
      /\ Len(b) = Len(q) - i
      /\ \A k \in 1..(Len(q) - i) : b[k] = q[k + i]
  BY SMT
<1>3. RemoveAt(q, i) = a \o b
  BY DEF RemoveAt
<1> HIDE DEF a, b
<1>4. /\ a \o b \in Seq(T)
      /\ Len(a \o b) = Len(q) - 1
      /\ \A k \in 1..(Len(q) - 1) :
           (a \o b)[k] = IF k <= i - 1 THEN a[k] ELSE b[k - (i - 1)]
  <2>1. a \o b \in Seq(T)
    BY <1>1, <1>2
  <2>2. Len(q) \in Nat /\ (i - 1) + (Len(q) - i) = Len(q) - 1
    BY LenProperties
  <2>3. Len(a \o b) = Len(q) - 1
    BY <1>1, <1>2, <2>2, ConcatProperties
  <2>4. \A k \in 1..(Len(a) + Len(b)) :
          (a \o b)[k] = IF k <= Len(a) THEN a[k] ELSE b[k - Len(a)]
    BY <1>1, <1>2, ConcatProperties
  <2> QED
    BY <1>1, <1>2, <2>1, <2>2, <2>3, <2>4
<1>5. ASSUME NEW k \in 1..(Len(q) - 1)
      PROVE  /\ Origin(i, k) \in 1..Len(q)
             /\ Origin(i, k) # i
             /\ (a \o b)[k] = q[Origin(i, k)]
  <2>1. CASE k < i
    BY <2>1, <1>1, <1>4 DEF Origin
  <2>2. CASE ~(k < i)
    <3>1. k - (i - 1) \in 1..(Len(q) - i)
      BY <2>2
    <3>2. b[k - (i - 1)] = q[(k - (i - 1)) + i]
      BY <3>1, <1>2
    <3>3. (k - (i - 1)) + i = k + 1 /\ ~(k <= i - 1)
      BY <2>2
    <3> QED
      BY <2>2, <3>2, <3>3, <1>4 DEF Origin
  <2> QED
    BY <2>1, <2>2
<1> QED
  BY <1>3, <1>4, <1>5

\* A message taken out of the queue was there, and the others stay.
LEMMA Taken ==
  ASSUME TypeOK, NEW p, NEW t, NEW m, Take(p, t, m)
  PROVE  /\ Opened(p)
         /\ queue' \in Seq(Message) /\ Len(queue') <= QMax
         /\ Len(queue') = Len(queue) - 1
         /\ m \in Message /\ m.mtype = t
         /\ \E i \in 1..Len(queue) :
              /\ m = queue[i]
              /\ \A k \in 1..Len(queue') :
                   /\ Origin(i, k) \in 1..Len(queue)
                   /\ Origin(i, k) # i
                   /\ queue'[k] = queue[Origin(i, k)]
              /\ \A j \in 1..Len(queue) :
                   j # i => \E k \in 1..Len(queue') : queue'[k] = queue[j]
<1>1. PICK i \in 1..Len(queue) : /\ queue[i].mtype = t
                                 /\ m = queue[i]
                                 /\ queue' = RemoveAt(queue, i)
  BY DEF Take
<1>2. queue \in Seq(Message) /\ Len(queue) <= QMax /\ QMax \in Nat
  BY MsgqAssumption DEF TypeOK
<1>3. /\ RemoveAt(queue, i) \in Seq(Message)
      /\ Len(RemoveAt(queue, i)) = Len(queue) - 1
      /\ \A k \in 1..Len(RemoveAt(queue, i)) :
           /\ Origin(i, k) \in 1..Len(queue)
           /\ Origin(i, k) # i
           /\ RemoveAt(queue, i)[k] = queue[Origin(i, k)]
  BY <1>2, Removal
<1>4. Opened(p)
  BY DEF Take
<1>5. /\ queue' \in Seq(Message) /\ Len(queue') <= QMax /\ m \in Message
      /\ Len(queue') = Len(queue) - 1
  BY <1>1, <1>2, <1>3
<1>6. ASSUME NEW j \in 1..Len(queue), j # i
      PROVE  \E k \in 1..Len(queue') : queue'[k] = queue[j]
  <2> DEFINE k == IF j < i THEN j ELSE j - 1
  <2>1. k \in 1..Len(queue') /\ Origin(i, k) = j
    BY <1>2, <1>5, <1>6 DEF Origin
  <2> QED
    BY <1>1, <1>3, <2>1
<1> QED
  BY <1>1, <1>3, <1>4, <1>5, <1>6

\* A message put into the queue is its last one, and the others stay.
LEMMA Sent ==
  ASSUME TypeOK, NEW p, NEW m \in Message, Send(p, m)
  PROVE  /\ Opened(p)
         /\ queue' \in Seq(Message) /\ Len(queue') <= QMax
         /\ Len(queue') = Len(queue) + 1
         /\ queue'[Len(queue')] = m
         /\ \A k \in 1..Len(queue) : queue'[k] = queue[k]
BY MsgqAssumption DEF Send, TypeOK

-----------------------------------------------------------------------------
(* Every action preserves the invariant.                                   *)

LEMMA InitInv == Init => IInv
<1> SUFFICES ASSUME Init PROVE IInv
  OBVIOUS
<1>1. TypeOK
  BY MsgqAssumption DEF Init, TypeOK, ClientPC, ServerPC, CInt
<1>2. Names /\ Kills /\ OnePid
  BY DEF Init, Names, Kills, OnePid, Running
<1>3. Queued /\ Held /\ Single /\ Answers
  BY DEF Init, Queued, Held, Single, Answers, AnswerIsMine
<1> QED
  BY <1>1, <1>2, <1>3 DEF IInv

LEMMA StartServerInv ==
  ASSUME IInv, NEW s \in Server, StartServer(s)
  PROVE  IInv'
<1>1. /\ spc[s] = "new"
      /\ spc' = [spc EXCEPT ![s] = "receive"]
      /\ msgid' = [msgid EXCEPT ![s] = live']
      /\ live = None => live' = s /\ queue' = <<>>
      /\ live # None => live' = live /\ queue' = queue
      /\ UNCHANGED <<seq_num, msg, cpc, increment, answer, granted, sunk,
                     killed>>
      /\ s \notin Client /\ s # None
  BY MsgqAssumption DEF StartServer, clientVars, history
<1>2. TypeOK'
  <2>1. queue' \in Seq(Message) /\ Len(queue') <= QMax
    <3>1. CASE queue' = <<>>
      BY <3>1, MsgqAssumption
    <3>2. CASE queue' = queue
      BY <3>2 DEF IInv, TypeOK
    <3> QED
      BY <1>1, <3>1, <3>2
  <2>2. live' \in Server \cup {None}
    BY <1>1 DEF IInv, TypeOK
  <2> QED
    BY <1>1, <2>1, <2>2 DEF IInv, TypeOK, ServerPC
<1>3. /\ spc'[s] = "receive"
      /\ \A t \in Server : t # s => spc'[t] = spc[t]
      /\ \A p \in Server \cup Client : p # s => msgid'[p] = msgid[p]
      /\ msgid'[s] = live'
  BY <1>1 DEF IInv, TypeOK
<1>4. Names'
  BY <1>1, <1>3 DEF IInv, Names, TypeOK
<1>5. Kills' /\ OnePid'
  BY <1>1 DEF IInv, Kills, OnePid, Running
<1>6. ASSUME NEW t \in Server, Holds(t)'
      PROVE  Holds(t) /\ live' = live
  BY <1>1, <1>3, <1>6 DEF IInv, Names, Holds, Opened
<1>7. \A m : Well(m) => Well(m)'
  BY <1>1 DEF Well
<1>8. \A m \in Message : live' = live /\ Known(m) => Known(m)'
  BY <1>1, <1>3 DEF Known, Pending, Inherits, Message
<1>9. Queued'
  BY <1>1, <1>7, <1>8 DEF IInv, Queued, TypeOK
<1>10. Held'
  BY <1>1, <1>6, <1>7, <1>8 DEF IInv, Held, TypeOK
<1>11. Single'
  <2>1. live' = live => queue' = queue
    BY <1>1
  <2>2. live' # live => \A t \in Server : ~Holds(t)'
    BY <1>6
  <2>3. live' # live => queue' = <<>>
    BY <1>1
  <2> QED
    BY <1>1, <1>6, <2>1, <2>2, <2>3 DEF IInv, Single
<1>12. Answers'
  BY <1>1 DEF IInv, Answers, AnswerIsMine, Inherits
<1> QED
  BY <1>2, <1>4, <1>5, <1>9, <1>10, <1>11, <1>12 DEF IInv

LEMMA CleanupInv ==
  ASSUME IInv, NEW s \in Server, Cleanup(s)
  PROVE  IInv'
<1>1. /\ spc[s] \in {"receive", "reply"}
      /\ spc' = [spc EXCEPT ![s] = "exited"]
      /\ \/ live' = None /\ queue' = <<>>
         \/ live' = live /\ queue' = queue
      /\ UNCHANGED <<msgid, seq_num, msg, cpc, increment, answer, granted,
                     sunk, killed>>
  BY DEF Cleanup, clientVars, history
<1>2. TypeOK'
  <2>1. queue' \in Seq(Message) /\ Len(queue') <= QMax
    <3>1. CASE queue' = <<>>
      BY <3>1, MsgqAssumption
    <3>2. CASE queue' = queue
      BY <3>2 DEF IInv, TypeOK
    <3> QED
      BY <1>1, <3>1, <3>2
  <2> QED
    BY <1>1, <2>1 DEF IInv, TypeOK, ServerPC
<1>3. /\ spc'[s] = "exited"
      /\ \A t \in Server : t # s => spc'[t] = spc[t]
  BY <1>1 DEF IInv, TypeOK
<1>4. Names'
  BY <1>1, <1>3 DEF IInv, Names, TypeOK
<1>5. Kills' /\ OnePid'
  BY <1>1 DEF IInv, Kills, OnePid, Running
<1>6. ASSUME NEW t \in Server, Holds(t)'
      PROVE  Holds(t) /\ live' = live
  BY <1>1, <1>3, <1>6 DEF Holds, Opened
<1>7. \A m : Well(m) => Well(m)'
  BY <1>1 DEF Well
<1>8. \A m : live' = live /\ Known(m) => Known(m)'
  BY <1>1 DEF Known, Pending, Inherits
<1>9. Queued'
  BY <1>1, <1>7, <1>8 DEF IInv, Queued
<1>10. Held'
  BY <1>1, <1>6, <1>7, <1>8 DEF IInv, Held
<1>11. Single'
  BY <1>1, <1>6 DEF IInv, Single
<1>12. Answers'
  BY <1>1 DEF IInv, Answers, AnswerIsMine, Inherits
<1> QED
  BY <1>2, <1>4, <1>5, <1>9, <1>10, <1>11, <1>12 DEF IInv

LEMMA StartClientInv ==
  ASSUME IInv, NEW c \in Client, StartClient(c)
  PROVE  IInv'
<1>1. /\ cpc[c] = "new"
      /\ cpc' = [cpc EXCEPT ![c] = IF live = None THEN "failed" ELSE "send"]
      /\ \A d \in Client : Running(d) => PidOf[d] # PidOf[c]
      /\ msgid' = [msgid EXCEPT ![c] = live]
      /\ UNCHANGED <<live, queue, increment, answer, spc, seq_num, msg, granted,
                     sunk, killed>>
      /\ c \notin Server
  BY MsgqAssumption DEF StartClient, serverVars, history
<1>2. TypeOK'
  BY <1>1 DEF IInv, TypeOK, ClientPC
<1>3. /\ cpc'[c] \in {"failed", "send"}
      /\ \A d \in Client : d # c => cpc'[d] = cpc[d]
      /\ msgid'[c] = live
      /\ \A p \in Server \cup Client : p # c => msgid'[p] = msgid[p]
  BY <1>1 DEF IInv, TypeOK
<1>4. Names'
  BY <1>1, <1>3 DEF IInv, Names, TypeOK
<1>5. Kills' /\ OnePid'
  BY <1>1, <1>3 DEF IInv, Kills, OnePid, Running
<1>6. \A t \in Server : Holds(t)' <=> Holds(t)
  BY <1>1, <1>3 DEF Holds, Opened
<1>7. \A m : Well(m) => Well(m)'
  BY <1>1 DEF Well
<1>8. \A m \in Message : Known(m) => Known(m)'
  BY <1>1, <1>3 DEF Known, Pending, Inherits, Message
<1>9. Queued'
  BY <1>1, <1>7, <1>8 DEF IInv, Queued, TypeOK
<1>10. Held'
  BY <1>1, <1>6, <1>7, <1>8 DEF IInv, Held, TypeOK
<1>11. Single'
  BY <1>1, <1>6 DEF IInv, Single
<1>12. Answers'
  BY <1>1, <1>3 DEF IInv, Answers, AnswerIsMine, Inherits
<1> QED
  BY <1>2, <1>4, <1>5, <1>9, <1>10, <1>11, <1>12 DEF IInv

LEMMA ClientFailsInv ==
  ASSUME IInv, NEW c \in Client, ClientFails(c)
  PROVE  IInv'
<1>1. /\ Running(c)
      /\ ~Opened(c)
      /\ cpc' = [cpc EXCEPT ![c] = "failed"]
      /\ UNCHANGED <<live, queue, msgid, increment, answer, spc, seq_num, msg,
                     granted, sunk, killed>>
  BY DEF ClientFails, serverVars, history
<1>2. TypeOK'
  BY <1>1 DEF IInv, TypeOK, ClientPC
<1>3. /\ cpc'[c] = "failed" /\ cpc[c] \in {"send", "wait"}
      /\ \A d \in Client : d # c => cpc'[d] = cpc[d]
  BY <1>1 DEF IInv, TypeOK, Running
<1>4. Names'
  BY <1>1 DEF IInv, Names
<1>5. Kills' /\ OnePid'
  BY <1>1, <1>3 DEF IInv, Kills, OnePid, Running
<1>6. \A t \in Server : Holds(t)' <=> Holds(t)
  BY <1>1 DEF Holds, Opened
<1>7. \A m : Well(m) => Well(m)'
  BY <1>1 DEF Well
<1>8. ASSUME NEW m \in Message, live # None, Known(m)
      PROVE  Known(m)'
  <2>1. m.who \in Client /\ m.who # c
    BY <1>1, <1>8 DEF Known, Opened, Message
  <2> QED
    BY <1>1, <1>3, <1>8, <2>1 DEF Known, Pending, Inherits
<1>9. Queued'
  <2>1. CASE live = None
    BY <1>1, <2>1 DEF IInv, Names, Queued
  <2>2. CASE live # None
    BY <1>1, <1>7, <1>8, <2>2 DEF IInv, Queued, TypeOK
  <2> QED
    BY <2>1, <2>2
<1>10. Held'
  BY <1>1, <1>6, <1>7, <1>8 DEF IInv, Held, TypeOK, Holds, Opened
<1>11. Single'
  BY <1>1, <1>6 DEF IInv, Single
<1>12. Answers'
  BY <1>1, <1>3 DEF IInv, Answers, AnswerIsMine, Inherits
<1> QED
  BY <1>2, <1>4, <1>5, <1>9, <1>10, <1>11, <1>12 DEF IInv

LEMMA KillInv ==
  ASSUME IInv, Kill
  PROVE  IInv'
<1>1. UNCHANGED <<live, queue, msgid, increment, answer, seq_num, msg, granted,
                  sunk>>
  BY DEF Kill
<1>2. /\ \A c \in Client :
            \/ cpc'[c] = cpc[c] /\ (c \in killed' <=> c \in killed)
            \/ Running(c) /\ cpc'[c] = "killed" /\ c \in killed'
      /\ \A s \in Server : \/ spc'[s] = spc[s]
                           \/ spc[s] # "new" /\ spc'[s] = "killed"
      /\ cpc' \in [Client -> ClientPC]
      /\ spc' \in [Server -> ServerPC]
      /\ killed \subseteq killed'
      /\ killed' \subseteq Server \cup Client
  <2>1. CASE \E c \in Client : /\ Running(c)
                               /\ cpc' = [cpc EXCEPT ![c] = "killed"]
                               /\ killed' = killed \cup {c}
                               /\ UNCHANGED spc
    BY <2>1 DEF IInv, TypeOK, ClientPC
  <2>2. CASE \E s \in Server : /\ spc[s] \in {"receive", "reply"}
                               /\ spc' = [spc EXCEPT ![s] = "killed"]
                               /\ killed' = killed \cup {s}
                               /\ UNCHANGED cpc
    BY <2>2, MsgqAssumption DEF IInv, TypeOK, ServerPC
  <2> QED
    BY <2>1, <2>2 DEF Kill
<1>3. TypeOK'
  BY <1>1, <1>2 DEF IInv, TypeOK
<1>4. Names'
  BY <1>1, <1>2 DEF IInv, Names, TypeOK
<1>5. Kills' /\ OnePid'
  BY <1>1, <1>2 DEF IInv, Kills, OnePid, Running
<1>6. \A t \in Server : Holds(t)' => Holds(t)
  BY <1>1, <1>2 DEF Holds, Opened
<1>7. \A m : Well(m) => Well(m)'
  BY <1>1 DEF Well
<1>8. \A c : Inherits(c) => Inherits(c)'
  BY <1>2 DEF Inherits
<1>9. \A m \in Message : Known(m) => Known(m)'
  BY <1>1, <1>2, <1>8 DEF Known, Pending, Message, Running
<1>10. Queued'
  BY <1>1, <1>7, <1>9 DEF IInv, Queued, TypeOK
<1>11. Held'
  BY <1>1, <1>6, <1>7, <1>9 DEF IInv, Held, TypeOK
<1>12. Single'
  BY <1>1, <1>6 DEF IInv, Single
<1>13. Answers'
  BY <1>1, <1>2, <1>8 DEF IInv, Answers, AnswerIsMine, Running
<1> QED
  BY <1>3, <1>4, <1>5, <1>10, <1>11, <1>12, <1>13 DEF IInv

LEMMA SendRequestInv ==
  ASSUME IInv, NEW c \in Client, SendRequest(c)
  PROVE  IInv'
<1>0. PICK m : m = RequestOf(c)
  OBVIOUS
<1>1. /\ cpc[c] = "send"
      /\ Send(c, m)
      /\ cpc' = [cpc EXCEPT ![c] = "wait"]
      /\ UNCHANGED <<live, msgid, increment, answer, spc, seq_num, msg, granted,
                     sunk, killed>>
  BY <1>0 DEF SendRequest, serverVars, history
<1>2. /\ m.mtype = Request
      /\ m.seq_num = PidOf[c]
      /\ m.request_value = increment[c]
      /\ m.who = c
      /\ m \in Message
  BY <1>0, MsgqAssumption DEF RequestOf, Message, IInv, TypeOK
<1>3. /\ Opened(c)
      /\ queue' \in Seq(Message) /\ Len(queue') <= QMax
      /\ Len(queue') = Len(queue) + 1
      /\ queue'[Len(queue')] = m
      /\ \A k \in 1..Len(queue) : queue'[k] = queue[k]
  BY <1>1, <1>2, Sent DEF IInv
<1>4. \A k \in 1..Len(queue') :
        \/ k \in 1..Len(queue) /\ queue'[k] = queue[k]
        \/ k = Len(queue') /\ queue'[k] = m
  <2>1. Len(queue) \in Nat
    BY DEF IInv, TypeOK
  <2> QED
    BY <1>3, <2>1
<1>5. TypeOK'
  BY <1>1, <1>3 DEF IInv, TypeOK, ClientPC
<1>6. /\ cpc'[c] = "wait"
      /\ \A d \in Client : d # c => cpc'[d] = cpc[d]
  BY <1>1 DEF IInv, TypeOK
<1>7. Names'
  BY <1>1, <1>3 DEF IInv, Names, Opened
<1>8. Kills' /\ OnePid'
  BY <1>1, <1>6 DEF IInv, Kills, OnePid, Running
<1>9. \A t \in Server : Holds(t)' <=> Holds(t)
  BY <1>1 DEF Holds, Opened
<1>10. \A n : Well(n) => Well(n)'
  BY <1>1 DEF Well
<1>11. \A n \in Message : Known(n) => Known(n)' /\ n.who # c
  BY <1>1, <1>6 DEF Known, Pending, Inherits, Message
<1>12. Well(m)' /\ Known(m)'
  BY <1>1, <1>2, <1>3, <1>6 DEF Well, Known, Pending, Opened
<1>13. Queued'
  BY <1>4, <1>10, <1>11, <1>12 DEF IInv, Queued, TypeOK
<1>14. Held'
  BY <1>1, <1>9, <1>10, <1>11 DEF IInv, Held, TypeOK
<1>15. /\ \A i \in 1..Len(queue) : queue[i].who # c
       /\ \A t \in Server : \A n \in msg[t] : Holds(t) => n.who # c
  BY <1>11 DEF IInv, Queued, Held, TypeOK
<1>16. Single'
  <2>1. ASSUME NEW i \in 1..Len(queue'), NEW j \in 1..Len(queue'),
               queue'[i].who = queue'[j].who
        PROVE  i = j
    BY <1>2, <1>4, <1>15, <2>1 DEF IInv, Single
  <2>2. ASSUME NEW t \in Server, NEW n \in msg[t], Holds(t),
               NEW i \in 1..Len(queue')
        PROVE  queue'[i].who # n.who
    BY <1>2, <1>4, <1>15, <2>2 DEF IInv, Single
  <2> QED
    BY <1>1, <1>9, <2>1, <2>2 DEF IInv, Single
<1>17. Answers'
  BY <1>1, <1>6 DEF IInv, Answers, AnswerIsMine, Inherits
<1> QED
  BY <1>5, <1>7, <1>8, <1>13, <1>14, <1>16, <1>17 DEF IInv

LEMMA ReplyInv ==
  ASSUME IInv, NEW s \in Server, Reply(s)
  PROVE  IInv'
<1>1. /\ spc[s] = "reply"
      /\ spc' = [spc EXCEPT ![s] = "receive"]
      /\ msg' = [msg EXCEPT ![s] = {}]
      /\ UNCHANGED <<live, msgid, seq_num, cpc, increment, answer, granted, sunk,
                     killed>>
      /\ \/ \E m \in msg[s] : Send(s, m)
         \/ ~Opened(s) /\ UNCHANGED queue
  BY DEF Reply, clientVars, history
<1>2. /\ spc'[s] = "receive" /\ msg'[s] = {}
      /\ \A t \in Server : t # s => spc'[t] = spc[t] /\ msg'[t] = msg[t]
  BY <1>1 DEF IInv, TypeOK
<1>3. \A t \in Server : Holds(t)' <=> Holds(t) /\ t # s
  BY <1>1, <1>2 DEF Holds, Opened
<1>4. \A n : /\ Well(n) => Well(n)'
             /\ Known(n) => Known(n)'
  BY <1>1 DEF Well, Known, Pending, Inherits
<1>5. Kills' /\ OnePid'
  BY <1>1 DEF IInv, Kills, OnePid, Running
<1>6. Held'
  BY <1>2, <1>3, <1>4 DEF IInv, Held
<1>7. Answers'
  BY <1>1 DEF IInv, Answers, AnswerIsMine, Inherits
<1>8. TypeOK /\ Len(queue) \in Nat
  BY DEF IInv, TypeOK
<1>9. CASE queue' = queue
  <2>1. TypeOK'
    BY <1>1, <1>9 DEF IInv, TypeOK, ServerPC
  <2>2. Names'
    BY <1>1, <1>2, <1>9 DEF IInv, Names, TypeOK
  <2>3. Queued'
    BY <1>4, <1>9 DEF IInv, Queued
  <2>4. Single'
    BY <1>2, <1>3, <1>9 DEF IInv, Single
  <2> QED
    BY <1>5, <1>6, <1>7, <2>1, <2>2, <2>3, <2>4 DEF IInv
<1>10. ASSUME NEW m \in msg[s], Send(s, m)
       PROVE  IInv'
  <2>1. m \in Message
    BY <1>8 DEF TypeOK
  <2>2. /\ Opened(s)
        /\ queue' \in Seq(Message) /\ Len(queue') <= QMax
        /\ Len(queue') = Len(queue) + 1
        /\ queue'[Len(queue')] = m
        /\ \A k \in 1..Len(queue) : queue'[k] = queue[k]
    BY <1>8, <1>10, <2>1, Sent
  <2>3. \A k \in 1..Len(queue') :
          \/ k \in 1..Len(queue) /\ queue'[k] = queue[k]
          \/ k = Len(queue') /\ queue'[k] = m
    BY <1>8, <2>2
  <2>4. Holds(s) /\ Well(m) /\ Known(m)
    BY <1>1, <2>2 DEF Holds, IInv, Held
  <2>5. TypeOK'
    BY <1>1, <2>2 DEF IInv, TypeOK, ServerPC
  <2>6. Names'
    BY <1>1, <1>2, <2>2 DEF IInv, Names, TypeOK, Opened
  <2>7. Queued'
    BY <1>4, <2>3, <2>4 DEF IInv, Queued
  <2>8. Single'
    <3>1. /\ \A i \in 1..Len(queue) : queue[i].who # m.who
          /\ \A t \in Server : \A n \in msg[t] :
               Holds(t) /\ n.who = m.who => t = s
      BY <2>4 DEF IInv, Single
    <3>2. ASSUME NEW i \in 1..Len(queue'), NEW j \in 1..Len(queue'),
                 queue'[i].who = queue'[j].who
          PROVE  i = j
      BY <2>3, <3>1, <3>2 DEF IInv, Single
    <3>3. ASSUME NEW t \in Server, NEW n \in msg[t], Holds(t), t # s,
                 NEW i \in 1..Len(queue')
          PROVE  queue'[i].who # n.who
      BY <2>3, <3>1, <3>3 DEF IInv, Single
    <3> QED
      BY <1>2, <1>3, <3>2, <3>3 DEF IInv, Single
  <2> QED
    BY <1>5, <1>6, <1>7, <2>5, <2>6, <2>7, <2>8 DEF IInv
<1> QED
  BY <1>1, <1>9, <1>10

\* What taking message m out of the queue leaves there.
LEMMA Remaining ==
  ASSUME IInv, NEW p, NEW t, NEW m, Take(p, t, m)
  PROVE  /\ Opened(p)
         /\ queue' \in Seq(Message) /\ Len(queue') <= QMax
         /\ m \in Message /\ m.mtype = t /\ Well(m) /\ Known(m)
         /\ \A k \in 1..Len(queue') :
              \E i \in 1..Len(queue) : /\ queue'[k] = queue[i]
                                      /\ queue[i].who # m.who
         /\ \A k, l \in 1..Len(queue') :
              queue'[k].who = queue'[l].who => k = l
         /\ \A s \in Server : \A n \in msg[s] :
              Holds(s) => n.who # m.who
<1>1. /\ Opened(p)
      /\ queue' \in Seq(Message) /\ Len(queue') <= QMax
      /\ m \in Message /\ m.mtype = t
  BY Taken DEF IInv
<1>2. PICK i \in 1..Len(queue) :
        /\ m = queue[i]
        /\ \A k \in 1..Len(queue') : /\ Origin(i, k) \in 1..Len(queue)
                                     /\ Origin(i, k) # i
                                     /\ queue'[k] = queue[Origin(i, k)]
  BY Taken DEF IInv
<1>3. /\ \A j, l \in 1..Len(queue) : queue[j].who = queue[l].who => j = l
      /\ \A s \in Server : \A n \in msg[s] :
           Holds(s) => \A j \in 1..Len(queue) : queue[j].who # n.who
  BY DEF IInv, Single
<1>4. Well(m) /\ Known(m)
  BY <1>2 DEF IInv, Queued
<1>5. ASSUME NEW k \in 1..Len(queue')
      PROVE  \E j \in 1..Len(queue) : /\ queue'[k] = queue[j]
                                      /\ queue[j].who # m.who
  BY <1>2, <1>3
<1>6. ASSUME NEW k \in 1..Len(queue'), NEW l \in 1..Len(queue'),
             queue'[k].who = queue'[l].who
      PROVE  k = l
  <2>1. Origin(i, k) = Origin(i, l)
    BY <1>2, <1>3, <1>6
  <2>2. Len(queue') \in Nat /\ Len(queue) \in Nat
    BY <1>1 DEF IInv, TypeOK
  <2> QED
    BY <2>1, <2>2, <1>2 DEF Origin
<1>7. \A s \in Server : \A n \in msg[s] : Holds(s) => n.who # m.who
  BY <1>2, <1>3
<1> QED
  BY <1>1, <1>4, <1>5, <1>6, <1>7

LEMMA TakeReplyInv ==
  ASSUME IInv, NEW c \in Client, TakeReply(c)
  PROVE  IInv'
<1>1. PICK m : /\ Take(c, PidOf[c], m)
               /\ answer' = [answer EXCEPT ![c] = {m}]
  BY DEF TakeReply
<1>2. /\ cpc[c] = "wait"
      /\ cpc' = [cpc EXCEPT ![c] = "done"]
      /\ UNCHANGED <<live, msgid, increment, spc, seq_num, msg, granted, sunk,
                     killed>>
  BY DEF TakeReply, serverVars, history
<1>3. /\ Opened(c)
      /\ queue' \in Seq(Message) /\ Len(queue') <= QMax
      /\ m \in Message /\ m.mtype = PidOf[c] /\ Well(m) /\ Known(m)
      /\ \A k \in 1..Len(queue') :
           \E i \in 1..Len(queue) : /\ queue'[k] = queue[i]
                                   /\ queue[i].who # m.who
      /\ \A k, l \in 1..Len(queue') : queue'[k].who = queue'[l].who => k = l
      /\ \A s \in Server : \A n \in msg[s] : Holds(s) => n.who # m.who
  BY <1>1, Remaining
<1>4. /\ cpc'[c] = "done" /\ answer'[c] = {m}
      /\ \A d \in Client : d # c => cpc'[d] = cpc[d] /\ answer'[d] = answer[d]
  BY <1>1, <1>2 DEF IInv, TypeOK
<1>5. /\ m.who \in Client
      /\ PidOf[c] # Request
      /\ PidOf[m.who] = PidOf[c]
      /\ GrantOf(m) \in granted
      /\ m.request_value = increment[m.who]
  BY <1>3, MsgqAssumption DEF Well, Message
<1>6. m.who = c \/ Inherits(c)
  <2>1. CASE cpc[m.who] = "wait"
    BY <2>1, <1>2, <1>5 DEF IInv, OnePid, Running
  <2>2. CASE cpc[m.who] = "killed"
    BY <2>2, <1>2, <1>5 DEF IInv, Kills, Inherits
  <2>3. CASE cpc[m.who] = "done" /\ Inherits(m.who)
    <3>1. PICK d \in killed \cap Client : /\ d # m.who
                                         /\ PidOf[d] = PidOf[m.who]
      BY <2>3 DEF Inherits
    <3>2. d # c
      BY <3>1, <1>2 DEF IInv, Kills
    <3> QED
      BY <3>1, <3>2, <1>5 DEF Inherits
  <2> QED
    BY <2>1, <2>2, <2>3, <1>3 DEF Known, Pending
<1>7. TypeOK'
  BY <1>1, <1>2, <1>3 DEF IInv, TypeOK, ClientPC
<1>8. Names'
  BY <1>2, <1>3 DEF IInv, Names, Opened
<1>9. Kills' /\ OnePid'
  BY <1>2, <1>4 DEF IInv, Kills, OnePid, Running
<1>10. \A t \in Server : Holds(t)' <=> Holds(t)
  BY <1>2 DEF Holds, Opened
<1>11. \A n : Well(n) => Well(n)'
  BY <1>2 DEF Well
<1>12. \A d : Inherits(d)' <=> Inherits(d)
  BY <1>2 DEF Inherits
<1>13. ASSUME NEW n \in Message, Known(n), n.who # m.who
       PROVE  Known(n)'
  <2>1. n.who \in Client
    BY DEF Message
  <2>2. CASE n.who = c
    BY <2>2, <1>2, <1>4, <1>6, <1>12, <1>13 DEF Known, Pending
  <2>3. CASE n.who # c
    BY <2>1, <2>3, <1>2, <1>4, <1>12, <1>13 DEF Known, Pending
  <2> QED
    BY <2>2, <2>3
<1>14. Queued'
  BY <1>3, <1>11, <1>13 DEF IInv, Queued, TypeOK
<1>15. ASSUME NEW t \in Server, NEW n \in msg'[t]
       PROVE  /\ Well(n)'
              /\ n.mtype # Request
              /\ Holds(t)' => Known(n)'
  <2>1. n \in msg[t] /\ n \in Message
    BY <1>2 DEF IInv, TypeOK
  <2> QED
    BY <2>1, <1>3, <1>10, <1>11, <1>13 DEF IInv, Held
<1>16. Held'
  BY <1>15 DEF Held
<1>17. Single'
  <2>1. ASSUME NEW t \in Server, NEW n \in msg[t], Holds(t),
               NEW k \in 1..Len(queue')
        PROVE  queue'[k].who # n.who
    BY <1>3, <2>1 DEF IInv, Single
  <2> QED
    BY <1>2, <1>3, <1>10, <2>1 DEF IInv, Single
<1>18. Answers'
  <2>1. ASSUME NEW d \in Client, NEW n \in answer'[d]
        PROVE  /\ cpc'[d] = "done"
               /\ GrantOf(n) \in granted'
               /\ n.request_value = increment'[n.who]
               /\ n.who = d \/ Inherits(d)'
    <3>1. CASE d = c
      BY <3>1, <1>2, <1>4, <1>5, <1>6, <1>12
    <3>2. CASE d # c
      BY <3>2, <1>2, <1>4, <1>12, <2>1 DEF IInv, Answers, AnswerIsMine
    <3> QED
      BY <3>1, <3>2
  <2> QED
    BY <2>1 DEF Answers, AnswerIsMine, GrantOf
<1> QED
  BY <1>7, <1>8, <1>9, <1>14, <1>16, <1>17, <1>18 DEF IInv

\* What is proved of a sequence allocator.
AllocP == INSTANCE SeqAlloc_proofs WITH next <- seq_num

LEMMA WrapIsAnInt ==
  ASSUME NEW a \in CInt, NEW b \in CInt
  PROVE  Wrap(a + b) \in CInt
<1>1. AllocP!IntsGiven
  BY MsgqAssumption DEF AllocP!IntsGiven, AllocP!CInt, CInt
<1>2. a \in AllocP!CInt /\ b \in AllocP!CInt
  BY DEF AllocP!CInt, CInt
<1>3. AllocP!Wrap(a + b) \in AllocP!CInt
  BY <1>1, <1>2, AllocP!WrappedSum
<1> QED
  BY <1>3 DEF AllocP!CInt, CInt, AllocP!Wrap, Wrap

LEMMA ReceiveInv ==
  ASSUME IInv, NEW s \in Server, Receive(s)
  PROVE  IInv'
<1>1. PICK m \in Range(queue) :
        /\ Take(s, Request, m)
        /\ msg' = [msg EXCEPT ![s] = {ReplyTo(s, m)}]
        /\ seq_num' = [seq_num EXCEPT ![s] = Wrap(@ + m.request_value)]
        /\ sunk' = IF seq_num'[s] < seq_num[s] THEN sunk \cup {s} ELSE sunk
        /\ granted' = granted \cup {[by |-> s, to |-> m.who,
             from |-> seq_num[s], amount |-> m.request_value]}
  BY DEF Receive
<1>2. /\ spc[s] = "receive"
      /\ spc' = [spc EXCEPT ![s] = "reply"]
      /\ UNCHANGED <<live, msgid, cpc, increment, answer, killed>>
  BY DEF Receive, clientVars
<1>3. /\ Opened(s)
      /\ queue' \in Seq(Message) /\ Len(queue') <= QMax
      /\ m \in Message /\ m.mtype = Request /\ Well(m) /\ Known(m)
      /\ \A k \in 1..Len(queue') :
           \E i \in 1..Len(queue) : /\ queue'[k] = queue[i]
                                   /\ queue[i].who # m.who
      /\ \A k, l \in 1..Len(queue') : queue'[k].who = queue'[l].who => k = l
      /\ \A t \in Server : \A n \in msg[t] : Holds(t) => n.who # m.who
  BY <1>1, Remaining
<1>4. PICK r : r = ReplyTo(s, m)
  OBVIOUS
<1>5. /\ m.who \in Client
      /\ PidOf[m.who] \in Pid
      /\ m.seq_num = PidOf[m.who]
      /\ m.request_value \in Amount /\ m.request_value \in CInt
      /\ seq_num[s] \in CInt
  BY <1>3, MsgqAssumption DEF IInv, TypeOK, Well, Message
<1>6. /\ r \in Message
      /\ r.mtype = PidOf[m.who]
      /\ r.who = m.who
      /\ r.request_value = m.request_value
      /\ r.seq_num = seq_num[s]
      /\ r.by = s
  <2>1. r = [mtype |-> m.seq_num, seq_num |-> seq_num[s],
             request_value |-> m.request_value, who |-> m.who, by |-> s]
    BY <1>3, <1>4 DEF ReplyTo, Message
  <2> QED
    BY <2>1, <1>5 DEF Message
<1>7. GrantOf(r) = [by |-> s, to |-> m.who, from |-> seq_num[s],
                    amount |-> m.request_value]
  BY <1>6 DEF GrantOf
<1>8. /\ granted \subseteq granted'
      /\ GrantOf(r) \in granted'
      /\ granted' \subseteq
           [by : Server, to : Client, from : CInt, amount : Amount]
  <2>1. GrantOf(r) \in [by : Server, to : Client, from : CInt, amount : Amount]
    BY <1>5, <1>7
  <2>2. granted' = granted \cup {GrantOf(r)}
    BY <1>1, <1>7
  <2> QED
    BY <2>1, <2>2 DEF IInv, TypeOK
<1>9. /\ spc'[s] = "reply" /\ msg'[s] = {r}
      /\ \A t \in Server : t # s => spc'[t] = spc[t] /\ msg'[t] = msg[t]
  BY <1>1, <1>2, <1>4 DEF IInv, TypeOK
<1>10. TypeOK'
  <2>1. Wrap(seq_num[s] + m.request_value) \in CInt
    BY <1>5, WrapIsAnInt
  <2>2. seq_num' \in [Server -> CInt] /\ sunk' \subseteq Server
    BY <1>1, <2>1 DEF IInv, TypeOK
  <2>3. msg' \in [Server -> SUBSET Message]
    BY <1>1, <1>4, <1>6 DEF IInv, TypeOK
  <2>4. spc' \in [Server -> ServerPC]
    BY <1>2 DEF IInv, TypeOK, ServerPC
  <2> QED
    BY <1>2, <1>3, <1>8, <2>2, <2>3, <2>4 DEF IInv, TypeOK
<1>11. Names'
  BY <1>2, <1>3, <1>9 DEF IInv, Names, TypeOK, Opened
<1>12. Kills' /\ OnePid'
  BY <1>2 DEF IInv, Kills, OnePid, Running
<1>13. /\ Holds(s)'
       /\ \A t \in Server : t # s => (Holds(t)' <=> Holds(t))
  BY <1>2, <1>3, <1>9 DEF Holds, Opened
<1>14. \A n : /\ Well(n) => Well(n)'
              /\ Known(n) => Known(n)'
  BY <1>2, <1>8 DEF Well, Known, Pending, Inherits, GrantOf
<1>15. Well(r)' /\ r.mtype # Request /\ Known(r)'
  <2>1. Well(r)' /\ r.mtype # Request
    BY <1>2, <1>3, <1>5, <1>6, <1>8, MsgqAssumption DEF Well, GrantOf
  <2>2. Known(r)
    BY <1>3, <1>6 DEF Known
  <2> QED
    BY <1>14, <2>1, <2>2
<1>16. Queued'
  BY <1>3, <1>14 DEF IInv, Queued
<1>17. ASSUME NEW t \in Server, NEW n \in msg'[t]
       PROVE  /\ Well(n)'
              /\ n.mtype # Request
              /\ Holds(t)' => Known(n)'
  <2>1. CASE t = s
    BY <2>1, <1>9, <1>15
  <2>2. CASE t # s
    BY <2>2, <1>9, <1>13, <1>14 DEF IInv, Held
  <2> QED
    BY <2>1, <2>2
<1>18. Held'
  BY <1>17 DEF Held
<1>19. Single'
  <2>1. ASSUME NEW t \in Server, NEW n \in msg'[t], Holds(t)',
               NEW k \in 1..Len(queue')
        PROVE  queue'[k].who # n.who
    <3>1. CASE t = s
      BY <3>1, <1>3, <1>6, <1>9
    <3>2. CASE t # s
      BY <3>2, <2>1, <1>3, <1>9, <1>13 DEF IInv, Single
    <3> QED
      BY <3>1, <3>2
  <2>2. ASSUME NEW t \in Server, NEW n \in msg'[t], Holds(t)',
               NEW u \in Server, NEW o \in msg'[u], Holds(u)', o.who = n.who
        PROVE  u = t
    <3>1. CASE t = s /\ u # s
      BY <3>1, <2>2, <1>3, <1>6, <1>9, <1>13
    <3>2. CASE t # s /\ u = s
      BY <3>2, <2>2, <1>3, <1>6, <1>9, <1>13
    <3>3. CASE t # s /\ u # s
      BY <3>3, <2>2, <1>9, <1>13 DEF IInv, Single
    <3> QED
      BY <3>1, <3>2, <3>3
  <2> QED
    BY <1>3, <2>1, <2>2 DEF Single
<1>20. Answers'
  BY <1>2, <1>8 DEF IInv, Answers, AnswerIsMine, Inherits, GrantOf
<1> QED
  BY <1>10, <1>11, <1>12, <1>16, <1>18, <1>19, <1>20 DEF IInv

LEMMA StutterInv == IInv /\ UNCHANGED vars => IInv'
<1> SUFFICES ASSUME IInv, UNCHANGED vars
             PROVE  IInv'
  OBVIOUS
<1>1. UNCHANGED <<live, queue, msgid, cpc, increment, answer, spc, seq_num, msg,
                  granted, sunk, killed>>
  BY DEF vars
<1>2. TypeOK'
  BY <1>1 DEF IInv, TypeOK
<1>3. Names' /\ Kills' /\ OnePid'
  BY <1>1 DEF IInv, Names, Kills, OnePid, Running
<1>4. \A n : /\ Well(n) => Well(n)'
             /\ Known(n) => Known(n)'
  BY <1>1 DEF Well, Known, Pending, Inherits
<1>5. \A t : Holds(t)' <=> Holds(t)
  BY <1>1 DEF Holds, Opened
<1>6. Queued'
  BY <1>1, <1>4 DEF IInv, Queued
<1>7. Held' /\ Single'
  BY <1>1, <1>4, <1>5 DEF IInv, Held, Single
<1>8. Answers'
  BY <1>1 DEF IInv, Answers, AnswerIsMine, Inherits
<1> QED
  BY <1>2, <1>3, <1>6, <1>7, <1>8 DEF IInv

\* The invariant holds in every reachable state.
THEOREM InductiveInvariant == Spec => []IInv
<1>1. IInv /\ [Next]_vars => IInv'
  <2> SUFFICES ASSUME IInv, [Next]_vars
               PROVE  IInv'
    OBVIOUS
  <2>1. ASSUME NEW s \in Server,
               StartServer(s) \/ ServerGoesOn(s) \/ Cleanup(s)
        PROVE  IInv'
    BY <2>1, StartServerInv, ReceiveInv, ReplyInv, CleanupInv DEF ServerGoesOn
  <2>2. ASSUME NEW c \in Client, StartClient(c) \/ ClientGoesOn(c)
        PROVE  IInv'
    BY <2>2, StartClientInv, SendRequestInv, TakeReplyInv, ClientFailsInv
       DEF ClientGoesOn
  <2>3. CASE Kill
    BY <2>3, KillInv
  <2>4. CASE UNCHANGED vars
    BY <2>4, StutterInv
  <2> QED
    BY <2>1, <2>2, <2>3, <2>4 DEF Next
<1> QED
  BY InitInv, <1>1, PTL DEF Spec

\* server.c:10-53: the queue keeps to its size, the counter stays an int, and
\* every variable keeps its type.
THEOREM TypeCorrect == Spec => []TypeOK
<1>1. IInv => TypeOK
  BY DEF IInv
<1> QED
  BY InductiveInvariant, <1>1, PTL

\* client.c:32: a client gets the answer to its own request, unless a process
\* with its pid was killed.
THEOREM OwnAnswer == Spec => []AnswerIsMine
<1>1. IInv => AnswerIsMine
  BY DEF IInv, Answers
<1> QED
  BY InductiveInvariant, <1>1, PTL

-----------------------------------------------------------------------------
(* Every server implements the sequence allocator.                         *)

LEMMA InitRefines == Init => Alloc!AllocInit /\ AllocP!AllocInit
BY DEF Init, Alloc!AllocInit, AllocP!AllocInit

LEMMA ReceiveRefines ==
  ASSUME IInv, NEW s \in Server, Receive(s)
  PROVE  Alloc!AllocNext /\ AllocP!AllocNext
<1>1. PICK m \in Range(queue) :
        /\ Take(s, Request, m)
        /\ seq_num' = [seq_num EXCEPT ![s] = Wrap(@ + m.request_value)]
        /\ sunk' = IF seq_num'[s] < seq_num[s] THEN sunk \cup {s} ELSE sunk
        /\ granted' = granted \cup {[by |-> s, to |-> m.who,
             from |-> seq_num[s], amount |-> m.request_value]}
  BY DEF Receive
<1>2. m \in Message
  BY <1>1, Remaining
<1>3. m.who \in Client /\ m.request_value \in Amount
  BY <1>2 DEF Message
<1>4. seq_num'[s] = Wrap(seq_num[s] + m.request_value)
  BY <1>1 DEF IInv, TypeOK
<1>5. /\ Alloc!Grant(s, m.who, m.request_value)
      /\ AllocP!Grant(s, m.who, m.request_value)
  BY <1>1, <1>4
     DEF Alloc!Grant, AllocP!Grant, Alloc!Advance, AllocP!Advance,
         Alloc!Wrap, AllocP!Wrap, Wrap
<1> QED
  BY <1>3, <1>5 DEF Alloc!AllocNext, AllocP!AllocNext

\* No other step touches the counters.
LEMMA OthersStutter ==
  \/ \E s \in Server : StartServer(s) \/ Reply(s) \/ Cleanup(s)
  \/ \E c \in Client : StartClient(c) \/ ClientGoesOn(c)
  \/ Kill
  \/ UNCHANGED vars
  => UNCHANGED <<seq_num, granted, sunk>>
BY DEF StartServer, Reply, Cleanup, StartClient, ClientGoesOn, SendRequest,
       TakeReply, ClientFails, Kill, vars, history, serverVars

LEMMA StepRefines ==
  IInv /\ [Next]_vars =>
    /\ [Alloc!AllocNext]_(Alloc!allocVars)
    /\ [AllocP!AllocNext]_(AllocP!allocVars)
<1> SUFFICES ASSUME IInv, [Next]_vars
             PROVE  /\ Alloc!AllocNext \/ UNCHANGED <<seq_num, granted, sunk>>
                    /\ AllocP!AllocNext \/ UNCHANGED <<seq_num, granted, sunk>>
  BY DEF Alloc!allocVars, AllocP!allocVars
<1>1. CASE \E s \in Server : Receive(s)
  BY <1>1, ReceiveRefines
<1>2. CASE ~\E s \in Server : Receive(s)
  BY <1>2, OthersStutter DEF Next, ServerGoesOn
<1> QED
  BY <1>1, <1>2

\* server.c:35-53: the servers grant numbers as the sequence allocator does.
THEOREM Refinement == Spec => ImplementsSeqAlloc
<1>1. Init => Alloc!AllocInit
  BY InitRefines
<1>2. IInv /\ [Next]_vars => [Alloc!AllocNext]_(Alloc!allocVars)
  BY StepRefines
<1> QED
  BY <1>1, <1>2, InductiveInvariant, PTL
     DEF Spec, ImplementsSeqAlloc, Alloc!AllocSpec

\* What the allocator promises reaches the clients.
LEMMA PrintedFromGranted ==
  IInv /\ AllocP!GrantsAreDisjoint => PrintedRangesDisjoint
<1> SUFFICES ASSUME IInv, AllocP!GrantsAreDisjoint,
                    NEW c \in Client, NEW d \in Client,
                    NEW m \in answer[c], NEW n \in answer[d],
                    c # d, m.by = n.by, m.by \notin sunk,
                    ~Inherits(c), ~Inherits(d)
             PROVE  Printed(c, m) \cap Printed(d, n) = {}
  BY DEF PrintedRangesDisjoint
<1>1. /\ GrantOf(m) \in granted /\ GrantOf(n) \in granted
      /\ m.who = c /\ n.who = d
      /\ m.request_value = increment[c] /\ n.request_value = increment[d]
  BY DEF IInv, Answers, AnswerIsMine
<1>2. /\ GrantOf(m) # GrantOf(n)
      /\ GrantOf(m).by = GrantOf(n).by
      /\ GrantOf(m).by \notin sunk
  BY <1>1 DEF GrantOf
<1>3. AllocP!Numbers(GrantOf(m)) \cap AllocP!Numbers(GrantOf(n)) = {}
  BY <1>1, <1>2 DEF AllocP!GrantsAreDisjoint
<1>4. /\ AllocP!Numbers(GrantOf(m)) = Printed(c, m)
      /\ AllocP!Numbers(GrantOf(n)) = Printed(d, n)
  BY <1>1 DEF AllocP!Numbers, GrantOf, Printed
<1> QED
  BY <1>3, <1>4

\* server.c:42-47, client.c:38: no two clients of one server print overlapping
\* ranges, for any number of clients and servers.
THEOREM PrintedDisjoint == Spec => []PrintedRangesDisjoint
<1>1. Init => AllocP!AllocInit
  BY InitRefines
<1>2. IInv /\ [Next]_vars => [AllocP!AllocNext]_(AllocP!allocVars)
  BY StepRefines
<1>3. AllocP!IntsGiven
  BY MsgqAssumption DEF AllocP!IntsGiven, AllocP!CInt, CInt
<1>4. AllocP!AllocSpec => []AllocP!GrantsAreDisjoint
  BY <1>3, AllocP!Disjoint
<1> QED
  BY <1>1, <1>2, <1>4, InductiveInvariant, PrintedFromGranted, PTL
     DEF Spec, AllocP!AllocSpec
-----------------------------------------------------------------------------
(* Requests are kept.                                                      *)

LEMMA KeptStep ==
  ASSUME IInv, KeptInv, [Next]_vars
  PROVE  KeptInv'
<1> USE DEF clientVars, serverVars, history
<1>t. TypeOK /\ Names /\ OnePid
  BY DEF IInv
<1>1. ASSUME NEW s \in Server, StartServer(s)
      PROVE  KeptInv'
  <2>1. /\ spc[s] = "new" /\ s # None /\ s \notin Client
        /\ \A t \in Server : t # s => spc'[t] = spc[t]
        /\ spc'[s] = "receive"
        /\ \A p \in Server \cup Client : p # s => msgid'[p] = msgid[p]
        /\ live = None => live' = s /\ queue' = <<>>
        /\ live # None => live' = live /\ queue' = queue
        /\ UNCHANGED <<msg, cpc, answer, killed>>
    BY <1>1, <1>t, MsgqAssumption DEF StartServer, TypeOK
  <2>2. \A c \in Client : /\ Opened(c)' <=> Opened(c)
                          /\ Lost(c) => Lost(c)'
    BY <2>1, <1>t DEF Opened, Lost, Names
  <2>3. \A c \in Client : live # None => (UnderWay(c)' <=> UnderWay(c))
    BY <2>1 DEF UnderWay, Holds, Opened
  <2>4. \A c \in Client : live = None => ~Opened(c) /\ ~UnderWay(c)'
    BY <2>1, <1>t DEF UnderWay, Holds, Opened, Names
  <2>5. \A c \in Client : \A m \in answer[c] : m.who \in Client
    BY <1>t DEF TypeOK, Message
  <2> QED
    BY <2>1, <2>2, <2>3, <2>4, <2>5 DEF KeptInv
<1>2. ASSUME NEW s \in Server, Cleanup(s)
      PROVE  KeptInv'
  <2>1. /\ spc[s] \in {"receive", "reply"}
        /\ \A t \in Server : t # s => spc'[t] = spc[t]
        /\ spc'[s] = "exited"
        /\ Opened(s) => live' = None /\ queue' = <<>>
        /\ ~Opened(s) => live' = live /\ queue' = queue
        /\ UNCHANGED <<msgid, msg, cpc, answer, killed>>
    BY <1>2, <1>t DEF Cleanup, TypeOK
  <2>2. \A c \in Client : Lost(c) => Lost(c)'
    BY <2>1 DEF Lost
  <2>3. \A c \in Client : Opened(s) => ~Opened(c)' /\ ~UnderWay(c)'
    BY <2>1 DEF Opened, UnderWay, Holds
  <2>4. \A c \in Client : ~Opened(s) => /\ UnderWay(c)' <=> UnderWay(c)
                                        /\ Opened(c)' <=> Opened(c)
    BY <2>1 DEF Opened, UnderWay, Holds
  <2>5. \A c \in Client : \A m \in answer[c] : m.who \in Client
    BY <1>t DEF TypeOK, Message
  <2> QED
    BY <2>1, <2>2, <2>3, <2>4, <2>5 DEF KeptInv
<1>3. ASSUME NEW s \in Server, Receive(s)
      PROVE  KeptInv'
  <2>1. PICK m \in Range(queue) : Take(s, Request, m) /\ msg' = [msg EXCEPT ![s] = {ReplyTo(s, m)}]
    BY <1>3 DEF Receive
  <2>2. /\ spc[s] = "receive" /\ spc'[s] = "reply"
        /\ \A t \in Server : t # s => spc'[t] = spc[t] /\ msg'[t] = msg[t]
        /\ UNCHANGED <<live, msgid, cpc, answer, killed>>
    BY <1>3, <1>t, <2>1 DEF Receive, TypeOK
  <2>3. Opened(s) /\ m \in Message
    BY <1>t, <2>1, Taken
  <2>4. PICK i \in 1..Len(queue) :
          /\ m = queue[i]
          /\ \A k \in 1..Len(queue') : /\ Origin(i, k) \in 1..Len(queue)
                                       /\ queue'[k] = queue[Origin(i, k)]
          /\ \A j \in 1..Len(queue) :
               j # i => \E k \in 1..Len(queue') : queue'[k] = queue[j]
    BY <1>t, <2>1, Taken
  <2>5. msg'[s] = {ReplyTo(s, m)} /\ ReplyTo(s, m).who = m.who
    BY <1>t, <2>1, <2>3 DEF TypeOK, ReplyTo, Message
  <2>6. Holds(s)' /\ ~Holds(s) /\ \A t \in Server : t # s => (Holds(t)' <=> Holds(t))
    BY <2>2, <2>3 DEF Holds, Opened
  <2>7. ASSUME NEW c \in Client
        PROVE  UnderWay(c)' <=> UnderWay(c)
    <3>1. UnderWay(c) => UnderWay(c)'
      <4>1. ASSUME NEW j \in 1..Len(queue), queue[j].who = c
            PROVE  UnderWay(c)'
        BY <2>2, <2>4, <2>5, <2>6, <4>1 DEF UnderWay
      <4>2. ASSUME NEW t \in Server, Holds(t), NEW n \in msg[t], n.who = c
            PROVE  UnderWay(c)'
        BY <2>2, <2>6, <4>2 DEF UnderWay
      <4> QED
        BY <4>1, <4>2 DEF UnderWay
    <3>2. UnderWay(c)' => UnderWay(c)
      <4>1. ASSUME NEW j \in 1..Len(queue'), queue'[j].who = c
            PROVE  UnderWay(c)
        BY <2>4, <4>1 DEF UnderWay
      <4>2. ASSUME NEW t \in Server, Holds(t)', NEW n \in msg'[t], n.who = c
            PROVE  UnderWay(c)
        BY <2>2, <2>4, <2>5, <2>6, <4>2 DEF UnderWay
      <4> QED
        BY <4>1, <4>2 DEF UnderWay
    <3> QED
      BY <3>1, <3>2
  <2>8. \A c \in Client : Lost(c) => Lost(c)'
    BY <2>2 DEF Lost, KeptInv
  <2>9. \A c \in Client : \A n \in answer[c] : n.who \in Client
    BY <1>t DEF TypeOK, Message
  <2>10. \A c \in Client : Opened(c)' <=> Opened(c)
    BY <2>2 DEF Opened
  <2> QED
    BY <2>2, <2>5, <2>7, <2>8, <2>9, <2>10 DEF KeptInv
<1>4. ASSUME NEW s \in Server, Reply(s)
      PROVE  KeptInv'
  <2>1. /\ spc[s] = "reply" /\ spc'[s] = "receive" /\ msg'[s] = {}
        /\ \A t \in Server : t # s => spc'[t] = spc[t] /\ msg'[t] = msg[t]
        /\ UNCHANGED <<live, msgid, cpc, answer, killed>>
        /\ \/ \E m \in msg[s] : Send(s, m)
           \/ ~Opened(s) /\ UNCHANGED queue
    BY <1>4, <1>t DEF Reply, TypeOK
  <2>2. \A t \in Server : Holds(t)' <=> Holds(t) /\ t # s
    BY <2>1 DEF Holds, Opened
  <2>3. ASSUME NEW c \in Client
        PROVE  UnderWay(c)' <=> UnderWay(c)
    <3>1. CASE ~Opened(s) /\ UNCHANGED queue
      BY <2>1, <2>2, <3>1 DEF UnderWay, Holds
    <3>2. ASSUME NEW m \in msg[s], Send(s, m)
          PROVE  UnderWay(c)' <=> UnderWay(c)
      <4>1. m \in Message
        BY <1>t DEF TypeOK
      <4>2. /\ Opened(s) /\ Len(queue) \in Nat
            /\ Len(queue') = Len(queue) + 1
            /\ queue'[Len(queue')] = m
            /\ \A k \in 1..Len(queue) : queue'[k] = queue[k]
        BY <1>t, <3>2, <4>1, Sent DEF TypeOK
      <4>3. Holds(s) /\ \A n \in msg[s] : n.who = m.who
        BY <2>1, <4>2 DEF Holds, KeptInv
      <4>4. (\E k \in 1..Len(queue') : queue'[k].who = c) <=>
              (m.who = c \/ \E k \in 1..Len(queue) : queue[k].who = c)
        BY <4>2
      <4> QED
        BY <2>1, <2>2, <4>3, <4>4 DEF UnderWay
    <3> QED
      BY <2>1, <3>1, <3>2
  <2>4. \A c \in Client : Lost(c) => Lost(c)'
    BY <2>1 DEF Lost, KeptInv
  <2>5. \A c \in Client : \A n \in answer[c] : n.who \in Client
    BY <1>t DEF TypeOK, Message
  <2>6. \A c \in Client : Opened(c)' <=> Opened(c)
    BY <2>1 DEF Opened
  <2> QED
    BY <2>1, <2>3, <2>4, <2>5, <2>6 DEF KeptInv
<1>5. ASSUME NEW c \in Client, StartClient(c)
      PROVE  KeptInv'
  <2>1. /\ cpc[c] = "new" /\ cpc'[c] \in {"send", "failed"} /\ c \notin Server
        /\ \A d \in Client : d # c => cpc'[d] = cpc[d]
        /\ \A p \in Server \cup Client : p # c => msgid'[p] = msgid[p]
        /\ UNCHANGED <<live, queue, msg, spc, answer, killed>>
    BY <1>5, <1>t, MsgqAssumption DEF StartClient, TypeOK
  <2>2. \A d : UnderWay(d)' <=> UnderWay(d)
    BY <2>1 DEF UnderWay, Holds, Opened
  <2>3. \A d \in Client : d # c => (Opened(d)' <=> Opened(d)) /\ (Lost(d) => Lost(d)')
    BY <2>1 DEF Opened, Lost
  <2>4. \A d \in Client : \A n \in answer[d] : n.who \in Client
    BY <1>t DEF TypeOK, Message
  <2> QED
    BY <2>1, <2>2, <2>3, <2>4 DEF KeptInv
<1>6. ASSUME NEW c \in Client, SendRequest(c)
      PROVE  KeptInv'
  <2>0. PICK m : m = RequestOf(c)
    OBVIOUS
  <2>1. /\ cpc[c] = "send" /\ cpc'[c] = "wait"
        /\ \A d \in Client : d # c => cpc'[d] = cpc[d]
        /\ Send(c, m)
        /\ UNCHANGED <<live, msgid, spc, msg, answer, killed>>
    BY <1>6, <1>t, <2>0 DEF SendRequest, TypeOK
  <2>2. m \in Message /\ m.who = c
    BY <1>t, <2>0, MsgqAssumption DEF RequestOf, Message, TypeOK
  <2>3. /\ Len(queue) \in Nat
        /\ Len(queue') = Len(queue) + 1
        /\ queue'[Len(queue')] = m
        /\ \A k \in 1..Len(queue) : queue'[k] = queue[k]
    BY <1>t, <2>1, <2>2, Sent DEF TypeOK
  <2>4. \A d : (\E k \in 1..Len(queue') : queue'[k].who = d) <=>
               (d = c \/ \E k \in 1..Len(queue) : queue[k].who = d)
    BY <2>2, <2>3
  <2>5. \A d : UnderWay(d)' <=> UnderWay(d) \/ d = c
    BY <2>1, <2>4 DEF UnderWay, Holds, Opened
  <2>6. \A d \in Client : (Opened(d)' <=> Opened(d)) /\ (Lost(d) => Lost(d)')
    BY <2>1 DEF Opened, Lost
  <2>7. \A d \in Client : \A n \in answer[d] : n.who \in Client
    BY <1>t DEF TypeOK, Message
  <2> QED
    BY <2>1, <2>5, <2>6, <2>7 DEF KeptInv
<1>7. ASSUME NEW c \in Client, TakeReply(c)
      PROVE  KeptInv'
  <2>1. PICK m : /\ Take(c, PidOf[c], m)
                 /\ answer' = [answer EXCEPT ![c] = {m}]
    BY <1>7 DEF TakeReply
  <2>0. PICK p : p = PidOf[c] /\ Take(c, p, m)
    BY <2>1
  <2>2. /\ cpc[c] = "wait" /\ cpc'[c] = "done" /\ answer'[c] = {m}
        /\ \A d \in Client : d # c => cpc'[d] = cpc[d] /\ answer'[d] = answer[d]
        /\ UNCHANGED <<live, msgid, spc, msg, killed>>
    BY <1>7, <1>t, <2>1 DEF TakeReply, TypeOK
  <2>3. /\ m \in Message /\ m.mtype = PidOf[c] /\ Well(m) /\ Known(m)
        /\ \A k \in 1..Len(queue') :
             \E i \in 1..Len(queue) : queue'[k] = queue[i] /\ queue[i].who # m.who
        /\ \A s \in Server : \A n \in msg[s] : Holds(s) => n.who # m.who
    BY <2>1, Remaining
  <2>4. PICK i \in 1..Len(queue) :
          /\ m = queue[i]
          /\ \A j \in 1..Len(queue) :
               j # i => \E k \in 1..Len(queue') : queue'[k] = queue[j]
    BY <1>t, <2>0, Taken
  <2>5. /\ m.who \in Client
        /\ PidOf[m.who] = PidOf[c]
        /\ cpc[m.who] \in {"wait", "killed", "done"}
    BY <2>3, MsgqAssumption DEF Well, Known, Pending, Message
  <2>6. m.who = c \/ cpc[m.who] \in {"killed", "done"}
    BY <1>t, <2>2, <2>5 DEF OnePid, Running
  <2>7. \A t \in Server : Holds(t)' <=> Holds(t)
    BY <2>2 DEF Holds, Opened
  <2>8. ~UnderWay(m.who)'
    BY <2>2, <2>3, <2>7 DEF UnderWay
  <2>9. \A d \in Client : UnderWay(d)' => UnderWay(d)
    BY <2>2, <2>3, <2>7 DEF UnderWay
  <2>10. \A d \in Client : d # m.who /\ UnderWay(d) => UnderWay(d)'
    BY <2>2, <2>4, <2>7 DEF UnderWay
  <2>11. \A d \in Client : (Opened(d)' <=> Opened(d)) /\ (Lost(d) => Lost(d)')
    BY <2>2 DEF Opened, Lost
  <2>12. \A d \in Client : \A n \in answer[d] : n.who \in Client
    BY <1>t DEF TypeOK, Message
  <2>13. \A d \in Client : cpc'[d] = "wait" => d # m.who /\ cpc[d] = "wait"
    BY <2>2, <2>6
  <2>14. \A d \in Client : cpc[d] \in {"done", "killed"} => cpc'[d] \in {"done", "killed"}
    BY <2>2
  <2>15. cpc'[m.who] \in {"done", "killed"}
    BY <2>2, <2>5, <2>6
  <2>16. \A d \in Client : \A n \in answer'[d] :
           cpc'[n.who] \in {"done", "killed"} /\ ~UnderWay(n.who)'
    BY <2>2, <2>8, <2>9, <2>12, <2>14, <2>15 DEF KeptInv
  <2> QED
    BY <2>2, <2>10, <2>11, <2>13, <2>16 DEF KeptInv
<1>8. ASSUME NEW c \in Client, ClientFails(c)
      PROVE  KeptInv'
  <2>1. /\ cpc[c] \in {"send", "wait"} /\ cpc'[c] = "failed"
        /\ \A d \in Client : d # c => cpc'[d] = cpc[d]
        /\ UNCHANGED <<live, queue, msgid, spc, msg, answer, killed>>
    BY <1>8, <1>t DEF ClientFails, Running, TypeOK
  <2>2. \A d : /\ UnderWay(d)' <=> UnderWay(d)
               /\ Opened(d)' <=> Opened(d)
               /\ Lost(d)' <=> Lost(d)
    BY <2>1 DEF UnderWay, Holds, Opened, Lost
  <2>3. \A d \in Client : \A n \in answer[d] : n.who \in Client
    BY <1>t DEF TypeOK, Message
  <2> QED
    BY <2>1, <2>2, <2>3 DEF KeptInv
<1>9. CASE Kill
  <2>1. UNCHANGED <<live, queue, msgid, msg, answer>>
    BY <1>9 DEF Kill
  <2>2. \A d \in Client : \A n \in answer[d] : n.who \in Client
    BY <1>t DEF TypeOK, Message
  <2>3. ASSUME NEW c \in Client, Running(c), cpc' = [cpc EXCEPT ![c] = "killed"],
               killed' = killed \cup {c}, UNCHANGED spc
        PROVE  KeptInv'
    <3>1. \A d : /\ UnderWay(d)' <=> UnderWay(d)
                 /\ Opened(d)' <=> Opened(d)
                 /\ Lost(d) => Lost(d)'
      BY <2>1, <2>3 DEF UnderWay, Holds, Opened, Lost
    <3>2. \A d \in Client : cpc'[d] = cpc[d] \/ cpc'[d] = "killed"
      BY <1>t, <2>3 DEF TypeOK
    <3>3. \A s \in Server : s \in killed' => s \in killed
      BY <2>3, MsgqAssumption
    <3> QED
      BY <2>1, <2>2, <2>3, <3>1, <3>2, <3>3 DEF KeptInv
  <2>4. ASSUME NEW s \in Server, spc' = [spc EXCEPT ![s] = "killed"],
               killed' = killed \cup {s}, UNCHANGED cpc
        PROVE  KeptInv'
    <3>1. /\ spc'[s] = "killed"
          /\ \A t \in Server : t # s => spc'[t] = spc[t]
      BY <1>t, <2>4 DEF TypeOK
    <3>2. \A d \in Client : /\ UnderWay(d)' => UnderWay(d)
                            /\ UnderWay(d) => UnderWay(d)' \/ Lost(d)'
                            /\ Opened(d)' <=> Opened(d)
                            /\ Lost(d) => Lost(d)'
      BY <2>1, <2>4, <3>1 DEF UnderWay, Holds, Opened, Lost
    <3> QED
      BY <2>1, <2>2, <2>4, <3>1, <3>2 DEF KeptInv
  <2> QED
    BY <1>9, <2>3, <2>4 DEF Kill
<1>10. CASE UNCHANGED vars
  <2>1. UNCHANGED <<live, queue, msgid, cpc, answer, spc, msg, killed>>
    BY <1>10 DEF vars
  <2>2. \A d : /\ UnderWay(d)' <=> UnderWay(d)
               /\ Opened(d)' <=> Opened(d)
               /\ Lost(d) => Lost(d)'
    BY <2>1 DEF UnderWay, Holds, Opened, Lost
  <2> QED
    BY <2>1, <2>2 DEF KeptInv
<1> QED
  BY <1>1, <1>2, <1>3, <1>4, <1>5, <1>6, <1>7, <1>8, <1>9, <1>10
     DEF Next, ServerGoesOn, ClientGoesOn

\* client.c:31-36: a request or its reply is never lost or doubled, for any
\* number of clients and servers; only a killed server takes it away.
THEOREM RequestsKept == Spec => []RequestIsKept
<1>1. Init => KeptInv
  BY DEF Init, KeptInv
<1>2. IInv /\ KeptInv /\ [Next]_vars => KeptInv'
  BY KeptStep
<1>3. IInv /\ KeptInv => RequestIsKept
  <2> SUFFICES ASSUME IInv, KeptInv, NEW c \in Client
               PROVE  /\ Copies(c) \in {0, 1}
                      /\ Copies(c) = 1 <=> UnderWay(c)
    BY DEF RequestIsKept, KeptInv, IInv, TypeOK, Message
  <2> DEFINE q == InQueue(c)
             h == InHand(c)
  <2>1. ASSUME NEW x \in q
        PROVE  q = {x}
    BY DEF IInv, Single, InQueue
  <2>2. ASSUME NEW x \in h
        PROVE  h = {x}
    <3>1. \A y \in h : y = x
      BY DEF IInv, Single, InHand, Holds
    <3> QED
      BY <3>1
  <2>3. q = {} \/ h = {}
    BY DEF IInv, Single, InQueue, InHand, Holds
  <2>4. UnderWay(c) <=> q # {} \/ h # {}
    BY DEF UnderWay, InQueue, InHand, Holds
  <2>5. Copies(c) = Cardinality(q) + Cardinality(h)
    BY DEF Copies
  <2> HIDE DEF q, h
  <2>6. \A S : /\ S = {} => Cardinality(S) = 0
               /\ (\E x : S = {x}) => Cardinality(S) = 1
    BY FS_EmptySet, FS_Singleton
  <2>7. /\ q = {} => Cardinality(q) = 0
        /\ q # {} => Cardinality(q) = 1
        /\ h = {} => Cardinality(h) = 0
        /\ h # {} => Cardinality(h) = 1
    BY <2>1, <2>2, <2>6
  <2> QED
    BY <2>3, <2>4, <2>5, <2>7
<1> QED
  BY <1>1, <1>2, <1>3, InductiveInvariant, PTL DEF Spec
-----------------------------------------------------------------------------
(* A full queue needs a crowd.                                             *)

LEMMA Counts ==
  CrowdInv => /\ IsFiniteSet(Crowd)
              /\ Cardinality(Crowd) \in Nat
              /\ Cardinality(Crowd) <= Cardinality(Waiting)
              /\ Cardinality(Waiting) \in Nat
              /\ Cardinality(Busy) \in Nat
<1>1. Crowd \in SUBSET Waiting
  BY DEF Crowd
<1> QED
  BY <1>1, FS_Subset, FS_CardinalityType DEF CrowdInv

\* No message is under way on a new queue.
LEMMA CrowdOfNone ==
  ASSUME CrowdInv, Waiting' = Waiting, Busy' = {}, queue' = <<>>
  PROVE  CrowdInv'
<1>1. Crowd' \in SUBSET Waiting
  BY DEF Crowd
<1>2. IsFiniteSet(Crowd') /\ Cardinality(Crowd') \in Nat
  BY <1>1, FS_Subset, FS_CardinalityType DEF CrowdInv
<1> QED
  BY <1>2, FS_EmptySet DEF CrowdInv

LEMMA CrowdStep ==
  ASSUME IInv, CrowdInv, [Next]_vars
  PROVE  CrowdInv'
<1> USE DEF clientVars, serverVars, history
<1>t. TypeOK /\ Names /\ Len(queue) \in Nat
  BY DEF IInv, TypeOK
<1>f. /\ IsFiniteSet(Waiting) /\ IsFiniteSet(Busy) /\ IsFiniteSet(Crowd)
      /\ Cardinality(Crowd) \in Nat /\ Cardinality(Busy) \in Nat
      /\ Len(queue) + Cardinality(Busy) <= Cardinality(Crowd)
  BY Counts DEF CrowdInv
<1>s. ASSUME Waiting' = Waiting, Busy' = Busy, Crowd' = Crowd, queue' = queue
      PROVE  CrowdInv'
  BY <1>s DEF CrowdInv
<1>1. ASSUME NEW s \in Server, StartServer(s)
      PROVE  CrowdInv'
  <2>1. /\ spc[s] = "new" /\ s # None /\ s \notin Client
        /\ \A t \in Server : t # s => spc'[t] = spc[t]
        /\ spc'[s] = "receive"
        /\ \A p \in Server \cup Client : p # s => msgid'[p] = msgid[p]
        /\ live = None => live' = s /\ queue' = <<>>
        /\ live # None => live' = live /\ queue' = queue
        /\ cpc' = cpc
    BY <1>1, <1>t, MsgqAssumption DEF StartServer, TypeOK
  <2>2. Waiting' = Waiting
    BY <2>1 DEF Waiting
  <2>3. CASE live = None
    <3>1. Busy' = {}
      BY <2>1, <2>3, <1>t DEF Busy, Holds, Opened, Names
    <3> QED
      BY <2>1, <2>2, <2>3, <3>1, CrowdOfNone
  <2>4. CASE live # None
    <3>1. Busy' = Busy /\ Crowd' = Crowd
      BY <2>1, <2>2, <2>4 DEF Busy, Crowd, Holds, Opened, Waiting
    <3> QED
      BY <2>1, <2>2, <2>4, <3>1, <1>s
  <2> QED
    BY <2>3, <2>4
<1>2. ASSUME NEW s \in Server, Cleanup(s)
      PROVE  CrowdInv'
  <2>1. /\ \A t \in Server : t # s => spc'[t] = spc[t]
        /\ spc'[s] = "exited"
        /\ Opened(s) => live' = None /\ queue' = <<>>
        /\ ~Opened(s) => live' = live /\ queue' = queue
        /\ UNCHANGED <<msgid, cpc>>
    BY <1>2, <1>t DEF Cleanup, TypeOK
  <2>2. Waiting' = Waiting
    BY <2>1 DEF Waiting
  <2>3. CASE Opened(s)
    <3>1. Busy' = {}
      BY <2>1, <2>3 DEF Busy, Holds, Opened
    <3> QED
      BY <2>1, <2>2, <2>3, <3>1, CrowdOfNone
  <2>4. CASE ~Opened(s)
    <3>1. Busy' = Busy /\ Crowd' = Crowd
      BY <2>1, <2>2, <2>4 DEF Busy, Crowd, Holds, Opened, Waiting
    <3> QED
      BY <2>1, <2>2, <2>4, <3>1, <1>s
  <2> QED
    BY <2>3, <2>4
<1>3. ASSUME NEW s \in Server, Receive(s)
      PROVE  CrowdInv'
  <2>1. PICK m \in Range(queue) : Take(s, Request, m)
    BY <1>3 DEF Receive
  <2>2. /\ spc[s] = "receive" /\ spc'[s] = "reply"
        /\ \A t \in Server : t # s => spc'[t] = spc[t]
        /\ UNCHANGED <<live, msgid, cpc>>
    BY <1>3, <1>t DEF Receive, TypeOK
  <2>3. Opened(s) /\ Len(queue') = Len(queue) - 1
    BY <1>t, <2>1, Taken
  <2>4. Busy' = Busy \cup {s} /\ s \notin Busy
    BY <2>2, <2>3 DEF Busy, Holds, Opened
  <2>5. Crowd' = Crowd /\ Waiting' = Waiting
    BY <2>2 DEF Crowd, Waiting, Opened
  <2>6. /\ IsFiniteSet(Busy')
        /\ Cardinality(Busy') = Cardinality(Busy) + 1
    BY <1>f, <2>4, FS_AddElement
  <2> QED
    BY <1>t, <1>f, <2>3, <2>5, <2>6 DEF CrowdInv
<1>4. ASSUME NEW s \in Server, Reply(s)
      PROVE  CrowdInv'
  <2>1. /\ spc[s] = "reply" /\ spc'[s] = "receive"
        /\ \A t \in Server : t # s => spc'[t] = spc[t]
        /\ UNCHANGED <<live, msgid, cpc>>
        /\ \/ \E m \in msg[s] : Send(s, m)
           \/ ~Opened(s) /\ UNCHANGED queue
    BY <1>4, <1>t DEF Reply, TypeOK
  <2>2. Busy' = Busy \ {s}
    BY <2>1 DEF Busy, Holds, Opened
  <2>3. Crowd' = Crowd /\ Waiting' = Waiting
    BY <2>1 DEF Crowd, Waiting, Opened
  <2>4. CASE ~Opened(s) /\ UNCHANGED queue
    <3>1. Busy' = Busy
      BY <2>2, <2>4 DEF Busy, Holds
    <3> QED
      BY <2>3, <2>4, <3>1, <1>s
  <2>5. ASSUME NEW m \in msg[s], Send(s, m)
        PROVE  CrowdInv'
    <3>1. m \in Message
      BY <1>t DEF TypeOK
    <3>2. Opened(s) /\ Len(queue') = Len(queue) + 1
      BY <1>t, <2>5, <3>1, Sent
    <3>3. s \in Busy
      BY <2>1, <3>2 DEF Busy, Holds
    <3>4. /\ IsFiniteSet(Busy')
          /\ Cardinality(Busy') = Cardinality(Busy) - 1
      BY <1>f, <2>2, <3>3, FS_RemoveElement
    <3> QED
      BY <1>t, <1>f, <2>3, <3>2, <3>4 DEF CrowdInv
  <2> QED
    BY <2>1, <2>4, <2>5
<1>5. ASSUME NEW c \in Client, StartClient(c)
      PROVE  CrowdInv'
  <2>1. /\ cpc[c] = "new" /\ cpc'[c] \in {"send", "failed"} /\ c \notin Server
        /\ \A d \in Client : d # c => cpc'[d] = cpc[d]
        /\ \A p \in Server \cup Client : p # c => msgid'[p] = msgid[p]
        /\ UNCHANGED <<live, queue, spc>>
    BY <1>5, <1>t, MsgqAssumption DEF StartClient, TypeOK
  <2>2. Waiting' = Waiting
    BY <2>1 DEF Waiting
  <2>3. Busy' = Busy /\ Crowd' = Crowd
    BY <2>1, <2>2 DEF Busy, Crowd, Holds, Opened, Waiting
  <2> QED
    BY <2>1, <2>2, <2>3, <1>s
<1>6. ASSUME NEW c \in Client, SendRequest(c)
      PROVE  CrowdInv'
  <2>0. PICK m : m = RequestOf(c)
    OBVIOUS
  <2>1. /\ cpc[c] = "send" /\ cpc'[c] = "wait"
        /\ \A d \in Client : d # c => cpc'[d] = cpc[d]
        /\ Send(c, m)
        /\ UNCHANGED <<live, msgid, spc>>
    BY <1>6, <1>t, <2>0 DEF SendRequest, TypeOK
  <2>2. m \in Message
    BY <1>t, <2>0, MsgqAssumption DEF RequestOf, Message, TypeOK
  <2>3. Opened(c) /\ Len(queue') = Len(queue) + 1
    BY <1>t, <2>1, <2>2, Sent
  <2>4. Waiting' = Waiting \cup {c} /\ c \notin Waiting
    BY <2>1 DEF Waiting
  <2>5. Crowd' = Crowd \cup {c} /\ c \notin Crowd
    BY <2>1, <2>3, <2>4 DEF Crowd, Opened
  <2>6. Busy' = Busy
    BY <2>1 DEF Busy, Holds, Opened
  <2>7. /\ IsFiniteSet(Waiting')
        /\ Cardinality(Crowd') = Cardinality(Crowd) + 1
    BY <1>f, <2>4, <2>5, FS_AddElement
  <2> QED
    BY <1>t, <1>f, <2>3, <2>6, <2>7 DEF CrowdInv
<1>7. ASSUME NEW c \in Client, TakeReply(c)
      PROVE  CrowdInv'
  <2>1. PICK p, m : Take(c, p, m)
    BY <1>7 DEF TakeReply
  <2>2. /\ cpc[c] = "wait" /\ cpc'[c] = "done"
        /\ \A d \in Client : d # c => cpc'[d] = cpc[d]
        /\ UNCHANGED <<live, msgid, spc>>
    BY <1>7, <1>t DEF TakeReply, TypeOK
  <2>3. Opened(c) /\ Len(queue') = Len(queue) - 1
    BY <1>t, <2>1, Taken
  <2>4. Waiting' = Waiting \ {c}
    BY <2>2 DEF Waiting
  <2>5. Crowd' = Crowd \ {c} /\ c \in Crowd
    BY <2>2, <2>3, <2>4 DEF Crowd, Opened, Waiting
  <2>6. Busy' = Busy
    BY <2>2 DEF Busy, Holds, Opened
  <2>7. /\ IsFiniteSet(Waiting')
        /\ Cardinality(Crowd') = Cardinality(Crowd) - 1
    BY <1>f, <2>4, <2>5, FS_RemoveElement
  <2> QED
    BY <1>t, <1>f, <2>3, <2>6, <2>7 DEF CrowdInv
<1>8. ASSUME NEW c \in Client, ClientFails(c)
      PROVE  CrowdInv'
  <2>1. /\ ~Opened(c) /\ cpc'[c] = "failed"
        /\ \A d \in Client : d # c => cpc'[d] = cpc[d]
        /\ UNCHANGED <<live, queue, msgid, spc>>
    BY <1>8, <1>t DEF ClientFails, TypeOK
  <2>2. Waiting' = Waiting \ {c}
    BY <2>1 DEF Waiting
  <2>3. Crowd' = Crowd /\ Busy' = Busy
    BY <2>1, <2>2 DEF Crowd, Busy, Holds, Opened, Waiting
  <2>4. IsFiniteSet(Waiting')
    BY <1>f, <2>2, FS_RemoveElement
  <2> QED
    BY <1>f, <2>1, <2>3, <2>4 DEF CrowdInv
<1>9. CASE Kill
  <2>1. UNCHANGED <<live, queue, msgid>>
    BY <1>9 DEF Kill
  <2>2. ASSUME NEW c \in Client, cpc' = [cpc EXCEPT ![c] = "killed"],
               UNCHANGED spc
        PROVE  CrowdInv'
    <3>1. Waiting' = Waiting \cup {c}
      BY <1>t, <2>2 DEF Waiting, TypeOK
    <3>2. Busy' = Busy /\ Crowd \in SUBSET Crowd'
      BY <2>1, <2>2, <3>1 DEF Busy, Crowd, Holds, Opened
    <3>3. IsFiniteSet(Waiting')
      BY <1>f, <3>1, FS_AddElement
    <3>4. Crowd' \in SUBSET Waiting'
      BY DEF Crowd
    <3>5. IsFiniteSet(Crowd')
      BY <3>3, <3>4, FS_Subset
    <3>6. /\ Cardinality(Crowd') \in Nat
          /\ Cardinality(Crowd) <= Cardinality(Crowd')
      BY <3>2, <3>5, FS_Subset, FS_CardinalityType
    <3> QED
      BY <1>t, <1>f, <2>1, <3>2, <3>3, <3>6 DEF CrowdInv
  <2>3. ASSUME NEW s \in Server, spc' = [spc EXCEPT ![s] = "killed"],
               UNCHANGED cpc
        PROVE  CrowdInv'
    <3>1. Busy' \in SUBSET Busy
      BY <1>t, <2>1, <2>3 DEF Busy, Holds, Opened, TypeOK
    <3>2. Waiting' = Waiting /\ Crowd' = Crowd
      BY <2>1, <2>3 DEF Waiting, Crowd, Opened
    <3>3. /\ IsFiniteSet(Busy')
          /\ Cardinality(Busy') \in Nat
          /\ Cardinality(Busy') <= Cardinality(Busy)
      BY <1>f, <3>1, FS_Subset, FS_CardinalityType
    <3> QED
      BY <1>t, <1>f, <2>1, <3>2, <3>3 DEF CrowdInv
  <2> QED
    BY <1>9, <2>2, <2>3 DEF Kill
<1>10. CASE UNCHANGED vars
  <2>1. UNCHANGED <<live, queue, msgid, cpc, spc>>
    BY <1>10 DEF vars
  <2>2. Waiting' = Waiting /\ Crowd' = Crowd /\ Busy' = Busy
    BY <2>1 DEF Waiting, Crowd, Busy, Holds, Opened
  <2> QED
    BY <2>1, <2>2, <1>s
<1> QED
  BY <1>1, <1>2, <1>3, <1>4, <1>5, <1>6, <1>7, <1>8, <1>9, <1>10
     DEF Next, ServerGoesOn, ClientGoesOn

\* server.c:50: a server sleeps on a full queue only when more clients than the
\* queue has room for wait or were killed, whatever the size of the queue.
THEOREM FullQueueHasACrowd == Spec => []FullNeedsACrowd
<1>1. Init => CrowdInv
  <2> SUFFICES ASSUME Init PROVE CrowdInv
    OBVIOUS
  <2>1. Waiting = {} /\ Crowd = {} /\ Busy = {} /\ queue = <<>>
    BY DEF Init, Waiting, Crowd, Busy, Holds
  <2> QED
    BY <2>1, FS_EmptySet DEF CrowdInv
<1>2. IInv /\ CrowdInv /\ [Next]_vars => CrowdInv'
  BY CrowdStep
<1>3. IInv /\ CrowdInv => FullNeedsACrowd
  <2> SUFFICES ASSUME IInv, CrowdInv, NEW s \in Server,
                      spc[s] = "reply", Opened(s), Len(queue) = QMax
               PROVE  Cardinality(Waiting) > QMax
    BY DEF FullNeedsACrowd, Waiting
  <2>1. s \in Busy
    BY DEF Busy, Holds
  <2>2. Cardinality(Busy) # 0
    BY <2>1, FS_EmptySet DEF CrowdInv
  <2> QED
    BY <2>2, Counts, MsgqAssumption DEF CrowdInv
<1> QED
  BY <1>1, <1>2, <1>3, InductiveInvariant, PTL DEF Spec

=============================================================================

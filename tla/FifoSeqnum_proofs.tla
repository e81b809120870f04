-------------------------- MODULE FifoSeqnum_proofs --------------------------
(***************************************************************************)
(* Proofs about FifoSeqnum, for every number of servers, clients, pids,    *)
(* retries and kills and every width of int: a server is a sequence        *)
(* allocator, clients print disjoint ranges, a live client is given up     *)
(* late, and only the dead leave their FIFOs.                              *)
(***************************************************************************)
EXTENDS FifoSeqnum, SequenceTheorems, TLAPS

Reqs == IF requests = None THEN <<>> ELSE requests

\* A server has a request that it has not answered.
Busy(s) == s \notin killed /\ spc[s] \in {"open", "write"}

\* The server's FIFO is there once a server was started.
MadeInv == \A s \in Server : spc[s] # "new" => requests # None

\* The labels of a server say whether it has a request and a client's FIFO.
FdInv == \A s \in Server :
  /\ spc[s] \in {"open", "write", "close"} => req[s] \in RequestMsg
  /\ clientFd[s] # None <=> spc[s] \in {"write", "close"}
  /\ clientFd[s] # None => /\ PidOf[clientFd[s]] = req[s].pid
                           /\ cpc[clientFd[s]] # "new"

OnePid == \A c, d \in Client :
  ClientRuns(c) /\ ClientRuns(d) /\ PidOf[c] = PidOf[d] => c = d

\* A running client has a FIFO at its path, and opens that one.
PathInv ==
  /\ \A p \in Pid :
       path[p] # None => PidOf[path[p]] = p /\ cpc[path[p]] # "new"
  /\ \A c \in Client :
       ClientRuns(c) =>
         /\ path[PidOf[c]] # None
         /\ cpc[c] \in {"waiting", "read"} => own[c] = path[PidOf[c]]

\* A process with the pid of FIFO f was killed.
Orphan(f) == \E d \in killed \cap Client : PidOf[d] = PidOf[f]

\* A FIFO that a server has open and that is still at its path lost its
\* reader by SIGKILL only.
HeirInv == \A s \in Server \ killed :
  LET f == clientFd[s] IN
    f # None /\ path[PidOf[f]] = f => FifoHasReader(f) \/ Orphan(f)

\* A request of client c, or its answer, may still be under way.
Pending(c) == \/ c \in killed
              \/ cpc[c] \in {"open", "waiting", "read"}
              \/ cpc[c] \in {"done", "failed"} /\ Inherits(c)

Asked(m) == /\ m.pid = PidOf[m.who]
            /\ m.seqLen = seqLen[m.who]
            /\ Pending(m.who)

GrantOf(m) == [by |-> m.by, to |-> m.who, from |-> m.seqNum,
               amount |-> m.seqLen]

Answered(m) == /\ m.seqLen = seqLen[m.who]
               /\ GrantOf(m) \in granted

\* Requests and answers say what their client asked for and was granted.
LetterInv ==
  /\ \A i \in 1..Len(Reqs) : Asked(Reqs[i])
  /\ \A s \in Server : Busy(s) => Asked(req[s])
  /\ \A f \in Client : \A j \in 1..Len(data[f]) :
       /\ Answered(data[f][j])
       /\ Pending(data[f][j].who)
       /\ PidOf[data[f][j].who] = PidOf[f]

\* No client has two of them.
Single ==
  /\ \A i, j \in 1..Len(Reqs) : Reqs[i].who = Reqs[j].who => i = j
  /\ \A s, t \in Server : Busy(s) /\ Busy(t) /\ req[s].who = req[t].who => s = t
  /\ \A f, g \in Client : \A i \in 1..Len(data[f]), j \in 1..Len(data[g]) :
       data[f][i].who = data[g][j].who => f = g /\ i = j
  /\ \A i \in 1..Len(Reqs), s \in Server : Busy(s) => Reqs[i].who # req[s].who
  /\ \A i \in 1..Len(Reqs), f \in Client : \A j \in 1..Len(data[f]) :
       Reqs[i].who # data[f][j].who
  /\ \A s \in Server, f \in Client : \A j \in 1..Len(data[f]) :
       Busy(s) => req[s].who # data[f][j].who

\* When a client reads, its answer is in its FIFO, comes next, or was lost.
Ready(c) ==
  /\ \A i \in 1..Len(Reqs) : Reqs[i].who # c
  /\ \A s \in Server : Busy(s) /\ req[s].who = c => /\ spc[s] = "write"
                                                    /\ clientFd[s] = own[c]
  /\ \A f \in Client : \A j \in 1..Len(data[f]) :
       data[f][j].who = c => f = own[c]

ReadInv == \A c \in Client :
  ClientRuns(c) /\ cpc[c] = "read" => Inherits(c) \/ Ready(c)

AnswerInv == \A c \in Client : \A m \in answer[c] :
  /\ cpc[c] = "done"
  /\ Answered(m)
  /\ m.who = c \/ Inherits(c)

IInv == /\ TypeOK /\ MadeInv /\ FdInv /\ OnePid /\ PathInv /\ HeirInv
        /\ LetterInv /\ Single /\ ReadInv /\ AnswerInv
        /\ OnlyTheDeadLeaveFifos

-----------------------------------------------------------------------------
(* Letters: requests, and the answers to them.                             *)

\* Client c has a letter under way.
HasMail(c) == \/ \E i \in 1..Len(Reqs) : Reqs[i].who = c
              \/ \E s \in Server : Busy(s) /\ req[s].who = c
              \/ \E f \in Client : \E j \in 1..Len(data[f]) :
                   data[f][j].who = c

LEMMA NoneIsNoQueue == None # <<>>
<1>1. <<>> \in Seq(RequestMsg)
  OBVIOUS
<1> QED
  BY <1>1, FifoAssumption

LEMMA ReqsType == TypeOK => Reqs \in Seq(RequestMsg)
BY DEF TypeOK, Reqs

LEMMA LetterTypes ==
  ASSUME TypeOK, FdInv
  PROVE  /\ \A i \in 1..Len(Reqs) : Reqs[i] \in RequestMsg
         /\ \A s \in Server : Busy(s) => req[s] \in RequestMsg
         /\ \A f \in Client : \A j \in 1..Len(data[f]) :
              data[f][j] \in ResponseMsg
<1>1. \A i \in 1..Len(Reqs) : Reqs[i] \in RequestMsg
  BY ReqsType
<1>2. \A s \in Server : Busy(s) => req[s] \in RequestMsg
  BY DEF FdInv, Busy
<1>3. ASSUME NEW f \in Client, NEW j \in 1..Len(data[f])
      PROVE  data[f][j] \in ResponseMsg
  <2>1. data[f] \in Seq(ResponseMsg)
    BY DEF TypeOK
  <2> QED
    BY <2>1
<1> QED
  BY <1>1, <1>2, <1>3

\* Letters only go: k requests were read, h[f] answers from the FIFO f.
Fewer(k, h) ==
  /\ \A i \in 1..Len(Reqs') : i + k \in 1..Len(Reqs) /\ Reqs'[i] = Reqs[i + k]
  /\ \A f \in Client : \A j \in 1..Len(data'[f]) :
       j + h[f] \in 1..Len(data[f]) /\ data'[f][j] = data[f][j + h[f]]
  /\ \A s \in Server : Busy(s)' => Busy(s) /\ req'[s] = req[s]

LEMMA FewerLetters ==
  ASSUME LetterInv, Single,
         NEW k \in Nat, NEW h \in [Client -> Nat], Fewer(k, h),
         seqLen' = seqLen, granted \subseteq granted',
         \A c : Pending(c) /\ HasMail(c)' => Pending(c)'
  PROVE  LetterInv' /\ Single'
<1>1. ASSUME NEW i \in 1..Len(Reqs'), NEW m, m = Reqs'[i]
      PROVE  Asked(m)'
  <2>1. i + k \in 1..Len(Reqs) /\ m = Reqs[i + k]
    BY <1>1 DEF Fewer
  <2>2. Asked(m)
    BY <2>1 DEF LetterInv
  <2>3. PICK c : c = m.who
    OBVIOUS
  <2>4. HasMail(c)'
    BY <1>1, <2>3 DEF HasMail
  <2> QED
    BY <2>2, <2>3, <2>4 DEF Asked
<1>2. ASSUME NEW s \in Server, Busy(s)', NEW m, m = req'[s]
      PROVE  Asked(m)'
  <2>1. Busy(s) /\ m = req[s]
    BY <1>2 DEF Fewer
  <2>2. Asked(m)
    BY <2>1 DEF LetterInv
  <2>3. PICK c : c = m.who
    OBVIOUS
  <2>4. HasMail(c)'
    BY <1>2, <2>3 DEF HasMail
  <2> QED
    BY <2>2, <2>3, <2>4 DEF Asked
<1>3. ASSUME NEW f \in Client, NEW j \in 1..Len(data'[f]),
             NEW m, m = data'[f][j]
      PROVE  /\ Answered(m)'
             /\ Pending(m.who)'
             /\ PidOf[m.who] = PidOf[f]
  <2>1. j + h[f] \in 1..Len(data[f]) /\ m = data[f][j + h[f]]
    BY <1>3 DEF Fewer
  <2>2. Answered(m) /\ Pending(m.who) /\ PidOf[m.who] = PidOf[f]
    BY <2>1 DEF LetterInv
  <2>3. PICK c : c = m.who
    OBVIOUS
  <2>4. HasMail(c)'
    BY <1>3, <2>3 DEF HasMail
  <2> QED
    BY <2>2, <2>3, <2>4 DEF Answered, GrantOf
<1>4. LetterInv'
  BY <1>1, <1>2, <1>3 DEF LetterInv
<1>5. ASSUME NEW i \in 1..Len(Reqs')
      PROVE  i + k \in 1..Len(Reqs) /\ Reqs'[i] = Reqs[i + k]
  BY DEF Fewer
<1>6. ASSUME NEW f \in Client, NEW j \in 1..Len(data'[f])
      PROVE  j + h[f] \in 1..Len(data[f]) /\ data'[f][j] = data[f][j + h[f]]
  BY DEF Fewer
<1>7. ASSUME NEW s \in Server, Busy(s)'
      PROVE  Busy(s) /\ req'[s] = req[s]
  BY <1>7 DEF Fewer
<1>8. ASSUME NEW i \in 1..Len(Reqs'), NEW j \in 1..Len(Reqs'),
             Reqs'[i].who = Reqs'[j].who
      PROVE  i = j
  <2>1. \A x, y \in 1..Len(Reqs) : Reqs[x].who = Reqs[y].who => x = y
    BY DEF Single
  <2>2. /\ i + k \in 1..Len(Reqs) /\ Reqs'[i] = Reqs[i + k]
        /\ j + k \in 1..Len(Reqs) /\ Reqs'[j] = Reqs[j + k]
    BY <1>5
  <2>3. i + k = j + k
    BY <1>8, <2>1, <2>2
  <2> QED
    BY <2>3
<1>9. ASSUME NEW f \in Client, NEW g \in Client,
             NEW i \in 1..Len(data'[f]), NEW j \in 1..Len(data'[g]),
             data'[f][i].who = data'[g][j].who
      PROVE  f = g /\ i = j
  <2>1. \A x \in 1..Len(data[f]), y \in 1..Len(data[g]) :
          data[f][x].who = data[g][y].who => f = g /\ x = y
    BY DEF Single
  <2>2. /\ i + h[f] \in 1..Len(data[f]) /\ data'[f][i] = data[f][i + h[f]]
        /\ j + h[g] \in 1..Len(data[g]) /\ data'[g][j] = data[g][j + h[g]]
    BY <1>6
  <2>3. data[f][i + h[f]].who = data[g][j + h[g]].who
    BY <1>9, <2>2
  <2>4. f = g /\ i + h[f] = j + h[g]
    BY <2>1, <2>2, <2>3
  <2> QED
    BY <2>4
<1>10. ASSUME NEW i \in 1..Len(Reqs'), NEW s \in Server, Busy(s)'
       PROVE  Reqs'[i].who # req'[s].who
  <2>1. \A x \in 1..Len(Reqs) : Busy(s) => Reqs[x].who # req[s].who
    BY DEF Single
  <2> QED
    BY <1>5, <1>7, <1>10, <2>1
<1>11. ASSUME NEW i \in 1..Len(Reqs'), NEW f \in Client,
              NEW j \in 1..Len(data'[f])
       PROVE  Reqs'[i].who # data'[f][j].who
  <2>1. \A x \in 1..Len(Reqs), y \in 1..Len(data[f]) :
          Reqs[x].who # data[f][y].who
    BY DEF Single
  <2>2. /\ i + k \in 1..Len(Reqs) /\ Reqs'[i] = Reqs[i + k]
        /\ j + h[f] \in 1..Len(data[f]) /\ data'[f][j] = data[f][j + h[f]]
    BY <1>5, <1>6
  <2> QED
    BY <2>1, <2>2
<1>12. ASSUME NEW s \in Server, Busy(s)', NEW f \in Client,
              NEW j \in 1..Len(data'[f])
       PROVE  req'[s].who # data'[f][j].who
  <2>1. \A y \in 1..Len(data[f]) : Busy(s) => req[s].who # data[f][y].who
    BY DEF Single
  <2> QED
    BY <1>6, <1>7, <1>12, <2>1
<1>13. ASSUME NEW s \in Server, NEW t \in Server, Busy(s)', Busy(t)',
              req'[s].who = req'[t].who
       PROVE  s = t
  <2>1. Busy(s) /\ Busy(t) /\ req[s].who = req[t].who => s = t
    BY DEF Single
  <2> QED
    BY <1>7, <1>13, <2>1
<1>14. Single'
  BY <1>8, <1>9, <1>10, <1>11, <1>12, <1>13 DEF Single
<1> QED
  BY <1>4, <1>14

LEMMA FewerMail ==
  ASSUME NEW k \in Nat, NEW h \in [Client -> Nat], Fewer(k, h),
         NEW c, HasMail(c)'
  PROVE  HasMail(c)
<1>1. CASE \E i \in 1..Len(Reqs') : Reqs'[i].who = c
  <2>1. PICK i \in 1..Len(Reqs') : Reqs'[i].who = c
    BY <1>1
  <2>2. i + k \in 1..Len(Reqs) /\ Reqs'[i] = Reqs[i + k]
    BY DEF Fewer
  <2> QED
    BY <2>1, <2>2 DEF HasMail
<1>2. CASE \E s \in Server : Busy(s)' /\ req'[s].who = c
  BY <1>2 DEF Fewer, HasMail
<1>3. CASE \E f \in Client : \E j \in 1..Len(data'[f]) : data'[f][j].who = c
  <2>1. PICK f \in Client : \E j \in 1..Len(data'[f]) : data'[f][j].who = c
    BY <1>3
  <2>2. PICK j \in 1..Len(data'[f]) : data'[f][j].who = c
    BY <2>1
  <2>3. j + h[f] \in 1..Len(data[f]) /\ data'[f][j] = data[f][j + h[f]]
    BY DEF Fewer
  <2> QED
    BY <2>2, <2>3 DEF HasMail
<1> QED
  BY <1>1, <1>2, <1>3 DEF HasMail

LEMMA FewerReady ==
  ASSUME NEW k \in Nat, NEW h \in [Client -> Nat], Fewer(k, h),
         NEW c \in Client, own'[c] = own[c], Ready(c),
         \A s \in Server : Busy(s)' /\ req'[s].who = c =>
           spc'[s] = spc[s] /\ clientFd'[s] = clientFd[s]
  PROVE  Ready(c)'
<1>1. ASSUME NEW i \in 1..Len(Reqs')
      PROVE  Reqs'[i].who # c
  <2>1. i + k \in 1..Len(Reqs) /\ Reqs'[i] = Reqs[i + k]
    BY DEF Fewer
  <2> QED
    BY <2>1 DEF Ready
<1>2. \A s \in Server : Busy(s)' /\ req'[s].who = c => /\ spc'[s] = "write"
                                                      /\ clientFd'[s] = own'[c]
  BY DEF Fewer, Ready
<1>3. \A f \in Client : \A j \in 1..Len(data'[f]) :
        data'[f][j].who = c => f = own'[c]
  <2>1. SUFFICES ASSUME NEW f \in Client, NEW j \in 1..Len(data'[f]),
                        data'[f][j].who = c
                 PROVE  f = own'[c]
    OBVIOUS
  <2>2. j + h[f] \in 1..Len(data[f]) /\ data'[f][j] = data[f][j + h[f]]
    BY DEF Fewer
  <2> QED
    BY <2>1, <2>2 DEF Ready
<1> QED
  BY <1>1, <1>2, <1>3 DEF Ready

\* What a process leaves when it closes its FIFOs.
LEMMA Dropped ==
  ASSUME TypeOK, DropUnheld
  PROVE  /\ requests' = None \/ requests' \in Seq(RequestMsg)
         /\ data' \in [Client -> Seq(ResponseMsg)]
         /\ Len(Reqs') = 0 \/ Reqs' = Reqs
         /\ requests = None <=> requests' = None
         /\ \A f \in Client :
              /\ data'[f] = data[f] \/ data'[f] = <<>>
              /\ (FifoHasReader(f) \/ FifoHasWriter(f))' => data'[f] = data[f]
<1>1. requests' = requests \/ (requests # None /\ requests' = <<>>)
  BY DEF DropUnheld
<1>2. requests' = None \/ requests' \in Seq(RequestMsg)
  <2>1. <<>> \in Seq(RequestMsg)
    OBVIOUS
  <2> QED
    BY <1>1, <2>1 DEF TypeOK
<1>3. Len(Reqs') = 0 \/ Reqs' = Reqs
  BY <1>1, <1>2 DEF Reqs
<1>4. \A f \in Client :
        /\ data'[f] = data[f] \/ data'[f] = <<>>
        /\ (FifoHasReader(f) \/ FifoHasWriter(f))' => data'[f] = data[f]
  BY DEF DropUnheld
<1>5. data' \in [Client -> Seq(ResponseMsg)]
  <2>1. /\ <<>> \in Seq(ResponseMsg)
        /\ \A f \in Client : data[f] \in Seq(ResponseMsg)
    BY DEF TypeOK
  <2> QED
    BY <2>1 DEF DropUnheld
<1>6. requests = None <=> requests' = None
  BY <1>1, NoneIsNoQueue
<1> QED
  BY <1>1, <1>2, <1>3, <1>4, <1>5, <1>6

NoShift == [f \in Client |-> 0]

LEMMA DroppedFewer ==
  ASSUME TypeOK, DropUnheld \/ UNCHANGED <<requests, data>>,
         \A s \in Server : Busy(s)' => Busy(s) /\ req'[s] = req[s]
  PROVE  Fewer(0, NoShift) /\ NoShift \in [Client -> Nat]
<1>1. Len(Reqs') = 0 \/ Reqs' = Reqs
  BY Dropped DEF Reqs
<1>2. \A f \in Client : data'[f] = data[f] \/ data'[f] = <<>>
  BY Dropped
<1>3. \A i \in 1..Len(Reqs') : i + 0 \in 1..Len(Reqs) /\ Reqs'[i] = Reqs[i + 0]
  BY <1>1, ReqsType
<1>4. ASSUME NEW f \in Client, NEW j \in 1..Len(data'[f])
      PROVE  /\ j + NoShift[f] \in 1..Len(data[f])
             /\ data'[f][j] = data[f][j + NoShift[f]]
  <2>1. data'[f] = data[f]
    BY <1>2, <1>4
  <2> QED
    BY <2>1, <1>4 DEF NoShift
<1> QED
  BY <1>3, <1>4 DEF Fewer, NoShift

\* The letters of a running client's pid are its own, or somebody was killed.
LEMMA Mine ==
  ASSUME OnePid, NEW c \in Client, ClientRuns(c),
         NEW d \in Client, Pending(d), PidOf[d] = PidOf[c]
  PROVE  d = c \/ Inherits(c)
<1>1. CASE d \in killed
  BY <1>1 DEF Inherits
<1>2. CASE d \notin killed /\ cpc[d] \in {"open", "waiting", "read"}
  BY <1>2 DEF OnePid, ClientRuns
<1>3. CASE Inherits(d)
  BY <1>3 DEF Inherits, ClientRuns
<1> QED
  BY <1>1, <1>2, <1>3 DEF Pending

-----------------------------------------------------------------------------
(* Steps that leave a part of the invariant alone.                         *)

\* A step that sends nothing and makes nobody ready to read.
LEMMA QuietLetters ==
  ASSUME IInv, Fewer(0, NoShift), UNCHANGED <<seqLen, answer>>,
         granted \subseteq granted', killed \subseteq killed',
         \A s \in Server : Busy(s)' => /\ spc'[s] = spc[s]
                                       /\ clientFd'[s] = clientFd[s],
         \A c \in Client : Pending(c) /\ HasMail(c)' => Pending(c)',
         \A c \in Client : cpc[c] = "done" => cpc'[c] = "done",
         \A c \in Client :
           ClientRuns(c)' /\ cpc'[c] = "read" =>
             \/ ClientRuns(c) /\ cpc[c] = "read" /\ own'[c] = own[c]
             \/ Inherits(c)
  PROVE  LetterInv' /\ Single' /\ ReadInv' /\ AnswerInv'
<1>1. NoShift \in [Client -> Nat]
  BY DEF NoShift
<1>2. \A c : Inherits(c) => Inherits(c)'
  BY DEF Inherits
<1>3. ASSUME NEW c, Pending(c), HasMail(c)'
      PROVE  Pending(c)'
  <2>1. c \in Client
    <3>1. HasMail(c)' => HasMail(c)
      BY <1>1, FewerMail
    <3>2. HasMail(c) => c \in Client
      BY LetterTypes DEF IInv, HasMail, RequestMsg, ResponseMsg
    <3> QED
      BY <1>3, <3>1, <3>2
  <2> QED
    BY <1>3, <2>1
<1>4. LetterInv' /\ Single'
  BY <1>1, <1>3, FewerLetters DEF IInv
<1>5. ASSUME NEW c \in Client, ClientRuns(c)', cpc'[c] = "read"
      PROVE  Inherits(c)' \/ Ready(c)'
  <2>1. CASE Inherits(c)
    BY <2>1, <1>2
  <2>2. CASE ~Inherits(c)
    <3>1. Ready(c) /\ own'[c] = own[c]
      BY <1>5, <2>2 DEF IInv, ReadInv
    <3> QED
      BY <1>1, <3>1, FewerReady
  <2> QED
    BY <2>1, <2>2
<1>6. ReadInv'
  BY <1>5 DEF ReadInv
<1>7. AnswerInv'
  BY <1>2 DEF IInv, AnswerInv, Answered, GrantOf
<1> QED
  BY <1>4, <1>6, <1>7

LEMMA FdQuiet ==
  ASSUME FdInv, UNCHANGED <<req, clientFd>>,
         \A s \in Server : \/ spc'[s] = spc[s]
                           \/ /\ spc[s] \in {"new", "boot"}
                              /\ spc'[s] \in {"boot", "read"},
         \A c \in Client : cpc'[c] = "new" => cpc[c] = "new",
         TypeOK
  PROVE  FdInv'
<1>1. \A s \in Server : clientFd[s] \in Client \cup {None}
  BY DEF TypeOK
<1> QED
  BY <1>1 DEF FdInv

LEMMA HeirQuiet ==
  ASSUME IInv, killed \subseteq killed',
         \A s \in Server :
           clientFd'[s] # None => clientFd'[s] = clientFd[s],
         \A s \in Server :
           LET f == clientFd[s] IN
             f # None /\ path'[PidOf[f]] = f => path[PidOf[f]] = f,
         \A c, f \in Client :
           ReadsFifo(c, f) /\ path'[PidOf[f]] = f
             => ReadsFifo(c, f)' \/ Orphan(f)'
  PROVE  HeirInv'
<1> SUFFICES ASSUME NEW s \in Server, s \notin killed',
                    NEW f, f = clientFd'[s],
                    f # None, path'[PidOf[f]] = f
             PROVE  FifoHasReader(f)' \/ Orphan(f)'
  BY DEF HeirInv
<1>1. f = clientFd[s] /\ f \in Client /\ s \notin killed
  BY DEF IInv, TypeOK
<1>2. FifoHasReader(f) \/ Orphan(f)
  BY <1>1 DEF IInv, HeirInv
<1>3. Orphan(f) => Orphan(f)'
  BY DEF Orphan
<1>4. ASSUME NEW c \in Client, ReadsFifo(c, f)
      PROVE  FifoHasReader(f)' \/ Orphan(f)'
  <2>1. ReadsFifo(c, f)' \/ Orphan(f)'
    BY <1>1, <1>4
  <2> QED
    BY <2>1 DEF FifoHasReader
<1> QED
  BY <1>2, <1>3, <1>4 DEF FifoHasReader

-----------------------------------------------------------------------------
(* The steps of a server.                                                  *)

LEMMA InitInv == Init => IInv
<1> SUFFICES ASSUME Init PROVE IInv
  OBVIOUS
<1>1. TypeOK
  BY FifoAssumption DEF Init, TypeOK, ClientPC, ServerPC, CInt
<1>2. MadeInv /\ FdInv /\ OnePid /\ PathInv /\ HeirInv
  BY DEF Init, MadeInv, FdInv, OnePid, PathInv, HeirInv, ClientRuns
<1>3. Len(Reqs) = 0 /\ \A f \in Client : Len(data[f]) = 0
  BY DEF Init, Reqs
<1>4. LetterInv /\ Single
  BY <1>3 DEF Init, LetterInv, Single, Busy
<1>5. ReadInv /\ AnswerInv /\ OnlyTheDeadLeaveFifos
  BY DEF Init, ReadInv, AnswerInv, OnlyTheDeadLeaveFifos
<1> QED
  BY <1>1, <1>2, <1>4, <1>5 DEF IInv

LEMMA StartServerInv ==
  ASSUME IInv, NEW s \in Server, StartServer(s)
  PROVE  IInv'
<1>1. /\ s \notin killed /\ spc[s] = "new"
      /\ requests' = IF requests = None THEN <<>> ELSE requests
      /\ cpc' = [c \in Client |-> IF cpc[c] = "blocked" /\ c \notin killed
                                    THEN "write" ELSE cpc[c]]
      /\ UNCHANGED <<path, data, seqNum, req, retries, clientFd, seqLen, own,
                     answer, granted, sunk, abandoned, killed>>
  BY DEF StartServer, Go, history
<1>2. \E l \in {"read", "boot"} : spc' = [spc EXCEPT ![s] = l]
  BY DEF StartServer, Go
<1>3. /\ spc' \in [Server -> ServerPC]
      /\ spc'[s] \in {"read", "boot"}
      /\ \A t \in Server : t # s => spc'[t] = spc[t]
  BY <1>2 DEF IInv, TypeOK, ServerPC
<1>4. /\ cpc' \in [Client -> ClientPC]
      /\ \A c \in Client : \/ cpc'[c] = cpc[c]
                           \/ /\ cpc[c] = "blocked" /\ cpc'[c] = "write"
                              /\ c \notin killed
  BY <1>1 DEF IInv, TypeOK, ClientPC
<1>5. Reqs' = Reqs /\ (requests' = None \/ requests' \in Seq(RequestMsg))
  <2>1. <<>> \in Seq(RequestMsg)
    OBVIOUS
  <2> QED
    BY <1>1, <2>1, FifoAssumption DEF IInv, TypeOK, Reqs
<1>6. TypeOK'
  BY <1>1, <1>3, <1>4, <1>5 DEF IInv, TypeOK
<1>7. FdInv' /\ MadeInv'
  <2>1. requests' # None
    BY <1>1, NoneIsNoQueue
  <2> QED
    BY <1>1, <1>3, <1>4, <2>1, FdQuiet DEF IInv, MadeInv
<1>8. \A c \in Client : ClientRuns(c)' <=> ClientRuns(c)
  BY <1>1, <1>4 DEF ClientRuns
<1>9. OnePid' /\ PathInv' /\ OnlyTheDeadLeaveFifos'
  BY <1>1, <1>4, <1>8 DEF IInv, OnePid, PathInv, OnlyTheDeadLeaveFifos, TypeOK
<1>10. HeirInv'
  BY <1>1, <1>4, <1>8, HeirQuiet DEF ReadsFifo
<1>11. \A t \in Server : Busy(t)' <=> Busy(t)
  BY <1>1, <1>3 DEF Busy
<1>12. Fewer(0, NoShift)
  BY <1>1, <1>5, <1>11, ReqsType DEF IInv, Fewer, NoShift
<1>13. \A c \in Client : Pending(c) => Pending(c)'
  BY <1>1, <1>4 DEF Pending, Inherits
<1>14. LetterInv' /\ Single' /\ ReadInv' /\ AnswerInv'
  BY <1>1, <1>3, <1>4, <1>8, <1>11, <1>12, <1>13, QuietLetters DEF Busy
<1> QED
  BY <1>6, <1>7, <1>9, <1>10, <1>14 DEF IInv

\* A step that touches neither labels, files nor letters.
LEMMA SameInv ==
  ASSUME IInv, TypeOK',
         UNCHANGED <<requests, path, data, spc, req, clientFd, cpc, seqLen,
                     own, answer, granted, killed>>
  PROVE  IInv'
<1>1. FdInv' /\ MadeInv'
  BY DEF IInv, FdInv, MadeInv
<1>2. \A c \in Client : ClientRuns(c)' <=> ClientRuns(c)
  BY DEF ClientRuns
<1>3. OnePid' /\ PathInv' /\ OnlyTheDeadLeaveFifos'
  BY <1>2 DEF IInv, OnePid, PathInv, OnlyTheDeadLeaveFifos
<1>4. HeirInv'
  BY <1>2, HeirQuiet DEF ReadsFifo
<1>5. Fewer(0, NoShift)
  BY DroppedFewer DEF IInv, Busy
<1>6. \A c \in Client : Pending(c) => Pending(c)'
  BY DEF Pending, Inherits
<1>7. LetterInv' /\ Single' /\ ReadInv' /\ AnswerInv'
  BY <1>2, <1>5, <1>6, QuietLetters
<1> QED
  BY <1>1, <1>3, <1>4, <1>7 DEF IInv

LEMMA RetryInv ==
  ASSUME IInv, NEW s \in Server, Retry(s)
  PROVE  IInv'
<1>1. /\ spc' = [spc EXCEPT ![s] = "open"] /\ spc[s] = "open"
      /\ retries[s] < MaxRetries
      /\ retries' = [retries EXCEPT ![s] = @ + 1]
      /\ UNCHANGED <<requests, path, data, seqNum, req, clientFd, cpc, seqLen,
                     own, answer, granted, sunk, abandoned, killed>>
  BY DEF Retry, Go, clientVars, history
<1>2. spc' = spc
  BY <1>1 DEF IInv, TypeOK
<1>3. retries' \in [Server -> 0..MaxRetries]
  BY <1>1, FifoAssumption DEF IInv, TypeOK
<1>4. TypeOK'
  BY <1>1, <1>2, <1>3 DEF IInv, TypeOK
<1> QED
  BY <1>1, <1>2, <1>4, SameInv

LEMMA GiveUpInv ==
  ASSUME IInv, NEW s \in Server, GiveUp(s)
  PROVE  IInv'
<1>1. /\ s \notin killed /\ spc[s] = "open"
      /\ spc' = [spc EXCEPT ![s] = "read"]
      /\ req' = [req EXCEPT ![s] = None]
      /\ abandoned' = abandoned \cup {req[s].who}
      /\ UNCHANGED <<requests, path, data, seqNum, retries, clientFd, cpc,
                     seqLen, own, answer, granted, sunk, killed>>
  BY DEF GiveUp, Go, clientVars
<1>2. req[s] \in RequestMsg /\ clientFd[s] = None
  BY <1>1 DEF IInv, FdInv
<1>3. /\ spc' \in [Server -> ServerPC]
      /\ req' \in [Server -> RequestMsg \cup {None}]
      /\ spc'[s] = "read"
      /\ \A t \in Server : t # s => spc'[t] = spc[t] /\ req'[t] = req[t]
  BY <1>1 DEF IInv, TypeOK, ServerPC
<1>4. TypeOK'
  BY <1>1, <1>2, <1>3 DEF IInv, TypeOK, RequestMsg
<1>5. FdInv' /\ MadeInv'
  BY <1>1, <1>2, <1>3 DEF IInv, FdInv, MadeInv
<1>6. \A c \in Client : ClientRuns(c)' <=> ClientRuns(c)
  BY <1>1 DEF ClientRuns
<1>7. OnePid' /\ PathInv' /\ OnlyTheDeadLeaveFifos'
  BY <1>1, <1>6 DEF IInv, OnePid, PathInv, OnlyTheDeadLeaveFifos
<1>8. HeirInv'
  BY <1>1, <1>6, HeirQuiet DEF ReadsFifo
<1>9. \A t \in Server : Busy(t)' => Busy(t) /\ t # s
  BY <1>1, <1>3 DEF Busy
<1>10. Fewer(0, NoShift)
  BY <1>1, <1>3, <1>9, DroppedFewer DEF IInv
<1>11. \A c \in Client : Pending(c) => Pending(c)'
  BY <1>1 DEF Pending, Inherits
<1>12. LetterInv' /\ Single' /\ ReadInv' /\ AnswerInv'
  BY <1>1, <1>3, <1>6, <1>9, <1>10, <1>11, QuietLetters
<1> QED
  BY <1>4, <1>5, <1>7, <1>8, <1>12 DEF IInv

\* What is proved of a sequence allocator.
AllocP == INSTANCE SeqAlloc_proofs
            WITH next <- [s \in Server |-> NextNumber(s)]

LEMMA AmountIsAnInt == AllocP!IntsGiven /\ Amount \subseteq CInt
BY FifoAssumption DEF AllocP!IntsGiven, AllocP!CInt, CInt

LEMMA WrapIsAnInt ==
  ASSUME NEW a \in CInt, NEW b \in CInt
  PROVE  Wrap(a + b) \in CInt
<1>1. a \in AllocP!CInt /\ b \in AllocP!CInt
  BY DEF AllocP!CInt, CInt
<1>2. AllocP!Wrap(a + b) \in AllocP!CInt
  BY <1>1, AmountIsAnInt, AllocP!WrappedSum
<1> QED
  BY <1>2 DEF AllocP!CInt, CInt, AllocP!Wrap, Wrap

LEMMA CloseAndAdvanceInv ==
  ASSUME IInv, NEW s \in Server, CloseAndAdvance(s)
  PROVE  IInv'
<1>1. /\ s \notin killed /\ spc[s] = "close"
      /\ spc' = [spc EXCEPT ![s] = "read"]
      /\ clientFd' = [clientFd EXCEPT ![s] = None]
      /\ seqNum' = [seqNum EXCEPT ![s] = Wrap(@ + req[s].seqLen)]
      /\ req' = [req EXCEPT ![s] = None]
      /\ UNCHANGED <<path, retries, cpc, seqLen, own, answer, granted, sunk,
                     abandoned, killed>>
      /\ DropUnheld
  BY DEF CloseAndAdvance, Go, clientVars, history
<1>2. /\ spc' \in [Server -> ServerPC]
      /\ req' \in [Server -> RequestMsg \cup {None}]
      /\ clientFd' \in [Server -> Client \cup {None}]
      /\ spc'[s] = "read" /\ clientFd'[s] = None
      /\ \A t \in Server : t # s => /\ spc'[t] = spc[t] /\ req'[t] = req[t]
                                    /\ clientFd'[t] = clientFd[t]
  BY <1>1 DEF IInv, TypeOK, ServerPC
<1>3. seqNum' \in [Server -> CInt]
  <2>1. req[s] \in RequestMsg
    BY <1>1 DEF IInv, FdInv
  <2>2. seqNum[s] \in CInt /\ req[s].seqLen \in CInt
    BY <2>1, AmountIsAnInt DEF IInv, TypeOK, RequestMsg
  <2>3. Wrap(seqNum[s] + req[s].seqLen) \in CInt
    BY <2>2, WrapIsAnInt
  <2> QED
    BY <1>1, <2>3 DEF IInv, TypeOK
<1>4. TypeOK'
  BY <1>1, <1>2, <1>3, Dropped DEF IInv, TypeOK
<1>5. FdInv' /\ MadeInv'
  BY <1>1, <1>2, Dropped DEF IInv, FdInv, MadeInv
<1>6. \A c \in Client : ClientRuns(c)' <=> ClientRuns(c)
  BY <1>1 DEF ClientRuns
<1>7. OnePid' /\ PathInv' /\ OnlyTheDeadLeaveFifos'
  BY <1>1, <1>6 DEF IInv, OnePid, PathInv, OnlyTheDeadLeaveFifos
<1>8. HeirInv'
  BY <1>1, <1>2, <1>6, HeirQuiet DEF ReadsFifo
<1>9. \A t \in Server : Busy(t)' => Busy(t) /\ t # s
  BY <1>1, <1>2 DEF Busy
<1>10. Fewer(0, NoShift)
  BY <1>1, <1>2, <1>9, DroppedFewer DEF IInv
<1>11. \A c \in Client : Pending(c) => Pending(c)'
  BY <1>1 DEF Pending, Inherits
<1>12. LetterInv' /\ Single' /\ ReadInv' /\ AnswerInv'
  BY <1>1, <1>2, <1>6, <1>9, <1>10, <1>11, QuietLetters
<1> QED
  BY <1>4, <1>5, <1>7, <1>8, <1>12 DEF IInv

LEMMA OpenClientInv ==
  ASSUME IInv, NEW s \in Server, OpenClient(s)
  PROVE  IInv'
<1>0. PICK f : f = path[req[s].pid]
  OBVIOUS
<1>1. /\ s \notin killed /\ spc[s] = "open"
      /\ spc' = [spc EXCEPT ![s] = "write"]
      /\ FifoHasReader(f)
      /\ clientFd' = [clientFd EXCEPT ![s] = f]
      /\ cpc' = [c \in Client |-> IF cpc[c] = "waiting" /\ ReadsFifo(c, f)
                                    THEN "read" ELSE cpc[c]]
      /\ UNCHANGED <<requests, path, data, seqNum, req, retries, seqLen, own,
                     answer, granted, sunk, abandoned, killed>>
  BY <1>0 DEF OpenClient, Go, history
<1>2. req[s] \in RequestMsg /\ Asked(req[s])
  BY <1>1 DEF IInv, FdInv, LetterInv, Busy
<1>3. /\ f \in Client
      /\ PidOf[f] = req[s].pid
      /\ path[PidOf[f]] = f
      /\ cpc[f] # "new"
  <2>1. PICK c \in Client : ReadsFifo(c, f)
    BY <1>1 DEF FifoHasReader
  <2>2. PidOf[c] \in Pid /\ req[s].pid \in Pid
    BY <1>2, FifoAssumption DEF RequestMsg
  <2>3. f = path[PidOf[c]] /\ f # None
    BY <2>1 DEF IInv, PathInv, ReadsFifo
  <2>4. path[PidOf[c]] \in Client \cup {None}
    BY <2>2 DEF IInv, TypeOK
  <2> QED
    BY <1>0, <2>2, <2>3, <2>4 DEF IInv, PathInv
<1>4. /\ spc' \in [Server -> ServerPC]
      /\ clientFd' \in [Server -> Client \cup {None}]
      /\ spc'[s] = "write" /\ clientFd'[s] = f
      /\ \A t \in Server : t # s => /\ spc'[t] = spc[t]
                                    /\ clientFd'[t] = clientFd[t]
  BY <1>1, <1>3 DEF IInv, TypeOK, ServerPC
<1>5. /\ cpc' \in [Client -> ClientPC]
      /\ \A c \in Client : \/ cpc'[c] = cpc[c]
                           \/ /\ cpc[c] = "waiting" /\ cpc'[c] = "read"
                              /\ ReadsFifo(c, f)
  BY <1>1 DEF IInv, TypeOK, ClientPC
<1>6. TypeOK'
  BY <1>1, <1>4, <1>5 DEF IInv, TypeOK
<1>7. FdInv' /\ MadeInv'
  <2>1. f # None
    BY <1>3, FifoAssumption
  <2>2. \A c \in Client : cpc'[c] = "new" => cpc[c] = "new"
    BY <1>5
  <2>3. \A t \in Server : clientFd[t] \in Client \cup {None}
    BY DEF IInv, TypeOK
  <2> QED
    BY <1>1, <1>2, <1>3, <1>4, <2>1, <2>2, <2>3 DEF IInv, FdInv, MadeInv
<1>8. /\ \A c \in Client : ClientRuns(c)' <=> ClientRuns(c)
      /\ \A c \in Client : \A g : ReadsFifo(c, g)' <=> ReadsFifo(c, g)
  BY <1>1, <1>5 DEF ClientRuns, ReadsFifo
<1>9. OnePid' /\ PathInv' /\ OnlyTheDeadLeaveFifos'
  <2>1. OnePid'
    BY <1>8 DEF IInv, OnePid
  <2>2. PathInv'
    <3>1. \A p \in Pid : path[p] \in Client \cup {None}
      BY DEF IInv, TypeOK
    <3> QED
      BY <1>1, <1>5, <1>8, <3>1 DEF IInv, PathInv
  <2>3. OnlyTheDeadLeaveFifos'
    BY <1>1, <1>5, <1>8 DEF IInv, OnlyTheDeadLeaveFifos
  <2> QED
    BY <2>1, <2>2, <2>3
<1>10. HeirInv'
  <2>1. FifoHasReader(f)'
    BY <1>1, <1>8 DEF FifoHasReader
  <2>2. ASSUME NEW t \in Server, t # s, t \notin killed, NEW g, g = clientFd[t],
               g # None, path[PidOf[g]] = g
        PROVE  FifoHasReader(g)' \/ Orphan(g)'
    <3>1. FifoHasReader(g) \/ Orphan(g)
      BY <2>2 DEF IInv, HeirInv
    <3> QED
      BY <1>1, <1>8, <3>1 DEF FifoHasReader, Orphan
  <2>3. ASSUME NEW t \in Server, t \notin killed', NEW g, g = clientFd'[t],
               g # None, path'[PidOf[g]] = g
        PROVE  FifoHasReader(g)' \/ Orphan(g)'
    <3>1. CASE t = s
      BY <3>1, <2>1, <2>3, <1>4
    <3>2. CASE t # s
      BY <3>2, <2>2, <2>3, <1>1, <1>4
    <3> QED
      BY <3>1, <3>2
  <2> QED
    BY <2>3 DEF HeirInv
<1>11. \A t \in Server : Busy(t)' <=> Busy(t)
  BY <1>1, <1>4 DEF Busy
<1>12. Fewer(0, NoShift) /\ NoShift \in [Client -> Nat]
  BY <1>1, <1>11, DroppedFewer DEF IInv
<1>13. ASSUME NEW c, Pending(c), HasMail(c)'
       PROVE  Pending(c)'
  <2>1. c \in Client
    <3>1. HasMail(c)' => HasMail(c)
      BY <1>1, <1>11 DEF HasMail, Reqs
    <3>2. HasMail(c) => c \in Client
      BY LetterTypes DEF IInv, HasMail, RequestMsg, ResponseMsg
    <3> QED
      BY <1>13, <3>1, <3>2
  <2> QED
    BY <1>1, <1>5, <1>13, <2>1 DEF Pending, Inherits
<1>14. LetterInv' /\ Single'
  BY <1>1, <1>12, <1>13, FewerLetters DEF IInv
<1>15. ASSUME NEW c \in Client, ClientRuns(c)', cpc'[c] = "read"
       PROVE  Inherits(c)' \/ Ready(c)'
  <2>1. Inherits(c)' <=> Inherits(c)
    BY <1>1 DEF Inherits
  <2>2. CASE cpc[c] = "read"
    <3>1. Inherits(c) \/ Ready(c)
      BY <2>2, <1>8, <1>15 DEF IInv, ReadInv
    <3>2. ASSUME Ready(c), NEW t \in Server, Busy(t)', req'[t].who = c
          PROVE  spc'[t] = spc[t] /\ clientFd'[t] = clientFd[t]
      <4>1. t # s
        BY <3>2, <1>1, <1>11 DEF Ready
      <4> QED
        BY <4>1, <1>4
    <3>3. Ready(c) => Ready(c)'
      BY <1>1, <1>12, <3>2, FewerReady
    <3> QED
      BY <2>1, <3>1, <3>3
  <2>3. CASE cpc[c] = "waiting" /\ ReadsFifo(c, f) /\ ~Inherits(c)
    <3>1. own[c] = f /\ ClientRuns(c) /\ own[c] = path[PidOf[c]]
      BY <2>3 DEF IInv, PathInv, ReadsFifo
    <3>2. PidOf[c] = PidOf[f]
      <4>1. PidOf[c] \in Pid
        BY FifoAssumption
      <4> QED
        BY <3>1, <4>1, <1>3, FifoAssumption DEF IInv, PathInv
    <3>3. req[s].who \in Client /\ Pending(req[s].who)
          /\ PidOf[req[s].who] = PidOf[c]
      BY <1>2, <1>3, <3>2 DEF Asked, RequestMsg
    <3>4. req[s].who = c
      BY <2>3, <3>1, <3>3, Mine DEF IInv
    <3>5. Busy(s) /\ Busy(s)'
      BY <1>1, <1>11 DEF Busy
    <3>6. \A i \in 1..Len(Reqs') : Reqs'[i].who # c
      BY <1>1, <3>4, <3>5 DEF IInv, Single, Reqs
    <3>7. \A t \in Server : Busy(t)' /\ req'[t].who = c
            => spc'[t] = "write" /\ clientFd'[t] = own'[c]
      BY <1>1, <1>4, <1>11, <3>1, <3>4, <3>5 DEF IInv, Single
    <3>8. \A g \in Client : \A j \in 1..Len(data'[g]) : data'[g][j].who # c
      BY <1>1, <3>4, <3>5 DEF IInv, Single
    <3> QED
      BY <3>6, <3>7, <3>8 DEF Ready
  <2> QED
    BY <1>5, <1>15, <2>1, <2>2, <2>3
<1>16. ReadInv'
  BY <1>15 DEF ReadInv
<1>17. AnswerInv'
  <2>1. \A c \in Client : cpc[c] = "done" => cpc'[c] = "done"
    BY <1>5
  <2>2. \A c : Inherits(c)' <=> Inherits(c)
    BY <1>1 DEF Inherits
  <2>3. \A m : Answered(m)' <=> Answered(m)
    BY <1>1 DEF Answered, GrantOf
  <2> QED
    BY <1>1, <2>1, <2>2, <2>3 DEF IInv, AnswerInv
<1> QED
  BY <1>6, <1>7, <1>9, <1>10, <1>14, <1>16, <1>17 DEF IInv

LEMMA ReadRequestInv ==
  ASSUME IInv, NEW s \in Server, ReadRequest(s)
  PROVE  IInv'
<1>0. PICK r : r = Head(requests)
  OBVIOUS
<1>1. /\ s \notin killed /\ spc[s] = "read"
      /\ spc' = [spc EXCEPT ![s] = "open"]
      /\ requests # <<>>
      /\ req' = [req EXCEPT ![s] = r]
      /\ requests' = Tail(requests)
      /\ retries' = [retries EXCEPT ![s] = 0]
      /\ UNCHANGED <<path, data, seqNum, clientFd, cpc, seqLen, own, answer,
                     granted, sunk, abandoned, killed>>
  BY <1>0 DEF ReadRequest, Go, clientVars, history
<1>2. requests # None /\ requests \in Seq(RequestMsg) /\ Reqs = requests
  BY <1>1 DEF IInv, MadeInv, TypeOK, Reqs
<1>3. /\ r \in RequestMsg
      /\ requests' \in Seq(RequestMsg)
      /\ 1 \in 1..Len(Reqs) /\ r = Reqs[1]
      /\ Len(requests') = Len(Reqs) - 1
      /\ \A i \in 1..Len(requests') : /\ i + 1 \in 1..Len(Reqs)
                                      /\ requests'[i] = Reqs[i + 1]
  <2>1. Len(requests) \in Nat /\ Len(requests) # 0
    BY <1>1, <1>2
  <2> QED
    BY <1>0, <1>1, <1>2, <2>1
<1>4. requests' # None /\ Reqs' = requests'
  BY <1>3, FifoAssumption DEF Reqs
<1>5. /\ spc' \in [Server -> ServerPC]
      /\ req' \in [Server -> RequestMsg \cup {None}]
      /\ spc'[s] = "open" /\ req'[s] = r
      /\ \A t \in Server : t # s => spc'[t] = spc[t] /\ req'[t] = req[t]
  BY <1>1, <1>3 DEF IInv, TypeOK, ServerPC
<1>6. TypeOK'
  <2>1. retries' \in [Server -> 0..MaxRetries]
    BY <1>1, FifoAssumption DEF IInv, TypeOK
  <2> QED
    BY <1>1, <1>3, <1>5, <2>1 DEF IInv, TypeOK
<1>7. FdInv' /\ MadeInv'
  BY <1>1, <1>3, <1>4, <1>5 DEF IInv, FdInv, MadeInv
<1>8. \A c \in Client : ClientRuns(c)' <=> ClientRuns(c)
  BY <1>1 DEF ClientRuns
<1>9. OnePid' /\ PathInv' /\ OnlyTheDeadLeaveFifos'
  BY <1>1, <1>8 DEF IInv, OnePid, PathInv, OnlyTheDeadLeaveFifos
<1>10. HeirInv'
  BY <1>1, <1>8, HeirQuiet DEF ReadsFifo
<1>11. Busy(s)' /\ ~Busy(s) /\ \A t \in Server : t # s => (Busy(t)' <=> Busy(t))
  BY <1>1, <1>5 DEF Busy
<1>12. \A m : /\ Asked(m) => Asked(m)'
              /\ Answered(m) => Answered(m)'
              /\ Pending(m.who) => Pending(m.who)'
  BY <1>1 DEF Asked, Answered, GrantOf, Pending, Inherits
<1>13. LetterInv'
  <2>1. Asked(r)
    BY <1>3 DEF IInv, LetterInv
  <2>2. ASSUME NEW i \in 1..Len(Reqs'), NEW m, m = Reqs'[i]
        PROVE  Asked(m)'
    BY <2>2, <1>3, <1>4, <1>12 DEF IInv, LetterInv
  <2>3. ASSUME NEW t \in Server, Busy(t)', NEW m, m = req'[t]
        PROVE  Asked(m)'
    <3>1. Asked(m)
      BY <2>1, <2>3, <1>5, <1>11 DEF IInv, LetterInv
    <3> QED
      BY <3>1, <1>12
  <2>4. ASSUME NEW f \in Client, NEW j \in 1..Len(data'[f]),
               NEW m, m = data'[f][j]
        PROVE  /\ Answered(m)' /\ Pending(m.who)'
               /\ PidOf[m.who] = PidOf[f]
    BY <2>4, <1>1, <1>12 DEF IInv, LetterInv
  <2> QED
    BY <2>2, <2>3, <2>4 DEF LetterInv
<1>14. ASSUME NEW t \in Server, Busy(t)', t # s
       PROVE  req'[t].who # r.who
  BY <1>14, <1>3, <1>5, <1>11 DEF IInv, Single
<1>15. \A i \in 1..Len(Reqs') : Reqs'[i].who # r.who
  <2>1. SUFFICES ASSUME NEW i \in 1..Len(Reqs') PROVE Reqs'[i].who # r.who
    OBVIOUS
  <2>2. i + 1 \in 1..Len(Reqs) /\ i + 1 # 1 /\ Reqs'[i] = Reqs[i + 1]
    BY <1>3, <1>4
  <2> QED
    BY <2>2, <1>3 DEF IInv, Single
<1>16. Single'
  <2>1. ASSUME NEW i \in 1..Len(Reqs'), NEW j \in 1..Len(Reqs'),
               Reqs'[i].who = Reqs'[j].who
        PROVE  i = j
    <3>1. i + 1 \in 1..Len(Reqs) /\ j + 1 \in 1..Len(Reqs) /\ i + 1 = j + 1
      BY <2>1, <1>3, <1>4 DEF IInv, Single
    <3> QED
      BY <3>1
  <2>2. ASSUME NEW t \in Server, NEW u \in Server, Busy(t)', Busy(u)',
               req'[t].who = req'[u].who
        PROVE  t = u
    <3>1. CASE t = s \/ u = s
      BY <3>1, <2>2, <1>5, <1>14
    <3>2. CASE t # s /\ u # s
      BY <3>2, <2>2, <1>5, <1>11 DEF IInv, Single
    <3> QED
      BY <3>1, <3>2
  <2>3. \A f, g \in Client : \A i \in 1..Len(data'[f]), j \in 1..Len(data'[g]) :
          data'[f][i].who = data'[g][j].who => f = g /\ i = j
    BY <1>1 DEF IInv, Single
  <2>4. ASSUME NEW i \in 1..Len(Reqs'), NEW t \in Server, Busy(t)'
        PROVE  Reqs'[i].who # req'[t].who
    <3>1. CASE t = s
      BY <3>1, <1>5, <1>15
    <3>2. CASE t # s
      BY <3>2, <2>4, <1>3, <1>4, <1>5, <1>11 DEF IInv, Single
    <3> QED
      BY <3>1, <3>2
  <2>5. ASSUME NEW i \in 1..Len(Reqs'), NEW f \in Client,
               NEW j \in 1..Len(data'[f])
        PROVE  Reqs'[i].who # data'[f][j].who
    <3>1. i + 1 \in 1..Len(Reqs) /\ Reqs'[i] = Reqs[i + 1]
      BY <1>3, <1>4
    <3> QED
      BY <3>1, <1>1 DEF IInv, Single
  <2>6. ASSUME NEW t \in Server, Busy(t)', NEW f \in Client,
               NEW j \in 1..Len(data'[f])
        PROVE  req'[t].who # data'[f][j].who
    <3>1. CASE t = s
      BY <3>1, <1>1, <1>3, <1>5 DEF IInv, Single
    <3>2. CASE t # s
      BY <3>2, <2>6, <1>1, <1>5, <1>11 DEF IInv, Single
    <3> QED
      BY <3>1, <3>2
  <2> QED
    BY <2>1, <2>2, <2>3, <2>4, <2>5, <2>6 DEF Single
<1>17. ASSUME NEW c \in Client, ClientRuns(c)', cpc'[c] = "read"
       PROVE  Inherits(c)' \/ Ready(c)'
  <2>1. Inherits(c)' <=> Inherits(c)
    BY <1>1 DEF Inherits
  <2>2. ASSUME Ready(c) PROVE Ready(c)'
    <3>1. r.who # c
      BY <2>2, <1>3 DEF Ready
    <3>2. \A i \in 1..Len(Reqs') : Reqs'[i].who # c
      BY <2>2, <1>3, <1>4 DEF Ready
    <3>3. \A t \in Server : Busy(t)' /\ req'[t].who = c
            => spc'[t] = "write" /\ clientFd'[t] = own'[c]
      BY <2>2, <3>1, <1>1, <1>5, <1>11 DEF Ready
    <3> QED
      BY <2>2, <3>2, <3>3, <1>1 DEF Ready
  <2> QED
    BY <2>1, <2>2, <1>1, <1>8, <1>17 DEF IInv, ReadInv
<1>18. ReadInv'
  BY <1>17 DEF ReadInv
<1>19. AnswerInv'
  BY <1>1 DEF IInv, AnswerInv, Answered, GrantOf, Inherits
<1> QED
  BY <1>6, <1>7, <1>9, <1>10, <1>13, <1>16, <1>18, <1>19 DEF IInv

\* The answer is the last of the data in the FIFO, or was not written.
LEMMA WriteResponseInv ==
  ASSUME IInv, NEW s \in Server, WriteResponse(s)
  PROVE  IInv'
<1>0. PICK f, m : f = clientFd[s] /\ m = ResponseTo(s)
  OBVIOUS
<1>1. /\ s \notin killed /\ spc[s] = "write"
      /\ spc' = [spc EXCEPT ![s] = "close"]
      /\ data' = IF FifoHasReader(f) THEN [data EXCEPT ![f] = Append(@, m)]
                                     ELSE data
      /\ granted' = granted \cup {[by |-> s, to |-> req[s].who,
           from |-> seqNum[s], amount |-> req[s].seqLen]}
      /\ \/ sunk' = sunk \cup {s}
         \/ sunk' = sunk
      /\ UNCHANGED <<requests, path, seqNum, req, retries, clientFd, cpc,
                     seqLen, own, answer, abandoned, killed>>
  BY <1>0 DEF WriteResponse, Go, clientVars
<1>2. /\ req[s] \in RequestMsg /\ Asked(req[s]) /\ Busy(s)
      /\ f \in Client /\ PidOf[f] = req[s].pid
      /\ seqNum[s] \in CInt
  BY <1>0, <1>1 DEF IInv, FdInv, LetterInv, Busy, TypeOK
<1>3. /\ m \in ResponseMsg
      /\ m.who = req[s].who /\ m.by = s
      /\ m.seqNum = seqNum[s] /\ m.seqLen = req[s].seqLen
  BY <1>0, <1>2 DEF ResponseTo, ResponseMsg, RequestMsg
<1>4. /\ granted' = granted \cup {GrantOf(m)}
      /\ GrantOf(m) \in [by : Server, to : Client, from : CInt, amount : Amount]
  BY <1>1, <1>2, <1>3 DEF GrantOf, RequestMsg
<1>5. /\ spc' \in [Server -> ServerPC]
      /\ spc'[s] = "close"
      /\ \A t \in Server : t # s => spc'[t] = spc[t]
  BY <1>1 DEF IInv, TypeOK, ServerPC
<1>6. /\ data' \in [Client -> Seq(ResponseMsg)]
      /\ \A g \in Client : \A j \in 1..Len(data'[g]) :
           \/ j \in 1..Len(data[g]) /\ data'[g][j] = data[g][j]
           \/ g = f /\ j = Len(data[f]) + 1 /\ data'[g][j] = m
  <2>1. \A g \in Client : data[g] \in Seq(ResponseMsg)
    BY DEF IInv, TypeOK
  <2>2. CASE FifoHasReader(f)
    <3>1. /\ Append(data[f], m) \in Seq(ResponseMsg)
          /\ Len(Append(data[f], m)) = Len(data[f]) + 1
          /\ Len(data[f]) \in Nat
          /\ Append(data[f], m)[Len(data[f]) + 1] = m
          /\ \A j \in 1..Len(data[f]) : Append(data[f], m)[j] = data[f][j]
      BY <1>2, <1>3, <2>1
    <3>2. data' = [data EXCEPT ![f] = Append(data[f], m)]
      BY <1>1, <2>2
    <3>3. data'[f] = Append(data[f], m)
          /\ \A g \in Client : g # f => data'[g] = data[g]
      BY <3>2, <1>2 DEF IInv, TypeOK
    <3>4. data' \in [Client -> Seq(ResponseMsg)]
      BY <3>1, <3>2 DEF IInv, TypeOK
    <3>5. ASSUME NEW g \in Client, NEW j \in 1..Len(data'[g])
          PROVE  \/ j \in 1..Len(data[g]) /\ data'[g][j] = data[g][j]
                 \/ g = f /\ j = Len(data[f]) + 1 /\ data'[g][j] = m
      <4>1. CASE g = f /\ j \in 1..Len(data[f])
        BY <3>1, <3>3, <4>1
      <4>2. CASE g = f /\ j \notin 1..Len(data[f])
        <5>1. j = Len(data[f]) + 1
          BY <3>1, <3>3, <4>2
        <5> QED
          BY <3>1, <3>3, <4>2, <5>1
      <4>3. CASE g # f
        BY <3>3, <4>3
      <4> QED
        BY <4>1, <4>2, <4>3
    <3> QED
      BY <3>4, <3>5
  <2>3. CASE ~FifoHasReader(f)
    BY <2>3, <1>1 DEF IInv, TypeOK
  <2> QED
    BY <2>2, <2>3
<1>7. TypeOK'
  BY <1>1, <1>4, <1>5, <1>6 DEF IInv, TypeOK
<1>8. FdInv' /\ MadeInv'
  BY <1>1, <1>5 DEF IInv, FdInv, MadeInv
<1>9. \A c \in Client : ClientRuns(c)' <=> ClientRuns(c)
  BY <1>1 DEF ClientRuns
<1>10. OnePid' /\ PathInv' /\ OnlyTheDeadLeaveFifos'
  BY <1>1, <1>9 DEF IInv, OnePid, PathInv, OnlyTheDeadLeaveFifos
<1>11. HeirInv'
  BY <1>1, <1>9, HeirQuiet DEF ReadsFifo
<1>12. \A t \in Server : Busy(t)' <=> Busy(t) /\ t # s
  BY <1>1, <1>5 DEF Busy
<1>13. \A n : /\ Asked(n) => Asked(n)'
              /\ Answered(n) => Answered(n)'
              /\ Pending(n.who) => Pending(n.who)'
  BY <1>1 DEF Asked, Answered, GrantOf, Pending, Inherits
<1>14. Reqs' = Reqs
  BY <1>1 DEF Reqs
<1>15. LetterInv'
  <2>1. ASSUME NEW g \in Client, NEW j \in 1..Len(data'[g]),
               NEW n, n = data'[g][j]
        PROVE  /\ Answered(n)' /\ Pending(n.who)'
               /\ PidOf[n.who] = PidOf[g]
    <3>1. CASE j \in 1..Len(data[g]) /\ n = data[g][j]
      BY <3>1, <1>13 DEF IInv, LetterInv
    <3>2. CASE g = f /\ n = m
      <4>1. Pending(n.who)' /\ PidOf[n.who] = PidOf[g]
        BY <3>2, <1>2, <1>3, <1>13 DEF Asked
      <4>2. Answered(n)'
        BY <3>2, <1>1, <1>2, <1>3, <1>4 DEF Asked, Answered, GrantOf
      <4> QED
        BY <4>1, <4>2
    <3> QED
      BY <2>1, <1>6, <3>1, <3>2
  <2>2. ASSUME NEW t \in Server, Busy(t)', NEW n, n = req'[t]
        PROVE  Asked(n)'
    <3>1. Asked(n)
      BY <2>2, <1>1, <1>12 DEF IInv, LetterInv
    <3> QED
      BY <3>1, <1>13
  <2>3. ASSUME NEW i \in 1..Len(Reqs'), NEW n, n = Reqs'[i]
        PROVE  Asked(n)'
    <3>1. Asked(n)
      BY <2>3, <1>14 DEF IInv, LetterInv
    <3> QED
      BY <3>1, <1>13
  <2> QED
    BY <2>1, <2>2, <2>3 DEF LetterInv
<1>16. Single'
  <2>1. \A i, j \in 1..Len(Reqs') : Reqs'[i].who = Reqs'[j].who => i = j
    BY <1>14 DEF IInv, Single
  <2>2. \A t, u \in Server :
          Busy(t)' /\ Busy(u)' /\ req'[t].who = req'[u].who => t = u
    BY <1>1, <1>12 DEF IInv, Single
  <2>3. ASSUME NEW g \in Client, NEW h \in Client,
               NEW i \in 1..Len(data'[g]), NEW j \in 1..Len(data'[h]),
               data'[g][i].who = data'[h][j].who
        PROVE  g = h /\ i = j
    <3>1. \A e \in Client : \A k \in 1..Len(data[e]) : data[e][k].who # m.who
      BY <1>2, <1>3 DEF IInv, Single
    <3>2. CASE i \in 1..Len(data[g]) /\ data'[g][i] = data[g][i]
      <4>1. j \in 1..Len(data[h]) /\ data'[h][j] = data[h][j]
        BY <3>1, <3>2, <2>3, <1>6
      <4> QED
        BY <3>2, <4>1, <2>3 DEF IInv, Single
    <3>3. CASE g = f /\ i = Len(data[f]) + 1 /\ data'[g][i] = m
      BY <3>1, <3>3, <2>3, <1>6
    <3> QED
      BY <1>6, <3>2, <3>3
  <2>4. \A i \in 1..Len(Reqs'), t \in Server :
          Busy(t)' => Reqs'[i].who # req'[t].who
    BY <1>1, <1>12, <1>14 DEF IInv, Single
  <2>5. ASSUME NEW i \in 1..Len(Reqs'), NEW g \in Client,
               NEW j \in 1..Len(data'[g])
        PROVE  Reqs'[i].who # data'[g][j].who
    <3>1. CASE j \in 1..Len(data[g]) /\ data'[g][j] = data[g][j]
      BY <3>1, <1>14 DEF IInv, Single
    <3>2. CASE data'[g][j] = m
      BY <3>2, <1>2, <1>3, <1>14 DEF IInv, Single
    <3> QED
      BY <1>6, <3>1, <3>2
  <2>6. ASSUME NEW t \in Server, Busy(t)', NEW g \in Client,
               NEW j \in 1..Len(data'[g])
        PROVE  req'[t].who # data'[g][j].who
    <3>1. CASE j \in 1..Len(data[g]) /\ data'[g][j] = data[g][j]
      BY <3>1, <2>6, <1>1, <1>12 DEF IInv, Single
    <3>2. CASE data'[g][j] = m
      BY <3>2, <2>6, <1>1, <1>2, <1>3, <1>12 DEF IInv, Single
    <3> QED
      BY <1>6, <3>1, <3>2
  <2> QED
    BY <2>1, <2>2, <2>3, <2>4, <2>5, <2>6 DEF Single
<1>17. ASSUME NEW c \in Client, Ready(c)
       PROVE  Ready(c)'
  <2>1. \A i \in 1..Len(Reqs') : Reqs'[i].who # c
    BY <1>14, <1>17 DEF Ready
  <2>2. \A t \in Server : Busy(t)' /\ req'[t].who = c
          => spc'[t] = "write" /\ clientFd'[t] = own'[c]
    BY <1>1, <1>5, <1>12, <1>17 DEF Ready
  <2>3. m.who = c => f = own'[c]
    BY <1>0, <1>1, <1>2, <1>3, <1>17 DEF Ready
  <2>4. ASSUME NEW g \in Client, NEW j \in 1..Len(data'[g]),
               data'[g][j].who = c
        PROVE  g = own'[c]
    BY <2>3, <2>4, <1>1, <1>6, <1>17 DEF Ready
  <2> QED
    BY <2>1, <2>2, <2>4 DEF Ready
<1>18. ReadInv'
  <2>1. \A c \in Client : Inherits(c)' <=> Inherits(c)
    BY <1>1 DEF Inherits
  <2> QED
    BY <2>1, <1>1, <1>9, <1>17 DEF IInv, ReadInv
<1>19. AnswerInv'
  BY <1>1, <1>4 DEF IInv, AnswerInv, Answered, GrantOf, Inherits
<1> QED
  BY <1>7, <1>8, <1>10, <1>11, <1>15, <1>16, <1>18, <1>19 DEF IInv

-----------------------------------------------------------------------------
(* The steps of a client.                                                  *)

LEMMA StartClientInv ==
  ASSUME IInv, NEW c \in Client, StartClient(c)
  PROVE  IInv'
<1>1. /\ c \notin killed /\ cpc[c] = "new"
      /\ cpc' = [cpc EXCEPT ![c] = "connect"]
      /\ PidIsFree(PidOf[c])
      /\ path' = IF path[PidOf[c]] = None THEN [path EXCEPT ![PidOf[c]] = c]
                                          ELSE path
      /\ UNCHANGED <<requests, data, spc, seqNum, req, retries, clientFd,
                     seqLen, own, answer, granted, sunk, abandoned, killed>>
  BY DEF StartClient, Step, serverVars, history
<1>2. /\ cpc' \in [Client -> ClientPC]
      /\ cpc'[c] = "connect"
      /\ \A d \in Client : d # c => cpc'[d] = cpc[d]
  BY <1>1 DEF IInv, TypeOK, ClientPC
<1>3. PidOf[c] \in Pid /\ c # None
  BY FifoAssumption
<1>4. /\ path' \in [Pid -> Client \cup {None}]
      /\ \A p \in Pid : \/ path'[p] = path[p]
                        \/ p = PidOf[c] /\ path[p] = None /\ path'[p] = c
      /\ path'[PidOf[c]] # None
  <2>1. CASE path[PidOf[c]] = None
    BY <2>1, <1>1, <1>3 DEF IInv, TypeOK
  <2>2. CASE path[PidOf[c]] # None
    BY <2>2, <1>1, <1>3 DEF IInv, TypeOK
  <2> QED
    BY <2>1, <2>2
<1>5. TypeOK'
  BY <1>1, <1>2, <1>4 DEF IInv, TypeOK
<1>6. FdInv' /\ MadeInv'
  BY <1>1, <1>2, FdQuiet DEF IInv, MadeInv
<1>7. /\ ~ClientRuns(c) /\ ClientRuns(c)'
      /\ \A d \in Client : d # c => (ClientRuns(d)' <=> ClientRuns(d))
  BY <1>1, <1>2 DEF ClientRuns
<1>8. OnePid'
  BY <1>1, <1>7 DEF IInv, OnePid, PidIsFree
<1>9. PathInv'
  <2>1. ASSUME NEW p \in Pid, path'[p] # None
        PROVE  PidOf[path'[p]] = p /\ cpc'[path'[p]] # "new"
    <3>1. CASE path'[p] = path[p]
      <4>1. path[p] \in Client /\ PidOf[path[p]] = p /\ cpc[path[p]] # "new"
        BY <2>1, <3>1 DEF IInv, TypeOK, PathInv
      <4> QED
        BY <3>1, <4>1, <1>2
    <3>2. CASE p = PidOf[c] /\ path'[p] = c
      BY <3>2, <1>2
    <3> QED
      BY <1>4, <3>1, <3>2
  <2>2. ASSUME NEW d \in Client, ClientRuns(d)'
        PROVE  /\ path'[PidOf[d]] # None
               /\ cpc'[d] \in {"waiting", "read"} => own'[d] = path'[PidOf[d]]
    <3>1. CASE d = c
      BY <3>1, <1>2, <1>4
    <3>2. CASE d # c
      <4>1. PidOf[d] \in Pid /\ ClientRuns(d)
        BY <2>2, <3>2, <1>7, FifoAssumption
      <4>2. path[PidOf[d]] # None /\ path'[PidOf[d]] = path[PidOf[d]]
        BY <4>1, <1>4 DEF IInv, PathInv
      <4> QED
        BY <3>2, <4>1, <4>2, <1>1, <1>2 DEF IInv, PathInv
    <3> QED
      BY <3>1, <3>2
  <2> QED
    BY <2>1, <2>2 DEF PathInv
<1>10. HeirInv'
  <2>1. ASSUME NEW s \in Server, NEW f, f = clientFd[s], f # None,
               path'[PidOf[f]] = f
        PROVE  path[PidOf[f]] = f
    <3>1. f \in Client /\ PidOf[f] \in Pid /\ f # c
      BY <2>1, <1>1, FifoAssumption DEF IInv, TypeOK, FdInv
    <3> QED
      BY <2>1, <3>1, <1>4
  <2>2. \A d, f \in Client : ReadsFifo(d, f) => ReadsFifo(d, f)'
    BY <1>1, <1>2, <1>7 DEF ReadsFifo
  <2> QED
    BY <1>1, <2>1, <2>2, HeirQuiet
<1>11. OnlyTheDeadLeaveFifos'
  <2>1. SUFFICES ASSUME NEW p \in Pid, path'[p] # None
                 PROVE  \E d \in Client :
                          /\ PidOf[d] = p
                          /\ ClientRuns(d)' \/ d \in killed' \/ cpc'[d] = "sigpipe"
    BY DEF OnlyTheDeadLeaveFifos
  <2>2. CASE p = PidOf[c]
    BY <2>2, <1>7
  <2>3. CASE p # PidOf[c]
    BY <2>1, <2>3, <1>1, <1>2, <1>4, <1>7 DEF IInv, OnlyTheDeadLeaveFifos
  <2> QED
    BY <2>2, <2>3
<1>12. Fewer(0, NoShift)
  BY <1>1, DroppedFewer DEF IInv, Busy
<1>13. \A d \in Client : Pending(d) => Pending(d)'
  BY <1>1, <1>2 DEF Pending, Inherits
<1>14. LetterInv' /\ Single' /\ ReadInv' /\ AnswerInv'
  BY <1>1, <1>2, <1>7, <1>12, <1>13, QuietLetters
<1> QED
  BY <1>5, <1>6, <1>8, <1>9, <1>10, <1>11, <1>14 DEF IInv

\* A client goes on and keeps its FIFO.
LEMMA GoesOnInv ==
  ASSUME IInv, NEW c \in Client, ClientRuns(c),
         NEW l \in ClientPC \ {"new", "done", "failed"},
         cpc' = [cpc EXCEPT ![c] = l],
         UNCHANGED <<path, req, clientFd, killed>>,
         \A d \in Client : d # c => own'[d] = own[d],
         cpc[c] \in {"waiting", "read"} => l = "read" /\ own'[c] = own[c],
         l \in {"waiting", "read"} => own'[c] = path[PidOf[c]]
  PROVE  OnePid' /\ PathInv' /\ HeirInv' /\ OnlyTheDeadLeaveFifos'
<1>1. /\ cpc'[c] = l
      /\ \A d \in Client : d # c => cpc'[d] = cpc[d]
  BY DEF IInv, TypeOK
<1>2. \A d \in Client : ClientRuns(d)' => ClientRuns(d)
  BY <1>1 DEF ClientRuns
<1>3. OnePid'
  BY <1>2 DEF IInv, OnePid
<1>4. PathInv'
  <2>1. \A p \in Pid : path[p] \in Client \cup {None}
    BY DEF IInv, TypeOK
  <2>2. \A p \in Pid : path'[p] # None =>
          PidOf[path'[p]] = p /\ cpc'[path'[p]] # "new"
    BY <1>1, <2>1 DEF IInv, PathInv
  <2>3. \A d \in Client :
          ClientRuns(d)' =>
            /\ path'[PidOf[d]] # None
            /\ cpc'[d] \in {"waiting", "read"} => own'[d] = path'[PidOf[d]]
    BY <1>1, <1>2 DEF IInv, PathInv
  <2> QED
    BY <2>2, <2>3 DEF PathInv
<1>5. \A d, f \in Client : ReadsFifo(d, f) => ReadsFifo(d, f)'
  BY <1>1 DEF ReadsFifo, ClientRuns
<1>6. HeirInv'
  BY <1>5, HeirQuiet
<1>7. OnlyTheDeadLeaveFifos'
  <2>1. \A d \in Client :
          ClientRuns(d) \/ d \in killed \/ cpc[d] = "sigpipe" =>
            ClientRuns(d)' \/ d \in killed' \/ cpc'[d] = "sigpipe"
    BY <1>1 DEF ClientRuns
  <2> QED
    BY <2>1 DEF IInv, OnlyTheDeadLeaveFifos
<1> QED
  BY <1>3, <1>4, <1>6, <1>7

\* A client ends and removes its FIFO.
LEMMA ExitInv ==
  ASSUME IInv, NEW c \in Client, ClientRuns(c), NEW l \in {"done", "failed"},
         cpc' = [cpc EXCEPT ![c] = l],
         path' = [path EXCEPT ![PidOf[c]] = None],
         UNCHANGED <<req, clientFd, killed, own>>
  PROVE  /\ OnePid' /\ PathInv' /\ HeirInv' /\ OnlyTheDeadLeaveFifos'
         /\ path' \in [Pid -> Client \cup {None}]
<1>1. /\ cpc'[c] = l
      /\ \A d \in Client : d # c => cpc'[d] = cpc[d]
  BY DEF IInv, TypeOK, ClientPC
<1>2. /\ ~ClientRuns(c)'
      /\ \A d \in Client : d # c => (ClientRuns(d)' <=> ClientRuns(d))
  BY <1>1 DEF ClientRuns
<1>3. /\ path' \in [Pid -> Client \cup {None}]
      /\ PidOf[c] \in Pid /\ path'[PidOf[c]] = None
      /\ \A p \in Pid : p # PidOf[c] => path'[p] = path[p]
  BY FifoAssumption DEF IInv, TypeOK
<1>4. OnePid'
  BY <1>2 DEF IInv, OnePid
<1>5. PathInv'
  <2>1. ASSUME NEW p \in Pid, path'[p] # None
        PROVE  PidOf[path'[p]] = p /\ cpc'[path'[p]] # "new"
    <3>1. path'[p] = path[p] /\ path[p] \in Client
      BY <2>1, <1>3 DEF IInv, TypeOK
    <3> QED
      BY <2>1, <3>1, <1>1 DEF IInv, PathInv
  <2>2. ASSUME NEW d \in Client, ClientRuns(d)'
        PROVE  /\ path'[PidOf[d]] # None
               /\ cpc'[d] \in {"waiting", "read"} => own'[d] = path'[PidOf[d]]
    <3>1. d # c /\ ClientRuns(d) /\ PidOf[d] # PidOf[c] /\ PidOf[d] \in Pid
      BY <2>2, <1>2, FifoAssumption DEF IInv, OnePid
    <3> QED
      BY <3>1, <1>1, <1>3 DEF IInv, PathInv
  <2> QED
    BY <2>1, <2>2 DEF PathInv
<1>6. HeirInv'
  <2>1. ASSUME NEW f \in Client, path'[PidOf[f]] = f
        PROVE  path[PidOf[f]] = f /\ PidOf[f] # PidOf[c]
    BY <2>1, <1>3, FifoAssumption
  <2>2. \A s \in Server : clientFd[s] \in Client \cup {None}
    BY DEF IInv, TypeOK
  <2>3. ASSUME NEW d \in Client, NEW f \in Client, ReadsFifo(d, f),
               path'[PidOf[f]] = f
        PROVE  ReadsFifo(d, f)'
    <3>1. d # c
      <4>1. ReadsFifo(c, f) => f = path[PidOf[c]]
        BY DEF IInv, PathInv, ReadsFifo
      <4>2. f # None
        BY FifoAssumption
      <4>3. f = path[PidOf[c]] => PidOf[f] = PidOf[c]
        BY <4>2, <1>3 DEF IInv, PathInv
      <4> QED
        BY <2>1, <2>3, <4>1, <4>3
    <3> QED
      BY <2>3, <3>1, <1>1, <1>2 DEF ReadsFifo
  <2> QED
    BY <2>1, <2>2, <2>3, HeirQuiet
<1>7. OnlyTheDeadLeaveFifos'
  BY <1>1, <1>2, <1>3 DEF IInv, OnlyTheDeadLeaveFifos
<1> QED
  BY <1>3, <1>4, <1>5, <1>6, <1>7

LEMMA ConnectInv ==
  ASSUME IInv, NEW c \in Client, Connect(c)
  PROVE  IInv'
<1>1. PICK l \in {"write", "blocked"} : cpc' = [cpc EXCEPT ![c] = l]
  BY DEF Connect, Step
<1>2. /\ c \notin killed /\ cpc[c] = "connect"
      /\ spc' = [s \in Server |-> IF spc[s] = "boot" /\ s \notin killed
                                    THEN "read" ELSE spc[s]]
      /\ UNCHANGED <<requests, path, data, seqNum, req, retries, clientFd,
                     seqLen, own, answer, granted, sunk, abandoned, killed>>
  BY DEF Connect, Step, history
<1>3. /\ cpc' \in [Client -> ClientPC]
      /\ cpc'[c] = l
      /\ \A d \in Client : d # c => cpc'[d] = cpc[d]
  BY <1>1 DEF IInv, TypeOK, ClientPC
<1>4. /\ spc' \in [Server -> ServerPC]
      /\ \A s \in Server : \/ spc'[s] = spc[s]
                           \/ spc[s] = "boot" /\ spc'[s] = "read"
  BY <1>2 DEF IInv, TypeOK, ServerPC
<1>5. TypeOK'
  BY <1>2, <1>3, <1>4 DEF IInv, TypeOK
<1>6. FdInv' /\ MadeInv'
  BY <1>2, <1>3, <1>4, FdQuiet DEF IInv, MadeInv
<1>7. ClientRuns(c) /\ \A d \in Client : ClientRuns(d)' => ClientRuns(d)
  BY <1>2, <1>3 DEF ClientRuns
<1>8. OnePid' /\ PathInv' /\ HeirInv' /\ OnlyTheDeadLeaveFifos'
  BY <1>1, <1>2, <1>7, GoesOnInv DEF ClientPC
<1>9. \A s \in Server : Busy(s)' <=> Busy(s)
  BY <1>2, <1>4 DEF Busy
<1>10. Fewer(0, NoShift)
  BY <1>2, <1>9, DroppedFewer DEF IInv
<1>11. \A d \in Client : Pending(d) => Pending(d)'
  BY <1>2, <1>3 DEF Pending, Inherits
<1>12. LetterInv' /\ Single' /\ ReadInv' /\ AnswerInv'
  <2>1. \A s \in Server : Busy(s)' => spc'[s] = spc[s]
    BY <1>4, <1>9 DEF Busy
  <2> QED
    BY <1>2, <1>3, <1>7, <1>10, <1>11, <2>1, QuietLetters
<1> QED
  BY <1>5, <1>6, <1>8, <1>12 DEF IInv

LEMMA NoServerInv ==
  ASSUME IInv, NEW c \in Client, NoServer(c)
  PROVE  IInv'
<1>1. /\ c \notin killed /\ cpc[c] = "connect"
      /\ cpc' = [cpc EXCEPT ![c] = "failed"]
      /\ path' = [path EXCEPT ![PidOf[c]] = None]
      /\ UNCHANGED <<requests, data, spc, seqNum, req, retries, clientFd,
                     seqLen, own, answer, granted, sunk, abandoned, killed>>
  BY DEF NoServer, Step, serverVars, history
<1>2. /\ cpc' \in [Client -> ClientPC]
      /\ cpc'[c] = "failed"
      /\ \A d \in Client : d # c => cpc'[d] = cpc[d]
  BY <1>1 DEF IInv, TypeOK, ClientPC
<1>3. /\ ClientRuns(c)
      /\ \A d \in Client : ClientRuns(d)' => ClientRuns(d) /\ d # c
  BY <1>1, <1>2 DEF ClientRuns
<1>4. /\ OnePid' /\ PathInv' /\ HeirInv' /\ OnlyTheDeadLeaveFifos'
      /\ path' \in [Pid -> Client \cup {None}]
  BY <1>1, <1>3, ExitInv
<1>5. TypeOK'
  BY <1>1, <1>2, <1>4 DEF IInv, TypeOK
<1>6. FdInv' /\ MadeInv'
  BY <1>1, <1>2, FdQuiet DEF IInv, MadeInv
<1>7. Fewer(0, NoShift)
  BY <1>1, DroppedFewer DEF IInv, Busy
<1>8. \A d \in Client : Pending(d) => Pending(d)'
  BY <1>1, <1>2 DEF Pending, Inherits
<1>9. LetterInv' /\ Single' /\ ReadInv' /\ AnswerInv'
  BY <1>1, <1>2, <1>3, <1>7, <1>8, QuietLetters
<1> QED
  BY <1>4, <1>5, <1>6, <1>9 DEF IInv

LEMMA BrokenPipeInv ==
  ASSUME IInv, NEW c \in Client, BrokenPipe(c)
  PROVE  IInv'
<1>1. /\ c \notin killed /\ cpc[c] = "write"
      /\ cpc' = [cpc EXCEPT ![c] = "sigpipe"]
      /\ UNCHANGED <<path, spc, seqNum, req, retries, clientFd, seqLen, own,
                     answer, granted, sunk, abandoned, killed>>
      /\ DropUnheld
  BY DEF BrokenPipe, Step, serverVars, history
<1>2. /\ cpc' \in [Client -> ClientPC]
      /\ cpc'[c] = "sigpipe"
      /\ \A d \in Client : d # c => cpc'[d] = cpc[d]
  BY <1>1 DEF IInv, TypeOK, ClientPC
<1>3. /\ ClientRuns(c)
      /\ \A d \in Client : ClientRuns(d)' => ClientRuns(d) /\ d # c
  BY <1>1, <1>2 DEF ClientRuns
<1>4. OnePid' /\ PathInv' /\ HeirInv' /\ OnlyTheDeadLeaveFifos'
  BY <1>1, <1>3, GoesOnInv DEF ClientPC
<1>5. TypeOK'
  BY <1>1, <1>2, Dropped DEF IInv, TypeOK
<1>6. FdInv' /\ MadeInv'
  BY <1>1, <1>2, FdQuiet, Dropped DEF IInv, MadeInv
<1>7. Fewer(0, NoShift)
  BY <1>1, DroppedFewer DEF IInv, Busy
<1>8. \A d \in Client : Pending(d) => Pending(d)'
  BY <1>1, <1>2 DEF Pending, Inherits
<1>9. LetterInv' /\ Single' /\ ReadInv' /\ AnswerInv'
  BY <1>1, <1>2, <1>3, <1>7, <1>8, QuietLetters
<1> QED
  BY <1>4, <1>5, <1>6, <1>9 DEF IInv

LEMMA OpenOwnInv ==
  ASSUME IInv, NEW c \in Client, OpenOwn(c)
  PROVE  IInv'
<1>0. PICK f : f = path[PidOf[c]]
  OBVIOUS
<1>1. PICK l \in {"read", "waiting"} :
        /\ cpc' = [cpc EXCEPT ![c] = l]
        /\ l = "read" => FifoHasWriter(f)
  BY <1>0 DEF OpenOwn, Step
<1>2. /\ c \notin killed /\ cpc[c] = "open"
      /\ own' = [own EXCEPT ![c] = f]
      /\ UNCHANGED <<requests, path, data, spc, seqNum, req, retries, clientFd,
                     seqLen, answer, granted, sunk, abandoned, killed>>
  BY <1>0 DEF OpenOwn, Step, serverVars, history
<1>3. ClientRuns(c) /\ PidOf[c] \in Pid
  BY <1>2, FifoAssumption DEF ClientRuns
<1>4. f \in Client /\ PidOf[f] = PidOf[c] /\ path[PidOf[f]] = f
  <2>1. f # None /\ f \in Client \cup {None}
    BY <1>0, <1>3 DEF IInv, TypeOK, PathInv
  <2>2. PidOf[f] = PidOf[c]
    BY <1>0, <1>3, <2>1 DEF IInv, PathInv
  <2> QED
    BY <1>0, <2>1, <2>2
<1>5. /\ cpc' \in [Client -> ClientPC]
      /\ own' \in [Client -> Client \cup {None}]
      /\ cpc'[c] = l /\ own'[c] = f
      /\ \A d \in Client : d # c => cpc'[d] = cpc[d] /\ own'[d] = own[d]
  BY <1>1, <1>2, <1>4 DEF IInv, TypeOK, ClientPC
<1>6. TypeOK'
  BY <1>2, <1>5 DEF IInv, TypeOK
<1>7. FdInv' /\ MadeInv'
  BY <1>2, <1>5, FdQuiet DEF IInv, MadeInv
<1>8. OnePid' /\ PathInv' /\ HeirInv' /\ OnlyTheDeadLeaveFifos'
  BY <1>0, <1>1, <1>2, <1>3, <1>5, GoesOnInv DEF ClientPC
<1>9. l = "read" => Inherits(c)
  <2>1. SUFFICES ASSUME FifoHasWriter(f) PROVE Inherits(c)
    BY <1>1
  <2>2. PICK s \in Server : s \notin killed /\ clientFd[s] = f
    BY <2>1 DEF FifoHasWriter, WritesFifo
  <2>3. f # None
    BY <1>4, FifoAssumption
  <2>4. FifoHasReader(f) \/ Orphan(f)
    BY <2>2, <2>3, <1>4 DEF IInv, HeirInv
  <2>5. ~FifoHasReader(f)
    <3>1. SUFFICES ASSUME NEW d \in Client, ReadsFifo(d, f) PROVE FALSE
      BY DEF FifoHasReader
    <3>2. ClientRuns(d) /\ path[PidOf[d]] = f /\ PidOf[d] \in Pid
      BY <3>1, FifoAssumption DEF IInv, PathInv, ReadsFifo
    <3>3. PidOf[d] = PidOf[c]
      BY <3>2, <2>3, <1>4 DEF IInv, PathInv
    <3>4. d = c
      BY <3>2, <3>3, <1>3 DEF IInv, OnePid
    <3> QED
      BY <3>1, <3>4, <1>2 DEF ReadsFifo
  <2>6. PICK d \in killed \cap Client : PidOf[d] = PidOf[f]
    BY <2>4, <2>5 DEF Orphan
  <2> QED
    BY <2>6, <1>2, <1>4 DEF Inherits
<1>10. Fewer(0, NoShift)
  BY <1>2, DroppedFewer DEF IInv, Busy
<1>11. \A d \in Client : Pending(d) => Pending(d)'
  BY <1>1, <1>2, <1>5 DEF Pending, Inherits
<1>12. LetterInv' /\ Single' /\ ReadInv' /\ AnswerInv'
  <2>1. ASSUME NEW d \in Client, ClientRuns(d)', cpc'[d] = "read"
        PROVE  \/ ClientRuns(d) /\ cpc[d] = "read" /\ own'[d] = own[d]
               \/ Inherits(d)
    BY <2>1, <1>2, <1>5, <1>9 DEF ClientRuns
  <2> QED
    BY <1>2, <1>5, <1>10, <1>11, <2>1, QuietLetters
<1> QED
  BY <1>6, <1>7, <1>8, <1>12 DEF IInv

LEMMA WriteRequestInv ==
  ASSUME IInv, NEW c \in Client, WriteRequest(c)
  PROVE  IInv'
<1>0. PICK r : r = [pid |-> PidOf[c], seqLen |-> seqLen[c], who |-> c]
  OBVIOUS
<1>1. /\ c \notin killed /\ cpc[c] = "write"
      /\ cpc' = [cpc EXCEPT ![c] = "open"]
      /\ HasReader
      /\ requests' = Append(requests, r)
      /\ UNCHANGED <<path, data, spc, seqNum, req, retries, clientFd, seqLen,
                     own, answer, granted, sunk, abandoned, killed>>
  BY <1>0 DEF WriteRequest, Step, serverVars, history
<1>2. /\ cpc' \in [Client -> ClientPC]
      /\ cpc'[c] = "open"
      /\ \A d \in Client : d # c => cpc'[d] = cpc[d]
  BY <1>1 DEF IInv, TypeOK, ClientPC
<1>3. requests # None /\ Reqs = requests /\ requests \in Seq(RequestMsg)
  BY <1>1 DEF IInv, MadeInv, TypeOK, Reqs, HasReader, ServerReads
<1>4. /\ r \in RequestMsg
      /\ r.who = c /\ r.pid = PidOf[c] /\ r.seqLen = seqLen[c]
  BY <1>0, FifoAssumption DEF IInv, TypeOK, RequestMsg
<1>5. /\ requests' \in Seq(RequestMsg)
      /\ \A i \in 1..Len(requests') :
           \/ i \in 1..Len(Reqs) /\ requests'[i] = Reqs[i]
           \/ i = Len(Reqs) + 1 /\ requests'[i] = r
  <2>1. /\ requests' \in Seq(RequestMsg)
        /\ Len(requests') = Len(requests) + 1
        /\ Len(requests) \in Nat
        /\ requests'[Len(requests) + 1] = r
        /\ \A i \in 1..Len(requests) : requests'[i] = requests[i]
    BY <1>1, <1>3, <1>4
  <2>2. ASSUME NEW i \in 1..Len(requests'), i \notin 1..Len(requests)
        PROVE  i = Len(requests) + 1
    BY <2>1, <2>2
  <2> QED
    BY <1>3, <2>1, <2>2
<1>6. requests' # None /\ Reqs' = requests'
  BY <1>5, FifoAssumption DEF Reqs
<1>7. TypeOK'
  BY <1>1, <1>2, <1>5 DEF IInv, TypeOK
<1>8. FdInv' /\ MadeInv'
  BY <1>1, <1>2, <1>6, FdQuiet DEF IInv, MadeInv
<1>9. ClientRuns(c) /\ \A d \in Client : ClientRuns(d)' => ClientRuns(d)
  BY <1>1, <1>2 DEF ClientRuns
<1>10. OnePid' /\ PathInv' /\ HeirInv' /\ OnlyTheDeadLeaveFifos'
  BY <1>1, <1>9, GoesOnInv DEF ClientPC
<1>11. \A s \in Server : Busy(s)' <=> Busy(s)
  BY <1>1 DEF Busy
<1>12. \A d : Pending(d) => Pending(d)'
  <2>1. \A d : Inherits(d) <=> Inherits(d)'
    BY <1>1 DEF Inherits
  <2>2. cpc' = [d \in Client |-> IF d = c THEN "open" ELSE cpc[d]]
    BY <1>1 DEF IInv, TypeOK
  <2> QED
    BY <1>1, <2>1 DEF Pending
<1>13. \A m : /\ Asked(m) => Asked(m)'
              /\ Answered(m) => Answered(m)'
              /\ Pending(m.who) => Pending(m.who)'
  BY <1>1, <1>12 DEF Asked, Answered, GrantOf
<1>14. Asked(r)'
  BY <1>1, <1>2, <1>4 DEF Asked, Pending
<1>15. LetterInv'
  <2>1. ASSUME NEW i \in 1..Len(Reqs'), NEW m, m = Reqs'[i]
        PROVE  Asked(m)'
    <3>1. CASE i \in 1..Len(Reqs) /\ m = Reqs[i]
      BY <3>1, <1>13 DEF IInv, LetterInv
    <3>2. CASE m = r
      BY <3>2, <1>14
    <3> QED
      BY <2>1, <1>5, <1>6, <3>1, <3>2
  <2>2. ASSUME NEW s \in Server, Busy(s)', NEW m, m = req'[s]
        PROVE  Asked(m)'
    <3>1. Asked(m)
      BY <2>2, <1>1, <1>11 DEF IInv, LetterInv
    <3> QED
      BY <3>1, <1>13
  <2>3. ASSUME NEW f \in Client, NEW j \in 1..Len(data'[f]),
               NEW m, m = data'[f][j]
        PROVE  /\ Answered(m)' /\ Pending(m.who)'
               /\ PidOf[m.who] = PidOf[f]
    BY <2>3, <1>1, <1>13 DEF IInv, LetterInv
  <2> QED
    BY <2>1, <2>2, <2>3 DEF LetterInv
<1>16. ~HasMail(c)
  <2>1. ~Pending(c)
    BY <1>1 DEF Pending
  <2> QED
    BY <2>1 DEF IInv, LetterInv, Asked, HasMail
<1>17. Single'
  <2>1. ASSUME NEW i \in 1..Len(Reqs'), NEW j \in 1..Len(Reqs'),
               Reqs'[i].who = Reqs'[j].who
        PROVE  i = j
    <3>1. CASE i \in 1..Len(Reqs) /\ Reqs'[i] = Reqs[i]
      <4>1. j \in 1..Len(Reqs) /\ Reqs'[j] = Reqs[j]
        BY <3>1, <2>1, <1>4, <1>5, <1>6, <1>16 DEF HasMail
      <4> QED
        BY <3>1, <4>1, <2>1 DEF IInv, Single
    <3>2. CASE i = Len(Reqs) + 1 /\ Reqs'[i] = r
      <4>1. ~(j \in 1..Len(Reqs) /\ Reqs'[j] = Reqs[j])
        BY <3>2, <2>1, <1>4, <1>16 DEF HasMail
      <4> QED
        BY <3>2, <4>1, <1>5, <1>6
    <3> QED
      BY <1>5, <1>6, <3>1, <3>2
  <2>2. ASSUME NEW i \in 1..Len(Reqs'), NEW s \in Server, Busy(s)'
        PROVE  Reqs'[i].who # req'[s].who
    <3>1. Busy(s) /\ req'[s] = req[s]
      BY <2>2, <1>1, <1>11
    <3>2. CASE i \in 1..Len(Reqs) /\ Reqs'[i] = Reqs[i]
      BY <3>1, <3>2 DEF IInv, Single
    <3>3. CASE Reqs'[i] = r
      BY <3>1, <3>3, <1>4, <1>16 DEF HasMail
    <3> QED
      BY <1>5, <1>6, <3>2, <3>3
  <2>3. ASSUME NEW i \in 1..Len(Reqs'), NEW f \in Client,
               NEW j \in 1..Len(data'[f])
        PROVE  Reqs'[i].who # data'[f][j].who
    <3>1. CASE i \in 1..Len(Reqs) /\ Reqs'[i] = Reqs[i]
      BY <3>1, <1>1 DEF IInv, Single
    <3>2. CASE Reqs'[i] = r
      BY <3>2, <1>1, <1>4, <1>16 DEF HasMail
    <3> QED
      BY <1>5, <1>6, <3>1, <3>2
  <2>4. \A s, t \in Server :
          Busy(s)' /\ Busy(t)' /\ req'[s].who = req'[t].who => s = t
    BY <1>1, <1>11 DEF IInv, Single
  <2>5. \A s \in Server, f \in Client : \A j \in 1..Len(data'[f]) :
          Busy(s)' => req'[s].who # data'[f][j].who
    BY <1>1, <1>11 DEF IInv, Single
  <2>6. \A f, g \in Client :
          \A i \in 1..Len(data'[f]), j \in 1..Len(data'[g]) :
            data'[f][i].who = data'[g][j].who => f = g /\ i = j
    BY <1>1 DEF IInv, Single
  <2> QED
    BY <2>1, <2>2, <2>3, <2>4, <2>5, <2>6 DEF Single
<1>18. ASSUME NEW d \in Client, d # c, Ready(d)
       PROVE  Ready(d)'
  <2>1. \A i \in 1..Len(Reqs') : Reqs'[i].who # d
    BY <1>4, <1>5, <1>6, <1>18 DEF Ready
  <2> QED
    BY <2>1, <1>1, <1>11, <1>18 DEF Ready
<1>19. ReadInv'
  <2>1. \A d \in Client : Inherits(d)' <=> Inherits(d)
    BY <1>1 DEF Inherits
  <2>2. ASSUME NEW d \in Client, ClientRuns(d)', cpc'[d] = "read"
        PROVE  Inherits(d)' \/ Ready(d)'
    <3>1. d # c /\ ClientRuns(d) /\ cpc[d] = "read"
      BY <2>2, <1>2, <1>9
    <3> QED
      BY <2>1, <3>1, <1>18 DEF IInv, ReadInv
  <2> QED
    BY <2>2 DEF ReadInv
<1>20. AnswerInv'
  <2>1. \A d \in Client : cpc[d] = "done" => cpc'[d] = "done"
    BY <1>1, <1>2
  <2>2. \A d : Inherits(d)' <=> Inherits(d)
    BY <1>1 DEF Inherits
  <2>3. \A m : Answered(m)' <=> Answered(m)
    BY <1>1 DEF Answered, GrantOf
  <2> QED
    BY <1>1, <2>1, <2>2, <2>3 DEF IInv, AnswerInv
<1> QED
  BY <1>7, <1>8, <1>10, <1>15, <1>17, <1>19, <1>20 DEF IInv

LEMMA ReadNothingInv ==
  ASSUME IInv, NEW c \in Client, ReadNothing(c)
  PROVE  IInv'
<1>1. /\ c \notin killed /\ cpc[c] = "read"
      /\ cpc' = [cpc EXCEPT ![c] = "failed"]
      /\ path' = [path EXCEPT ![PidOf[c]] = None]
      /\ data[own[c]] = <<>>
      /\ ~FifoHasWriter(own[c])
      /\ UNCHANGED <<spc, seqNum, req, retries, clientFd, seqLen, own, answer,
                     granted, sunk, abandoned, killed>>
      /\ DropUnheld
  BY DEF ReadNothing, Step, serverVars, history
<1>2. /\ cpc' \in [Client -> ClientPC]
      /\ cpc'[c] = "failed"
      /\ \A d \in Client : d # c => cpc'[d] = cpc[d]
  BY <1>1 DEF IInv, TypeOK, ClientPC
<1>3. /\ ClientRuns(c)
      /\ \A d \in Client : ClientRuns(d)' => ClientRuns(d) /\ d # c
  BY <1>1, <1>2 DEF ClientRuns
<1>4. /\ OnePid' /\ PathInv' /\ HeirInv' /\ OnlyTheDeadLeaveFifos'
      /\ path' \in [Pid -> Client \cup {None}]
  BY <1>1, <1>3, ExitInv
<1>5. TypeOK'
  BY <1>1, <1>2, <1>4, Dropped DEF IInv, TypeOK
<1>6. FdInv' /\ MadeInv'
  BY <1>1, <1>2, FdQuiet, Dropped DEF IInv, MadeInv
<1>7. Fewer(0, NoShift)
  BY <1>1, DroppedFewer DEF IInv, Busy
<1>8. HasMail(c) => Inherits(c)
  <2>1. SUFFICES ASSUME Ready(c) PROVE ~HasMail(c)
    BY <1>1, <1>3 DEF IInv, ReadInv
  <2>2. \A i \in 1..Len(Reqs) : Reqs[i].who # c
    BY <2>1 DEF Ready
  <2>3. \A s \in Server : Busy(s) => req[s].who # c
    BY <2>1, <1>1 DEF Ready, Busy, FifoHasWriter, WritesFifo
  <2>4. \A f \in Client : \A j \in 1..Len(data[f]) : data[f][j].who # c
    <3>1. ASSUME NEW f \in Client, NEW j \in 1..Len(data[f]), data[f][j].who = c
          PROVE  FALSE
      <4>1. data[f] = <<>>
        BY <2>1, <3>1, <1>1 DEF Ready
      <4> QED
        BY <4>1
    <3> QED
      BY <3>1
  <2> QED
    BY <2>2, <2>3, <2>4 DEF HasMail
<1>9. ASSUME NEW d \in Client, Pending(d), HasMail(d)'
      PROVE  Pending(d)'
  <2>1. HasMail(d)
    BY <1>7, <1>9, FewerMail DEF NoShift
  <2>2. Inherits(d) => Inherits(d)'
    BY <1>1 DEF Inherits
  <2>3. CASE d = c
    BY <2>1, <2>2, <2>3, <1>2, <1>8 DEF Pending
  <2>4. CASE d # c
    BY <2>2, <2>4, <1>1, <1>2, <1>9 DEF Pending
  <2> QED
    BY <2>3, <2>4
<1>10. LetterInv' /\ Single' /\ ReadInv' /\ AnswerInv'
  BY <1>1, <1>2, <1>3, <1>7, <1>9, QuietLetters
<1> QED
  BY <1>4, <1>5, <1>6, <1>10 DEF IInv

LEMMA KillInv ==
  ASSUME IInv, Kill
  PROVE  IInv'
<1>1. PICK p \in Server \cup Client : killed' = killed \cup {p}
  BY DEF Kill
<1>2. /\ UNCHANGED <<path, spc, seqNum, req, retries, clientFd, cpc, seqLen,
                     own, answer, granted, sunk, abandoned>>
      /\ DropUnheld
  BY DEF Kill, serverVars, clientVars, history
<1>3. TypeOK'
  BY <1>1, <1>2, Dropped DEF IInv, TypeOK
<1>4. FdInv' /\ MadeInv'
  BY <1>2, FdQuiet, Dropped DEF IInv, MadeInv
<1>5. \A c \in Client : /\ ClientRuns(c)' => ClientRuns(c)
                        /\ ClientRuns(c) => ClientRuns(c)' \/ c \in killed'
  BY <1>1, <1>2 DEF ClientRuns
<1>6. OnePid' /\ PathInv'
  BY <1>2, <1>5 DEF IInv, OnePid, PathInv
<1>7. OnlyTheDeadLeaveFifos'
  BY <1>1, <1>2, <1>5 DEF IInv, OnlyTheDeadLeaveFifos
<1>8. HeirInv'
  <2>1. ASSUME NEW c \in Client, NEW f \in Client, ReadsFifo(c, f)
        PROVE  ReadsFifo(c, f)' \/ Orphan(f)'
    <3>1. CASE ClientRuns(c)'
      BY <2>1, <3>1, <1>2 DEF ReadsFifo
    <3>2. CASE c \in killed'
      <4>1. f = path[PidOf[c]] /\ f # None /\ PidOf[c] \in Pid
        BY <2>1, FifoAssumption DEF IInv, PathInv, ReadsFifo
      <4>2. PidOf[c] = PidOf[f]
        BY <4>1 DEF IInv, PathInv
      <4> QED
        BY <3>2, <4>2 DEF Orphan
    <3> QED
      BY <2>1, <3>1, <3>2, <1>5 DEF ReadsFifo
  <2> QED
    BY <1>1, <1>2, <2>1, HeirQuiet
<1>9. \A s \in Server : Busy(s)' => Busy(s)
  BY <1>1, <1>2 DEF Busy
<1>10. Fewer(0, NoShift)
  BY <1>2, <1>9, DroppedFewer DEF IInv
<1>11. \A c \in Client : Pending(c) => Pending(c)'
  BY <1>1, <1>2 DEF Pending, Inherits
<1>12. LetterInv' /\ Single' /\ ReadInv' /\ AnswerInv'
  BY <1>1, <1>2, <1>5, <1>10, <1>11, QuietLetters
<1> QED
  BY <1>3, <1>4, <1>6, <1>7, <1>8, <1>12 DEF IInv

LEMMA ReadResponseInv ==
  ASSUME IInv, NEW c \in Client, ReadResponse(c)
  PROVE  IInv'
<1>0. PICK f, m : f = own[c] /\ m = Head(data[f])
  OBVIOUS
<1>1. /\ c \notin killed /\ cpc[c] = "read"
      /\ cpc' = [cpc EXCEPT ![c] = "done"]
      /\ data[f] # <<>>
      /\ answer' = [answer EXCEPT ![c] = {m}]
      /\ path' = [path EXCEPT ![PidOf[c]] = None]
      /\ requests' = requests \/ requests' = <<>>
      /\ \E g \in [Client -> BOOLEAN] :
           data' = [e \in Client |-> IF g[e] THEN <<>>
                                     ELSE IF e = f THEN Tail(data[e])
                                     ELSE data[e]]
      /\ UNCHANGED <<spc, seqNum, req, retries, clientFd, seqLen, own,
                     granted, sunk, abandoned, killed>>
  <2>1. PICK g \in [Client -> BOOLEAN] :
          \A e \in Client : g[e] <=> ~(FifoHasReader(e) \/ FifoHasWriter(e))'
    <3>1. [e \in Client |-> ~(FifoHasReader(e) \/ FifoHasWriter(e))']
            \in [Client -> BOOLEAN]
      BY DEF FifoHasReader, FifoHasWriter
    <3> QED
      BY <3>1
  <2>2. data' = [e \in Client |-> IF g[e] THEN <<>>
                                  ELSE IF e = f THEN Tail(data[e])
                                  ELSE data[e]]
    BY <1>0, <2>1 DEF ReadResponse
  <2> QED
    BY <1>0, <2>2 DEF ReadResponse, Step, serverVars, history
<1>2. /\ cpc' \in [Client -> ClientPC]
      /\ cpc'[c] = "done"
      /\ \A d \in Client : d # c => cpc'[d] = cpc[d]
  BY <1>1 DEF IInv, TypeOK, ClientPC
<1>3. /\ ClientRuns(c)
      /\ \A d \in Client : ClientRuns(d)' => ClientRuns(d) /\ d # c
  BY <1>1, <1>2 DEF ClientRuns
<1>4. f \in Client /\ PidOf[f] = PidOf[c]
  <2>1. f = path[PidOf[c]] /\ f # None /\ PidOf[c] \in Pid
    BY <1>0, <1>1, <1>3, FifoAssumption DEF IInv, PathInv
  <2> QED
    BY <2>1 DEF IInv, PathInv, TypeOK
<1>5. /\ m \in ResponseMsg
      /\ 1 \in 1..Len(data[f]) /\ m = data[f][1]
      /\ Tail(data[f]) \in Seq(ResponseMsg)
      /\ \A j \in 1..Len(Tail(data[f])) :
           /\ j + 1 \in 1..Len(data[f])
           /\ Tail(data[f])[j] = data[f][j + 1]
  <2>1. data[f] \in Seq(ResponseMsg)
    BY <1>4 DEF IInv, TypeOK
  <2> QED
    BY <2>1, <1>0, <1>1
<1>6. PICK h : h = [e \in Client |-> IF e = f THEN 1 ELSE 0]
  OBVIOUS
<1>7. /\ data' \in [Client -> Seq(ResponseMsg)]
      /\ \A e \in Client : \A j \in 1..Len(data'[e]) :
           j + h[e] \in 1..Len(data[e]) /\ data'[e][j] = data[e][j + h[e]]
  <2>1. PICK g \in [Client -> BOOLEAN] :
          data' = [e \in Client |-> IF g[e] THEN <<>>
                                    ELSE IF e = f THEN Tail(data[e])
                                    ELSE data[e]]
    BY <1>1
  <2>2. /\ <<>> \in Seq(ResponseMsg)
        /\ \A e \in Client : data[e] \in Seq(ResponseMsg)
    BY DEF IInv, TypeOK
  <2>3. data' \in [Client -> Seq(ResponseMsg)]
    BY <2>1, <2>2, <1>5
  <2>4. ASSUME NEW e \in Client, NEW j \in 1..Len(data'[e])
        PROVE  j + h[e] \in 1..Len(data[e]) /\ data'[e][j] = data[e][j + h[e]]
    <3>1. CASE g[e]
      <4>1. data'[e] = <<>>
        BY <2>1, <3>1
      <4> QED
        BY <4>1
    <3>2. CASE ~g[e] /\ e = f
      <4>1. data'[e] = Tail(data[f]) /\ h[e] = 1
        BY <2>1, <3>2, <1>6
      <4> QED
        BY <3>2, <4>1, <1>5
    <3>3. CASE ~g[e] /\ e # f
      <4>1. data'[e] = data[e] /\ h[e] = 0
        BY <2>1, <3>3, <1>6
      <4> QED
        BY <4>1
    <3> QED
      BY <3>1, <3>2, <3>3
  <2> QED
    BY <2>3, <2>4
<1>8. /\ requests' = None \/ requests' \in Seq(RequestMsg)
      /\ requests # None => requests' # None
      /\ Len(Reqs') = 0 \/ Reqs' = Reqs
  <2>1. <<>> \in Seq(RequestMsg) /\ None # <<>>
    BY NoneIsNoQueue
  <2> QED
    BY <1>1, <2>1 DEF IInv, TypeOK, Reqs
<1>9. /\ OnePid' /\ PathInv' /\ HeirInv' /\ OnlyTheDeadLeaveFifos'
      /\ path' \in [Pid -> Client \cup {None}]
  BY <1>1, <1>3, ExitInv
<1>10. TypeOK'
  <2>1. answer' \in [Client -> SUBSET ResponseMsg]
    BY <1>1, <1>5 DEF IInv, TypeOK
  <2> QED
    BY <1>1, <1>2, <1>7, <1>8, <1>9, <2>1 DEF IInv, TypeOK
<1>11. FdInv' /\ MadeInv'
  BY <1>1, <1>2, <1>8, FdQuiet DEF IInv, MadeInv
<1>12. Fewer(0, h) /\ h \in [Client -> Nat]
  <2>1. \A i \in 1..Len(Reqs') : i + 0 \in 1..Len(Reqs) /\ Reqs'[i] = Reqs[i + 0]
    BY <1>8, ReqsType DEF IInv
  <2>2. \A s \in Server : Busy(s)' => Busy(s) /\ req'[s] = req[s]
    BY <1>1 DEF Busy
  <2> QED
    BY <1>6, <1>7, <2>1, <2>2 DEF Fewer
<1>13. /\ Answered(m)
       /\ m.who \in Client
       /\ m.who = c \/ Inherits(c)
  <2>1. Answered(m) /\ Pending(m.who) /\ PidOf[m.who] = PidOf[f]
    BY <1>4, <1>5 DEF IInv, LetterInv
  <2>2. m.who \in Client
    BY <1>5 DEF ResponseMsg
  <2> QED
    BY <1>3, <1>4, <2>1, <2>2, Mine DEF IInv
<1>14. m.who = c => ~HasMail(c)'
  <2>1. SUFFICES ASSUME m.who = c PROVE ~HasMail(c)'
    OBVIOUS
  <2>2. \A i \in 1..Len(Reqs') : Reqs'[i].who # c
    BY <2>1, <1>4, <1>5, <1>8 DEF IInv, Single
  <2>3. \A s \in Server : Busy(s)' => req'[s].who # c
    BY <2>1, <1>1, <1>4, <1>5 DEF IInv, Single, Busy
  <2>4. ASSUME NEW e \in Client, NEW j \in 1..Len(data'[e])
        PROVE  data'[e][j].who # c
    <3>1. j + h[e] \in 1..Len(data[e]) /\ data'[e][j] = data[e][j + h[e]]
      BY <1>7
    <3>2. e # f \/ j + h[e] # 1
      BY <1>4, <1>6
    <3> QED
      BY <2>1, <3>1, <3>2, <1>4, <1>5 DEF IInv, Single
  <2> QED
    BY <2>2, <2>3, <2>4 DEF HasMail
<1>15. \A d : Inherits(d)' <=> Inherits(d)
  BY <1>1 DEF Inherits
<1>16. ASSUME NEW d, Pending(d), HasMail(d)'
       PROVE  Pending(d)'
  <2>1. d \in Client
    <3>1. HasMail(d)' => HasMail(d)
      BY <1>12, FewerMail
    <3>2. HasMail(d) => d \in Client
      BY LetterTypes DEF IInv, HasMail, RequestMsg, ResponseMsg
    <3> QED
      BY <1>16, <3>1, <3>2
  <2>2. CASE d = c
    BY <2>2, <1>2, <1>13, <1>14, <1>15, <1>16 DEF Pending
  <2>3. CASE d # c
    BY <2>1, <2>3, <1>1, <1>2, <1>15, <1>16 DEF Pending
  <2> QED
    BY <2>2, <2>3
<1>17. LetterInv' /\ Single'
  BY <1>1, <1>12, <1>16, FewerLetters DEF IInv
<1>18. ReadInv'
  <2>1. ASSUME NEW d \in Client, ClientRuns(d)', cpc'[d] = "read"
        PROVE  Inherits(d)' \/ Ready(d)'
    <3>1. Inherits(d) \/ Ready(d)
      BY <2>1, <1>2, <1>3 DEF IInv, ReadInv
    <3>2. Ready(d) => Ready(d)'
      BY <1>1, <1>12, FewerReady
    <3> QED
      BY <3>1, <3>2, <1>15
  <2> QED
    BY <2>1 DEF ReadInv
<1>19. AnswerInv'
  <2>1. \A n : Answered(n) => Answered(n)'
    BY <1>1 DEF Answered, GrantOf
  <2>2. ASSUME NEW d \in Client, NEW n \in answer'[d]
        PROVE  /\ cpc'[d] = "done" /\ Answered(n)'
               /\ n.who = d \/ Inherits(d)'
    <3>1. CASE d = c
      <4>1. n = m
        BY <2>2, <3>1, <1>1 DEF IInv, TypeOK
      <4> QED
        BY <3>1, <4>1, <2>1, <1>2, <1>13, <1>15
    <3>2. CASE d # c
      <4>1. n \in answer[d]
        BY <2>2, <3>2, <1>1 DEF IInv, TypeOK
      <4> QED
        BY <3>2, <4>1, <2>1, <1>2, <1>15 DEF IInv, AnswerInv
    <3> QED
      BY <3>1, <3>2
  <2> QED
    BY <2>2 DEF AnswerInv
<1> QED
  BY <1>9, <1>10, <1>11, <1>17, <1>18, <1>19 DEF IInv

\* The invariant holds in every reachable state.
THEOREM InductiveInvariant == Spec => []IInv
<1>1. IInv /\ [Next]_vars => IInv'
  <2> SUFFICES ASSUME IInv, [Next]_vars
               PROVE  IInv'
    OBVIOUS
  <2>1. ASSUME NEW s \in Server, StartServer(s) \/ ServerGoesOn(s)
        PROVE  IInv'
    BY <2>1, StartServerInv, ReadRequestInv, OpenClientInv, RetryInv,
       GiveUpInv, WriteResponseInv, CloseAndAdvanceInv DEF ServerGoesOn
  <2>2. ASSUME NEW c \in Client, StartClient(c) \/ ClientGoesOn(c)
        PROVE  IInv'
    BY <2>2, StartClientInv, ConnectInv, NoServerInv, WriteRequestInv,
       BrokenPipeInv, OpenOwnInv, ReadResponseInv, ReadNothingInv
       DEF ClientGoesOn
  <2>3. CASE Kill
    BY <2>3, KillInv
  <2>4. CASE UNCHANGED vars
    <3>1. TypeOK'
      BY <2>4 DEF IInv, TypeOK, vars
    <3> QED
      BY <2>4, <3>1, SameInv DEF vars
  <2> QED
    BY <2>1, <2>2, <2>3, <2>4 DEF Next
<1> QED
  BY InitInv, <1>1, PTL DEF Spec

\* fifo_seqnum_server.c:11-84: the counter stays an int, no request is tried
\* more often than it should be, and every variable keeps its type.
THEOREM TypeCorrect == Spec => []TypeOK
<1>1. IInv => TypeOK
  BY DEF IInv
<1> QED
  BY InductiveInvariant, <1>1, PTL

\* fifo_seqnum_client.c:5-8, 27: a FIFO stays behind only when its process was
\* killed.
THEOREM FifosOfTheDead == Spec => []OnlyTheDeadLeaveFifos
<1>1. IInv => OnlyTheDeadLeaveFifos
  BY DEF IInv
<1> QED
  BY InductiveInvariant, <1>1, PTL

-----------------------------------------------------------------------------
(* The server gives a live client up only after all its tries.             *)

LEMMA GiveUpIsLate ==
  ASSUME IInv, NEW s \in Server, GiveUp(s), ClientRuns(req[s].who)
  PROVE  retries[s] = MaxRetries /\ cpc[req[s].who] = "open"
<1>0. PICK c : c = req[s].who
  OBVIOUS
<1>1. s \notin killed /\ spc[s] = "open"
  BY DEF GiveUp, Go
<1>2. /\ c \in Client /\ req[s].pid = PidOf[c]
      /\ ClientRuns(c) /\ Pending(c)
  BY <1>0, <1>1 DEF IInv, FdInv, LetterInv, Busy, Asked, RequestMsg
<1>3. path[PidOf[c]] # None
  BY <1>2 DEF IInv, PathInv
<1>4. NoReader(s) /\ retries[s] = MaxRetries
  BY <1>2, <1>3 DEF GiveUp
<1>5. cpc[c] \in {"open", "waiting", "read"}
  BY <1>2 DEF Pending, ClientRuns
<1>6. cpc[c] \in {"waiting", "read"} => ReadsFifo(c, path[PidOf[c]])
  BY <1>2 DEF IInv, PathInv, ReadsFifo
<1>7. cpc[c] \notin {"waiting", "read"}
  BY <1>2, <1>4, <1>6 DEF NoReader, FifoHasReader
<1> QED
  BY <1>0, <1>4, <1>5, <1>7

\* No other step takes a server from open to read.
LEMMA OnlyGiveUp ==
  ASSUME IInv, [Next]_vars, NEW s \in Server, spc[s] = "open", spc'[s] = "read"
  PROVE  GiveUp(s)
<1>1. ASSUME NEW t \in Server, StartServer(t) \/ ServerGoesOn(t)
      PROVE  t = s /\ GiveUp(s)
  <2>1. \E l \in ServerPC : spc' = [spc EXCEPT ![t] = l]
    BY <1>1 DEF StartServer, ServerGoesOn, ReadRequest, OpenClient, Retry,
       GiveUp, WriteResponse, CloseAndAdvance, Go, ServerPC
  <2>2. t = s
    BY <2>1 DEF IInv, TypeOK
  <2>3. CASE StartServer(t) \/ ReadRequest(t) \/ WriteResponse(t)
             \/ CloseAndAdvance(t)
    BY <2>2, <2>3 DEF StartServer, ReadRequest, WriteResponse,
       CloseAndAdvance, Go
  <2>4. CASE OpenClient(t) \/ Retry(t)
    <3>1. spc' = [spc EXCEPT ![t] = "write"] \/ spc' = [spc EXCEPT ![t] = "open"]
      BY <2>4 DEF OpenClient, Retry, Go
    <3> QED
      BY <2>2, <3>1 DEF IInv, TypeOK
  <2> QED
    BY <1>1, <2>2, <2>3, <2>4 DEF ServerGoesOn
<1>2. ASSUME NEW c \in Client, Connect(c)
      PROVE  FALSE
  BY <1>2 DEF Connect
<1>3. ASSUME \/ \E c \in Client :
                  \/ StartClient(c) \/ NoServer(c) \/ WriteRequest(c)
                  \/ BrokenPipe(c) \/ OpenOwn(c) \/ ReadResponse(c)
                  \/ ReadNothing(c)
             \/ Kill
             \/ UNCHANGED vars
      PROVE  FALSE
  <2>1. spc' = spc
    BY <1>3 DEF StartClient, NoServer, WriteRequest, BrokenPipe, OpenOwn,
       ReadResponse, ReadNothing, Kill, serverVars, vars
  <2> QED
    BY <2>1
<1> QED
  BY <1>1, <1>2, <1>3 DEF Next, ClientGoesOn

\* fifo_seqnum_client.c:22, fifo_seqnum_server.c:54-65: the FIFO of a live
\* client is there, and it is given up only after all tries.
THEOREM LateGiveUp == Spec => GivesUpLate
<1>1. ASSUME IInv, [Next]_vars
      PROVE  [\A s \in Server :
                spc[s] = "open" /\ spc'[s] = "read" /\ ClientRuns(req[s].who)
                  => /\ retries[s] = MaxRetries
                     /\ cpc[req[s].who] = "open"]_vars
  BY <1>1, OnlyGiveUp, GiveUpIsLate
<1> QED
  BY <1>1, InductiveInvariant, PTL DEF Spec, GivesUpLate

-----------------------------------------------------------------------------
(* Every server implements the sequence allocator.                         *)

LEMMA InitRefines == Init => Alloc!AllocInit /\ AllocP!AllocInit
BY DEF Init, Alloc!AllocInit, AllocP!AllocInit, NextNumber

LEMMA WriteRefines ==
  ASSUME IInv, NEW s \in Server, WriteResponse(s)
  PROVE  Alloc!AllocNext /\ AllocP!AllocNext
<1>1. /\ s \notin killed /\ spc[s] = "write"
      /\ spc' = [spc EXCEPT ![s] = "close"]
      /\ granted' = granted \cup {[by |-> s, to |-> req[s].who,
           from |-> seqNum[s], amount |-> req[s].seqLen]}
      /\ sunk' = IF Wrap(seqNum[s] + req[s].seqLen) < seqNum[s]
                   THEN sunk \cup {s} ELSE sunk
      /\ UNCHANGED <<seqNum, req>>
  BY DEF WriteResponse, Go
<1>2. req[s].who \in Client /\ req[s].seqLen \in Amount
  BY <1>1 DEF IInv, FdInv, RequestMsg
<1>3. /\ NextNumber(s) = seqNum[s]
      /\ NextNumber(s)' = Wrap(seqNum[s] + req[s].seqLen)
      /\ \A t \in Server : t # s => NextNumber(t)' = NextNumber(t)
  BY <1>1 DEF IInv, TypeOK, NextNumber
<1>4. [t \in Server |-> NextNumber(t)]' =
        [[t \in Server |-> NextNumber(t)]
           EXCEPT ![s] = Wrap(NextNumber(s) + req[s].seqLen)]
  BY <1>3
<1>5. /\ Alloc!Grant(s, req[s].who, req[s].seqLen)
      /\ AllocP!Grant(s, req[s].who, req[s].seqLen)
  BY <1>1, <1>3, <1>4
     DEF Alloc!Grant, AllocP!Grant, Alloc!Advance, AllocP!Advance,
         Alloc!Wrap, AllocP!Wrap, Wrap
<1> QED
  BY <1>2, <1>5 DEF Alloc!AllocNext, AllocP!AllocNext

AllocView == <<[s \in Server |-> NextNumber(s)], granted, sunk>>

\* No other step changes the next number: close moves the counter to where
\* the write had promised it to be.
LEMMA OthersStutter ==
  ASSUME IInv, [Next]_vars, \A s \in Server : ~WriteResponse(s)
  PROVE  UNCHANGED AllocView
<1>1. ASSUME NEW s \in Server,
             StartServer(s) \/ ReadRequest(s) \/ OpenClient(s) \/ Retry(s)
               \/ GiveUp(s)
      PROVE  /\ UNCHANGED <<seqNum, granted, sunk>>
             /\ \A t \in Server : NextNumber(t)' = NextNumber(t)
  <2>1. /\ \E l \in ServerPC \ {"close"} : spc' = [spc EXCEPT ![s] = l]
        /\ spc[s] # "close"
        /\ \/ req' = req
           \/ \E r : req' = [req EXCEPT ![s] = r]
        /\ UNCHANGED <<seqNum, granted, sunk>>
    BY <1>1 DEF StartServer, ReadRequest, OpenClient, Retry, GiveUp, Go,
       ServerPC, history
  <2> QED
    BY <2>1 DEF IInv, TypeOK, NextNumber
<1>2. ASSUME NEW s \in Server, CloseAndAdvance(s)
      PROVE  /\ UNCHANGED <<granted, sunk>>
             /\ \A t \in Server : NextNumber(t)' = NextNumber(t)
  <2>1. /\ spc[s] = "close" /\ spc' = [spc EXCEPT ![s] = "read"]
        /\ seqNum' = [seqNum EXCEPT ![s] = Wrap(@ + req[s].seqLen)]
        /\ req' = [req EXCEPT ![s] = None]
        /\ UNCHANGED <<granted, sunk>>
    BY <1>2 DEF CloseAndAdvance, Go, history
  <2> QED
    BY <2>1 DEF IInv, TypeOK, NextNumber
<1>3. ASSUME NEW c \in Client, Connect(c)
      PROVE  /\ UNCHANGED <<granted, sunk>>
             /\ \A t \in Server : NextNumber(t)' = NextNumber(t)
  <2>1. /\ UNCHANGED <<seqNum, req, granted, sunk>>
        /\ spc' = [s \in Server |-> IF spc[s] = "boot" /\ s \notin killed
                                      THEN "read" ELSE spc[s]]
    BY <1>3 DEF Connect, history
  <2> QED
    BY <2>1 DEF NextNumber
<1>4. ASSUME \/ \E c \in Client :
                  \/ StartClient(c) \/ NoServer(c) \/ WriteRequest(c)
                  \/ BrokenPipe(c) \/ OpenOwn(c) \/ ReadResponse(c)
                  \/ ReadNothing(c)
             \/ Kill
             \/ UNCHANGED vars
      PROVE  /\ UNCHANGED <<granted, sunk>>
             /\ \A t \in Server : NextNumber(t)' = NextNumber(t)
  <2>1. UNCHANGED <<spc, seqNum, req, granted, sunk>>
    BY <1>4 DEF StartClient, NoServer, WriteRequest, BrokenPipe, OpenOwn,
       ReadResponse, ReadNothing, Kill, serverVars, history, vars
  <2> QED
    BY <2>1 DEF NextNumber
<1>5. /\ UNCHANGED <<granted, sunk>>
      /\ \A t \in Server : NextNumber(t)' = NextNumber(t)
  BY <1>1, <1>2, <1>3, <1>4 DEF Next, ServerGoesOn, ClientGoesOn
<1> QED
  BY <1>5 DEF AllocView

LEMMA StepRefines ==
  IInv /\ [Next]_vars =>
    /\ [Alloc!AllocNext]_(Alloc!allocVars)
    /\ [AllocP!AllocNext]_(AllocP!allocVars)
<1> SUFFICES ASSUME IInv, [Next]_vars
             PROVE  /\ Alloc!AllocNext \/ UNCHANGED AllocView
                    /\ AllocP!AllocNext \/ UNCHANGED AllocView
  BY DEF Alloc!allocVars, AllocP!allocVars, AllocView
<1>1. CASE \E s \in Server : WriteResponse(s)
  BY <1>1, WriteRefines
<1>2. CASE ~\E s \in Server : WriteResponse(s)
  BY <1>2, OthersStutter
<1> QED
  BY <1>1, <1>2

\* fifo_seqnum_server.c:77-83: the servers grant numbers as the sequence
\* allocator does, at the moment of the write.
THEOREM Refinement == Spec => ImplementsSeqAlloc
<1>1. Init => Alloc!AllocInit
  BY InitRefines
<1>2. IInv /\ [Next]_vars => [Alloc!AllocNext]_(Alloc!allocVars)
  BY StepRefines
<1> QED
  BY <1>1, <1>2, InductiveInvariant, PTL
     DEF Spec, ImplementsSeqAlloc, Alloc!AllocSpec

\* What the allocator promises reaches the clients.
LEMMA PrintedFromGranted ==
  IInv /\ AllocP!GrantsAreDisjoint => PrintedRangesDisjoint
<1> SUFFICES ASSUME IInv, AllocP!GrantsAreDisjoint,
                    NEW c \in Client, NEW d \in Client,
                    NEW m \in answer[c], NEW n \in answer[d],
                    ~Inherits(c), ~Inherits(d)
             PROVE  /\ m.who = c /\ m.seqLen = seqLen[c]
                    /\ c # d /\ m.by = n.by /\ m.by \notin sunk
                         => Printed(c, m) \cap Printed(d, n) = {}
  BY DEF PrintedRangesDisjoint
<1>1. /\ GrantOf(m) \in granted /\ GrantOf(n) \in granted
      /\ m.who = c /\ n.who = d
      /\ m.seqLen = seqLen[c] /\ n.seqLen = seqLen[d]
  BY DEF IInv, AnswerInv, Answered
<1>2. ASSUME c # d, m.by = n.by, m.by \notin sunk
      PROVE  Printed(c, m) \cap Printed(d, n) = {}
  <2>1. /\ GrantOf(m) # GrantOf(n)
        /\ GrantOf(m).by = GrantOf(n).by
        /\ GrantOf(m).by \notin sunk
    BY <1>1, <1>2 DEF GrantOf
  <2>2. AllocP!Numbers(GrantOf(m)) \cap AllocP!Numbers(GrantOf(n)) = {}
    BY <1>1, <2>1 DEF AllocP!GrantsAreDisjoint
  <2>3. /\ AllocP!Numbers(GrantOf(m)) = Printed(c, m)
        /\ AllocP!Numbers(GrantOf(n)) = Printed(d, n)
    BY <1>1 DEF AllocP!Numbers, GrantOf, Printed
  <2> QED
    BY <2>2, <2>3
<1> QED
  BY <1>1, <1>2

\* fifo_seqnum_client.c:45-48: a client reads the answer to its own request,
\* and no two clients of one server print overlapping ranges.
THEOREM PrintedDisjoint == Spec => []PrintedRangesDisjoint
<1>1. Init => AllocP!AllocInit
  BY InitRefines
<1>2. IInv /\ [Next]_vars => [AllocP!AllocNext]_(AllocP!allocVars)
  BY StepRefines
<1>3. AllocP!AllocSpec => []AllocP!GrantsAreDisjoint
  BY AmountIsAnInt, AllocP!Disjoint
<1> QED
  BY <1>1, <1>2, <1>3, InductiveInvariant, PrintedFromGranted, PTL
     DEF Spec, AllocP!AllocSpec

=============================================================================

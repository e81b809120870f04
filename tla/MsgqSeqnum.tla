------------------------------ MODULE MsgqSeqnum ------------------------------
(***************************************************************************)
(* SP_HW8/46-2: sequence numbers over one System V message queue.  Clients *)
(* put requests (type 1) and the server puts replies (type: the client's   *)
(* pid) into the same queue, of bounded size; msgrcv takes the first       *)
(* message of a type and sleeps when there is none.                        *)
(*                                                                         *)
(* Nothing stops a second server from joining the queue of the first, so   *)
(* there may be several.  SIGINT makes a server remove the queue; any      *)
(* other death (Kill, external) leaves the queue and its messages to the   *)
(* next server.  A pid is used again once its process has ended.           *)
(*                                                                         *)
(* A queue is named by the server that created it.                         *)
(***************************************************************************)
EXTENDS Integers, FiniteSets, SequencesExt

CONSTANTS
  Server, Client,   \* processes; each is started at most once
  Pid, PidOf,       \* pids, and that of every client
  Amount,           \* what atoi may give for a client's argument
  IntMax,           \* INT_MAX
  QMax,             \* how many messages a queue holds
  Request,          \* REQ_MSG_TYPE
  None,             \* no queue, no server
  MaxKill           \* bound: how many processes are killed

CInt == -(IntMax + 1) .. IntMax

ASSUME MsgqAssumption ==
  /\ IntMax \in Nat
  /\ Amount \subseteq CInt
  /\ QMax \in Nat \ {0}
  /\ PidOf \in [Client -> Pid]
  /\ Request \notin Pid
  /\ None \notin Server
  /\ Server \cap Client = {}
  /\ MaxKill \in Nat

\* seq_num is a client's pid in a request and a number in a reply.  The last
\* two fields are history: who asked, and which server answered.
Message == [mtype : Pid \cup {Request}, seq_num : Pid \cup CInt,
            request_value : Amount, who : Client, by : Server \cup {None}]

ClientPC == {"new", "send", "wait", "done", "failed", "killed"}
ServerPC == {"new", "receive", "reply", "exited", "killed"}

VARIABLES
  live,      \* the queue with key SERVER_KEY: whose it is, or None
  queue,     \* its messages
  msgid,     \* the queue every process has opened
  cpc,       \* clients
  increment, \*   the argument
  answer,    \*   the reply message received
  spc,       \* servers
  seq_num,   \*   the counter
  msg,       \*   the message received and not sent back yet (a set)
  granted,   \* history: the numbers the servers gave, and to whom
  sunk,      \* history: servers whose counter has moved down
  killed     \* history: processes killed

clientVars == <<cpc, increment, answer>>
serverVars == <<spc, seq_num, msg>>
history    == <<granted, sunk, killed>>
vars == <<live, queue, msgid, cpc, increment, answer, spc, seq_num, msg,
          granted, sunk, killed>>

-----------------------------------------------------------------------------
(* The queue, as msgget, msgsnd, msgrcv and msgctl show it.                *)

Opened(p) == live # None /\ msgid[p] = live

\* msgsnd by process p: sleeps while the queue is full.
Send(p, m) == /\ Opened(p)
              /\ Len(queue) < QMax
              /\ queue' = Append(queue, m)

\* msgrcv by process p: the first message of type t is taken out.
Take(p, t, m) == /\ Opened(p)
                 /\ \E i \in 1..Len(queue) :
                      /\ queue[i].mtype = t
                      /\ \A j \in 1..(i - 1) : queue[j].mtype # t
                      /\ m = queue[i]
                      /\ queue' = RemoveAt(queue, i)

-----------------------------------------------------------------------------
(* A server.                                                               *)

\* msgget(IPC_CREAT): the queue is created unless it exists.
StartServer(s) ==
  /\ spc[s] = "new"
  /\ spc' = [spc EXCEPT ![s] = "receive"]
  /\ IF live = None THEN live' = s /\ queue' = <<>>
                    ELSE UNCHANGED <<live, queue>>
  /\ msgid' = [msgid EXCEPT ![s] = live']
  /\ UNCHANGED <<seq_num, msg, clientVars, history>>

\* Mutant: a counter that does not wrap.
Wrap_Unbounded(n) == n

\* Signed addition as the compiled code does it.
Wrap(n) == ((n + IntMax + 1) % (2 * (IntMax + 1))) - (IntMax + 1)

\* The reply to request m.
ReplyTo(s, m) ==
  [m EXCEPT !.mtype = m.seq_num, !.seq_num = seq_num[s], !.by = s]

\* Mutant: the request stays in the queue.
Receive_Peeks(s) ==
  /\ spc[s] = "receive"
  /\ Opened(s)
  /\ spc' = [spc EXCEPT ![s] = "reply"]
  /\ \E m \in Range(queue) :
       /\ m.mtype = Request
       /\ msg' = [msg EXCEPT ![s] = {ReplyTo(s, m)}]
       /\ seq_num' = [seq_num EXCEPT ![s] = Wrap(@ + m.request_value)]
       /\ sunk' = IF seq_num'[s] < seq_num[s] THEN sunk \cup {s} ELSE sunk
       /\ granted' = granted \cup {[by |-> s, to |-> m.who,
            from |-> seq_num[s], amount |-> m.request_value]}
  /\ UNCHANGED <<live, queue, msgid, clientVars, killed>>

\* Mutant: the counter moves on by one, whatever was asked for.
Receive_CountsOne(s) ==
  /\ spc[s] = "receive"
  /\ spc' = [spc EXCEPT ![s] = "reply"]
  /\ \E m \in Range(queue) :
       /\ Take(s, Request, m)
       /\ msg' = [msg EXCEPT ![s] = {ReplyTo(s, m)}]
       /\ seq_num' = [seq_num EXCEPT ![s] = Wrap(@ + 1)]
       /\ sunk' = IF seq_num'[s] < seq_num[s] THEN sunk \cup {s} ELSE sunk
       /\ granted' = granted \cup {[by |-> s, to |-> m.who,
            from |-> seq_num[s], amount |-> m.request_value]}
  /\ UNCHANGED <<live, msgid, clientVars, killed>>

\* msgrcv, and the reply is made in the same buffer.
Receive(s) ==
  /\ spc[s] = "receive"
  /\ spc' = [spc EXCEPT ![s] = "reply"]
  /\ \E m \in Range(queue) :
       /\ Take(s, Request, m)
       /\ msg' = [msg EXCEPT ![s] = {ReplyTo(s, m)}]
       /\ seq_num' = [seq_num EXCEPT ![s] = Wrap(@ + m.request_value)]
       /\ sunk' = IF seq_num'[s] < seq_num[s] THEN sunk \cup {s} ELSE sunk
       /\ granted' = granted \cup {[by |-> s, to |-> m.who,
            from |-> seq_num[s], amount |-> m.request_value]}
  /\ UNCHANGED <<live, msgid, clientVars, killed>>

\* Mutant: a reply that does not fit is given up (IPC_NOWAIT).
Reply_NoWait(s) ==
  /\ spc[s] = "reply"
  /\ spc' = [spc EXCEPT ![s] = "receive"]
  /\ msg' = [msg EXCEPT ![s] = {}]
  /\ \/ \E m \in msg[s] : Send(s, m)
     \/ (~Opened(s) \/ Len(queue) = QMax) /\ UNCHANGED queue
  /\ UNCHANGED <<live, msgid, seq_num, clientVars, history>>

\* msgsnd of the reply; when the queue has been removed it fails and the
\* loop goes on.
Reply(s) ==
  /\ spc[s] = "reply"
  /\ spc' = [spc EXCEPT ![s] = "receive"]
  /\ msg' = [msg EXCEPT ![s] = {}]
  /\ \/ \E m \in msg[s] : Send(s, m)
     \/ ~Opened(s) /\ UNCHANGED queue
  /\ UNCHANGED <<live, msgid, seq_num, clientVars, history>>

\* The handler of SIGINT: IPC_RMID, wherever the server is.
Cleanup(s) ==
  /\ spc[s] \in {"receive", "reply"}
  /\ spc' = [spc EXCEPT ![s] = "exited"]
  /\ IF Opened(s) THEN live' = None /\ queue' = <<>>
                  ELSE UNCHANGED <<live, queue>>
  /\ UNCHANGED <<msgid, seq_num, msg, clientVars, history>>

-----------------------------------------------------------------------------
(* A client.                                                               *)

Running(c) == cpc[c] \in {"send", "wait"}

\* The pid is free; msgget without IPC_CREAT.
StartClient(c) ==
  /\ cpc[c] = "new"
  /\ \A d \in Client : Running(d) => PidOf[d] # PidOf[c]
  /\ msgid' = [msgid EXCEPT ![c] = live]
  /\ cpc' = [cpc EXCEPT ![c] = IF live = None THEN "failed" ELSE "send"]
  /\ UNCHANGED <<live, queue, increment, answer, serverVars, history>>

RequestOf(c) == [mtype |-> Request, seq_num |-> PidOf[c],
                 request_value |-> increment[c], who |-> c, by |-> None]

SendRequest(c) ==
  /\ cpc[c] = "send"
  /\ Send(c, RequestOf(c))
  /\ cpc' = [cpc EXCEPT ![c] = "wait"]
  /\ UNCHANGED <<live, msgid, increment, answer, serverVars, history>>

\* Mutant: the client takes a reply of whatever pid.
TakeReply_AnyPid(c) ==
  /\ cpc[c] = "wait"
  /\ \E m \in Range(queue), p \in Pid :
       /\ Take(c, p, m)
       /\ answer' = [answer EXCEPT ![c] = {m}]
  /\ cpc' = [cpc EXCEPT ![c] = "done"]
  /\ UNCHANGED <<live, msgid, increment, serverVars, history>>

\* Mutant: the reply stays in the queue.
TakeReply_Peeks(c) ==
  /\ cpc[c] = "wait"
  /\ Opened(c)
  /\ \E m \in Range(queue) : /\ m.mtype = PidOf[c]
                             /\ answer' = [answer EXCEPT ![c] = {m}]
  /\ cpc' = [cpc EXCEPT ![c] = "done"]
  /\ UNCHANGED <<live, queue, msgid, increment, serverVars, history>>

TakeReply(c) ==
  /\ cpc[c] = "wait"
  /\ \E m \in Range(queue) :
       /\ Take(c, PidOf[c], m)
       /\ answer' = [answer EXCEPT ![c] = {m}]
  /\ cpc' = [cpc EXCEPT ![c] = "done"]
  /\ UNCHANGED <<live, msgid, increment, serverVars, history>>

\* msgsnd or msgrcv fails: the queue has been removed.
ClientFails(c) ==
  /\ Running(c)
  /\ ~Opened(c)
  /\ cpc' = [cpc EXCEPT ![c] = "failed"]
  /\ UNCHANGED <<live, queue, msgid, increment, answer, serverVars, history>>

\* The queue outlives the process.
Kill ==
  /\ Cardinality(killed) < MaxKill
  /\ \/ \E c \in Client : /\ Running(c)
                          /\ cpc' = [cpc EXCEPT ![c] = "killed"]
                          /\ killed' = killed \cup {c}
                          /\ UNCHANGED spc
     \/ \E s \in Server : /\ spc[s] \in {"receive", "reply"}
                          /\ spc' = [spc EXCEPT ![s] = "killed"]
                          /\ killed' = killed \cup {s}
                          /\ UNCHANGED cpc
  /\ UNCHANGED <<live, queue, msgid, increment, answer, seq_num, msg, granted,
                 sunk>>

-----------------------------------------------------------------------------
Init == /\ live = None
        /\ queue = <<>>
        /\ msgid = [p \in Server \cup Client |-> None]
        /\ cpc = [c \in Client |-> "new"]
        /\ increment \in [Client -> Amount]
        /\ answer = [c \in Client |-> {}]
        /\ spc = [s \in Server |-> "new"]
        /\ seq_num = [s \in Server |-> 0]
        /\ msg = [s \in Server |-> {}]
        /\ granted = {}
        /\ sunk = {}
        /\ killed = {}

ServerGoesOn(s) == Receive(s) \/ Reply(s)
ClientGoesOn(c) == SendRequest(c) \/ TakeReply(c) \/ ClientFails(c)

Next == \/ \E s \in Server : StartServer(s) \/ ServerGoesOn(s) \/ Cleanup(s)
        \/ \E c \in Client : StartClient(c) \/ ClientGoesOn(c)
        \/ Kill

Spec == Init /\ [][Next]_vars

\* A process in a system call that can return does return.  Nobody has to be
\* started, interrupted or killed.
FairSpec == /\ Spec
            /\ \A s \in Server : WF_vars(ServerGoesOn(s))
            /\ \A c \in Client : WF_vars(ClientGoesOn(c))

-----------------------------------------------------------------------------
(* Properties.                                                             *)

\* Type correctness of every variable; the queue never holds more than QMax
\* messages and the counter stays an int.
TypeOK ==
  /\ live \in Server \cup {None}
  /\ queue \in Seq(Message) /\ Len(queue) <= QMax
  /\ msgid \in [Server \cup Client -> Server \cup {None}]
  /\ cpc \in [Client -> ClientPC]
  /\ increment \in [Client -> Amount]
  /\ answer \in [Client -> SUBSET Message]
  /\ spc \in [Server -> ServerPC]
  /\ seq_num \in [Server -> CInt]
  /\ msg \in [Server -> SUBSET Message]
  /\ granted \subseteq [by : Server, to : Client, from : CInt, amount : Amount]
  /\ sunk \subseteq Server
  /\ killed \subseteq Server \cup Client

\* server.c:42-47: every server is a sequence allocator.
Alloc == INSTANCE SeqAlloc WITH next <- seq_num

ImplementsSeqAlloc == Alloc!AllocSpec

GrantOf(m) == [by |-> m.by, to |-> m.who, from |-> m.seq_num,
               amount |-> m.request_value]

\* A process that had client c's pid was killed.
Inherits(c) == \E d \in killed \cap Client : d # c /\ PidOf[d] = PidOf[c]

\* client.c:32: what a client receives is a server's answer to its own request,
\* for the amount it asked for, unless it has the pid of a killed client: that
\* one's answer may still be in the queue.
AnswerIsMine ==
  \A c \in Client : \A m \in answer[c] :
    /\ GrantOf(m) \in granted
    /\ m.request_value = increment[m.who]
    /\ m.who = c \/ Inherits(c)

\* The numbers client c may use after printing reply m.
Printed(c, m) == m.seq_num .. m.seq_num + increment[c] - 1

\* Two clients of one server never print overlapping ranges, however the
\* processes are interleaved and whichever servers share the queue, unless
\* the counter moved down (a negative argument, or past INT_MAX) or a pid was
\* inherited.
PrintedRangesDisjoint ==
  \A c, d \in Client : \A m \in answer[c], n \in answer[d] :
    /\ c # d
    /\ m.by = n.by
    /\ m.by \notin sunk
    /\ ~Inherits(c)
    /\ ~Inherits(d)
    => Printed(c, m) \cap Printed(d, n) = {}

\* The messages that stand for client c's request on the live queue.
InQueue(c) == {i \in 1..Len(queue) : queue[i].who = c}
InHand(c)  == {s \in Server : /\ spc[s] = "reply"
                              /\ Opened(s)
                              /\ \E m \in msg[s] : m.who = c}
Copies(c)  == Cardinality(InQueue(c)) + Cardinality(InHand(c))

\* A server was killed with it.
Lost(c) == \E s \in killed \cap Server : \E m \in msg[s] : m.who = c

\* A request or its reply is never lost or doubled between client and server:
\* it exists exactly once while the client waits, and no more once the client
\* has it; only a killed server takes it away.
RequestIsKept ==
  \A c \in Client :
    /\ Copies(c) <= 1
    /\ cpc[c] = "wait" /\ Opened(c) => Copies(c) = 1 \/ Lost(c)
    /\ \A m \in answer[c] : Copies(m.who) = 0

\* server.c:50: the server sleeps on a full queue, which it alone could empty,
\* only when more clients than the queue has room for wait or were killed.
FullNeedsACrowd ==
  \A s \in Server :
    spc[s] = "reply" /\ Opened(s) /\ Len(queue) = QMax
      => Cardinality({c \in Client : cpc[c] \in {"wait", "killed"}}) > QMax

\* Nobody on the live queue can move.
Jam ==
  /\ Len(queue) = QMax
  /\ \A s \in Server : Opened(s) => spc[s] # "receive"
  /\ \A i \in 1..Len(queue), c \in Client :
       cpc[c] = "wait" /\ Opened(c) => queue[i].mtype # PidOf[c]

\* A request is answered, or the queue was removed, or processes were killed,
\* or so many clients came that everyone waits for room.
RequestIsAnswered ==
  \A c \in Client :
    cpc[c] = "wait" ~> \/ cpc[c] \in {"done", "failed"}
                      \/ killed # {}
                      \/ Jam

=============================================================================

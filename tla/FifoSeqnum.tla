------------------------------ MODULE FifoSeqnum ------------------------------
(***************************************************************************)
(* SP_HW8/44-6: sequence numbers over FIFOs.  Clients write requests into  *)
(* the server's FIFO; each reads its answer from a FIFO of its own, whose  *)
(* path contains its pid.  The server opens that FIFO without blocking     *)
(* and tries again a few times while nobody reads it.                      *)
(*                                                                         *)
(* What the kernel does is external: an open for reading or writing sleeps *)
(* until the other side is there, a FIFO's data live as long as somebody   *)
(* has it open, a write without a reader gives SIGPIPE or EPIPE.  The      *)
(* server's FIFO is never removed; a client's is, when it exits but not    *)
(* when it is killed, and a pid is used again.  A client's FIFO is named   *)
(* by the client that made it.                                             *)
(***************************************************************************)
EXTENDS Integers, Sequences, FiniteSets

CONSTANTS
  Server, Client,   \* processes; each is started at most once
  Pid, PidOf,       \* pids, and that of every client
  Amount,           \* what a client may ask for
  IntMax,           \* INT_MAX
  MaxRetries,       \* MAX_RETRIES
  None,             \* no FIFO, no request
  MaxKill           \* bound: how many processes are killed

CInt == -(IntMax + 1) .. IntMax

\* who and by are history: who asked, and which server answered; so is seqLen
\* in a response.
RequestMsg  == [pid : Pid, seqLen : Amount, who : Client]
ResponseMsg == [seqNum : CInt, seqLen : Amount, who : Client, by : Server]

ASSUME FifoAssumption ==
  /\ IntMax \in Nat
  /\ Amount \subseteq 1..IntMax
  /\ PidOf \in [Client -> Pid]
  /\ MaxRetries \in Nat
  /\ None \notin Client \cup Seq(RequestMsg)
  /\ Server \cap Client = {}
  /\ MaxKill \in Nat

ServerPC == {"new", "boot", "read", "open", "write", "close"}
ClientPC == {"new", "connect", "blocked", "write", "open", "waiting", "read",
             "done", "failed", "sigpipe"}

VARIABLES
  requests,  \* the server's FIFO: None before it was made, else its data
  path,      \* path[p]: the FIFO at the path of pid p
  data,      \* data[c]: the data in the FIFO client c made
  spc,       \* servers: the next statement, where it was killed if it was
  seqNum,    \*   the counter
  req,       \*   the request being served
  retries,   \*   failed attempts
  clientFd,  \*   the FIFO open for the answer
  cpc,       \* clients: the next statement, where it was killed if it was
  seqLen,    \*   the argument
  own,       \*   the FIFO it has opened for reading
  answer,    \*   the response it has read (a set)
  granted,   \* history: numbers given, and to whom
  sunk,      \* history: servers whose counter has moved down
  abandoned, \* history: clients a server has given up
  killed     \* processes killed

serverVars == <<spc, seqNum, req, retries, clientFd>>
clientVars == <<cpc, seqLen, own, answer>>
history    == <<granted, sunk, abandoned>>
vars == <<requests, path, data, spc, seqNum, req, retries, clientFd, cpc,
          seqLen, own, answer, granted, sunk, abandoned, killed>>

-----------------------------------------------------------------------------
(* Who has which FIFO open; one blocked in open counts.                    *)

ServerReads(s) == s \notin killed /\ spc[s] # "new"
ClientRuns(c)  == c \notin killed /\ cpc[c] \notin {"new", "done", "failed",
                                                   "sigpipe"}
ClientWrites(c) == ClientRuns(c) /\ cpc[c] # "connect"

HasReader == \E s \in Server : ServerReads(s)
HasWriter == \/ \E s \in Server : ServerReads(s) /\ spc[s] # "boot"
             \/ \E c \in Client : ClientWrites(c)

ReadsFifo(c, f)  == ClientRuns(c) /\ cpc[c] \in {"waiting", "read"} /\ own[c] = f
WritesFifo(s, f) == s \notin killed /\ clientFd[s] = f

FifoHasReader(f) == \E c \in Client : ReadsFifo(c, f)
FifoHasWriter(f) == \E s \in Server : WritesFifo(s, f)

\* What happens to the data when a process has let go of its FIFOs.
DropUnheld ==
  /\ requests' = IF requests = None \/ (HasReader \/ HasWriter)'
                   THEN requests ELSE <<>>
  /\ data' = [f \in Client |->
                IF (FifoHasReader(f) \/ FifoHasWriter(f))' THEN data[f]
                                                           ELSE <<>>]

-----------------------------------------------------------------------------
(* A server.                                                               *)

Go(s, from, to) == /\ s \notin killed
                   /\ spc[s] = from
                   /\ spc' = [spc EXCEPT ![s] = to]

\* mkfifo; open for reading, and then for writing, sleeps until the first
\* client opens.  Clients asleep in their open get on.
StartServer(s) ==
  /\ Go(s, "new", IF HasWriter THEN "read" ELSE "boot")
  /\ requests' = IF requests = None THEN <<>> ELSE requests
  /\ cpc' = [c \in Client |-> IF cpc[c] = "blocked" /\ c \notin killed
                                THEN "write" ELSE cpc[c]]
  /\ UNCHANGED <<path, data, seqNum, req, retries, clientFd, seqLen, own,
                 answer, history, killed>>

ReadRequest(s) ==
  /\ Go(s, "read", "open")
  /\ requests # <<>>
  /\ req' = [req EXCEPT ![s] = Head(requests)]
  /\ requests' = Tail(requests)
  /\ retries' = [retries EXCEPT ![s] = 0]
  /\ UNCHANGED <<path, data, seqNum, clientFd, clientVars, history, killed>>

\* open(O_WRONLY|O_NONBLOCK) finds a reader, who gets on if it slept.
OpenClient(s) ==
  /\ Go(s, "open", "write")
  /\ LET f == path[req[s].pid] IN
       /\ FifoHasReader(f)
       /\ clientFd' = [clientFd EXCEPT ![s] = f]
       /\ cpc' = [c \in Client |-> IF cpc[c] = "waiting" /\ ReadsFifo(c, f)
                                     THEN "read" ELSE cpc[c]]
  /\ UNCHANGED <<requests, path, data, seqNum, req, retries, seqLen, own,
                 answer, history, killed>>

NoReader(s) == /\ path[req[s].pid] # None
               /\ ~FifoHasReader(path[req[s].pid])

\* Mutant: the open blocks as long as nobody reads.
Retry_ForEver(s) ==
  /\ Go(s, "open", "open")
  /\ NoReader(s)
  /\ UNCHANGED <<requests, path, data, seqNum, req, retries, clientFd,
                 clientVars, history, killed>>

\* ENXIO: another try after a while.
Retry(s) ==
  /\ Go(s, "open", "open")
  /\ NoReader(s)
  /\ retries[s] < MaxRetries
  /\ retries' = [retries EXCEPT ![s] = @ + 1]
  /\ UNCHANGED <<requests, path, data, seqNum, req, clientFd, clientVars,
                 history, killed>>

\* ENXIO for the last time, or ENOENT: the request is dropped.
GiveUp(s) ==
  /\ Go(s, "open", "read")
  /\ \/ NoReader(s) /\ retries[s] = MaxRetries
     \/ path[req[s].pid] = None
  /\ abandoned' = abandoned \cup {req[s].who}
  /\ req' = [req EXCEPT ![s] = None]
  /\ UNCHANGED <<requests, path, data, seqNum, retries, clientFd, clientVars,
                 granted, sunk, killed>>

\* Mutant: a counter that does not wrap.
Wrap_Unbounded(n) == n

\* Signed addition as the compiled code does it.
Wrap(n) == ((n + IntMax + 1) % (2 * (IntMax + 1))) - (IntMax + 1)

ResponseTo(s) == [seqNum |-> seqNum[s], seqLen |-> req[s].seqLen,
                  who |-> req[s].who, by |-> s]

\* write; SIGPIPE is ignored, so without a reader it only fails.
WriteResponse(s) ==
  /\ Go(s, "write", "close")
  /\ data' = IF FifoHasReader(clientFd[s])
               THEN [data EXCEPT ![clientFd[s]] = Append(@, ResponseTo(s))]
               ELSE data
  /\ granted' = granted \cup {[by |-> s, to |-> req[s].who,
       from |-> seqNum[s], amount |-> req[s].seqLen]}
  /\ sunk' = IF Wrap(seqNum[s] + req[s].seqLen) < seqNum[s]
               THEN sunk \cup {s} ELSE sunk
  /\ UNCHANGED <<requests, path, seqNum, req, retries, clientFd, clientVars,
                 abandoned, killed>>

\* Mutant: the counter moves on by one.
CloseAndAdvance_ByOne(s) ==
  /\ Go(s, "close", "read")
  /\ clientFd' = [clientFd EXCEPT ![s] = None]
  /\ seqNum' = [seqNum EXCEPT ![s] = Wrap(@ + 1)]
  /\ req' = [req EXCEPT ![s] = None]
  /\ UNCHANGED <<path, retries, clientVars, history, killed>>
  /\ DropUnheld

\* close, and only then the counter moves.
CloseAndAdvance(s) ==
  /\ Go(s, "close", "read")
  /\ clientFd' = [clientFd EXCEPT ![s] = None]
  /\ seqNum' = [seqNum EXCEPT ![s] = Wrap(@ + req[s].seqLen)]
  /\ req' = [req EXCEPT ![s] = None]
  /\ UNCHANGED <<path, retries, clientVars, history, killed>>
  /\ DropUnheld

-----------------------------------------------------------------------------
(* A client.                                                               *)

Step(c, from, to) == /\ c \notin killed
                     /\ cpc[c] = from
                     /\ cpc' = [cpc EXCEPT ![c] = to]

PidIsFree(p) == \A d \in Client : ClientRuns(d) => PidOf[d] # p

\* Mutant: the FIFO is not made before the request is sent.
StartClient_NoFifo(c) ==
  /\ Step(c, "new", "connect")
  /\ PidIsFree(PidOf[c])
  /\ UNCHANGED <<requests, path, data, seqLen, own, answer, serverVars,
                 history, killed>>

\* mkfifo; one that is there already will do.
StartClient(c) ==
  /\ Step(c, "new", "connect")
  /\ PidIsFree(PidOf[c])
  /\ path' = IF path[PidOf[c]] = None THEN [path EXCEPT ![PidOf[c]] = c]
                                      ELSE path
  /\ UNCHANGED <<requests, data, seqLen, own, answer, serverVars, history,
                 killed>>

\* open of the server's FIFO for writing; servers asleep in their open get on.
Connect(c) ==
  /\ requests # None
  /\ Step(c, "connect", IF HasReader THEN "write" ELSE "blocked")
  /\ spc' = [s \in Server |-> IF spc[s] = "boot" /\ s \notin killed
                                THEN "read" ELSE spc[s]]
  /\ UNCHANGED <<requests, path, data, seqNum, req, retries, clientFd, seqLen,
                 own, answer, history, killed>>

\* The FIFO was never made: the client exits.
NoServer(c) ==
  /\ requests = None
  /\ Step(c, "connect", "failed")
  /\ path' = [path EXCEPT ![PidOf[c]] = None]
  /\ UNCHANGED <<requests, data, seqLen, own, answer, serverVars, history,
                 killed>>

WriteRequest(c) ==
  /\ Step(c, "write", "open")
  /\ HasReader
  /\ requests' = Append(requests, [pid |-> PidOf[c], seqLen |-> seqLen[c],
                                   who |-> c])
  /\ UNCHANGED <<path, data, seqLen, own, answer, serverVars, history, killed>>

\* Mutant: a read that fails ends the process without exit.
ReadNothing_NoExit(c) ==
  /\ Step(c, "read", "failed")
  /\ data[own[c]] = <<>>
  /\ ~FifoHasWriter(own[c])
  /\ UNCHANGED <<path, seqLen, own, answer, serverVars, history, killed>>
  /\ DropUnheld

\* The server is gone: SIGPIPE kills the client, its FIFO stays.
BrokenPipe(c) ==
  /\ Step(c, "write", "sigpipe")
  /\ ~HasReader
  /\ UNCHANGED <<path, seqLen, own, answer, serverVars, history, killed>>
  /\ DropUnheld

\* open of the own FIFO for reading sleeps until a server opens it.
OpenOwn(c) ==
  LET f == path[PidOf[c]] IN
    /\ Step(c, "open", IF FifoHasWriter(f) THEN "read" ELSE "waiting")
    /\ own' = [own EXCEPT ![c] = f]
    /\ UNCHANGED <<requests, path, data, seqLen, answer, serverVars, history,
                   killed>>

\* The response is printed; exit removes the path.
ReadResponse(c) ==
  /\ Step(c, "read", "done")
  /\ data[own[c]] # <<>>
  /\ answer' = [answer EXCEPT ![c] = {Head(data[own[c]])}]
  /\ path' = [path EXCEPT ![PidOf[c]] = None]
  /\ UNCHANGED <<seqLen, own, serverVars, history, killed>>
  /\ requests' = IF (HasReader \/ HasWriter)' THEN requests ELSE <<>>
  /\ data' = [f \in Client |->
                IF ~(FifoHasReader(f) \/ FifoHasWriter(f))' THEN <<>>
                ELSE IF f = own[c] THEN Tail(data[f])
                ELSE data[f]]

\* End of file: the server died before it answered.
ReadNothing(c) ==
  /\ Step(c, "read", "failed")
  /\ data[own[c]] = <<>>
  /\ ~FifoHasWriter(own[c])
  /\ path' = [path EXCEPT ![PidOf[c]] = None]
  /\ UNCHANGED <<seqLen, own, answer, serverVars, history, killed>>
  /\ DropUnheld

\* A process is killed: its files are closed, nothing is removed.
Kill ==
  /\ Cardinality(killed) < MaxKill
  /\ \E p \in Server \cup Client :
       /\ p \in Server => ServerReads(p)
       /\ p \in Client => ClientRuns(p)
       /\ killed' = killed \cup {p}
  /\ UNCHANGED <<path, serverVars, clientVars, history>>
  /\ DropUnheld

-----------------------------------------------------------------------------
Init == /\ requests = None
        /\ path = [p \in Pid |-> None]
        /\ data = [c \in Client |-> <<>>]
        /\ spc = [s \in Server |-> "new"]
        /\ seqNum = [s \in Server |-> 0]
        /\ req = [s \in Server |-> None]
        /\ retries = [s \in Server |-> 0]
        /\ clientFd = [s \in Server |-> None]
        /\ cpc = [c \in Client |-> "new"]
        /\ seqLen \in [Client -> Amount]
        /\ own = [c \in Client |-> None]
        /\ answer = [c \in Client |-> {}]
        /\ granted = {}
        /\ sunk = {}
        /\ abandoned = {}
        /\ killed = {}

ServerGoesOn(s) == \/ ReadRequest(s)
                   \/ OpenClient(s)
                   \/ Retry(s)
                   \/ GiveUp(s)
                   \/ WriteResponse(s)
                   \/ CloseAndAdvance(s)

ClientGoesOn(c) == \/ Connect(c)
                   \/ NoServer(c)
                   \/ WriteRequest(c)
                   \/ BrokenPipe(c)
                   \/ OpenOwn(c)
                   \/ ReadResponse(c)
                   \/ ReadNothing(c)

Next == \/ \E s \in Server : StartServer(s) \/ ServerGoesOn(s)
        \/ \E c \in Client : StartClient(c) \/ ClientGoesOn(c)
        \/ Kill

Spec == Init /\ [][Next]_vars

\* A started process whose system call can return goes on.  Nobody has to be
\* started, and a client may be slower than all the server's tries.
FairSpec == /\ Spec
            /\ \A s \in Server : WF_vars(ServerGoesOn(s))
            /\ \A c \in Client : WF_vars(ClientGoesOn(c))

-----------------------------------------------------------------------------
(* Properties.                                                             *)

\* Type correctness of every variable.
TypeOK ==
  /\ requests = None \/ requests \in Seq(RequestMsg)
  /\ path \in [Pid -> Client \cup {None}]
  /\ data \in [Client -> Seq(ResponseMsg)]
  /\ spc \in [Server -> ServerPC]
  /\ seqNum \in [Server -> CInt]
  /\ req \in [Server -> RequestMsg \cup {None}]
  /\ retries \in [Server -> 0..MaxRetries]
  /\ clientFd \in [Server -> Client \cup {None}]
  /\ cpc \in [Client -> ClientPC]
  /\ seqLen \in [Client -> Amount]
  /\ own \in [Client -> Client \cup {None}]
  /\ answer \in [Client -> SUBSET ResponseMsg]
  /\ granted \subseteq [by : Server, to : Client, from : CInt, amount : Amount]
  /\ sunk \subseteq Server
  /\ abandoned \subseteq Client
  /\ killed \subseteq Server \cup Client

\* Between write and the increment the response is out already.
NextNumber(s) == IF spc[s] = "close" THEN Wrap(seqNum[s] + req[s].seqLen)
                                     ELSE seqNum[s]

\* fifo_seqnum_server.c:77-83: every server is a sequence allocator, at the
\* moment it writes the response.
Alloc == INSTANCE SeqAlloc WITH next <- [s \in Server |-> NextNumber(s)]

ImplementsSeqAlloc == Alloc!AllocSpec

\* A process that had client c's pid was killed.
Inherits(c) == \E d \in killed \cap Client : d # c /\ PidOf[d] = PidOf[c]

\* The numbers client c may use after it has read response m.
Printed(c, m) == m.seqNum .. m.seqNum + seqLen[c] - 1

\* fifo_seqnum_client.c:45-48: a client reads the response to its own request,
\* and two clients of one server never print overlapping ranges, unless the
\* counter passed INT_MAX or a killed process had the client's pid: its FIFO
\* and its request may still be there.
PrintedRangesDisjoint ==
  \A c, d \in Client : \A m \in answer[c], n \in answer[d] :
    /\ ~Inherits(c)
    /\ ~Inherits(d)
    => /\ m.who = c /\ m.seqLen = seqLen[c]
       /\ c # d /\ m.by = n.by /\ m.by \notin sunk
            => Printed(c, m) \cap Printed(d, n) = {}

\* fifo_seqnum_client.c:22, fifo_seqnum_server.c:54-65: the client's FIFO is
\* made before the request is sent, so the server gives a live client up only
\* after all its tries, and only while the client has not opened its FIFO.
GivesUpLate ==
  [][\A s \in Server :
       spc[s] = "open" /\ spc'[s] = "read" /\ ClientRuns(req[s].who)
         => /\ retries[s] = MaxRetries
            /\ cpc[req[s].who] = "open"]_vars

\* Only a client that did not end by itself leaves its FIFO behind.
OnlyTheDeadLeaveFifos ==
  \A p \in Pid :
    path[p] # None =>
      \E c \in Client : /\ PidOf[c] = p
                        /\ ClientRuns(c) \/ c \in killed \/ cpc[c] = "sigpipe"

\* fifo_seqnum_server.c:35, 52-53: no client holds up the server; and a client
\* that sent its request ends, unless the server gave it up (it then sleeps
\* for ever) or processes were killed.
EveryoneGetsOn ==
  /\ \A s \in Server : spc[s] = "open" ~> spc[s] = "read" \/ s \in killed
  /\ \A c \in Client :
       cpc[c] = "open" ~> \/ cpc[c] \in {"done", "failed"}
                         \/ killed # {}
                         \/ c \in abandoned

=============================================================================

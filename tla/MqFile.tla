------------------------------- MODULE MqFile -------------------------------
(***************************************************************************)
(* SP_HW9/52_3: files over POSIX message queues.  A client makes a queue   *)
(* named by its pid and sends its name and a file name to the server's     *)
(* queue; the server forks a child, which sends the file in chunks.        *)
(*                                                                         *)
(* External: a queue holds MaxMsg messages, send sleeps while it is full   *)
(* and receive while it is empty; a name outlives the process that made    *)
(* it.  A queue is named by its maker here, the child by its client.       *)
(***************************************************************************)
EXTENDS Integers, Sequences, FiniteSets

CONSTANTS
  Server, Client,   \* processes; each is started at most once
  Pid, PidOf,       \* pids, and that of every client
  Content,          \* Content[f]: the chunks of file f
  WantOf,           \* the file a client asks for, or NoFile
  MaxMsg,           \* mq_maxmsg
  NoFile, None,     \* no such file; no queue
  MaxSignal         \* bound: how many processes a signal ends

File  == DOMAIN Content
Chunk == UNION {{Content[f][i] : i \in DOMAIN Content[f]} : f \in File}

ASSUME MqFileAssumption ==
  /\ PidOf \in [Client -> Pid]
  /\ \A f \in File : Content[f] \in Seq(Chunk)
  /\ WantOf \in [Client -> File \cup {NoFile}]
  /\ NoFile \notin File
  /\ None \notin Client \cup Server
  /\ Server \cap Client = {}
  /\ MaxMsg \in Nat \ {0}
  /\ MaxSignal \in Nat

VARIABLES
  serverName,  \* the server whose queue has the server's name, or None
  requests,    \* requests[s]: the queue server s made
  clientName,  \* clientName[p]: the queue that has the name with pid p
  box,         \* box[c]: the queue client c made
  spc,         \* servers: the next statement, where it ended if it did
  zombies,     \*   children ended and not yet waited for
  sigchld,     \* servers with SIGCHLD pending
  cpc,         \* clients: the next statement, where it was killed if it was
  sq,          \*   the request queue it has opened
  got,         \*   the chunks it has received
  kid,         \* children: the next statement
  parent,      \*   the server that forked it
  to,          \*   the queue it has opened
  pos,         \*   chunks read from the file
  killed,      \* servers and clients ended by SIGKILL, clients by any signal
  termed,      \* servers whose cleanup ran
  kidTermed    \* clients whose child ended by a signal

serverVars == <<spc, zombies, sigchld>>
clientVars == <<cpc, sq, got>>
kidVars    == <<kid, parent, to, pos>>
signals    == <<killed, termed, kidTermed>>
vars == <<serverName, requests, clientName, box, serverVars, clientVars,
          kidVars, signals>>

Msg == [type : {"data"}, chunk : Chunk] \cup [type : {"end", "failure"}]

Room(q) == Len(q) < MaxMsg

-----------------------------------------------------------------------------
(* A server.                                                               *)

Serving(s) == spc[s] = "receive" /\ s \notin killed \cup termed

\* From signal() on: the handler of SIGINT and SIGTERM may run.
ServerRuns(s) == /\ spc[s] \in {"open", "exists", "receive"}
                 /\ s \notin killed \cup termed

\* A statement that touches no queue.
ServerStep(s, from, onto) ==
  /\ spc[s] = from /\ s \notin killed \cup termed
  /\ spc' = [spc EXCEPT ![s] = onto]
  /\ UNCHANGED <<requests, clientName, box, zombies, sigchld, clientVars,
                 kidVars, signals>>

\* The handlers are installed before the queue is made.
StartServer(s) == ServerStep(s, "new", "open") /\ UNCHANGED serverName

\* mq_open(O_CREAT|O_EXCL): a second server finds the name.
OpenServer(s) ==
  /\ ServerStep(s, "open", IF serverName = None THEN "receive" ELSE "exists")
  /\ serverName' = IF serverName = None THEN s ELSE serverName

\* EEXIST: perror and exit.
ServerExists(s) == ServerStep(s, "exists", "exited") /\ UNCHANGED serverName

\* mq_receive and fork; the child begins in serveRequest.
Receive(s) ==
  /\ Serving(s)
  /\ requests[s] # <<>>
  /\ LET c == Head(requests[s]) IN
       /\ kid' = [kid EXCEPT ![c] = "queue"]
       /\ parent' = [parent EXCEPT ![c] = s]
  /\ requests' = [requests EXCEPT ![s] = Tail(@)]
  /\ UNCHANGED <<serverName, clientName, box, serverVars, clientVars, to, pos,
                 signals>>

\* Mutant: one waitpid per SIGCHLD.
GrimReaper_Once(s) ==
  /\ Serving(s)
  /\ s \in sigchld
  /\ \E c \in zombies[s] :
       zombies' = [zombies EXCEPT ![s] = @ \ {c}]
  /\ sigchld' = sigchld \ {s}
  /\ UNCHANGED <<serverName, requests, clientName, box, spc, clientVars,
                 kidVars, signals>>

\* The handler waits for every child that has ended; SIGCHLD does not queue.
GrimReaper(s) ==
  /\ Serving(s)
  /\ s \in sigchld
  /\ zombies' = [zombies EXCEPT ![s] = {}]
  /\ sigchld' = sigchld \ {s}
  /\ UNCHANGED <<serverName, requests, clientName, box, spc, clientVars,
                 kidVars, signals>>

MaySignal == Cardinality(killed) + Cardinality(termed)
               + Cardinality(kidTermed) < MaxSignal

\* SIGINT or SIGTERM, from the installation of the handler to the exit:
\* whatever queue has the server's name loses it, another server's too.
Cleanup(s) ==
  /\ ServerRuns(s) /\ MaySignal
  /\ serverName' = None
  /\ termed' = termed \cup {s}
  /\ UNCHANGED <<requests, clientName, box, serverVars, clientVars, kidVars,
                 killed, kidTermed>>

-----------------------------------------------------------------------------
(* The child that serves client c.                                         *)

Exit(c) ==
  /\ kid' = [kid EXCEPT ![c] = "ended"]
  /\ IF Serving(parent[c])
       THEN /\ zombies' = [zombies EXCEPT ![parent[c]] = @ \cup {c}]
            /\ sigchld' = sigchld \cup {parent[c]}
       ELSE UNCHANGED <<zombies, sigchld>>

OpenQueue(c) ==
  /\ kid[c] = "queue"
  /\ LET q == clientName[PidOf[c]] IN
       \/ /\ q # None
          /\ kid' = [kid EXCEPT ![c] = IF WantOf[c] = NoFile THEN "refuse"
                                                             ELSE "copy"]
          /\ to' = [to EXCEPT ![c] = q]
          /\ UNCHANGED <<zombies, sigchld>>
       \/ q = None /\ Exit(c) /\ UNCHANGED to
  /\ UNCHANGED <<serverName, requests, clientName, box, spc, clientVars,
                 parent, pos, signals>>

SendTo(c, m) ==
  /\ Room(box[to[c]])
  /\ box' = [box EXCEPT ![to[c]] = Append(@, m)]
  /\ UNCHANGED <<serverName, requests, clientName, spc, clientVars, parent, to,
                 signals>>

\* open() of the file failed.
SendFailure(c) == /\ kid[c] = "refuse"
                  /\ SendTo(c, [type |-> "failure"])
                  /\ Exit(c)
                  /\ UNCHANGED pos

SendData(c) ==
  /\ kid[c] = "copy"
  /\ pos[c] < Len(Content[WantOf[c]])
  /\ SendTo(c, [type |-> "data", chunk |-> Content[WantOf[c]][pos[c] + 1]])
  /\ pos' = [pos EXCEPT ![c] = @ + 1]
  /\ UNCHANGED <<kid, zombies, sigchld>>

\* Mutant: the end mark does not wait for the last chunk.
SendEnd_Early(c) == /\ kid[c] = "copy"
                    /\ SendTo(c, [type |-> "end"])
                    /\ Exit(c)
                    /\ UNCHANGED pos

SendEnd(c) == /\ kid[c] = "copy"
              /\ pos[c] = Len(Content[WantOf[c]])
              /\ SendTo(c, [type |-> "end"])
              /\ Exit(c)
              /\ UNCHANGED pos

\* The child has inherited the server's handler: it removes the server's name.
KidCleanup(c) ==
  /\ kid[c] \in {"queue", "refuse", "copy"} /\ MaySignal
  /\ serverName' = None
  /\ kidTermed' = kidTermed \cup {c}
  /\ Exit(c)
  /\ UNCHANGED <<requests, clientName, box, spc, clientVars, parent, to, pos,
                 killed, termed>>

-----------------------------------------------------------------------------
(* A client.                                                               *)

ClientRuns(c) == c \notin killed /\ cpc[c] \in {"connect", "send", "first",
                                                "more", "unlink", "refused"}

Step(c, from, onto) == /\ c \notin killed
                       /\ cpc[c] = from
                       /\ cpc' = [cpc EXCEPT ![c] = onto]

\* mq_open(O_CREAT|O_EXCL): a queue left at the name ends the client.
MakeQueue(c) ==
  /\ \A d \in Client : ClientRuns(d) => PidOf[d] # PidOf[c]
  /\ Step(c, "new", IF clientName[PidOf[c]] = None THEN "connect" ELSE "taken")
  /\ clientName' = [clientName EXCEPT ![PidOf[c]] = IF @ = None THEN c ELSE @]
  /\ UNCHANGED <<serverName, requests, box, serverVars, sq, got, kidVars,
                 signals>>

\* Without a server the client exits, and its queue stays.
Connect(c) ==
  /\ Step(c, "connect", IF serverName = None THEN "noserver" ELSE "send")
  /\ sq' = [sq EXCEPT ![c] = serverName]
  /\ UNCHANGED <<serverName, requests, clientName, box, serverVars, got,
                 kidVars, signals>>

SendRequest(c) ==
  /\ Step(c, "send", "first")
  /\ Room(requests[sq[c]])
  /\ requests' = [requests EXCEPT ![sq[c]] = Append(@, c)]
  /\ UNCHANGED <<serverName, clientName, box, serverVars, sq, got, kidVars,
                 signals>>

\* mq_receive and printf: the queue is the one the client has open.
TakeChunk(c) ==
  /\ box[c] # <<>>
  /\ box' = [box EXCEPT ![c] = Tail(@)]
  /\ got' = [got EXCEPT ![c] = IF Head(box[c]).type = "data"
                                 THEN Append(@, Head(box[c]).chunk) ELSE @]
  /\ UNCHANGED <<serverName, requests, clientName, serverVars, sq, kidVars,
                 signals>>

After(m) == CASE m.type = "data" -> "more"
              [] m.type = "end" -> "unlink"
              [] m.type = "failure" -> "refused"

ReceiveFirst(c) == /\ TakeChunk(c)
                   /\ Step(c, "first", After(Head(box[c])))

ReceiveMore(c) == /\ TakeChunk(c)
                  /\ Step(c, "more", After(Head(box[c])))

\* Mutant: the client of a refused request does not remove its queue.
Unlink_NotRefused(c) ==
  /\ \/ Step(c, "unlink", "done")
     \/ Step(c, "refused", "refusedDone")
  /\ clientName' = [clientName EXCEPT
                      ![PidOf[c]] = IF cpc[c] = "unlink" THEN None ELSE @]
  /\ UNCHANGED <<serverName, requests, box, serverVars, sq, got, kidVars,
                 signals>>

\* mq_unlink and exit, after the end mark or the refusal.
Unlink(c) ==
  /\ \/ Step(c, "unlink", "done")
     \/ Step(c, "refused", "refusedDone")
  /\ clientName' = [clientName EXCEPT ![PidOf[c]] = None]
  /\ UNCHANGED <<serverName, requests, box, serverVars, sq, got, kidVars,
                 signals>>

\* SIGKILL to a server, any signal to a client: nothing is removed.
Kill(p) ==
  /\ MaySignal
  /\ \/ p \in Client /\ ClientRuns(p)
     \/ p \in Server /\ ServerRuns(p)
  /\ killed' = killed \cup {p}
  /\ UNCHANGED <<serverName, requests, clientName, box, serverVars, clientVars,
                 kidVars, termed, kidTermed>>

-----------------------------------------------------------------------------
Init == /\ serverName = None
        /\ requests = [s \in Server |-> <<>>]
        /\ clientName = [p \in Pid |-> None]
        /\ box = [c \in Client |-> <<>>]
        /\ spc = [s \in Server |-> "new"]
        /\ zombies = [s \in Server |-> {}]
        /\ sigchld = {}
        /\ cpc = [c \in Client |-> "new"]
        /\ sq = [c \in Client |-> None]
        /\ got = [c \in Client |-> <<>>]
        /\ kid = [c \in Client |-> "none"]
        /\ parent = [c \in Client |-> None]
        /\ to = [c \in Client |-> None]
        /\ pos = [c \in Client |-> 0]
        /\ killed = {}
        /\ termed = {}
        /\ kidTermed = {}

KidGoesOn(c) == \/ OpenQueue(c)
                \/ SendFailure(c)
                \/ SendData(c)
                \/ SendEnd(c)

ClientGoesOn(c) == \/ Connect(c)
                   \/ SendRequest(c)
                   \/ ReceiveFirst(c)
                   \/ ReceiveMore(c)
                   \/ Unlink(c)

ServerGoesOn(s) == \/ OpenServer(s)
                   \/ ServerExists(s)
                   \/ Receive(s)

Next == \/ \E s \in Server : \/ StartServer(s)
                             \/ ServerGoesOn(s)
                             \/ GrimReaper(s)
                             \/ Cleanup(s)
        \/ \E c \in Client : \/ KidGoesOn(c)
                             \/ KidCleanup(c)
                             \/ MakeQueue(c)
                             \/ ClientGoesOn(c)
        \/ \E p \in Server \cup Client : Kill(p)

Spec == Init /\ [][Next]_vars

\* A process whose system call can return goes on; a pending signal is handled.
FairSpec == /\ Spec
            /\ \A s \in Server : /\ WF_vars(ServerGoesOn(s))
                                 /\ WF_vars(GrimReaper(s))
            /\ \A c \in Client : WF_vars(KidGoesOn(c)) /\ WF_vars(ClientGoesOn(c))

-----------------------------------------------------------------------------
(* Properties.                                                             *)

\* How far a client's transfer is.
End == [c \in Client |-> CASE cpc[c] \in {"unlink", "done"} -> "complete"
                           [] cpc[c] \in {"refused", "refusedDone"} -> "refused"
                           [] OTHER -> "open"]

\* posixmq_file_client.c:62-100: what a client has received is a prefix of the
\* file it asked for, all of it at the end mark, and it is refused only when
\* there is no file, whoever was killed and whose pid it has.
Channel == INSTANCE FileChannel WITH end <- End

ImplementsFileChannel == Channel!Spec

\* The handler ran where the server's name was not the process's own: in a
\* child, or in a server that had not made its queue or never would.
StrayCleanup == \/ kidTermed # {}
                \/ \E t \in termed : spc[t] # "receive"

ClientNamesFollow ==
  \A p \in Pid : LET c == clientName[p] IN
    c # None => PidOf[c] = p /\ (ClientRuns(c) \/ c \in killed
                                               \/ cpc[c] = "noserver")

ServerNameFollows ==
  /\ serverName # None => Serving(serverName) \/ serverName \in killed
  /\ \A s \in Server : Serving(s) => serverName = s \/ StrayCleanup

\* posixmq_file_server.c:3-11, 69-80, posixmq_file_client.c:31-36, 97-105: a
\* client's name is left behind only by a client that was killed or found no
\* server; the server's only by a killed server.  A serving one keeps its name
\* unless the handler ran in a child or in a server that was not serving.
NamesFollowTheLiving == ClientNamesFollow /\ ServerNameFollows

\* The answer to c cannot come, or not to its end: the server, the child or the
\* client itself was ended by a signal.
Bereft(c) == \/ c \in killed \cup kidTermed
             \/ sq[c] \in killed \cup termed

\* A client that has sent its request ends.  A child ends, unless the client it
\* serves was killed and the queue left has no room for the file.  Every ended
\* child is waited for.
TransferEnds ==
  /\ \A c \in Client :
       /\ cpc[c] = "first" ~> cpc[c] \in {"done", "refusedDone"} \/ Bereft(c)
       /\ kid[c] = "queue" ~>
            \/ kid[c] = "ended"
            \/ c \in killed /\ kid[c] = "copy" /\ Len(box[c]) = MaxMsg
  /\ \A s \in Server : zombies[s] # {} ~> zombies[s] = {} \/ ~Serving(s)

=============================================================================

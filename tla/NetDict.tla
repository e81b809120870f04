------------------------------ MODULE NetDict ------------------------------
(***************************************************************************)
(* SP_HW11: the dictionary over sockets.  Parts 1 and 2 are one program    *)
(* over a Unix or a TCP stream: a client connects at its first lookup, and *)
(* a child of the server holds the dialogue.  In part 3 one server answers *)
(* datagrams.  Which part runs is chosen once, in transport.               *)
(*                                                                         *)
(* External: a stream neither loses nor reorders and hands over a record   *)
(* whole; an end that is closed with unread data resets it; datagrams are  *)
(* lost, doubled and overtake each other.  A connection and the child that *)
(* serves it are named by their client.                                    *)
(***************************************************************************)
EXTENDS Naturals, FiniteSets, Sequences

CONSTANTS
  Server, Client,  \* processes; each is started at most once
  Word, Dict,      \* words, and those the data file has
  XXXX, Junk,      \* the text for "not found", and any text that is no answer
  Unset,           \* what the text of a record never filled may be
  None,
  MaxAsk, MaxFault \* bounds: lookups of each client; processes killed, and
                   \* clients with datagrams lost or doubled, together

ASSUME NetDictAssumption ==
  /\ Dict \subseteq Word
  /\ {XXXX, Junk} \cap Word = {} /\ XXXX # Junk
  /\ Unset \subseteq {XXXX, Junk}
  /\ Server \cap Client = {} /\ None \notin Server \cup Client
  /\ MaxAsk \in [Client -> Nat] /\ MaxFault \in Nat

\* A definition is represented by its word.
Dictrec == [word : Word, text : Word \cup {XXXX, Junk}]

VARIABLES
  transport,  \* "unix", "inet" or "udp"
  spc,        \* servers: the next statement, "new" or "exited"
  at,         \* the server that has the socket name or the port, or None
  backlog,    \* backlog[s]: connections not yet accepted
  kid,        \* connections: "none", "queued", "accepted", and then where
              \*   the child is, "recv", "reply" or "closed"
  kreq,       \*   what the child (udp: the server) has received
  held,       \*   held[s]: accepted sockets server s itself has open
  up, down,   \*   records under way to the child and to the client
  reset,      \*   connections that were reset
  net,        \* datagrams: [src, dst, rec, id]
  cpc,        \* clients: the next statement
  rec,        \*   the record tryit of main
  asked,      \*   lookups so far
  want,       \*   history: the word last asked for
  result,     \*   history: what lookup returned, and the text shown
  cut,        \* history: clients whose child was killed
  orphaned,   \* history: clients whose server was killed before it forked
  dup, lost,  \* history: clients with datagrams doubled or lost
  killed      \* servers and children killed

serverVars == <<spc, at, backlog>>
connVars   == <<kid, kreq, held, up, down, reset>>
clientVars == <<cpc, rec, asked, want, result>>
faultVars  == <<cut, orphaned, dup, lost, killed>>
vars == <<transport, serverVars, connVars, net, clientVars, faultVars>>

MayFail == Cardinality(killed) + Cardinality(lost) + Cardinality(dup) < MaxFault

Alive(s)    == s \notin killed /\ spc[s] \notin {"new", "exited"}
Kid(c)      == <<"child", c>>
KidRuns(c)  == kid[c] \in {"recv", "reply"}
Gone(c)     == cpc[c] = "exited"
\* The server's end of c's connection is closed.
Hangup(c)   == kid[c] = "closed" /\ \A s \in Server : c \notin held[s]

-----------------------------------------------------------------------------
(* The server of parts 1 and 2, and its children.                          *)

\* usock_server removes the socket's name, whoever has it.
StartUnix(s) ==
  /\ spc[s] = "new"
  /\ spc' = [spc EXCEPT ![s] = "accept"]
  /\ at' = s
  /\ UNCHANGED <<transport, backlog, connVars, net, clientVars, faultVars>>

\* isock_server: bind fails while the port is in use, by a child too.
StartInet(s) ==
  /\ spc[s] = "new"
  /\ LET busy == at # None \/ \E c \in Client : KidRuns(c)
     IN  /\ spc' = [spc EXCEPT ![s] = IF busy THEN "exited" ELSE "accept"]
         /\ at' = IF busy THEN at ELSE s
  /\ UNCHANGED <<transport, backlog, connVars, net, clientVars, faultVars>>

\* accept: the server itself has the connection now.
Accept(s) ==
  /\ Alive(s) /\ spc[s] = "accept" /\ backlog[s] # <<>>
  /\ LET c == Head(backlog[s])
     IN  /\ kid' = [kid EXCEPT ![c] = "accepted"]
         /\ held' = [held EXCEPT ![s] = @ \cup {c}]
  /\ backlog' = [backlog EXCEPT ![s] = Tail(@)]
  /\ spc' = [spc EXCEPT ![s] = "fork"]
  /\ UNCHANGED <<transport, at, kreq, up, down, reset, net, clientVars,
                 faultVars>>

\* The child has the socket as well.
Fork(s) ==
  /\ Alive(s) /\ spc[s] = "fork"
  /\ \E c \in held[s] : /\ kid[c] = "accepted"
                        /\ kid' = [kid EXCEPT ![c] = "recv"]
  /\ spc' = [spc EXCEPT ![s] = "close"]
  /\ UNCHANGED <<transport, at, backlog, kreq, held, up, down, reset, net,
                 clientVars, faultVars>>

\* The sockets that server s alone has open, with data nobody has read.
Unread(s) == {c \in held[s] : kid[c] \in {"accepted", "closed"} /\ up[c] # <<>>}

\* Mutant: the parent does not close the connected socket.
CloseSocket_KeepOpen(s) ==
  /\ Alive(s) /\ spc[s] = "close"
  /\ spc' = [spc EXCEPT ![s] = "accept"]
  /\ UNCHANGED <<transport, at, backlog, connVars, net, clientVars, faultVars>>

\* The parent goes on to the next connection.
CloseSocket(s) ==
  /\ Alive(s) /\ spc[s] = "close"
  /\ held' = [held EXCEPT ![s] = {}]
  /\ reset' = reset \cup Unread(s)
  /\ spc' = [spc EXCEPT ![s] = "accept"]
  /\ UNCHANGED <<transport, at, backlog, kid, kreq, up, down, net, clientVars,
                 faultVars>>

ChildReceive(c) ==
  /\ kid[c] = "recv" /\ up[c] # <<>>
  /\ kreq' = [kreq EXCEPT ![c] = Head(up[c])]
  /\ up' = [up EXCEPT ![c] = Tail(@)]
  /\ kid' = [kid EXCEPT ![c] = "reply"]
  /\ UNCHANGED <<transport, serverVars, held, down, reset, net, clientVars,
                 faultVars>>

\* Mutant: a word that is not found leaves the text as it came.
Reply_Stale(r) == [r EXCEPT !.text = IF r.word \in Dict THEN r.word ELSE @]

\* lookup fills in the text it finds; XXXX is put where it found none.
Reply(r) == [r EXCEPT !.text = IF r.word \in Dict THEN r.word ELSE XXXX]

\* send; to a client that is gone it ends the child.
ChildReply(c) ==
  /\ kid[c] = "reply"
  /\ kid' = [kid EXCEPT ![c] = IF Gone(c) THEN "closed" ELSE "recv"]
  /\ down' = [down EXCEPT ![c] = IF Gone(c) THEN @ ELSE Append(@, Reply(kreq[c]))]
  /\ kreq' = [kreq EXCEPT ![c] = None]
  /\ UNCHANGED <<transport, serverVars, held, up, reset, net, clientVars,
                 faultVars>>

\* recv returns 0, or fails, once the client is gone.
ChildEnds(c) ==
  /\ kid[c] = "recv" /\ up[c] = <<>> /\ Gone(c)
  /\ kid' = [kid EXCEPT ![c] = "closed"]
  /\ UNCHANGED <<transport, serverVars, kreq, held, up, down, reset, net,
                 clientVars, faultVars>>

-----------------------------------------------------------------------------
(* The client's main and lookup.                                           *)

\* A word is read and lookup called; the text is left from the last one.
Ask(c) ==
  /\ cpc[c] = "prompt" /\ asked[c] < MaxAsk[c]
  /\ \E w \in Word : /\ rec' = [rec EXCEPT ![c].word = w]
                     /\ want' = [want EXCEPT ![c] = w]
  /\ cpc' = [cpc EXCEPT ![c] = IF asked[c] = 0 THEN "connect" ELSE "send"]
  /\ asked' = [asked EXCEPT ![c] = @ + 1]
  /\ result' = [result EXCEPT ![c] = None]
  /\ UNCHANGED <<transport, serverVars, connVars, net, faultVars>>

\* The client's end of the connection is closed with the process.
Leave(c) == cpc' = [cpc EXCEPT ![c] = "exited"]

Quit(c) ==
  /\ cpc[c] = "prompt"
  /\ Leave(c)
  /\ UNCHANGED <<transport, serverVars, connVars, net, rec, asked, want, result,
                 faultVars>>

Connect(c) ==
  /\ cpc[c] = "connect" /\ at # None
  /\ kid' = [kid EXCEPT ![c] = "queued"]
  /\ backlog' = [backlog EXCEPT ![at] = Append(@, c)]
  /\ cpc' = [cpc EXCEPT ![c] = "send"]
  /\ UNCHANGED <<transport, spc, at, kreq, held, up, down, reset, net, rec,
                 asked, want, result, faultVars>>

Refused(c) ==
  /\ cpc[c] = "connect" /\ at = None
  /\ Leave(c)
  /\ UNCHANGED <<transport, serverVars, connVars, net, rec, asked, want, result,
                 faultVars>>

\* The whole record is sent, old text and all.  Written to a closed Unix
\* socket, SIGPIPE ends the client; TCP finds out later.
Send(c) ==
  /\ cpc[c] = "send"
  /\ \/ /\ ~Hangup(c)
        /\ up' = [up EXCEPT ![c] = Append(@, rec[c])]
        /\ cpc' = [cpc EXCEPT ![c] = "recv"]
     \/ /\ Hangup(c) /\ transport = "inet"
        /\ cpc' = [cpc EXCEPT ![c] = "recv"]
        /\ UNCHANGED up
     \/ /\ Hangup(c)
        /\ Leave(c)
        /\ UNCHANGED up
  /\ UNCHANGED <<transport, serverVars, kid, kreq, held, down, reset, net, rec,
                 asked, want, result, faultVars>>

\* lookup decides by the text of the record it has now.
Return(c, r) ==
  /\ cpc' = [cpc EXCEPT ![c] = "prompt"]
  /\ rec' = [rec EXCEPT ![c] = r]
  /\ result' = [result EXCEPT ![c] = IF r.text = XXXX THEN "NOTFOUND"
                                                      ELSE r.text]
  /\ UNCHANGED <<transport, serverVars, kid, kreq, held, up, reset, asked,
                 want, faultVars>>

Recv(c) ==
  /\ cpc[c] = "recv" /\ down[c] # <<>>
  /\ Return(c, Head(down[c]))
  /\ down' = [down EXCEPT ![c] = Tail(@)]
  /\ UNCHANGED net

\* recv returns 0, which is no error to lookup: the query is the answer.
RecvNothing(c) ==
  /\ cpc[c] = "recv" /\ down[c] = <<>> /\ Hangup(c) /\ c \notin reset
  /\ Return(c, rec[c])
  /\ UNCHANGED <<down, net>>

RecvFails(c) ==
  /\ cpc[c] = "recv" /\ down[c] = <<>> /\ c \in reset
  /\ Leave(c)
  /\ UNCHANGED <<transport, serverVars, connVars, net, rec, asked, want, result,
                 faultVars>>

-----------------------------------------------------------------------------
(* Part 3: datagrams.                                                      *)

StartUdp(s) ==
  /\ spc[s] = "new"
  /\ spc' = [spc EXCEPT ![s] = IF at = None THEN "wait" ELSE "exited"]
  /\ at' = IF at = None THEN s ELSE at
  /\ UNCHANGED <<transport, backlog, connVars, net, clientVars, faultVars>>

\* Nobody at the port: the datagram is dropped.
SendQuery(c) ==
  /\ cpc[c] \in {"connect", "send"}
  /\ net' = net \cup {[src |-> c, dst |-> at, rec |-> rec[c], id |-> asked[c]]}
  /\ cpc' = [cpc EXCEPT ![c] = "recv"]
  /\ UNCHANGED <<transport, serverVars, connVars, rec, asked, want, result,
                 faultVars>>

\* The port is the server's name: it may be the next server by now.
TakeQuery(s) ==
  /\ Alive(s) /\ spc[s] = "wait"
  /\ \E d \in net : /\ d.dst \in Server /\ at = s
                    /\ kreq' = [kreq EXCEPT ![s] = d]
                    /\ net' = net \ {d}
  /\ spc' = [spc EXCEPT ![s] = "reply"]
  /\ UNCHANGED <<transport, at, backlog, kid, held, up, down, reset, clientVars,
                 faultVars>>

SendReply(s) ==
  /\ Alive(s) /\ spc[s] = "reply"
  /\ net' = net \cup {[src |-> s, dst |-> kreq[s].src, id |-> kreq[s].id,
                       rec |-> Reply(kreq[s].rec)]}
  /\ spc' = [spc EXCEPT ![s] = "wait"]
  /\ kreq' = [kreq EXCEPT ![s] = None]
  /\ UNCHANGED <<transport, at, backlog, kid, held, up, down, reset, clientVars,
                 faultVars>>

\* recvfrom takes whatever comes first.
RecvAny(c) ==
  /\ cpc[c] = "recv"
  /\ \E d \in net : d.dst = c /\ Return(c, d.rec) /\ net' = net \ {d}
  /\ UNCHANGED down

Lose == /\ MayFail
        /\ \E d \in net :
             /\ net' = net \ {d}
             /\ lost' = lost \cup ({d.src, d.dst} \cap Client)
        /\ UNCHANGED <<transport, serverVars, connVars, clientVars, cut, orphaned,
                       dup, killed>>

\* The copy has an id of its own, 0, to be told from the original.
Double == /\ MayFail
          /\ \E d \in net :
               /\ net' = net \cup {[d EXCEPT !.id = 0]}
               /\ dup' = dup \cup ({d.src, d.dst} \cap Client)
          /\ UNCHANGED <<transport, serverVars, connVars, clientVars, cut,
                         orphaned, lost, killed>>

-----------------------------------------------------------------------------
\* A server killed resets what it has not accepted, and ends a connection it
\* has accepted and has no child for; its children go on.
KillServer(s) ==
  /\ Alive(s) /\ MayFail
  /\ killed' = killed \cup {s}
  /\ at' = IF at = s THEN None ELSE at
  /\ LET queued == {backlog[s][i] : i \in DOMAIN backlog[s]}
         alone  == {c \in held[s] : kid[c] = "accepted"}
     IN  /\ reset' = reset \cup queued \cup Unread(s)
         /\ kid' = [c \in Client |-> IF c \in queued \cup alone THEN "closed"
                                                              ELSE kid[c]]
         /\ orphaned' = orphaned \cup alone
  /\ held' = [held EXCEPT ![s] = {}]
  /\ UNCHANGED <<transport, spc, backlog, kreq, up, down, net, clientVars, cut,
                 dup, lost>>

\* A child killed: unread data reset the connection, else it just ends.
KillChild(c) ==
  /\ KidRuns(c) /\ MayFail
  /\ killed' = killed \cup {Kid(c)}
  /\ kid' = [kid EXCEPT ![c] = "closed"]
  /\ reset' = IF up[c] # <<>> /\ \A s \in Server : c \notin held[s]
                THEN reset \cup {c} ELSE reset
  /\ cut' = cut \cup {c}
  /\ UNCHANGED <<transport, serverVars, kreq, held, up, down, net, clientVars,
                 orphaned, dup, lost>>

Init == /\ transport \in {"unix", "inet", "udp"}
        /\ spc = [s \in Server |-> "new"]
        /\ at = None
        /\ backlog = [s \in Server |-> <<>>]
        /\ kid = [c \in Client |-> "none"]
        /\ kreq = [p \in Server \cup Client |-> None]
        /\ held = [s \in Server |-> {}]
        /\ up = [c \in Client |-> <<>>]
        /\ down = [c \in Client |-> <<>>]
        /\ reset = {}
        /\ net = {}
        /\ cpc = [c \in Client |-> "prompt"]
        /\ rec \in [Client -> [word : {None}, text : Unset]]
        /\ asked = [c \in Client |-> 0]
        /\ want = [c \in Client |-> None]
        /\ result = [c \in Client |-> None]
        /\ cut = {} /\ orphaned = {} /\ dup = {} /\ lost = {} /\ killed = {}

Lookup7(c) == /\ transport = "unix"
              /\ Connect(c) \/ Refused(c) \/ Send(c) \/ Recv(c)
                   \/ RecvNothing(c) \/ RecvFails(c)
Lookup8(c) == /\ transport = "inet"
              /\ Connect(c) \/ Refused(c) \/ Send(c) \/ Recv(c)
                   \/ RecvNothing(c) \/ RecvFails(c)
Lookup9(c) == transport = "udp" /\ (SendQuery(c) \/ RecvAny(c))

UsockChild(c) == /\ transport = "unix"
                 /\ ChildReceive(c) \/ ChildReply(c) \/ ChildEnds(c)
IsockChild(c) == /\ transport = "inet"
                 /\ ChildReceive(c) \/ ChildReply(c) \/ ChildEnds(c)
Accepting(s) == Accept(s) \/ Fork(s) \/ CloseSocket(s)
UdpServer(s)  == transport = "udp" /\ (TakeQuery(s) \/ SendReply(s))

Network == transport = "udp" /\ (Lose \/ Double)

Next == \/ \E s \in Server : \/ transport = "unix" /\ StartUnix(s)
                             \/ transport = "inet" /\ StartInet(s)
                             \/ transport = "udp" /\ StartUdp(s)
                             \/ Accepting(s)
                             \/ UdpServer(s)
                             \/ KillServer(s)
        \/ \E c \in Client : \/ Ask(c)
                             \/ Quit(c)
                             \/ Lookup7(c)
                             \/ Lookup8(c)
                             \/ Lookup9(c)
                             \/ UsockChild(c)
                             \/ IsockChild(c)
                             \/ KillChild(c)
        \/ Network

Spec == Init /\ [][Next]_vars

\* A process whose system call can return goes on; nobody has to ask.
FairSpec ==
  /\ Spec
  /\ \A s \in Server : WF_vars(Accepting(s)) /\ WF_vars(UdpServer(s))
  /\ \A c \in Client : /\ WF_vars(Lookup7(c) \/ Lookup8(c) \/ Lookup9(c))
                       /\ WF_vars(UsockChild(c) \/ IsockChild(c))

-----------------------------------------------------------------------------
(* Properties.                                                             *)

\* lookup7.c:42-58, lookup8.c:48-63, lookup9.c:40-57: a lookup returns the
\* definition of the word asked for, or that it has none.  The exceptions: a
\* stream whose child was killed, and over TCP one whose server was killed
\* between accept and fork (either way the end of file is taken for an
\* answer), and datagrams of which a copy was still under way.
AnswerIsToTheQuestion ==
  \A c \in Client :
    result[c] # None =>
      \/ result[c] = IF want[c] \in Dict THEN want[c] ELSE "NOTFOUND"
      \/ transport # "udp" /\ c \in cut
      \/ transport = "inet" /\ c \in orphaned
      \/ transport = "udp" /\ c \in dup

\* usock_server.c:66-105, udp_server.c:47-84: a client is not left in recv.
\* Over a stream that holds whoever is killed; over datagrams, unless one of
\* the client's was lost or sent to nobody or a server was killed.  A child
\* does not outlive its client.
LookupEnds ==
  \A c \in Client :
    /\ cpc[c] = "recv" ~>
         \/ cpc[c] # "recv"
         \/ /\ transport = "udp"
            /\ \/ c \in lost \/ killed # {}
               \/ \E d \in net : d.src = c /\ d.dst = None
    /\ Gone(c) ~> ~KidRuns(c)

=============================================================================

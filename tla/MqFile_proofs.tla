----------------------------- MODULE MqFile_proofs -----------------------------
(***************************************************************************)
(* Proofs about MqFile, for every number of servers, clients and pids, any *)
(* files, any size of the queues and any number of signals: the names that *)
(* are left are those of the dead, and every client has what FileChannel   *)
(* promises it.                                                            *)
(***************************************************************************)
EXTENDS MqFile, SequenceTheorems, TLAPS

ServerPC == {"new", "open", "exists", "receive", "exited"}
ClientPC == {"new", "taken", "connect", "noserver", "send", "first", "more",
             "unlink", "done", "refused", "refusedDone"}
KidPC    == {"none", "queue", "refuse", "copy", "ended"}

\* The request has been sent; it has been answered, at least in part.
HasSent(c)  == cpc[c] \in {"first", "more", "unlink", "done", "refused",
                           "refusedDone"}
HasHeard(c) == HasSent(c) /\ cpc[c] # "first"

\* Type correctness of every variable; no queue holds more than MaxMsg.
TypeOK ==
  /\ serverName \in Server \cup {None}
  /\ requests \in [Server -> Seq(Client)]
  /\ clientName \in [Pid -> Client \cup {None}]
  /\ box \in [Client -> Seq(Msg)]
  /\ spc \in [Server -> ServerPC]
  /\ zombies \in [Server -> SUBSET Client]
  /\ sigchld \subseteq Server
  /\ cpc \in [Client -> ClientPC]
  /\ sq \in [Client -> Server \cup {None}]
  /\ got \in [Client -> Seq(Chunk)]
  /\ kid \in [Client -> KidPC]
  /\ parent \in [Client -> Server \cup {None}]
  /\ to \in [Client -> Client \cup {None}]
  /\ pos \in [Client -> Nat]
  /\ killed \subseteq Server \cup Client
  /\ termed \subseteq Server
  /\ kidTermed \subseteq Client
  /\ \A s \in Server : Len(requests[s]) <= MaxMsg
  /\ \A c \in Client : Len(box[c]) <= MaxMsg

\* A child has a parent, and a client that will send a request a queue for it.
Linked == \A c \in Client : /\ kid[c] # "none" => parent[c] \in Server
                            /\ cpc[c] = "send" => sq[c] \in Server

\* From its creation to its removal a client's queue has the client's name.
Named == \A c \in Client :
           cpc[c] \in {"connect", "send", "first", "more", "unlink", "refused"}
             => clientName[PidOf[c]] = c

\* A client sends one request, and one child is forked for it.
Asked ==
  /\ \A s \in Server : \A i \in 1..Len(requests[s]) :
       /\ HasSent(requests[s][i]) /\ kid[requests[s][i]] = "none"
       /\ \A t \in Server : \A j \in 1..Len(requests[t]) :
            requests[t][j] = requests[s][i] => t = s /\ j = i
  /\ \A c \in Client : ~HasSent(c) => kid[c] = "none"

\* The file client c asked for.
Want(c) == Content[WantOf[c]]

Missing(c) == WantOf[c] = NoFile

\* What a child has sent is what its client has received and what it has in
\* its queue.
Sends(c) ==
  /\ kid[c] \in {"none", "queue", "refuse"} => /\ ~HasHeard(c)
                                               /\ box[c] = <<>>
                                               /\ got[c] = <<>>
                                               /\ pos[c] = 0
  /\ kid[c] = "refuse" => to[c] = c /\ Missing(c)
  /\ kid[c] = "copy" =>
       /\ to[c] = c /\ ~Missing(c)
       /\ pos[c] = Len(got[c]) + Len(box[c])
       /\ pos[c] <= Len(Want(c))
       /\ \A i \in 1..Len(box[c]) : box[c][i].type = "data"

Sending == \A c \in Client : Sends(c)

\* Message i of client c's queue is the one that has to come there.
Fits(c, i) ==
  LET m == box[c][i]
      n == Len(got[c]) + i
  IN  /\ m.type = "data" => /\ ~Missing(c)
                            /\ n <= Len(Want(c)) /\ m.chunk = Want(c)[n]
      /\ m.type = "end" => /\ ~Missing(c) /\ i = Len(box[c])
                           /\ n = Len(Want(c)) + 1
      /\ m.type = "failure" => Missing(c) /\ i = Len(box[c])

Boxed == \A c \in Client : \A i \in 1..Len(box[c]) : Fits(c, i)

\* A client has received a prefix of its file.
HasPrefix(c) ==
  /\ Missing(c) => got[c] = <<>>
  /\ ~Missing(c) => /\ Len(got[c]) <= Len(Want(c))
                    /\ \A j \in 1..Len(got[c]) : got[c][j] = Want(c)[j]

Prefix == \A c \in Client : HasPrefix(c)

IInv == /\ TypeOK /\ Linked /\ Named /\ Asked /\ Sending /\ Boxed
        /\ Prefix /\ NamesFollowTheLiving
-----------------------------------------------------------------------------
(* Files, queues and messages.                                             *)

LEMMA FileIsASeq ==
  ASSUME NEW c \in Client, ~Missing(c)
  PROVE  Want(c) \in Seq(Chunk) /\ Len(Want(c)) \in Nat
BY MqFileAssumption, LenProperties DEF Want, Missing

\* The first message of a queue is taken out.
LEMMA HeadTaken ==
  ASSUME NEW T, NEW q \in Seq(T), q # <<>>
  PROVE  /\ Head(q) = q[1] /\ q[1] \in T
         /\ Tail(q) \in Seq(T)
         /\ Len(q) \in Nat \ {0}
         /\ Len(Tail(q)) = Len(q) - 1
         /\ \A i \in 1..Len(Tail(q)) : i + 1 \in 1..Len(q) /\ Tail(q)[i] = q[i + 1]
<1>1. Len(q) \in Nat \ {0}
  BY EmptySeq
<1>2. /\ Head(q) = q[1]
      /\ q[1] \in T
  BY <1>1, ElementOfSeq DEF Head
<1>3. /\ Tail(q) \in Seq(T)
      /\ Len(Tail(q)) = Len(q) - 1
      /\ \A i \in 1..Len(Tail(q)) : Tail(q)[i] = q[i + 1]
  BY HeadTailProperties
<1> QED
  BY <1>1, <1>2, <1>3

\* A child puts a message into its client's queue.
LEMMA MessageSent ==
  ASSUME TypeOK, NEW c \in Client, NEW m \in Msg, to[c] = c, SendTo(c, m)
  PROVE  /\ box' \in [Client -> Seq(Msg)]
         /\ Len(box[c]) \in Nat
         /\ Len(box'[c]) = Len(box[c]) + 1
         /\ box'[c][Len(box[c]) + 1] = m
         /\ \A i \in 1..Len(box[c]) : box'[c][i] = box[c][i]
         /\ \A d \in Client : d # c => box'[d] = box[d]
         /\ \A d \in Client : Len(box'[d]) <= MaxMsg
         /\ UNCHANGED <<serverName, requests, clientName, spc, cpc, sq, got,
                        parent, to, killed, termed, kidTermed>>
<1>1. /\ Len(box[c]) < MaxMsg
      /\ box' = [box EXCEPT ![c] = Append(box[c], m)]
      /\ UNCHANGED <<serverName, requests, clientName, spc, cpc, sq, got,
                     parent, to, killed, termed, kidTermed>>
  BY DEF SendTo, Room, clientVars, signals
<1>2. box[c] \in Seq(Msg) /\ Len(box[c]) \in Nat /\ MaxMsg \in Nat
  BY MqFileAssumption, LenProperties DEF TypeOK
<1>3. /\ Append(box[c], m) \in Seq(Msg)
      /\ Len(Append(box[c], m)) = Len(box[c]) + 1
      /\ \A i \in 1..Len(box[c]) : Append(box[c], m)[i] = box[c][i]
      /\ Append(box[c], m)[Len(box[c]) + 1] = m
  BY <1>2, AppendProperties
<1>4. /\ box'[c] = Append(box[c], m)
      /\ \A d \in Client : d # c => box'[d] = box[d]
      /\ box' \in [Client -> Seq(Msg)]
  BY <1>1, <1>3 DEF TypeOK
<1>5. \A d \in Client : Len(box'[d]) <= MaxMsg
  BY <1>1, <1>2, <1>3, <1>4 DEF TypeOK
<1> QED
  BY <1>1, <1>2, <1>3, <1>4, <1>5

\* A child ends, and its parent is told of it.
LEMMA ChildEnds ==
  ASSUME TypeOK, Linked, NEW c \in Client, kid[c] # "none", Exit(c)
  PROVE  /\ kid' \in [Client -> KidPC]
         /\ kid'[c] = "ended"
         /\ \A d \in Client : d # c => kid'[d] = kid[d]
         /\ zombies' \in [Server -> SUBSET Client]
         /\ sigchld' \subseteq Server
<1>1. parent[c] \in Server
  BY DEF Linked
<1>2. kid' = [kid EXCEPT ![c] = "ended"]
  BY DEF Exit
<1>3. /\ zombies' = zombies \/ zombies' = [zombies EXCEPT ![parent[c]] = @ \cup {c}]
      /\ sigchld' = sigchld \/ sigchld' = sigchld \cup {parent[c]}
  BY DEF Exit
<1>4. zombies[parent[c]] \cup {c} \in SUBSET Client
  BY <1>1 DEF TypeOK
<1>5. zombies' \in [Server -> SUBSET Client] /\ sigchld' \subseteq Server
  <2>1. zombies \in [Server -> SUBSET Client] /\ sigchld \subseteq Server
    BY DEF TypeOK
  <2> QED
    BY <1>1, <1>3, <1>4, <2>1
<1> QED
  BY <1>2, <1>5 DEF TypeOK, KidPC

\* A step that leaves the servers alone leaves the server's name alone.
LEMMA ServerNameStays ==
  ASSUME ServerNameFollows,
         UNCHANGED <<serverName, spc, killed, termed, kidTermed>>
  PROVE  ServerNameFollows'
BY DEF ServerNameFollows, Serving, StrayCleanup

\* A step that leaves the clients' names alone, and after which nobody has
\* left but the killed and those without a server.
LEMMA ClientNamesStay ==
  ASSUME TypeOK, ClientNamesFollow, UNCHANGED clientName,
         \A d \in Client :
           ClientRuns(d) \/ d \in killed \/ cpc[d] = "noserver"
             => ClientRuns(d)' \/ d \in killed' \/ cpc'[d] = "noserver"
  PROVE  ClientNamesFollow'
BY DEF TypeOK, ClientNamesFollow

\* A step that touches neither.
LEMMA NamesStay ==
  ASSUME NamesFollowTheLiving,
         UNCHANGED <<serverName, spc, killed, termed, kidTermed, clientName,
                     cpc>>
  PROVE  NamesFollowTheLiving'
BY ServerNameStays DEF NamesFollowTheLiving, ClientNamesFollow, ClientRuns

-----------------------------------------------------------------------------
(* Every action preserves the invariant.                                   *)

LEMMA InitInv == Init => IInv
<1> SUFFICES ASSUME Init PROVE IInv
  OBVIOUS
<1>1. TypeOK
  BY MqFileAssumption DEF Init, TypeOK, ServerPC, ClientPC, KidPC
<1>2. Linked /\ Named
  BY DEF Init, Linked, Named
<1>3. Asked /\ Sending
  BY DEF Init, Asked, Sending, Sends, HasSent, HasHeard
<1>4. Boxed /\ Prefix
  BY FileIsASeq DEF Init, Boxed, Prefix, HasPrefix
<1>5. NamesFollowTheLiving
  BY DEF Init, NamesFollowTheLiving, ClientNamesFollow, ServerNameFollows,
         Serving
<1> QED
  BY <1>1, <1>2, <1>3, <1>4, <1>5 DEF IInv

LEMMA ServerStepInv ==
  ASSUME IInv, NEW s \in Server,
         StartServer(s) \/ OpenServer(s) \/ ServerExists(s)
  PROVE  IInv'
<1>1. /\ spc[s] # "receive" /\ s \notin killed \cup termed
      /\ \/ /\ spc' = [spc EXCEPT ![s] = "open"]
            /\ serverName' = serverName
         \/ /\ spc' = [spc EXCEPT ![s] = "receive"]
            /\ serverName = None /\ serverName' = s
         \/ /\ spc' = [spc EXCEPT ![s] = "exists"]
            /\ serverName' = serverName
         \/ /\ spc' = [spc EXCEPT ![s] = "exited"]
            /\ serverName' = serverName
      /\ UNCHANGED <<requests, clientName, box, zombies, sigchld, cpc, sq, got,
                     kid, parent, to, pos, killed, termed, kidTermed>>
  BY DEF StartServer, OpenServer, ServerExists, ServerStep, clientVars,
         kidVars, signals
<1>2. TypeOK'
  BY <1>1 DEF IInv, TypeOK, ServerPC
<1>3. /\ \A t \in Server : t # s => spc'[t] = spc[t]
      /\ \/ spc'[s] # "receive" /\ serverName' = serverName
         \/ spc'[s] = "receive" /\ serverName = None /\ serverName' = s
      /\ s # None
  BY <1>1, MqFileAssumption DEF IInv, TypeOK
<1>4. Linked' /\ Named'
  BY <1>1 DEF IInv, Linked, Named
<1>5. Asked'
  BY <1>1 DEF IInv, Asked, HasSent
<1>6. Sending'
  BY <1>1 DEF IInv, Sending, Sends, HasSent, HasHeard
<1>7. Boxed' /\ Prefix'
  BY <1>1 DEF IInv, Boxed, Prefix, HasPrefix, Fits
<1>8. NamesFollowTheLiving'
  <2>1. /\ \A t \in Server : t # s => (Serving(t)' <=> Serving(t))
        /\ ~Serving(s)
        /\ Serving(s)' <=> serverName = None /\ serverName' = s
    BY <1>1, <1>3 DEF Serving
  <2>2. StrayCleanup' <=> StrayCleanup
    BY <1>1, <1>3 DEF StrayCleanup, IInv, TypeOK
  <2>3. ServerNameFollows
    BY DEF IInv, NamesFollowTheLiving
  <2>4. serverName' # None => Serving(serverName)' \/ serverName' \in killed'
    BY <1>1, <1>3, <2>1, <2>3 DEF IInv, ServerNameFollows, TypeOK
  <2>5. \A t \in Server : Serving(t)' => serverName' = t \/ StrayCleanup'
    BY <1>3, <2>1, <2>2, <2>3, MqFileAssumption DEF ServerNameFollows
  <2>6. ClientNamesFollow'
    BY <1>1 DEF IInv, NamesFollowTheLiving, ClientNamesFollow, ClientRuns
  <2> QED
    BY <2>4, <2>5, <2>6 DEF NamesFollowTheLiving, ServerNameFollows
<1> QED
  BY <1>2, <1>4, <1>5, <1>6, <1>7, <1>8 DEF IInv

LEMMA ReceiveInv ==
  ASSUME IInv, NEW s \in Server, Receive(s)
  PROVE  IInv'
<1> DEFINE c == requests[s][1]
<1>1. /\ requests[s] # <<>>
      /\ kid' = [kid EXCEPT ![Head(requests[s])] = "queue"]
      /\ parent' = [parent EXCEPT ![Head(requests[s])] = s]
      /\ requests' = [requests EXCEPT ![s] = Tail(requests[s])]
      /\ UNCHANGED <<serverName, clientName, box, spc, zombies, sigchld, cpc,
                     sq, got, to, pos, killed, termed, kidTermed>>
  BY DEF Receive, serverVars, clientVars, signals
<1>2. /\ Head(requests[s]) = c /\ c \in Client
      /\ Tail(requests[s]) \in Seq(Client)
      /\ Len(requests[s]) \in Nat \ {0}
      /\ Len(Tail(requests[s])) = Len(requests[s]) - 1
      /\ \A i \in 1..Len(Tail(requests[s])) :
           i + 1 \in 1..Len(requests[s])
             /\ Tail(requests[s])[i] = requests[s][i + 1]
  <2>1. requests[s] \in Seq(Client)
    BY DEF IInv, TypeOK
  <2> QED
    BY <1>1, <2>1, HeadTaken
<1>3. HasSent(c) /\ kid[c] = "none"
  BY <1>2 DEF IInv, Asked
<1> HIDE DEF c
<1>4. /\ kid'[c] = "queue" /\ parent'[c] = s
      /\ \A d \in Client : d # c => kid'[d] = kid[d] /\ parent'[d] = parent[d]
      /\ requests'[s] = Tail(requests[s])
      /\ \A t \in Server : t # s => requests'[t] = requests[t]
  BY <1>1, <1>2 DEF IInv, TypeOK
<1>5. TypeOK'
  <2>1. MaxMsg \in Nat
    BY MqFileAssumption
  <2>2. \A t \in Server : Len(requests'[t]) <= MaxMsg
    <3>1. \A t \in Server : Len(requests[t]) <= MaxMsg
      BY DEF IInv, TypeOK
    <3>2. Len(requests'[s]) <= MaxMsg
      BY <1>2, <1>4, <2>1, <3>1
    <3> QED
      BY <1>4, <3>1, <3>2
  <2>3. requests' \in [Server -> Seq(Client)]
    BY <1>1, <1>2 DEF IInv, TypeOK
  <2> QED
    BY <1>1, <1>2, <2>2, <2>3 DEF IInv, TypeOK, KidPC
<1>6. Linked' /\ Named' /\ Boxed' /\ Prefix'
  BY <1>1, <1>4 DEF IInv, Linked, Named, Boxed, Prefix, HasPrefix, Fits
<1>7. Asked'
  <2>1. \A t \in Server : \A i \in 1..Len(requests'[t]) :
          \E j \in 1..Len(requests[t]) :
            /\ requests'[t][i] = requests[t][j]
            /\ j = IF t = s THEN i + 1 ELSE i
    BY <1>2, <1>4
  <2>2. \A t \in Server : \A i \in 1..Len(requests'[t]) : requests'[t][i] # c
    <3> SUFFICES ASSUME NEW t \in Server, NEW i \in 1..Len(requests'[t]),
                        requests'[t][i] = c
                 PROVE  FALSE
      OBVIOUS
    <3>1. PICK j \in 1..Len(requests[t]) :
            /\ requests[t][j] = c
            /\ j = IF t = s THEN i + 1 ELSE i
      BY <2>1
    <3>2. 1 \in 1..Len(requests[s]) /\ requests[s][1] = c
      BY <1>2 DEF c
    <3>3. t = s /\ j = 1
      BY <3>1, <3>2 DEF IInv, Asked
    <3>4. i \in Nat \ {0}
      OBVIOUS
    <3> QED
      BY <3>1, <3>3, <3>4
  <2>3. \A t \in Server : \A j \in 1..Len(requests[t]) :
          requests[t][j] \in Client
    BY ElementOfSeq DEF IInv, TypeOK
  <2>4. \A t \in Server : \A i \in 1..Len(requests'[t]) :
          (HasSent(requests[t][i]) /\ kid[requests[t][i]] = "none")'
    <3> SUFFICES ASSUME NEW t \in Server, NEW i \in 1..Len(requests'[t])
                 PROVE  (HasSent(requests[t][i]) /\ kid[requests[t][i]] = "none")'
      OBVIOUS
    <3>1. PICK j \in 1..Len(requests[t]) : requests'[t][i] = requests[t][j]
      BY <2>1
    <3>2. requests[t][j] # c /\ requests[t][j] \in Client
      BY <2>2, <2>3, <3>1
    <3>3. HasSent(requests[t][j]) /\ kid[requests[t][j]] = "none"
      BY DEF IInv, Asked
    <3> QED
      BY <1>1, <1>4, <3>1, <3>2, <3>3 DEF HasSent
  <2>5. ASSUME NEW t \in Server, NEW i \in 1..Len(requests'[t]),
               NEW u \in Server, NEW j \in 1..Len(requests'[u]),
               requests'[u][j] = requests'[t][i]
        PROVE  u = t /\ j = i
    <3>1. PICK k \in 1..Len(requests[t]) :
            /\ requests'[t][i] = requests[t][k]
            /\ k = IF t = s THEN i + 1 ELSE i
      BY <2>1
    <3>2. PICK l \in 1..Len(requests[u]) :
            /\ requests'[u][j] = requests[u][l]
            /\ l = IF u = s THEN j + 1 ELSE j
      BY <2>1
    <3>3. u = t /\ l = k
      BY <2>5, <3>1, <3>2 DEF IInv, Asked
    <3>4. i \in Int /\ j \in Int
      OBVIOUS
    <3> QED
      BY <3>1, <3>2, <3>3, <3>4
  <2>6. \A d \in Client : ~HasSent(d)' => kid'[d] = "none"
    BY <1>1, <1>3, <1>4 DEF IInv, Asked, HasSent
  <2> QED
    BY <2>4, <2>5, <2>6 DEF Asked
<1>8. Sending'
  <2>1. \A d \in Client : HasHeard(d)' <=> HasHeard(d)
    BY <1>1 DEF HasHeard, HasSent
  <2>2. ASSUME NEW d \in Client PROVE Sends(d)'
    <3>1. Sends(d)
      BY DEF IInv, Sending
    <3>2. CASE d # c
      BY <1>1, <1>4, <2>1, <3>1, <3>2 DEF Sends
    <3>3. CASE d = c
      BY <1>1, <1>3, <1>4, <2>1, <3>1, <3>3 DEF Sends
    <3> QED
      BY <3>2, <3>3
  <2> QED
    BY <2>2 DEF Sending
<1>9. NamesFollowTheLiving'
  BY <1>1, NamesStay DEF IInv
<1> QED
  BY <1>5, <1>6, <1>7, <1>8, <1>9 DEF IInv

LEMMA GrimReaperInv ==
  ASSUME IInv, NEW s \in Server, GrimReaper(s)
  PROVE  IInv'
<1>1. /\ zombies' = [zombies EXCEPT ![s] = {}]
      /\ sigchld' = sigchld \ {s}
      /\ UNCHANGED <<serverName, requests, clientName, box, spc, cpc, sq, got,
                     kid, parent, to, pos, killed, termed, kidTermed>>
  BY DEF GrimReaper, clientVars, kidVars, signals
<1>2. TypeOK'
  BY <1>1 DEF IInv, TypeOK
<1>3. Linked' /\ Named' /\ NamesFollowTheLiving'
  BY <1>1, NamesStay DEF IInv, Linked, Named
<1>4. Asked' /\ Sending'
  <2>1. Asked'
    BY <1>1 DEF IInv, Asked, HasSent
  <2>2. Sending'
    BY <1>1 DEF IInv, Sending, Sends, HasSent, HasHeard
  <2> QED
    BY <2>1, <2>2
<1>5. Boxed' /\ Prefix'
  BY <1>1 DEF IInv, Boxed, Prefix, HasPrefix, Fits
<1> QED
  BY <1>2, <1>3, <1>4, <1>5 DEF IInv

LEMMA CleanupInv ==
  ASSUME IInv, NEW s \in Server, Cleanup(s)
  PROVE  IInv'
<1>1. /\ s \notin termed
      /\ serverName' = None
      /\ termed' = termed \cup {s}
      /\ UNCHANGED <<requests, clientName, box, spc, zombies, sigchld, cpc, sq,
                     got, kid, parent, to, pos, killed, kidTermed>>
  BY DEF Cleanup, ServerRuns, serverVars, clientVars, kidVars
<1>2. TypeOK'
  BY <1>1 DEF IInv, TypeOK
<1>3. Linked' /\ Named'
  BY <1>1 DEF IInv, Linked, Named
<1>5. Asked' /\ Sending'
  <2>1. Asked'
    BY <1>1 DEF IInv, Asked, HasSent
  <2>2. Sending'
    BY <1>1 DEF IInv, Sending, Sends, HasSent, HasHeard
  <2> QED
    BY <2>1, <2>2
<1>6. Boxed' /\ Prefix'
  BY <1>1 DEF IInv, Boxed, Prefix, HasPrefix, Fits
<1>7. NamesFollowTheLiving'
  <2>1. \A t \in Server : Serving(t)' <=> Serving(t) /\ t # s
    BY <1>1 DEF Serving
  <2>2. StrayCleanup => StrayCleanup'
    BY <1>1 DEF StrayCleanup
  <2>3. CASE spc[s] # "receive"
    <3>1. StrayCleanup'
      BY <1>1, <2>3 DEF StrayCleanup
    <3> QED
      BY <1>1, <3>1, ClientNamesStay
         DEF IInv, NamesFollowTheLiving, ServerNameFollows, ClientRuns
  <2>4. CASE spc[s] = "receive"
    <3>1. Serving(s)
      BY <2>4 DEF Cleanup, ServerRuns, Serving
    <3>2. \A t \in Server : Serving(t)' => StrayCleanup'
      BY <2>1, <2>2, <3>1 DEF IInv, NamesFollowTheLiving, ServerNameFollows
    <3> QED
      BY <1>1, <3>2, ClientNamesStay
         DEF IInv, NamesFollowTheLiving, ServerNameFollows, ClientRuns
  <2> QED
    BY <2>3, <2>4
<1> QED
  BY <1>2, <1>3, <1>5, <1>6, <1>7 DEF IInv

\* A child that goes on or ends does not disturb the requests.
LEMMA AskedStays ==
  ASSUME TypeOK, Asked, NEW c \in Client, kid[c] # "none", kid'[c] # "none",
         \A d \in Client : d # c => kid'[d] = kid[d],
         UNCHANGED <<requests, cpc>>
  PROVE  Asked'
<1>1. \A s \in Server : \A i \in 1..Len(requests[s]) :
        requests[s][i] # c /\ requests[s][i] \in Client
  BY ElementOfSeq DEF Asked, TypeOK
<1>2. \A d : HasSent(d)' <=> HasSent(d)
  BY DEF HasSent
<1> QED
  BY <1>1, <1>2 DEF Asked

\* One child's step does not disturb what the others have sent.
LEMMA OthersSend ==
  ASSUME Sending, NEW c \in Client,
         \A d \in Client : d # c => /\ kid'[d] = kid[d] /\ to'[d] = to[d]
                                   /\ box'[d] = box[d] /\ got'[d] = got[d]
                                   /\ pos'[d] = pos[d] /\ cpc'[d] = cpc[d],
         Sends(c)'
  PROVE  Sending'
<1> SUFFICES ASSUME NEW d \in Client, d # c
             PROVE  Sends(d)'
  BY DEF Sending
<1>1. Sends(d)
  BY DEF Sending
<1> QED
  BY <1>1 DEF Sends, HasHeard, HasSent, Missing, Want

LEMMA OpenQueueInv ==
  ASSUME IInv, NEW c \in Client, OpenQueue(c)
  PROVE  IInv'
<1>t. TypeOK /\ Linked
  BY DEF IInv
<1>1. /\ kid[c] = "queue"
      /\ UNCHANGED <<serverName, requests, clientName, box, spc, cpc, sq, got,
                     parent, pos, killed, termed, kidTermed>>
  BY DEF OpenQueue, clientVars, signals
<1>2. cpc[c] = "first" /\ clientName[PidOf[c]] = c
  BY <1>1 DEF IInv, Asked, Sending, Sends, Named, HasHeard, HasSent
<1>3. c # None
  BY MqFileAssumption
<1>4. /\ kid' = [kid EXCEPT ![c] = IF Missing(c) THEN "refuse" ELSE "copy"]
      /\ to' = [to EXCEPT ![c] = c]
      /\ UNCHANGED <<zombies, sigchld>>
  BY <1>2, <1>3 DEF OpenQueue, Missing
<1>5. /\ kid'[c] = IF Missing(c) THEN "refuse" ELSE "copy"
      /\ to'[c] = c
      /\ \A d \in Client : d # c => kid'[d] = kid[d] /\ to'[d] = to[d]
  BY <1>t, <1>4 DEF TypeOK
<1>6. TypeOK'
  BY <1>t, <1>1, <1>4 DEF TypeOK, KidPC
<1>7. Linked' /\ Named' /\ NamesFollowTheLiving'
  BY <1>1, <1>5, NamesStay DEF IInv, Linked, Named
<1>8. Asked'
  BY <1>t, <1>1, <1>4, <1>5, AskedStays DEF IInv
<1>9. Sending'
  <2>1. \A d : HasHeard(d)' <=> HasHeard(d)
    BY <1>1 DEF HasSent, HasHeard
  <2>2. box[c] = <<>> /\ got[c] = <<>> /\ pos[c] = 0 /\ ~HasHeard(c)
    BY <1>1 DEF IInv, Sending, Sends
  <2>3. ~Missing(c) => Len(Want(c)) \in Nat
    BY FileIsASeq
  <2>4. /\ pos'[c] = Len(got'[c]) + Len(box'[c])
        /\ ~Missing(c) => pos'[c] <= Len(Want(c))
        /\ \A i \in 1..Len(box'[c]) : box'[c][i].type = "data"
    BY <1>1, <2>2, <2>3
  <2>5. ASSUME NEW d \in Client, d # c
        PROVE  kid'[d] = kid[d] /\ to'[d] = to[d]
    BY <1>5, <2>5
  <2>6. Sends(c)'
    BY <1>1, <1>5, <2>1, <2>2, <2>4 DEF Sends, Missing, Want
  <2>7. ASSUME NEW d \in Client, d # c
        PROVE  Sends(d)'
    BY <1>1, <2>1, <2>5, <2>7 DEF IInv, Sending, Sends
  <2> QED
    BY <2>6, <2>7 DEF Sending
<1>10. Boxed' /\ Prefix'
  BY <1>1 DEF IInv, Boxed, Prefix, HasPrefix, Fits
<1> QED
  BY <1>6, <1>7, <1>8, <1>9, <1>10 DEF IInv

\* A message of c's file, the end mark or the refusal comes after the ones in
\* the queue.
LEMMA SendKeepsOrder ==
  ASSUME IInv, NEW c \in Client, NEW m \in Msg, to[c] = c, SendTo(c, m),
         LET n == Len(got[c]) + Len(box[c]) + 1
         IN  \/ /\ m.type = "data" /\ ~Missing(c)
                /\ n <= Len(Want(c)) /\ m.chunk = Want(c)[n]
             \/ m.type = "end" /\ ~Missing(c) /\ n = Len(Want(c)) + 1
             \/ m.type = "failure" /\ Missing(c),
         \A i \in 1..Len(box[c]) : box[c][i].type = "data"
  PROVE  Boxed'
<1>1. /\ Len(box[c]) \in Nat
      /\ Len(box'[c]) = Len(box[c]) + 1
      /\ box'[c][Len(box[c]) + 1] = m
      /\ \A i \in 1..Len(box[c]) : box'[c][i] = box[c][i]
      /\ \A d \in Client : d # c => box'[d] = box[d]
      /\ got' = got
  BY MessageSent DEF IInv
<1>2. ASSUME NEW d \in Client, d # c, NEW i \in 1..Len(box'[d])
      PROVE  Fits(d, i)'
  BY <1>1, <1>2 DEF IInv, Boxed, Fits
<1>3. ASSUME NEW i \in 1..Len(box'[c])
      PROVE  Fits(c, i)'
  <2>0. Len(got[c]) \in Nat /\ Len(box[c]) \in Nat
    BY <1>1, LenProperties DEF IInv, TypeOK
  <2>1. CASE i = Len(box[c]) + 1
    <3>1. got'[c] = got[c] /\ i = Len(box'[c]) /\ box'[c][i] = m
      BY <1>1, <2>1
    <3>2. Len(got[c]) + i = Len(got[c]) + Len(box[c]) + 1
      <4>1. \A k, l \in Nat : k + (l + 1) = k + l + 1
        OBVIOUS
      <4> QED
        BY <2>0, <2>1, <4>1
    <3> QED
      BY <3>1, <3>2 DEF Fits, Want, Missing
  <2>2. CASE i # Len(box[c]) + 1
    <3>1. i \in 1..Len(box[c])
      BY <1>1, <2>2
    <3>2. Fits(c, i) /\ box'[c][i] = box[c][i] /\ box[c][i].type = "data"
      BY <1>1, <3>1 DEF IInv, Boxed
    <3> QED
      BY <1>1, <3>2 DEF Fits
  <2> QED
    BY <2>1, <2>2
<1> QED
  BY <1>2, <1>3 DEF Boxed

LEMMA SendFailureInv ==
  ASSUME IInv, NEW c \in Client, SendFailure(c)
  PROVE  IInv'
<1>t. TypeOK /\ Linked
  BY DEF IInv
<1>m. PICK m \in Msg : m = [type |-> "failure"]
  BY DEF Msg
<1>1. kid[c] = "refuse" /\ SendTo(c, m) /\ Exit(c) /\ pos' = pos
  BY <1>m DEF SendFailure
<1>2. /\ to[c] = c /\ Missing(c)
      /\ box[c] = <<>> /\ got[c] = <<>> /\ pos[c] = 0 /\ ~HasHeard(c)
  BY <1>1 DEF IInv, Sending, Sends
<1>3. /\ box' \in [Client -> Seq(Msg)]
      /\ \A d \in Client : d # c => box'[d] = box[d]
      /\ \A d \in Client : Len(box'[d]) <= MaxMsg
      /\ UNCHANGED <<serverName, requests, clientName, spc, cpc, sq, got,
                     parent, to, killed, termed, kidTermed>>
  BY <1>t, <1>1, <1>2, MessageSent
<1>4. /\ kid' \in [Client -> KidPC]
      /\ kid'[c] = "ended"
      /\ \A d \in Client : d # c => kid'[d] = kid[d]
      /\ zombies' \in [Server -> SUBSET Client]
      /\ sigchld' \subseteq Server
  BY <1>t, <1>1, ChildEnds
<1>5. TypeOK'
  BY <1>t, <1>1, <1>3, <1>4 DEF TypeOK
<1>6. Linked' /\ Named' /\ NamesFollowTheLiving'
  BY <1>1, <1>3, <1>4, NamesStay DEF IInv, Linked, Named
<1>7. Asked'
  BY <1>1, <1>3, <1>4, AskedStays DEF IInv
<1>8. Sending'
  <2>1. Sends(c)'
    BY <1>4 DEF Sends
  <2> QED
    BY <1>1, <1>3, <1>4, <2>1, OthersSend DEF IInv
<1>9. Boxed'
  <2>1. \A i \in 1..Len(box[c]) : box[c][i].type = "data"
    BY <1>2
  <2>2. m.type = "failure"
    BY <1>m
  <2> QED
    BY <1>1, <1>2, <2>1, <2>2, SendKeepsOrder
<1>10. Prefix'
  BY <1>3 DEF IInv, Prefix, HasPrefix
<1> QED
  BY <1>5, <1>6, <1>7, <1>8, <1>9, <1>10 DEF IInv

LEMMA SendEndInv ==
  ASSUME IInv, NEW c \in Client, SendEnd(c)
  PROVE  IInv'
<1>t. TypeOK /\ Linked
  BY DEF IInv
<1>m. PICK m \in Msg : m = [type |-> "end"]
  BY DEF Msg
<1>1. /\ kid[c] = "copy" /\ pos[c] = Len(Want(c))
      /\ SendTo(c, m) /\ Exit(c) /\ pos' = pos
  BY <1>m DEF SendEnd, Want
<1>2. /\ to[c] = c /\ ~Missing(c)
      /\ pos[c] = Len(got[c]) + Len(box[c])
      /\ \A i \in 1..Len(box[c]) : box[c][i].type = "data"
  BY <1>1 DEF IInv, Sending, Sends
<1>3. /\ box' \in [Client -> Seq(Msg)]
      /\ \A d \in Client : d # c => box'[d] = box[d]
      /\ \A d \in Client : Len(box'[d]) <= MaxMsg
      /\ UNCHANGED <<serverName, requests, clientName, spc, cpc, sq, got,
                     parent, to, killed, termed, kidTermed>>
  BY <1>t, <1>1, <1>2, MessageSent
<1>4. /\ kid' \in [Client -> KidPC]
      /\ kid'[c] = "ended"
      /\ \A d \in Client : d # c => kid'[d] = kid[d]
      /\ zombies' \in [Server -> SUBSET Client]
      /\ sigchld' \subseteq Server
  BY <1>t, <1>1, ChildEnds
<1>5. TypeOK'
  BY <1>t, <1>1, <1>3, <1>4 DEF TypeOK
<1>6. Linked' /\ Named' /\ NamesFollowTheLiving'
  BY <1>1, <1>3, <1>4, NamesStay DEF IInv, Linked, Named
<1>7. Asked'
  BY <1>1, <1>3, <1>4, AskedStays DEF IInv
<1>8. Sending'
  <2>1. Sends(c)'
    BY <1>4 DEF Sends
  <2> QED
    BY <1>1, <1>3, <1>4, <2>1, OthersSend DEF IInv
<1>9. Boxed'
  BY <1>m, <1>1, <1>2, SendKeepsOrder
<1>10. Prefix'
  BY <1>3 DEF IInv, Prefix, HasPrefix
<1> QED
  BY <1>5, <1>6, <1>7, <1>8, <1>9, <1>10 DEF IInv

LEMMA SendDataInv ==
  ASSUME IInv, NEW c \in Client, SendData(c)
  PROVE  IInv'
<1>t. TypeOK
  BY DEF IInv
<1>0. /\ kid[c] = "copy" /\ to[c] = c /\ ~Missing(c)
      /\ pos[c] = Len(got[c]) + Len(box[c])
      /\ \A i \in 1..Len(box[c]) : box[c][i].type = "data"
  BY DEF IInv, Sending, Sends, SendData
<1>p. /\ pos[c] \in Nat /\ pos[c] + 1 \in Nat
      /\ Want(c) \in Seq(Chunk)
      /\ Len(Want(c)) \in Nat
      /\ pos[c] + 1 \in 1..Len(Want(c))
  <2>1. pos[c] \in Nat /\ pos[c] < Len(Want(c))
    BY <1>t DEF SendData, Want, TypeOK
  <2>2. Want(c) \in Seq(Chunk) /\ Len(Want(c)) \in Nat
    BY <1>0, FileIsASeq
  <2> QED
    BY <2>1, <2>2
<1>m. PICK m \in Msg : m = [type |-> "data", chunk |-> Want(c)[pos[c] + 1]]
  <2>1. Want(c)[pos[c] + 1] \in Chunk
    BY <1>p, ElementOfSeq
  <2> QED
    BY <2>1 DEF Msg
<1>1. /\ SendTo(c, m)
      /\ pos' = [pos EXCEPT ![c] = @ + 1]
      /\ UNCHANGED <<kid, zombies, sigchld>>
  BY <1>m DEF SendData, Want
<1>3. /\ box' \in [Client -> Seq(Msg)]
      /\ Len(box[c]) \in Nat
      /\ Len(box'[c]) = Len(box[c]) + 1
      /\ box'[c][Len(box[c]) + 1] = m
      /\ \A i \in 1..Len(box[c]) : box'[c][i] = box[c][i]
      /\ \A d \in Client : d # c => box'[d] = box[d]
      /\ \A d \in Client : Len(box'[d]) <= MaxMsg
      /\ UNCHANGED <<serverName, requests, clientName, spc, cpc, sq, got,
                     parent, to, killed, termed, kidTermed>>
  BY <1>t, <1>0, <1>1, MessageSent
<1>4. pos'[c] = pos[c] + 1 /\ \A d \in Client : d # c => pos'[d] = pos[d]
  BY <1>t, <1>1 DEF TypeOK
<1>5. TypeOK'
  BY <1>t, <1>p, <1>1, <1>3 DEF TypeOK
<1>6. Linked' /\ Named' /\ NamesFollowTheLiving'
  BY <1>1, <1>3, NamesStay DEF IInv, Linked, Named
<1>7. Asked'
  BY <1>1, <1>3 DEF IInv, Asked, HasSent
<1>8. Sending'
  <2>1. \A i \in 1..Len(box'[c]) : box'[c][i].type = "data"
    <3>1. \A i \in 1..Len(box'[c]) : i \in 1..Len(box[c]) \/ i = Len(box[c]) + 1
      BY <1>3
    <3> QED
      BY <1>0, <1>m, <1>3, <3>1
  <2>2. pos'[c] = Len(got'[c]) + Len(box'[c]) /\ pos'[c] <= Len(Want(c))
    <3>1. Len(got[c]) \in Nat
      BY <1>t, LenProperties DEF TypeOK
    <3>2. \A k, l \in Nat : k + (l + 1) = (k + l) + 1
      OBVIOUS
    <3>3. Len(got[c]) + (Len(box[c]) + 1) = pos[c] + 1
      BY <1>0, <1>3, <3>1, <3>2
    <3>4. pos[c] + 1 <= Len(Want(c))
      BY <1>p
    <3> QED
      BY <1>3, <1>4, <3>3, <3>4
  <2>3. Sends(c)'
    BY <1>0, <1>1, <1>3, <2>1, <2>2 DEF Sends, Want, Missing
  <2> QED
    BY <1>1, <1>3, <1>4, <2>3, OthersSend DEF IInv
<1>9. Boxed'
  <2>1. pos[c] + 1 <= Len(Want(c))
    BY <1>p
  <2> QED
    BY <1>0, <1>m, <1>1, <2>1, SendKeepsOrder
<1>10. Prefix'
  BY <1>3 DEF IInv, Prefix, HasPrefix
<1> QED
  BY <1>5, <1>6, <1>7, <1>8, <1>9, <1>10 DEF IInv

LEMMA KidCleanupInv ==
  ASSUME IInv, NEW c \in Client, KidCleanup(c)
  PROVE  IInv'
<1>t. TypeOK /\ Linked
  BY DEF IInv
<1>1. /\ kid[c] # "none" /\ Exit(c)
      /\ serverName' = None
      /\ kidTermed' = kidTermed \cup {c}
      /\ UNCHANGED <<requests, clientName, box, spc, cpc, sq, got, parent, to,
                     pos, killed, termed>>
  BY DEF KidCleanup, clientVars
<1>2. /\ kid' \in [Client -> KidPC]
      /\ kid'[c] = "ended"
      /\ \A d \in Client : d # c => kid'[d] = kid[d]
      /\ zombies' \in [Server -> SUBSET Client]
      /\ sigchld' \subseteq Server
  BY <1>t, <1>1, ChildEnds
<1>3. TypeOK'
  BY <1>t, <1>1, <1>2 DEF TypeOK
<1>4. Linked' /\ Named'
  BY <1>1, <1>2 DEF IInv, Linked, Named
<1>5. Asked'
  BY <1>1, <1>2, AskedStays DEF IInv
<1>6. Sending'
  <2>1. Sends(c)'
    BY <1>2 DEF Sends
  <2> QED
    BY <1>1, <1>2, <2>1, OthersSend DEF IInv
<1>7. Boxed' /\ Prefix'
  BY <1>1 DEF IInv, Boxed, Prefix, HasPrefix, Fits
<1>8. NamesFollowTheLiving'
  <2>1. kidTermed' # {}
    BY <1>1
  <2> QED
    BY <1>1, <2>1, ClientNamesStay
       DEF IInv, NamesFollowTheLiving, ServerNameFollows, StrayCleanup,
           ClientRuns
<1> QED
  BY <1>3, <1>4, <1>5, <1>6, <1>7, <1>8 DEF IInv

\* A client's step that neither sends nor receives.
LEMMA QuietClient ==
  ASSUME IInv, NEW c \in Client,
         \A d \in Client : d # c => cpc'[d] = cpc[d],
         HasSent(c)' <=> HasSent(c), HasHeard(c)' <=> HasHeard(c),
         UNCHANGED <<requests, box, got, kid, to, pos>>
  PROVE  Asked' /\ Sending' /\ Boxed' /\ Prefix'
<1>1. \A d \in Client : /\ HasSent(d)' <=> HasSent(d)
                        /\ HasHeard(d)' <=> HasHeard(d)
  BY DEF HasSent, HasHeard
<1>2. Asked'
  <2>1. \A s \in Server : \A i \in 1..Len(requests[s]) :
          requests[s][i] \in Client
    BY ElementOfSeq DEF IInv, TypeOK
  <2> QED
    BY <1>1, <2>1 DEF IInv, Asked
<1>3. Sending'
  <2>1. ASSUME NEW d \in Client PROVE Sends(d)'
    <3>1. Sends(d)
      BY DEF IInv, Sending
    <3> QED
      BY <1>1, <3>1 DEF Sends
  <2> QED
    BY <2>1 DEF Sending
<1>4. Boxed' /\ Prefix'
  BY DEF IInv, Boxed, Prefix, HasPrefix, Fits
<1> QED
  BY <1>2, <1>3, <1>4

LEMMA MakeQueueInv ==
  ASSUME IInv, NEW c \in Client, MakeQueue(c)
  PROVE  IInv'
<1>t. TypeOK
  BY DEF IInv
<1>1. /\ c \notin killed /\ cpc[c] = "new"
      /\ UNCHANGED <<serverName, requests, box, spc, zombies, sigchld, sq, got,
                     kid, parent, to, pos, killed, termed, kidTermed>>
  BY DEF MakeQueue, Step, serverVars, kidVars, signals
<1>2. PidOf[c] \in Pid /\ c # None
  BY MqFileAssumption
<1>3. cpc' = [cpc EXCEPT ![c] = IF clientName[PidOf[c]] = None THEN "connect"
                                                               ELSE "taken"]
  BY DEF MakeQueue, Step
<1>4. clientName' = [clientName EXCEPT
                       ![PidOf[c]] = IF @ = None THEN c ELSE @]
  BY DEF MakeQueue
<1>5. TypeOK'
  <2>1. cpc' \in [Client -> ClientPC]
    BY <1>t, <1>3 DEF TypeOK, ClientPC
  <2>2. clientName' \in [Pid -> Client \cup {None}]
    BY <1>t, <1>2, <1>4 DEF TypeOK
  <2> QED
    BY <1>t, <1>1, <2>1, <2>2 DEF TypeOK
<1>6. /\ cpc'[c] = IF clientName[PidOf[c]] = None THEN "connect" ELSE "taken"
      /\ \A d \in Client : d # c => cpc'[d] = cpc[d]
      /\ \A p \in Pid : clientName[p] # None => clientName'[p] = clientName[p]
      /\ \A p \in Pid : p # PidOf[c] => clientName'[p] = clientName[p]
      /\ clientName[PidOf[c]] = None => clientName'[PidOf[c]] = c
  BY <1>t, <1>2, <1>3, <1>4 DEF TypeOK
<1>7. Linked'
  BY <1>1, <1>6 DEF IInv, Linked
<1>8. Named'
  <2>1. ASSUME NEW d \in Client, d # c, clientName[PidOf[d]] = d
        PROVE  clientName'[PidOf[d]] = d
    BY <1>6, <2>1, MqFileAssumption
  <2> QED
    BY <1>6, <2>1 DEF IInv, Named
<1>9. Asked' /\ Sending' /\ Boxed' /\ Prefix'
  BY <1>1, <1>6, QuietClient DEF HasSent, HasHeard
<1>10. NamesFollowTheLiving'
  <2>1. ClientRuns(c)' <=> clientName[PidOf[c]] = None
    BY <1>1, <1>6 DEF ClientRuns
  <2>2. \A d \in Client : d # c => (ClientRuns(d)' <=> ClientRuns(d))
    BY <1>1, <1>6 DEF ClientRuns
  <2>3. \A p \in Pid : clientName[p] # c
    BY <1>1, <1>2 DEF IInv, NamesFollowTheLiving, ClientNamesFollow,
                      ClientRuns
  <2>4. ASSUME NEW p \in Pid, NEW d \in Client, clientName'[p] = d
        PROVE  /\ PidOf[d] = p
               /\ ClientRuns(d)' \/ d \in killed \/ cpc'[d] = "noserver"
    <3>1. CASE p = PidOf[c] /\ clientName[p] = None
      BY <1>6, <2>1, <2>4, <3>1
    <3>2. CASE ~(p = PidOf[c] /\ clientName[p] = None)
      <4>1. clientName[p] = d
        BY <1>6, <2>4, <3>2
      <4>2. d # None /\ d # c
        BY <2>3, <4>1, MqFileAssumption
      <4>3. PidOf[d] = p /\ (ClientRuns(d) \/ d \in killed \/ cpc[d] = "noserver")
        BY <4>1, <4>2 DEF IInv, NamesFollowTheLiving, ClientNamesFollow
      <4> QED
        BY <1>6, <2>2, <4>2, <4>3
    <3> QED
      BY <3>1, <3>2
  <2>5. \A p \in Pid : clientName'[p] \in Client \cup {None}
    BY <1>5 DEF TypeOK
  <2> QED
    BY <1>1, <2>4, <2>5, ServerNameStays
       DEF IInv, NamesFollowTheLiving, ClientNamesFollow
<1> QED
  BY <1>5, <1>7, <1>8, <1>9, <1>10 DEF IInv

LEMMA ConnectInv ==
  ASSUME IInv, NEW c \in Client, Connect(c)
  PROVE  IInv'
<1>t. TypeOK
  BY DEF IInv
<1>1. /\ c \notin killed /\ cpc[c] = "connect"
      /\ cpc' = [cpc EXCEPT ![c] = IF serverName = None THEN "noserver"
                                                        ELSE "send"]
      /\ sq' = [sq EXCEPT ![c] = serverName]
      /\ UNCHANGED <<serverName, requests, clientName, box, spc, zombies,
                     sigchld, got, kid, parent, to, pos, killed, termed,
                     kidTermed>>
  BY DEF Connect, Step, serverVars, kidVars, signals
<1>2. TypeOK'
  BY <1>t, <1>1 DEF TypeOK, ClientPC
<1>3. /\ cpc'[c] = IF serverName = None THEN "noserver" ELSE "send"
      /\ sq'[c] = serverName
      /\ \A d \in Client : d # c => cpc'[d] = cpc[d] /\ sq'[d] = sq[d]
  BY <1>t, <1>1 DEF TypeOK
<1>4. Linked' /\ Named'
  BY <1>t, <1>1, <1>3 DEF IInv, Linked, Named, TypeOK
<1>5. Asked' /\ Sending' /\ Boxed' /\ Prefix'
  BY <1>1, <1>3, QuietClient DEF HasSent, HasHeard
<1>6. NamesFollowTheLiving'
  <2>1. \A d \in Client :
          ClientRuns(d) => ClientRuns(d)' \/ cpc'[d] = "noserver"
    BY <1>1, <1>3 DEF ClientRuns
  <2>2. \A d \in Client : cpc[d] = "noserver" => cpc'[d] = "noserver"
    BY <1>1, <1>3
  <2> QED
    BY <1>t, <1>1, <2>1, <2>2, ServerNameStays, ClientNamesStay
       DEF IInv, NamesFollowTheLiving
<1> QED
  BY <1>2, <1>4, <1>5, <1>6 DEF IInv

LEMMA SendRequestInv ==
  ASSUME IInv, NEW c \in Client, SendRequest(c)
  PROVE  IInv'
<1>t. TypeOK
  BY DEF IInv
<1>1. /\ c \notin killed /\ cpc[c] = "send" /\ sq[c] \in Server
      /\ cpc' = [cpc EXCEPT ![c] = "first"]
      /\ Len(requests[sq[c]]) < MaxMsg
      /\ requests' = [requests EXCEPT ![sq[c]] = Append(requests[sq[c]], c)]
      /\ UNCHANGED <<serverName, clientName, box, spc, zombies, sigchld, sq,
                     got, kid, parent, to, pos, killed, termed, kidTermed>>
  BY DEF SendRequest, Step, Room, serverVars, kidVars, signals, IInv, Linked
<1> DEFINE s == sq[c]
<1>2. /\ requests[s] \in Seq(Client) /\ Len(requests[s]) \in Nat
      /\ MaxMsg \in Nat
  BY <1>t, <1>1, MqFileAssumption, LenProperties DEF TypeOK
<1>3. /\ Append(requests[s], c) \in Seq(Client)
      /\ Len(Append(requests[s], c)) = Len(requests[s]) + 1
      /\ \A i \in 1..Len(requests[s]) :
           Append(requests[s], c)[i] = requests[s][i]
      /\ Append(requests[s], c)[Len(requests[s]) + 1] = c
  BY <1>2, AppendProperties
<1>4. /\ cpc'[c] = "first"
      /\ \A d \in Client : d # c => cpc'[d] = cpc[d]
      /\ requests'[s] = Append(requests[s], c)
      /\ \A t \in Server : t # s => requests'[t] = requests[t]
      /\ requests' \in [Server -> Seq(Client)]
  BY <1>t, <1>1, <1>3 DEF TypeOK
<1>5. TypeOK'
  <2>1. Len(requests'[s]) <= MaxMsg
    BY <1>1, <1>2, <1>3, <1>4
  <2>2. \A t \in Server : Len(requests'[t]) <= MaxMsg
    BY <1>t, <1>4, <2>1 DEF TypeOK
  <2> QED
    BY <1>t, <1>1, <1>4, <2>2 DEF TypeOK, ClientPC
<1>6. Linked' /\ Named'
  BY <1>1, <1>4 DEF IInv, Linked, Named
<1>7. Asked'
  <2>1. kid[c] = "none" /\ HasSent(c)' /\ ~HasSent(c)
    BY <1>1, <1>4 DEF IInv, Asked, HasSent
  <2>2. \A d \in Client : d # c => (HasSent(d)' <=> HasSent(d))
    BY <1>4 DEF HasSent
  <2>3. ASSUME NEW t \in Server, NEW i \in 1..Len(requests'[t])
        PROVE  \/ t = s /\ i = Len(requests[s]) + 1 /\ requests'[t][i] = c
               \/ /\ i \in 1..Len(requests[t])
                  /\ requests'[t][i] = requests[t][i]
                  /\ requests[t][i] # c
                  /\ requests[t][i] \in Client
    <3>1. CASE t # s
      <4>1. requests'[t] = requests[t] /\ requests[t] \in Seq(Client)
        BY <1>t, <1>4, <3>1 DEF TypeOK
      <4>2. requests[t][i] \in Client
        BY <4>1, ElementOfSeq
      <4>3. requests[t][i] # c
        BY <2>1, <4>1 DEF IInv, Asked
      <4> QED
        BY <4>1, <4>2, <4>3
    <3>2. CASE t = s /\ i # Len(requests[s]) + 1
      <4>1. i \in 1..Len(requests[s])
        BY <1>2, <1>3, <1>4, <3>2
      <4>2. requests'[t][i] = requests[s][i] /\ requests[s][i] \in Client
        BY <1>2, <1>3, <1>4, <3>2, <4>1, ElementOfSeq
      <4>3. requests[s][i] # c
        BY <1>1, <2>1, <4>1 DEF IInv, Asked
      <4> QED
        BY <3>2, <4>1, <4>2, <4>3
    <3>3. CASE t = s /\ i = Len(requests[s]) + 1
      BY <1>3, <1>4, <3>3
    <3> QED
      BY <3>1, <3>2, <3>3
  <2>4. ASSUME NEW t \in Server, NEW i \in 1..Len(requests'[t])
        PROVE  (HasSent(requests[t][i]) /\ kid[requests[t][i]] = "none")'
    <3>1. CASE requests'[t][i] = c
      BY <1>1, <2>1, <3>1
    <3>2. CASE requests'[t][i] # c
      <4>1. /\ i \in 1..Len(requests[t])
            /\ requests'[t][i] = requests[t][i]
            /\ requests[t][i] # c /\ requests[t][i] \in Client
        BY <2>3, <3>2
      <4>2. HasSent(requests[t][i]) /\ kid[requests[t][i]] = "none"
        BY <4>1 DEF IInv, Asked
      <4> QED
        BY <1>1, <2>2, <4>1, <4>2
    <3> QED
      BY <3>1, <3>2
  <2>5. ASSUME NEW t \in Server, NEW i \in 1..Len(requests'[t]),
               NEW u \in Server, NEW j \in 1..Len(requests'[u]),
               requests'[u][j] = requests'[t][i]
        PROVE  u = t /\ j = i
    <3>1. CASE requests'[t][i] = c
      <4>1. t = s /\ i = Len(requests[s]) + 1
        BY <2>3, <3>1
      <4>2. u = s /\ j = Len(requests[s]) + 1
        BY <2>3, <2>5, <3>1
      <4> QED
        BY <4>1, <4>2
    <3>2. CASE requests'[t][i] # c
      <4>1. i \in 1..Len(requests[t]) /\ requests'[t][i] = requests[t][i]
        BY <2>3, <3>2
      <4>2. j \in 1..Len(requests[u]) /\ requests'[u][j] = requests[u][j]
        BY <2>3, <2>5, <3>2
      <4> QED
        BY <2>5, <4>1, <4>2 DEF IInv, Asked
    <3> QED
      BY <3>1, <3>2
  <2>6. \A d \in Client : ~HasSent(d)' => kid'[d] = "none"
    BY <1>1, <2>1, <2>2 DEF IInv, Asked
  <2> QED
    BY <2>4, <2>5, <2>6 DEF Asked
<1>8. Sending' /\ Boxed' /\ Prefix'
  <2>1. \A d \in Client : HasHeard(d)' <=> HasHeard(d)
    BY <1>1, <1>4 DEF HasHeard, HasSent
  <2>2. Sending'
    BY <1>1, <2>1 DEF IInv, Sending, Sends
  <2> QED
    BY <1>1, <2>2 DEF IInv, Boxed, Prefix, HasPrefix, Fits
<1>9. NamesFollowTheLiving'
  <2>1. \A d \in Client : /\ ClientRuns(d) => ClientRuns(d)'
                          /\ cpc[d] = "noserver" => cpc'[d] = "noserver"
    BY <1>1, <1>4 DEF ClientRuns
  <2> QED
    BY <1>t, <1>1, <2>1, ServerNameStays, ClientNamesStay
       DEF IInv, NamesFollowTheLiving
<1> QED
  BY <1>5, <1>6, <1>7, <1>8, <1>9 DEF IInv

\* A client takes the first message of its queue: the next chunk, the end mark
\* or the refusal.
LEMMA MessageTaken ==
  ASSUME IInv, NEW c \in Client, TakeChunk(c)
  PROVE  /\ box[c] # <<>> /\ Fits(c, 1) /\ 1 \in 1..Len(box[c])
         /\ Head(box[c]) = box[c][1] /\ box[c][1] \in Msg
         /\ box' \in [Client -> Seq(Msg)]
         /\ Len(box[c]) \in Nat
         /\ Len(box'[c]) = Len(box[c]) - 1
         /\ \A i \in 1..Len(box'[c]) : i + 1 \in 1..Len(box[c])
                                         /\ box'[c][i] = box[c][i + 1]
         /\ \A d \in Client : d # c => box'[d] = box[d] /\ got'[d] = got[d]
         /\ box[c][1].type = "data" =>
              /\ got'[c] = Append(got[c], box[c][1].chunk)
              /\ box[c][1].chunk \in Chunk
         /\ box[c][1].type # "data" => got'[c] = got[c]
         /\ got' \in [Client -> Seq(Chunk)]
         /\ UNCHANGED <<serverName, requests, clientName, spc, zombies, sigchld,
                        sq, kid, parent, to, pos, killed, termed, kidTermed>>
<1>t. TypeOK
  BY DEF IInv
<1>1. /\ box[c] # <<>>
      /\ box' = [box EXCEPT ![c] = Tail(box[c])]
      /\ got' = [got EXCEPT ![c] =
                   IF Head(box[c]).type = "data"
                     THEN Append(got[c], Head(box[c]).chunk) ELSE got[c]]
      /\ UNCHANGED <<serverName, requests, clientName, spc, zombies, sigchld,
                     sq, kid, parent, to, pos, killed, termed, kidTermed>>
  BY DEF TakeChunk, serverVars, kidVars, signals
<1>2. box[c] \in Seq(Msg) /\ got[c] \in Seq(Chunk)
  BY <1>t DEF TypeOK
<1>3. /\ Head(box[c]) = box[c][1] /\ box[c][1] \in Msg
      /\ Tail(box[c]) \in Seq(Msg)
      /\ Len(box[c]) \in Nat \ {0}
      /\ Len(Tail(box[c])) = Len(box[c]) - 1
      /\ \A i \in 1..Len(Tail(box[c])) :
           i + 1 \in 1..Len(box[c]) /\ Tail(box[c])[i] = box[c][i + 1]
  BY <1>1, <1>2, HeadTaken
<1>4. /\ box'[c] = Tail(box[c])
      /\ \A d \in Client : d # c => box'[d] = box[d] /\ got'[d] = got[d]
      /\ box' \in [Client -> Seq(Msg)]
      /\ got'[c] = IF box[c][1].type = "data"
                     THEN Append(got[c], box[c][1].chunk) ELSE got[c]
  BY <1>t, <1>1, <1>3 DEF TypeOK
<1>5. box[c][1].type = "data" => box[c][1].chunk \in Chunk
  BY <1>3 DEF Msg
<1>6. got'[c] \in Seq(Chunk)
  BY <1>2, <1>4, <1>5, AppendProperties
<1>7. got' \in [Client -> Seq(Chunk)]
  BY <1>t, <1>1, <1>4, <1>6 DEF TypeOK
<1>8. 1 \in 1..Len(box[c])
  BY <1>3
<1>9. Fits(c, 1)
  BY <1>8 DEF IInv, Boxed
<1> QED
  BY <1>1, <1>3, <1>4, <1>5, <1>7, <1>8, <1>9

LEMMA ReceiveMessageInv ==
  ASSUME IInv, NEW c \in Client, TakeChunk(c), c \notin killed,
         cpc[c] \in {"first", "more"},
         cpc' = [cpc EXCEPT ![c] = After(Head(box[c]))]
  PROVE  IInv'
<1>t. TypeOK
  BY DEF IInv
<1> DEFINE m == box[c][1]
<1>1. /\ box[c] # <<>> /\ Fits(c, 1) /\ 1 \in 1..Len(box[c])
      /\ Head(box[c]) = m /\ m \in Msg
      /\ box' \in [Client -> Seq(Msg)]
      /\ Len(box[c]) \in Nat
      /\ Len(box'[c]) = Len(box[c]) - 1
      /\ \A i \in 1..Len(box'[c]) :
           i + 1 \in 1..Len(box[c]) /\ box'[c][i] = box[c][i + 1]
      /\ \A d \in Client : d # c => box'[d] = box[d] /\ got'[d] = got[d]
      /\ m.type = "data" => /\ got'[c] = Append(got[c], m.chunk)
                            /\ m.chunk \in Chunk
      /\ m.type # "data" => got'[c] = got[c]
      /\ got' \in [Client -> Seq(Chunk)]
      /\ UNCHANGED <<serverName, requests, clientName, spc, zombies, sigchld,
                     sq, kid, parent, to, pos, killed, termed, kidTermed>>
  BY MessageTaken
<1> HIDE DEF m
<1>2. /\ m.type \in {"data", "end", "failure"}
      /\ After(m) \in {"more", "unlink", "refused"}
  BY <1>1 DEF Msg, After
<1>3. /\ cpc'[c] \in {"more", "unlink", "refused"}
      /\ \A d \in Client : d # c => cpc'[d] = cpc[d]
      /\ cpc' \in [Client -> ClientPC]
  BY <1>t, <1>1, <1>2 DEF TypeOK, ClientPC
<1>4. got[c] \in Seq(Chunk) /\ Len(got[c]) \in Nat
  BY <1>t, LenProperties DEF TypeOK
<1>5. m.type = "data" =>
        /\ Len(got'[c]) = Len(got[c]) + 1
        /\ \A j \in 1..Len(got[c]) : got'[c][j] = got[c][j]
        /\ got'[c][Len(got[c]) + 1] = m.chunk
  <2> SUFFICES ASSUME m.type = "data"
               PROVE  /\ Len(got'[c]) = Len(got[c]) + 1
                      /\ \A j \in 1..Len(got[c]) : got'[c][j] = got[c][j]
                      /\ got'[c][Len(got[c]) + 1] = m.chunk
    OBVIOUS
  <2>1. got'[c] = Append(got[c], m.chunk) /\ m.chunk \in Chunk
    BY <1>1
  <2>2. got[c] \in Seq(Chunk)
    BY <1>4
  <2> QED
    BY <2>1, <2>2, AppendProperties
<1>6. \A k, l \in Nat : (k + 1) + l = k + (l + 1)
  OBVIOUS
<1>7. TypeOK'
  <2>1. Len(box'[c]) <= MaxMsg
    <3>1. Len(box[c]) <= MaxMsg /\ MaxMsg \in Nat
      BY <1>t, MqFileAssumption DEF TypeOK
    <3> QED
      BY <1>1, <3>1
  <2>2. \A d \in Client : Len(box'[d]) <= MaxMsg
    BY <1>t, <1>1, <2>1 DEF TypeOK
  <2> QED
    BY <1>t, <1>1, <1>3, <2>2 DEF TypeOK
<1>8. Linked'
  BY <1>1, <1>3 DEF IInv, Linked
<1>9. Named'
  <2>1. clientName[PidOf[c]] = c
    BY DEF IInv, Named
  <2> QED
    BY <1>1, <1>3, <2>1 DEF IInv, Named
<1>10. Asked'
  <2>1. \A d \in Client : HasSent(d)' <=> HasSent(d)
    BY <1>3 DEF HasSent
  <2>2. \A s \in Server : \A i \in 1..Len(requests[s]) :
          requests[s][i] \in Client
    BY <1>t, ElementOfSeq DEF TypeOK
  <2> QED
    BY <1>1, <2>1, <2>2 DEF IInv, Asked
<1>11. Sending'
  <2>1. kid[c] \notin {"none", "queue", "refuse"}
    BY <1>1 DEF IInv, Sending, Sends
  <2>2. ASSUME kid[c] = "copy"
        PROVE  /\ to[c] = c /\ ~Missing(c)
               /\ pos[c] = Len(got'[c]) + Len(box'[c])
               /\ pos[c] <= Len(Want(c))
               /\ \A i \in 1..Len(box'[c]) : box'[c][i].type = "data"
    <3>1. /\ to[c] = c /\ ~Missing(c)
          /\ pos[c] = Len(got[c]) + Len(box[c])
          /\ pos[c] <= Len(Want(c))
          /\ \A i \in 1..Len(box[c]) : box[c][i].type = "data"
      BY <2>2 DEF IInv, Sending, Sends
    <3>2. m.type = "data"
      BY <1>1, <3>1 DEF m
    <3>3. Len(box'[c]) \in Nat /\ Len(box[c]) = Len(box'[c]) + 1
      BY <1>1
    <3>4. Len(got'[c]) + Len(box'[c]) = Len(got[c]) + Len(box[c])
      BY <1>4, <1>5, <1>6, <3>2, <3>3
    <3> QED
      BY <1>1, <3>1, <3>4
  <2>3. Sends(c)'
    BY <1>1, <2>1, <2>2 DEF Sends, Missing, Want
  <2> QED
    BY <1>1, <1>3, <2>3, OthersSend DEF IInv
<1>12. Boxed'
  <2>1. ASSUME NEW d \in Client, d # c, NEW i \in 1..Len(box'[d])
        PROVE  Fits(d, i)'
    <3>1. got'[d] = got[d] /\ box'[d] = box[d] /\ Fits(d, i)
      BY <1>1, <2>1 DEF IInv, Boxed
    <3> QED
      BY <3>1 DEF Fits, Missing, Want
  <2>2. ASSUME NEW i \in 1..Len(box'[c])
        PROVE  Fits(c, i)'
    <3>1. /\ Fits(c, i + 1) /\ box'[c][i] = box[c][i + 1]
          /\ i + 1 \in 1..Len(box[c])
      BY <1>1 DEF IInv, Boxed
    <3>2. Len(box[c]) # 1 /\ i \in Nat
      BY <1>1, <3>1
    <3>3. m.type = "data"
      BY <1>1, <1>2, <3>2 DEF Fits, m
    <3>4. Len(got'[c]) + i = Len(got[c]) + (i + 1)
      BY <1>4, <1>5, <1>6, <3>2, <3>3
    <3>5. i = Len(box'[c]) <=> i + 1 = Len(box[c])
      BY <1>1, <3>2
    <3> QED
      BY <3>1, <3>4, <3>5 DEF Fits, Missing, Want
  <2> QED
    BY <2>1, <2>2 DEF Boxed
<1>13. Prefix'
  <2>1. ASSUME NEW d \in Client, got'[d] = got[d]
        PROVE  HasPrefix(d)'
    BY <2>1 DEF IInv, Prefix, HasPrefix, Missing, Want
  <2>2. ASSUME m.type = "data"
        PROVE  HasPrefix(c)'
    <3>1. /\ ~Missing(c)
          /\ Len(got[c]) + 1 <= Len(Want(c))
          /\ m.chunk = Want(c)[Len(got[c]) + 1]
      BY <1>1, <2>2 DEF Fits, m
    <3>2. \A j \in 1..Len(got'[c]) : j \in 1..Len(got[c]) \/ j = Len(got[c]) + 1
      BY <1>4, <1>5, <2>2
    <3>3. \A j \in 1..Len(got'[c]) : got'[c][j] = Want(c)[j]
      BY <1>5, <2>2, <3>1, <3>2 DEF IInv, Prefix, HasPrefix
    <3>4. Len(got'[c]) <= Len(Want(c))
      BY <1>5, <2>2, <3>1
    <3> QED
      BY <3>1, <3>3, <3>4 DEF HasPrefix, Missing, Want
  <2>3. HasPrefix(c)'
    BY <1>1, <2>1, <2>2
  <2> QED
    BY <1>1, <2>1, <2>3 DEF Prefix
<1>14. NamesFollowTheLiving'
  <2>1. \A d \in Client : /\ ClientRuns(d) => ClientRuns(d)'
                          /\ cpc[d] = "noserver" => cpc'[d] = "noserver"
    BY <1>1, <1>3 DEF ClientRuns
  <2> QED
    BY <1>t, <1>1, <2>1, ServerNameStays, ClientNamesStay
       DEF IInv, NamesFollowTheLiving
<1> QED
  BY <1>7, <1>8, <1>9, <1>10, <1>11, <1>12, <1>13, <1>14 DEF IInv

LEMMA UnlinkInv ==
  ASSUME IInv, NEW c \in Client, Unlink(c)
  PROVE  IInv'
<1>t. TypeOK
  BY DEF IInv
<1>1. /\ cpc[c] \in {"unlink", "refused"}
      /\ \/ cpc' = [cpc EXCEPT ![c] = "done"]
         \/ cpc' = [cpc EXCEPT ![c] = "refusedDone"]
      /\ clientName' = [clientName EXCEPT ![PidOf[c]] = None]
      /\ UNCHANGED <<serverName, requests, box, spc, zombies, sigchld, sq, got,
                     kid, parent, to, pos, killed, termed, kidTermed>>
  BY DEF Unlink, Step, serverVars, kidVars, signals
<1>2. /\ cpc'[c] \in {"done", "refusedDone"}
      /\ \A d \in Client : d # c => cpc'[d] = cpc[d]
      /\ cpc' \in [Client -> ClientPC]
  BY <1>t, <1>1 DEF TypeOK, ClientPC
<1>3. /\ PidOf[c] \in Pid /\ clientName[PidOf[c]] = c
      /\ clientName'[PidOf[c]] = None
      /\ \A p \in Pid : p # PidOf[c] => clientName'[p] = clientName[p]
  BY <1>t, <1>1, MqFileAssumption DEF TypeOK, IInv, Named
<1>4. TypeOK'
  BY <1>t, <1>1, <1>2 DEF TypeOK
<1>5. Linked'
  BY <1>1, <1>2 DEF IInv, Linked
<1>6. Named'
  <2>1. \A d \in Client : clientName[PidOf[d]] = d /\ d # c
                            => clientName'[PidOf[d]] = d
    BY <1>3, MqFileAssumption
  <2> QED
    BY <1>2, <2>1 DEF IInv, Named
<1>7. Asked' /\ Sending' /\ Boxed' /\ Prefix'
  BY <1>1, <1>2, QuietClient DEF HasSent, HasHeard
<1>8. NamesFollowTheLiving'
  <2>1. \A d \in Client : d # c => /\ ClientRuns(d) => ClientRuns(d)'
                                   /\ cpc[d] = "noserver" => cpc'[d] = "noserver"
    BY <1>1, <1>2 DEF ClientRuns
  <2>2. ASSUME NEW p \in Pid, NEW d \in Client, clientName'[p] = d
        PROVE  /\ PidOf[d] = p
               /\ ClientRuns(d)' \/ d \in killed \/ cpc'[d] = "noserver"
    <3>1. d # None
      BY MqFileAssumption
    <3>2. clientName[p] = d /\ p # PidOf[c]
      BY <1>3, <2>2, <3>1
    <3>3. PidOf[d] = p /\ (ClientRuns(d) \/ d \in killed \/ cpc[d] = "noserver")
      BY <3>1, <3>2 DEF IInv, NamesFollowTheLiving, ClientNamesFollow
    <3> QED
      BY <2>1, <3>2, <3>3
  <2>3. \A p \in Pid : clientName'[p] \in Client \cup {None}
    BY <1>4 DEF TypeOK
  <2> QED
    BY <1>1, <2>2, <2>3, ServerNameStays
       DEF IInv, NamesFollowTheLiving, ClientNamesFollow
<1> QED
  BY <1>4, <1>5, <1>6, <1>7, <1>8 DEF IInv

LEMMA KillInv ==
  ASSUME IInv, NEW p \in Server \cup Client, Kill(p)
  PROVE  IInv'
<1>t. TypeOK
  BY DEF IInv
<1>1. /\ killed' = killed \cup {p}
      /\ UNCHANGED <<serverName, requests, clientName, box, spc, zombies,
                     sigchld, cpc, sq, got, kid, parent, to, pos, termed,
                     kidTermed>>
  BY DEF Kill, serverVars, clientVars, kidVars
<1>2. TypeOK'
  BY <1>t, <1>1 DEF TypeOK
<1>3. Linked' /\ Named'
  BY <1>1 DEF IInv, Linked, Named
<1>5. Asked'
  BY <1>1 DEF IInv, Asked, HasSent
<1>6. Sending'
  BY <1>1 DEF IInv, Sending, Sends, HasSent, HasHeard
<1>7. Boxed' /\ Prefix'
  BY <1>1 DEF IInv, Boxed, Prefix, HasPrefix, Fits
<1>8. NamesFollowTheLiving'
  <2>1. \A d \in Client : ClientRuns(d) => ClientRuns(d)' \/ d \in killed'
    BY <1>1 DEF ClientRuns
  <2>2. \A s \in Server : /\ Serving(s)' => Serving(s)
                          /\ Serving(s) => Serving(s)' \/ s \in killed'
    BY <1>1 DEF Serving
  <2>3. StrayCleanup' <=> StrayCleanup
    BY <1>1 DEF StrayCleanup
  <2>4. ServerNameFollows'
    BY <1>t, <1>1, <2>2, <2>3 DEF IInv, NamesFollowTheLiving,
                                  ServerNameFollows, TypeOK
  <2> QED
    BY <1>t, <1>1, <2>1, <2>4, ClientNamesStay DEF IInv, NamesFollowTheLiving
<1> QED
  BY <1>2, <1>3, <1>5, <1>6, <1>7, <1>8 DEF IInv

LEMMA StutterInv == IInv /\ UNCHANGED vars => IInv'
<1> SUFFICES ASSUME IInv, UNCHANGED vars PROVE IInv'
  OBVIOUS
<1> USE DEF vars, serverVars, clientVars, kidVars, signals
<1>1. TypeOK'
  BY DEF IInv, TypeOK
<1>2. Linked' /\ Named' /\ NamesFollowTheLiving'
  BY NamesStay DEF IInv, Linked, Named
<1>3. Asked'
  BY DEF IInv, Asked, HasSent
<1>4. Sending'
  BY DEF IInv, Sending, Sends, HasSent, HasHeard
<1>5. Boxed' /\ Prefix'
  BY DEF IInv, Boxed, Prefix, HasPrefix, Fits
<1> QED
  BY <1>1, <1>2, <1>3, <1>4, <1>5 DEF IInv

LEMMA StepInv == IInv /\ [Next]_vars => IInv'
<1> SUFFICES ASSUME IInv, [Next]_vars PROVE IInv'
  OBVIOUS
<1>1. ASSUME NEW s \in Server,
             \/ StartServer(s) \/ ServerGoesOn(s)
             \/ GrimReaper(s) \/ Cleanup(s)
      PROVE  IInv'
  BY <1>1, ServerStepInv, ReceiveInv, GrimReaperInv, CleanupInv
     DEF ServerGoesOn
<1>2. ASSUME NEW c \in Client, KidGoesOn(c) \/ KidCleanup(c)
      PROVE  IInv'
  BY <1>2, OpenQueueInv, SendFailureInv, SendDataInv, SendEndInv, KidCleanupInv
     DEF KidGoesOn
<1>3. ASSUME NEW c \in Client, ReceiveFirst(c) \/ ReceiveMore(c)
      PROVE  IInv'
  BY <1>3, ReceiveMessageInv DEF ReceiveFirst, ReceiveMore, Step
<1>4. ASSUME NEW c \in Client, MakeQueue(c) \/ ClientGoesOn(c)
      PROVE  IInv'
  BY <1>3, <1>4, MakeQueueInv, ConnectInv, SendRequestInv, UnlinkInv
     DEF ClientGoesOn
<1>5. ASSUME NEW p \in Server \cup Client, Kill(p)
      PROVE  IInv'
  BY <1>5, KillInv
<1>6. CASE UNCHANGED vars
  BY <1>6, StutterInv
<1> QED
  BY <1>1, <1>2, <1>4, <1>5, <1>6 DEF Next

\* All that follows rests on this.
THEOREM InductiveInvariant == Spec => []IInv
BY InitInv, StepInv, PTL DEF Spec

\* Every variable keeps its type, and no queue ever holds more messages than
\* mq_maxmsg.
THEOREM TypeCorrect == Spec => []TypeOK
<1>1. IInv => TypeOK
  BY DEF IInv
<1> QED
  BY <1>1, InductiveInvariant, PTL

\* posixmq_file_server.c:3-11, 69-80, posixmq_file_client.c:31-36, 97-105: the
\* names left are those of killed processes and of clients without a server,
\* and a serving server keeps its name unless the handler ran in a child or in
\* a server that was not serving, for any processes and signals.
THEOREM NamesFollow == Spec => []NamesFollowTheLiving
<1>1. IInv => NamesFollowTheLiving
  BY DEF IInv
<1> QED
  BY <1>1, InductiveInvariant, PTL

-----------------------------------------------------------------------------
(* A client has what FileChannel promises it.                              *)

LEMMA InitRefines == Init => Channel!Init
BY DEF Init, Channel!Init, End

LEMMA ReceiveRefines ==
  ASSUME IInv, NEW c \in Client, TakeChunk(c),
         cpc[c] \in {"first", "more"},
         cpc' = [cpc EXCEPT ![c] = After(Head(box[c]))]
  PROVE  Channel!Next
<1>t. TypeOK
  BY DEF IInv
<1> DEFINE m == box[c][1]
<1>1. /\ box[c] # <<>> /\ Fits(c, 1) /\ 1 \in 1..Len(box[c])
      /\ Head(box[c]) = m /\ m \in Msg
  BY MessageTaken
<1>2. got' = [got EXCEPT ![c] = IF m.type = "data" THEN Append(got[c], m.chunk)
                                                   ELSE got[c]]
  BY <1>1 DEF TakeChunk
<1> HIDE DEF m
<1>3. m.type \in {"data", "end", "failure"}
  BY <1>1 DEF Msg
<1>4. /\ cpc'[c] = After(m)
      /\ \A d \in Client : d # c => cpc'[d] = cpc[d]
  BY <1>t, <1>1 DEF TypeOK
<1>5. End[c] = "open"
  BY DEF End
<1>6. Channel!Missing(c) <=> Missing(c)
  BY DEF Channel!Missing, Missing
<1>7. Len(got[c]) \in Nat /\ got[c] \in Seq(Chunk)
  BY <1>t, LenProperties DEF TypeOK
<1>8. CASE m.type = "data"
  <2>1. /\ ~Missing(c) /\ Len(got[c]) + 1 <= Len(Want(c))
        /\ m.chunk = Want(c)[Len(got[c]) + 1]
    BY <1>1, <1>8 DEF Fits, m
  <2>2. Len(got[c]) < Len(Want(c))
    BY <1>7, <2>1, FileIsASeq
  <2>3. got' = [got EXCEPT ![c] = Append(@, Want(c)[Len(@) + 1])]
    BY <1>2, <1>8, <2>1
  <2>4. cpc'[c] = "more"
    BY <1>4, <1>8 DEF After
  <2>5. End' = End
    BY <1>4, <2>4 DEF End
  <2> QED
    BY <1>5, <1>6, <2>1, <2>2, <2>3, <2>5
       DEF Channel!Next, Channel!Deliver, Want
<1>9. CASE m.type = "end"
  <2>1. ~Missing(c) /\ Len(got[c]) + 1 = Len(Want(c)) + 1
    BY <1>1, <1>9 DEF Fits, m
  <2>2. Len(got[c]) = Len(Want(c))
    BY <1>7, <2>1, FileIsASeq
  <2>3. got[c] = Want(c)
    BY <1>7, <2>1, <2>2, FileIsASeq, SeqEqual DEF IInv, Prefix, HasPrefix
  <2>4. cpc'[c] = "unlink"
    BY <1>4, <1>9 DEF After
  <2>5. End' = [End EXCEPT ![c] = "complete"]
    BY <1>4, <2>4 DEF End
  <2>6. got' = got
    BY <1>t, <1>2, <1>9 DEF TypeOK
  <2> QED
    BY <1>5, <1>6, <2>1, <2>3, <2>5, <2>6
       DEF Channel!Next, Channel!Complete, Want
<1>10. CASE m.type = "failure"
  <2>1. Missing(c)
    BY <1>1, <1>10 DEF Fits, m
  <2>2. cpc'[c] = "refused"
    BY <1>4, <1>10 DEF After
  <2>3. End' = [End EXCEPT ![c] = "refused"]
    BY <1>4, <2>2 DEF End
  <2>4. got' = got
    BY <1>t, <1>2, <1>10 DEF TypeOK
  <2> QED
    BY <1>5, <1>6, <2>1, <2>3, <2>4 DEF Channel!Next, Channel!Refuse
<1> QED
  BY <1>3, <1>8, <1>9, <1>10

\* A client that does not receive stays where it is.
LEMMA EndStays ==
  ASSUME NEW c \in Client, NEW from, NEW onto, TypeOK, Step(c, from, onto),
         <<from, onto>> \in {<<"new", "connect">>, <<"new", "taken">>,
           <<"connect", "noserver">>, <<"connect", "send">>,
           <<"send", "first">>, <<"unlink", "done">>,
           <<"refused", "refusedDone">>}
  PROVE  End' = End
<1>1. /\ cpc[c] = from /\ cpc'[c] = onto
      /\ \A d \in Client : d # c => cpc'[d] = cpc[d]
  BY DEF TypeOK, Step
<1> QED
  BY <1>1 DEF End

LEMMA StepRefines ==
  IInv /\ [Next]_vars => [Channel!Next]_<<got, End>>
<1> SUFFICES ASSUME IInv, [Next]_vars
             PROVE  Channel!Next \/ UNCHANGED <<got, End>>
  OBVIOUS
<1>t. TypeOK
  BY DEF IInv
<1>0. UNCHANGED <<got, cpc>> => UNCHANGED <<got, End>>
  BY DEF End
<1>1. ASSUME NEW s \in Server,
             \/ StartServer(s) \/ ServerGoesOn(s)
             \/ GrimReaper(s) \/ Cleanup(s)
      PROVE  UNCHANGED <<got, cpc>>
  BY <1>1 DEF StartServer, ServerGoesOn, OpenServer, ServerExists, ServerStep,
              Receive, GrimReaper, Cleanup, clientVars
<1>2. ASSUME NEW c \in Client, KidGoesOn(c) \/ KidCleanup(c)
      PROVE  UNCHANGED <<got, cpc>>
  BY <1>2 DEF KidGoesOn, KidCleanup, OpenQueue, SendFailure, SendData, SendEnd,
              SendTo, clientVars
<1>3. ASSUME NEW c \in Client, ReceiveFirst(c) \/ ReceiveMore(c)
      PROVE  Channel!Next
  BY <1>3, ReceiveRefines DEF ReceiveFirst, ReceiveMore, Step
<1>4. ASSUME NEW c \in Client,
             MakeQueue(c) \/ Connect(c) \/ SendRequest(c) \/ Unlink(c)
      PROVE  UNCHANGED <<got, End>>
  <2>1. got' = got
    BY <1>4 DEF MakeQueue, Connect, SendRequest, Unlink
  <2>2. MakeQueue(c) => Step(c, "new", "connect") \/ Step(c, "new", "taken")
    BY DEF MakeQueue, Step
  <2>3. Connect(c) => \/ Step(c, "connect", "noserver")
                      \/ Step(c, "connect", "send")
    BY DEF Connect, Step
  <2>4. SendRequest(c) => Step(c, "send", "first")
    BY DEF SendRequest
  <2>5. Unlink(c) => \/ Step(c, "unlink", "done")
                     \/ Step(c, "refused", "refusedDone")
    BY DEF Unlink
  <2> QED
    BY <1>t, <1>4, <2>1, <2>2, <2>3, <2>4, <2>5, EndStays
<1>5. ASSUME NEW p \in Server \cup Client, Kill(p)
      PROVE  UNCHANGED <<got, cpc>>
  BY <1>5 DEF Kill, clientVars
<1>6. CASE UNCHANGED vars
  BY <1>0, <1>6 DEF vars, clientVars
<1> QED
  BY <1>0, <1>1, <1>2, <1>3, <1>4, <1>5, <1>6 DEF Next, ClientGoesOn

\* posixmq_file_server.c:22-64, posixmq_file_client.c:62-100: whoever is ended by a
\* signal and whatever the size of a queue, a client receives its file in
\* order and once, then an end mark, or a refusal if there is no such file.
THEOREM Refinement == Spec => ImplementsFileChannel
BY InitRefines, StepRefines, InductiveInvariant, PTL
   DEF Spec, ImplementsFileChannel, Channel!Spec

=============================================================================

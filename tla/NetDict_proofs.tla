---------------------------- MODULE NetDict_proofs ----------------------------
(***************************************************************************)
(* Proofs about the dictionaries of SP_HW11.  NetDict, for any servers,    *)
(* clients and words, any number of lookups and of faults: a lookup        *)
(* answers the question it was asked, with the exceptions that             *)
(* AnswerIsToTheQuestion names.  Lookup5, the search its servers make: it  *)
(* finds a word exactly if the file has it, for every sorted file that the *)
(* rounds are enough for.                                                  *)
(***************************************************************************)
EXTENDS NetDict, Lookup5, SequenceTheorems, TLAPS

Text   == Word \cup {XXXX, Junk}
Query  == [src : Client, dst : Server \cup {None}, rec : Dictrec, id : Nat]
Answer == [src : Server, dst : Client, rec : Dictrec, id : Nat]

\* Where a connection may be.
KidStates == {"none", "queued", "accepted", "recv", "reply", "closed"}

\* Type correctness of every variable.
TypeOK ==
  /\ transport \in {"unix", "inet", "udp"}
  /\ spc \in [Server -> {"new", "accept", "fork", "close", "wait", "reply",
                    "exited"}]
  /\ at \in Server \cup {None}
  /\ backlog \in [Server -> Seq(Client)]
  /\ kid \in [Client -> KidStates]
  /\ kreq \in [Server \cup Client -> Dictrec \cup Query \cup {None}]
  /\ held \in [Server -> SUBSET Client]
  /\ up \in [Client -> Seq(Dictrec)]
  /\ down \in [Client -> Seq(Dictrec)]
  /\ reset \subseteq Client
  /\ net \subseteq Query \cup Answer
  /\ cpc \in [Client -> {"prompt", "connect", "send", "recv", "exited"}]
  /\ rec \in [Client -> [word : Word \cup {None}, text : Text]]
  /\ asked \in [Client -> Nat]
  /\ want \in [Client -> Word \cup {None}]
  /\ result \in [Client -> Text \cup {None, "NOTFOUND"}]
  /\ cut \subseteq Client /\ orphaned \subseteq Client
  /\ dup \subseteq Client /\ lost \subseteq Client
  /\ killed \subseteq Server \cup {Kid(c) : c \in Client}

\* Who is about to reply has a request.
Working ==
  /\ transport # "udp" =>
       \A c \in Client : kid[c] = "reply" => kreq[c] \in Dictrec
  /\ \A s \in Server :
       spc[s] = "reply" => transport = "udp" /\ kreq[s] \in Query

\* A lookup has the record of the word it was called with.
Looking == \A c \in Client :
             cpc[c] \in {"connect", "send", "recv"} =>
               want[c] \in Word /\ rec[c].word = want[c]

\* A client connects once, and waits in one queue.
Queued ==
  /\ \A c \in Client : /\ cpc[c] = "connect" => asked[c] # 0 /\ kid[c] = "none"
                       /\ asked[c] = 0 => kid[c] = "none"
  /\ \A s \in Server : \A i \in 1..Len(backlog[s]) :
       /\ kid[backlog[s][i]] # "none"
       /\ s \notin killed => kid[backlog[s][i]] = "queued"
       /\ \A t \in Server : \A j \in 1..Len(backlog[t]) :
            backlog[t][j] = backlog[s][i] => t = s /\ j = i

\* The text of the answer to w.
TextFor(w) == IF w \in Dict THEN w ELSE XXXX

\* Over a stream a client and its child have one record between them.
Quiet(c)    == up[c] = <<>> /\ down[c] = <<>> /\ kid[c] # "reply"
Asking(c)   == /\ \E r \in Dictrec : up[c] = <<r>> /\ r.word = want[c]
               /\ down[c] = <<>> /\ kid[c] # "reply"
Served(c)   == /\ kid[c] = "reply" /\ kreq[c].word = want[c]
               /\ up[c] = <<>> /\ down[c] = <<>>
Answered(c) == /\ \E r \in Dictrec : down[c] = <<r>> /\ r.text = TextFor(want[c])
               /\ up[c] = <<>> /\ kid[c] # "reply"

Dialogue(c) ==
  transport # "udp" /\ c \notin cut \cup orphaned =>
    /\ cpc[c] \in {"prompt", "connect", "send"} => Quiet(c)
    /\ cpc[c] = "recv" => \/ Quiet(c) /\ kid[c] = "closed"
                          \/ Asking(c) \/ Served(c) \/ Answered(c)
    /\ kid[c] = "closed" /\ ~Gone(c) => c \in reset

Dialogues == \A c \in Client : Dialogue(c)

\* A server has a socket only once it is accepted, and no other has it too.
HeldOnce == \A s \in Server : \A c \in held[s] :
              /\ kid[c] \notin {"none", "queued"}
              /\ \A t \in Server : c \in held[t] => t = s

\* A connection nobody ever served carries no answer.  One that lost its
\* server between accept and fork is at its end; over a Unix socket the client
\* that waits on it is told so.
NoChild(c)  == kid[c] \in {"none", "queued", "accepted"} \/ c \in orphaned
Left(c) == /\ c \in cut \cup orphaned => kid[c] = "closed"
           /\ NoChild(c) => down[c] = <<>>
           /\ c \in orphaned =>
                /\ Hangup(c)
                /\ transport = "unix" /\ cpc[c] = "recv" => c \in reset

Owned == HeldOnce /\ \A c \in Client : Left(c)

\* Of a client none of whose datagrams was doubled one is under way, or is
\* with a server, and only while the client waits for it.
Of(d, c)    == c \in {d.src, d.dst}
Serves(s, c) == spc[s] = "reply" /\ kreq[s].src = c
Carries(d, c) == /\ d.src = c => d.rec.word = want[c]
                 /\ d.dst = c => d.rec.text = TextFor(want[c])

Exchange(c) ==
  transport = "udp" /\ c \notin dup =>
    /\ \A d \in net : Of(d, c) =>
         /\ cpc[c] = "recv" /\ Carries(d, c)
         /\ \A e \in net : Of(e, c) => e = d
         /\ \A s \in Server : ~Serves(s, c)
    /\ \A s \in Server : Serves(s, c) =>
         /\ cpc[c] = "recv" /\ kreq[s].rec.word = want[c]
         /\ \A t \in Server : Serves(t, c) => t = s

Exchanges == \A c \in Client : Exchange(c)

IInv == /\ TypeOK /\ Working /\ Looking /\ Queued /\ Owned
        /\ Dialogues /\ Exchanges /\ AnswerIsToTheQuestion

-----------------------------------------------------------------------------
(* Records and what a step leaves as it was.                               *)

\* A sequence that gets its first record, and loses it again.
LEMMA LoneRecord ==
  ASSUME NEW T, NEW r \in T
  PROVE  /\ Append(<<>>, r) = <<r>> /\ <<r>> # <<>>
         /\ Head(<<r>>) = r /\ Tail(<<r>>) = <<>>
BY EmptySeq, AppendProperties, HeadTailProperties

\* What lookup makes of a record.
LEMMA ReplyText ==
  ASSUME NEW r \in Dictrec
  PROVE  /\ Reply(r) \in Dictrec
         /\ Reply(r).text = TextFor(r.word)
BY NetDictAssumption DEF Dictrec, Reply, TextFor

\* No client is a server or nobody.
LEMMA ClientsApart ==
  ASSUME NEW c \in Client
  PROVE  c \notin Server /\ c # None
BY NetDictAssumption

\* A datagram to a server is a query, one to a client an answer.
LEMMA DatagramKinds ==
  ASSUME TypeOK, NEW d \in net
  PROVE  /\ d \in Query \/ d \in Answer
         /\ d.dst \in Server => d \in Query
         /\ d.dst \in Client => d \in Answer
         /\ d.src \in Client => d \in Query
<1>1. d \in Query \/ d \in Answer
  BY DEF TypeOK
<1>2. d \in Query => d.dst \notin Client /\ d.src \notin Server
  BY NetDictAssumption DEF Query
<1>3. d \in Answer => d.dst \notin Server /\ d.src \notin Client
  BY NetDictAssumption DEF Answer
<1> QED
  BY <1>1, <1>2, <1>3 DEF Query, Answer

\* Nothing of c's dialogue changes.
LEMMA DialogueKept ==
  ASSUME NEW c \in Client, Dialogue(c), transport' = transport,
         c \in cut \cup orphaned => c \in cut' \cup orphaned',
         c \in reset => c \in reset',
         kid'[c] = kid[c], kreq'[c] = kreq[c], up'[c] = up[c],
         down'[c] = down[c], cpc'[c] = cpc[c], want'[c] = want[c]
  PROVE  Dialogue(c)'
BY DEF Dialogue, Quiet, Asking, Served, Answered, Gone

\* Nothing is added to c's exchange.
LEMMA ExchangeKept ==
  ASSUME NEW c \in Client, Exchange(c), transport' = transport,
         c \in dup => c \in dup',
         \A d \in net' : Of(d, c) => d \in net,
         \A s \in Server : Serves(s, c)' => Serves(s, c) /\ kreq'[s] = kreq[s],
         cpc'[c] = cpc[c], want'[c] = want[c]
  PROVE  Exchange(c)'
<1> SUFFICES ASSUME transport = "udp", c \notin dup
             PROVE  Exchange(c)'
  BY DEF Exchange
<1>1. /\ \A d \in net : Of(d, c) =>
           /\ cpc[c] = "recv" /\ Carries(d, c)
           /\ \A e \in net : Of(e, c) => e = d
           /\ \A s \in Server : ~Serves(s, c)
      /\ \A s \in Server : Serves(s, c) =>
           /\ cpc[c] = "recv" /\ kreq[s].rec.word = want[c]
           /\ \A t \in Server : Serves(t, c) => t = s
  BY DEF Exchange
<1>2. ASSUME NEW d \in net', Of(d, c)
      PROVE  /\ cpc'[c] = "recv" /\ Carries(d, c)'
             /\ \A e \in net' : Of(e, c) => e = d
             /\ \A s \in Server : ~Serves(s, c)'
  BY <1>1, <1>2 DEF Carries
<1>3. ASSUME NEW s \in Server, Serves(s, c)'
      PROVE  /\ cpc'[c] = "recv" /\ kreq'[s].rec.word = want'[c]
             /\ \A t \in Server : Serves(t, c)' => t = s
  BY <1>1, <1>3
<1> QED
  BY <1>2, <1>3 DEF Exchange, Of

\* The servers have the sockets they had, and at most a child ends.
LEMMA OwnedKept ==
  ASSUME Owned, transport' = transport, held' = held, cut' = cut,
         orphaned' = orphaned, reset \subseteq reset',
         \A c \in Client :
           /\ \/ kid'[c] = kid[c]
              \/ /\ kid[c] \in {"recv", "reply"}
                 /\ kid'[c] \in {"recv", "reply", "closed"}
           /\ NoChild(c) /\ down[c] = <<>> => down'[c] = <<>>
           /\ transport = "unix" /\ c \in orphaned /\ cpc'[c] = "recv" =>
                cpc[c] = "recv",
         held \in [Server -> SUBSET Client]
  PROVE  Owned'
<1>1. HeldOnce'
  BY DEF Owned, HeldOnce
<1>2. ASSUME NEW c \in Client PROVE Left(c)'
  <2>1. Left(c)
    BY DEF Owned
  <2>2. c \in cut \cup orphaned => kid'[c] = "closed"
    BY <2>1 DEF Left
  <2>3. NoChild(c)' => NoChild(c) /\ down[c] = <<>>
    BY <2>1 DEF Left, NoChild
  <2> QED
    BY <2>1, <2>2, <2>3 DEF Left, Hangup
<1> QED
  BY <1>1, <1>2 DEF Owned

\* What c was answered is as it was.
LEMMA AnswersKept ==
  ASSUME AnswerIsToTheQuestion, transport' = transport, cut \subseteq cut',
         orphaned \subseteq orphaned', dup \subseteq dup', want' = want, result' = result
  PROVE  AnswerIsToTheQuestion'
BY DEF AnswerIsToTheQuestion

-----------------------------------------------------------------------------
(* Every action preserves the invariant.                                   *)

LEMMA InitInv == Init => IInv
<1> SUFFICES ASSUME Init PROVE IInv
  OBVIOUS
<1>1. TypeOK
  <2>1. rec \in [Client -> [word : Word \cup {None}, text : Text]]
    BY NetDictAssumption DEF Init, Text
  <2> QED
    BY <2>1 DEF Init, TypeOK, KidStates
<1>2. Working /\ Looking /\ Queued
  BY DEF Init, Working, Looking, Queued
<1>3. Owned /\ Dialogues
  BY DEF Init, Owned, HeldOnce, Left, NoChild, Dialogues, Dialogue, Quiet
<1>4. Exchanges
  BY DEF Init, Exchanges, Exchange, Serves
<1>5. AnswerIsToTheQuestion
  BY DEF Init, AnswerIsToTheQuestion
<1> QED
  BY <1>1, <1>2, <1>3, <1>4, <1>5 DEF IInv

LEMMA StutterInv ==
  ASSUME IInv, UNCHANGED vars
  PROVE  IInv'
<1>1. /\ UNCHANGED <<transport, spc, at, backlog, kid, kreq, held, up, down,
                     reset>>
      /\ UNCHANGED <<net, cpc, rec, asked, want, result, cut, orphaned, dup,
                     lost,
                     killed>>
  BY DEF vars, serverVars, connVars, clientVars, faultVars
<1>2. TypeOK'
  BY <1>1 DEF IInv, TypeOK
<1>3. Working' /\ Looking' /\ Queued'
  BY <1>1 DEF IInv, Working, Looking, Queued
<1>4. Dialogues'
  BY <1>1, DialogueKept DEF IInv, Dialogues
<1>5. Exchanges'
  BY <1>1, ExchangeKept DEF IInv, Exchanges, Serves
<1>6. AnswerIsToTheQuestion'
  BY <1>1, AnswersKept DEF IInv
<1>7. Owned'
  BY <1>1, OwnedKept DEF IInv, TypeOK
<1> QED
  BY <1>2, <1>3, <1>4, <1>5, <1>6, <1>7 DEF IInv

\* A server starts, or fails to, whatever the transport.
LEMMA StartInv ==
  ASSUME IInv, NEW s \in Server, StartUnix(s) \/ StartInet(s) \/ StartUdp(s)
  PROVE  IInv'
<1>1. PICK x \in {"accept", "wait", "exited"} :
        /\ spc' = [spc EXCEPT ![s] = x]
        /\ at' \in Server \cup {None}
        /\ UNCHANGED <<transport, backlog, kid, kreq, held, up, down, reset>>
        /\ UNCHANGED <<net, cpc, rec, asked, want, result, cut, orphaned, dup,
                       lost,
                       killed>>
  <2>1. at \in Server \cup {None}
    BY DEF IInv, TypeOK
  <2>2. CASE StartUnix(s)
    BY <2>2 DEF StartUnix, connVars, clientVars, faultVars
  <2>3. CASE StartInet(s)
    BY <2>1, <2>3 DEF StartInet, connVars, clientVars, faultVars
  <2>4. CASE StartUdp(s)
    BY <2>1, <2>4 DEF StartUdp, connVars, clientVars, faultVars
  <2> QED
    BY <2>2, <2>3, <2>4
<1>2. TypeOK'
  BY <1>1 DEF IInv, TypeOK
<1>3. \A t \in Server : spc'[t] = "reply" => spc[t] = "reply"
  BY <1>1 DEF IInv, TypeOK
<1>4. Working' /\ Looking' /\ Queued'
  BY <1>1, <1>3 DEF IInv, Working, Looking, Queued
<1>5. Dialogues'
  BY <1>1, DialogueKept DEF IInv, Dialogues
<1>6. Exchanges'
  <2>1. ASSUME NEW c \in Client PROVE Exchange(c)'
    <3>1. \A t \in Server : Serves(t, c)' => Serves(t, c) /\ kreq'[t] = kreq[t]
      BY <1>1, <1>3 DEF Serves
    <3> QED
      BY <1>1, <3>1, ExchangeKept DEF IInv, Exchanges
  <2> QED
    BY <2>1 DEF Exchanges
<1>7. AnswerIsToTheQuestion'
  BY <1>1, AnswersKept DEF IInv
<1>8. Owned'
  BY <1>1, OwnedKept DEF IInv, TypeOK
<1> QED
  BY <1>2, <1>4, <1>5, <1>6, <1>7, <1>8 DEF IInv

\* A client that ends, but not one that waits for a datagram.
LEMMA LeaveInv ==
  ASSUME IInv, NEW c \in Client, Leave(c), cpc[c] # "recv" \/ transport # "udp",
         UNCHANGED <<transport, serverVars, connVars, net, rec, asked, want,
                     result, faultVars>>
  PROVE  IInv'
<1>1. /\ cpc' = [cpc EXCEPT ![c] = "exited"]
      /\ UNCHANGED <<transport, spc, at, backlog, kid, kreq, held, up, down,
                     reset>>
      /\ UNCHANGED <<net, rec, asked, want, result, cut, orphaned, dup, lost,
                     killed>>
  BY DEF Leave, serverVars, connVars, faultVars
<1>2. cpc'[c] = "exited" /\ \A d \in Client : d # c => cpc'[d] = cpc[d]
  BY <1>1 DEF IInv, TypeOK
<1>3. TypeOK'
  BY <1>1 DEF IInv, TypeOK
<1>4. Working' /\ Looking' /\ Queued'
  BY <1>1, <1>2 DEF IInv, Working, Looking, Queued
<1>5. ASSUME NEW d \in Client PROVE Dialogue(d)' /\ Exchange(d)'
  <2>1. Dialogue(d) /\ Exchange(d)
    BY DEF IInv, Dialogues, Exchanges
  <2>2. CASE d # c
    <3>1. Dialogue(d)'
      BY <1>1, <1>2, <2>1, <2>2, DialogueKept
    <3>2. Exchange(d)'
      BY <1>1, <1>2, <2>1, <2>2, ExchangeKept DEF Serves
    <3> QED
      BY <3>1, <3>2
  <2>3. CASE d = c
    <3>1. Dialogue(c)'
      BY <1>2 DEF Dialogue, Gone
    <3>2. Exchange(c)'
      BY <1>1, <2>1, <2>3 DEF Exchange, Serves
    <3> QED
      BY <2>3, <3>1, <3>2
  <2> QED
    BY <2>2, <2>3
<1>6. Dialogues' /\ Exchanges'
  BY <1>5 DEF Dialogues, Exchanges
<1>7. AnswerIsToTheQuestion'
  BY <1>1, AnswersKept DEF IInv
<1>8. Owned'
  BY <1>1, <1>2, OwnedKept DEF IInv, TypeOK
<1> QED
  BY <1>3, <1>4, <1>6, <1>7, <1>8 DEF IInv

LEMMA AskInv ==
  ASSUME IInv, NEW c \in Client, Ask(c)
  PROVE  IInv'
<1>1. /\ cpc[c] = "prompt"
      /\ cpc' = [cpc EXCEPT ![c] = IF asked[c] = 0 THEN "connect" ELSE "send"]
      /\ asked' = [asked EXCEPT ![c] = asked[c] + 1]
      /\ result' = [result EXCEPT ![c] = None]
      /\ UNCHANGED <<transport, spc, at, backlog, kid, kreq, held, up, down,
                     reset>>
      /\ UNCHANGED <<net, cut, orphaned, dup, lost, killed>>
  BY DEF Ask, serverVars, connVars, faultVars
<1>2. PICK w \in Word : /\ rec' = [rec EXCEPT ![c].word = w]
                        /\ want' = [want EXCEPT ![c] = w]
  BY DEF Ask
<1>3. /\ cpc'[c] \in {"connect", "send"} /\ asked'[c] = asked[c] + 1
      /\ asked[c] \in Nat
      /\ cpc'[c] = "connect" => asked[c] = 0
      /\ result'[c] = None /\ want'[c] = w /\ rec'[c].word = w
      /\ \A d \in Client : d # c =>
           /\ cpc'[d] = cpc[d] /\ asked'[d] = asked[d] /\ result'[d] = result[d]
           /\ want'[d] = want[d] /\ rec'[d] = rec[d]
  BY <1>1, <1>2 DEF IInv, TypeOK
<1>4. TypeOK'
  <2>1. rec' \in [Client -> [word : Word \cup {None}, text : Text]]
    <3>1. rec \in [Client -> [word : Word \cup {None}, text : Text]]
      BY DEF IInv, TypeOK
    <3>2. rec[c] \in [word : Word \cup {None}, text : Text]
      BY <3>1
    <3>3. [rec[c] EXCEPT !.word = w] \in [word : Word \cup {None}, text : Text]
      BY <3>2
    <3>4. rec' = [rec EXCEPT ![c] = [rec[c] EXCEPT !.word = w]]
      BY <1>2
    <3> QED
      BY <3>1, <3>3, <3>4
  <2>2. asked' \in [Client -> Nat]
    BY <1>1, <1>3 DEF IInv, TypeOK
  <2> QED
    BY <1>1, <1>2, <2>1, <2>2 DEF IInv, TypeOK
<1>5. Working' /\ Looking' /\ Queued'
  <2>1. Working' /\ Looking'
    BY <1>1, <1>3 DEF IInv, Working, Looking
  <2>2. Queued'
    BY <1>1, <1>3 DEF IInv, Queued
  <2> QED
    BY <2>1, <2>2
<1>6. ASSUME NEW d \in Client PROVE Dialogue(d)' /\ Exchange(d)'
  <2>1. Dialogue(d) /\ Exchange(d)
    BY DEF IInv, Dialogues, Exchanges
  <2>2. CASE d # c
    <3>1. Dialogue(d)'
      BY <1>1, <1>3, <2>1, <2>2, DialogueKept
    <3>2. Exchange(d)'
      BY <1>1, <1>3, <2>1, <2>2, ExchangeKept DEF Serves
    <3> QED
      BY <3>1, <3>2
  <2>3. CASE d = c
    <3>1. Dialogue(c)'
      BY <1>1, <1>3, <2>1, <2>3 DEF Dialogue, Quiet, Gone
    <3>2. Exchange(c)'
      BY <1>1, <2>1, <2>3 DEF Exchange, Serves
    <3> QED
      BY <2>3, <3>1, <3>2
  <2> QED
    BY <2>2, <2>3
<1>7. Dialogues' /\ Exchanges'
  BY <1>6 DEF Dialogues, Exchanges
<1>8. AnswerIsToTheQuestion'
  BY <1>1, <1>3 DEF IInv, AnswerIsToTheQuestion
<1>9. Owned'
  BY <1>1, <1>3, OwnedKept DEF IInv, TypeOK
<1> QED
  BY <1>4, <1>5, <1>7, <1>8, <1>9 DEF IInv

\* A step of a stream that only client c and its child are part of.
LEMMA OthersTalkOn ==
  ASSUME IInv, transport # "udp", NEW c \in Client, transport' = transport,
         cut \subseteq cut', orphaned \subseteq orphaned', reset \subseteq reset',
         \A d \in Client : d # c =>
           /\ kid'[d] = kid[d] /\ kreq'[d] = kreq[d] /\ up'[d] = up[d]
           /\ down'[d] = down[d] /\ cpc'[d] = cpc[d] /\ want'[d] = want[d],
         Dialogue(c)'
  PROVE  Dialogues' /\ Exchanges'
<1>1. ASSUME NEW d \in Client, d # c PROVE Dialogue(d)'
  <2>1. Dialogue(d)
    BY DEF IInv, Dialogues
  <2> QED
    BY <1>1, <2>1, DialogueKept
<1>2. \A d \in Client : Exchange(d)'
  BY DEF Exchange
<1> QED
  BY <1>1, <1>2 DEF Dialogues, Exchanges

\* A connection is put into the queue of the server that has the name.
LEMMA ConnectInv ==
  ASSUME IInv, transport # "udp", NEW c \in Client, Connect(c)
  PROVE  IInv'
<1>1. /\ cpc[c] = "connect" /\ at # None
      /\ kid' = [kid EXCEPT ![c] = "queued"]
      /\ backlog' = [backlog EXCEPT ![at] = Append(backlog[at], c)]
      /\ cpc' = [cpc EXCEPT ![c] = "send"]
      /\ UNCHANGED <<transport, spc, at, kreq, held, up, down, reset, net,
                     rec>>
      /\ UNCHANGED <<asked, want, result, cut, orphaned, dup, lost, killed>>
  BY DEF Connect, faultVars
<1>2. at \in Server /\ backlog[at] \in Seq(Client)
  BY <1>1 DEF IInv, TypeOK
<1>3. /\ kid[c] = "none" /\ asked[c] # 0
      /\ kid'[c] = "queued" /\ cpc'[c] = "send"
      /\ \A d \in Client : d # c => kid'[d] = kid[d] /\ cpc'[d] = cpc[d]
  BY <1>1 DEF IInv, TypeOK, Queued
<1>4. LET n == Len(backlog[at])
      IN  /\ n \in Nat /\ Append(backlog[at], c) \in Seq(Client)
          /\ Len(backlog'[at]) = n + 1
          /\ backlog'[at][n + 1] = c
          /\ \A i \in 1..n : backlog'[at][i] = backlog[at][i]
          /\ \A t \in Server : t # at => backlog'[t] = backlog[t]
  <2>1. backlog'[at] = Append(backlog[at], c)
    BY <1>1, <1>2 DEF IInv, TypeOK
  <2>2. \A t \in Server : t # at => backlog'[t] = backlog[t]
    BY <1>1, <1>2 DEF IInv, TypeOK
  <2> QED
    BY <1>2, <2>1, <2>2, AppendProperties, LenProperties
<1>5. TypeOK'
  <2>1. backlog' \in [Server -> Seq(Client)]
    BY <1>1, <1>4 DEF IInv, TypeOK
  <2> QED
    BY <1>1, <2>1 DEF IInv, TypeOK, KidStates
<1>6. Working' /\ Looking'
  BY <1>1, <1>3 DEF IInv, Working, Looking
<1>7. Queued'
  <2>1. \A d \in Client :
          /\ cpc'[d] = "connect" => asked'[d] # 0 /\ kid'[d] = "none"
          /\ asked'[d] = 0 => kid'[d] = "none"
    BY <1>1, <1>3 DEF IInv, Queued
  <2>2. \A t \in Server : \A i \in 1..Len(backlog'[t]) :
          \/ i \in 1..Len(backlog[t]) /\ backlog'[t][i] = backlog[t][i]
          \/ t = at /\ i = Len(backlog[at]) + 1 /\ backlog'[t][i] = c
    BY <1>4
  <2>3. \A t \in Server : \A i \in 1..Len(backlog[t]) :
          backlog[t][i] \in Client /\ backlog[t][i] # c
    <3>1. \A t \in Server : \A i \in 1..Len(backlog[t]) :
            backlog[t][i] \in Client
      BY ElementOfSeq DEF IInv, TypeOK
    <3>2. \A t \in Server : \A i \in 1..Len(backlog[t]) :
            kid[backlog[t][i]] # "none"
      BY DEF IInv, Queued
    <3> QED
      BY <1>3, <3>1, <3>2
  <2>4. ASSUME NEW s \in Server, NEW i \in 1..Len(backlog'[s])
        PROVE  /\ kid'[backlog'[s][i]] # "none"
               /\ s \notin killed' => kid'[backlog'[s][i]] = "queued"
               /\ \A t \in Server : \A j \in 1..Len(backlog'[t]) :
                    backlog'[t][j] = backlog'[s][i] => t = s /\ j = i
    <3>1. CASE i \in 1..Len(backlog[s]) /\ backlog'[s][i] = backlog[s][i]
      <4>1. /\ backlog[s][i] \in Client /\ backlog[s][i] # c
            /\ kid[backlog[s][i]] # "none"
            /\ s \notin killed => kid[backlog[s][i]] = "queued"
        BY <2>3, <3>1 DEF IInv, Queued
      <4>2. \A t \in Server : \A j \in 1..Len(backlog'[t]) :
              backlog'[t][j] = backlog'[s][i] => t = s /\ j = i
        BY <2>2, <3>1, <4>1 DEF IInv, Queued
      <4> QED
        BY <1>1, <1>3, <3>1, <4>1, <4>2
    <3>2. CASE s = at /\ i = Len(backlog[at]) + 1 /\ backlog'[s][i] = c
      <4>1. \A t \in Server : \A j \in 1..Len(backlog'[t]) :
              backlog'[t][j] = c => t = s /\ j = i
        BY <2>2, <2>3, <3>2
      <4> QED
        BY <1>3, <3>2, <4>1
    <3> QED
      BY <2>2, <3>1, <3>2
  <2> QED
    BY <2>1, <2>4 DEF Queued
<1>8. Dialogue(c)'
  BY <1>1, <1>3 DEF IInv, Dialogues, Dialogue, Quiet
<1>9. Dialogues' /\ Exchanges'
  BY <1>1, <1>3, <1>8, OthersTalkOn
<1>10. AnswerIsToTheQuestion'
  BY <1>1, AnswersKept DEF IInv
<1>11. Owned'
  <2>1. /\ c \notin cut \cup orphaned /\ down[c] = <<>>
        /\ \A t \in Server : c \notin held[t]
    BY <1>3 DEF IInv, Owned, HeldOnce, Left, NoChild
  <2>2. HeldOnce'
    <3>1. HeldOnce /\ held \in [Server -> SUBSET Client]
      BY DEF IInv, Owned, TypeOK
    <3> QED
      BY <1>1, <1>3, <2>1, <3>1 DEF HeldOnce
  <2>3. ASSUME NEW d \in Client, d # c PROVE Left(d)'
    <3>1. Left(d)
      BY DEF IInv, Owned
    <3> QED
      BY <1>1, <1>3, <2>3, <3>1 DEF Left, NoChild, Hangup
  <2>4. Left(c)'
    BY <1>1, <1>3, <2>1 DEF Left
  <2> QED
    BY <2>2, <2>3, <2>4 DEF Owned
<1> QED
  BY <1>5, <1>6, <1>7, <1>9, <1>10, <1>11 DEF IInv

\* The record goes up, or nowhere if the child is gone.
LEMMA SendInv ==
  ASSUME IInv, transport # "udp", NEW c \in Client, Send(c)
  PROVE  IInv'
<1>1. CASE Hangup(c) /\ Leave(c) /\ UNCHANGED up
  BY <1>1, LeaveInv DEF Send, connVars
<1>2. CASE /\ cpc' = [cpc EXCEPT ![c] = "recv"]
           /\ \/ ~Hangup(c) /\ up' = [up EXCEPT ![c] = Append(up[c], rec[c])]
              \/ Hangup(c) /\ transport = "inet" /\ UNCHANGED up
  <2>1. /\ cpc[c] = "send"
        /\ UNCHANGED <<transport, spc, at, backlog, kid, kreq, held, down,
                       reset>>
        /\ UNCHANGED <<net, rec, asked, want, result, cut, orphaned, dup,
                       lost, killed>>
    BY DEF Send, serverVars, faultVars
  <2>2. /\ rec[c] \in Dictrec /\ rec[c].word = want[c] /\ want[c] \in Word
        /\ up[c] \in Seq(Dictrec)
    <3>1. rec[c] \in [word : Word \cup {None}, text : Text]
      BY DEF IInv, TypeOK
    <3>2. rec[c].word = want[c] /\ want[c] \in Word
      BY <2>1 DEF IInv, Looking
    <3> QED
      BY <3>1, <3>2 DEF Dictrec, Text, IInv, TypeOK
  <2>3. Append(up[c], rec[c]) \in Seq(Dictrec)
    BY <2>2, AppendProperties
  <2>4. /\ cpc'[c] = "recv" /\ up'[c] \in {up[c], Append(up[c], rec[c])}
        /\ \A d \in Client : d # c => cpc'[d] = cpc[d] /\ up'[d] = up[d]
    BY <1>2 DEF IInv, TypeOK
  <2>5. TypeOK'
    <3>1. up' \in [Client -> Seq(Dictrec)]
      BY <1>2, <2>3 DEF IInv, TypeOK
    <3> QED
      BY <1>2, <2>1, <3>1 DEF IInv, TypeOK
  <2>6. Working' /\ Looking' /\ Queued'
    BY <2>1, <2>2, <2>4 DEF IInv, Working, Looking, Queued
  <2>7. Dialogue(c)'
    <3> SUFFICES ASSUME c \notin cut \cup orphaned
                 PROVE  Dialogue(c)'
      BY <2>1 DEF Dialogue
    <3>1. Quiet(c) /\ (kid[c] = "closed" /\ ~Gone(c) => c \in reset)
      BY <2>1 DEF IInv, Dialogues, Dialogue
    <3>2. \/ Quiet(c)' /\ kid'[c] = "closed"
          \/ Asking(c)'
      <4>1. CASE Hangup(c) /\ UNCHANGED up
        BY <2>1, <3>1, <4>1 DEF Quiet, Hangup
      <4>2. CASE up' = [up EXCEPT ![c] = Append(up[c], rec[c])]
        <5>1. up'[c] = <<rec[c]>>
          BY <2>2, <3>1, <4>2, LoneRecord DEF IInv, TypeOK, Quiet
        <5> QED
          BY <2>1, <2>2, <3>1, <5>1 DEF Quiet, Asking
      <4> QED
        BY <1>2, <4>1, <4>2
    <3> QED
      BY <2>1, <2>4, <3>1, <3>2 DEF Dialogue, Gone
  <2>8. Dialogues' /\ Exchanges'
    BY <2>1, <2>4, <2>7, OthersTalkOn
  <2>9. AnswerIsToTheQuestion'
    BY <2>1, AnswersKept DEF IInv
  <2>10. Owned'
    <3>1. Left(c) /\ transport = "unix" => c \notin orphaned
      BY <1>2 DEF Left
    <3>2. Left(c)
      BY DEF IInv, Owned
    <3> QED
      BY <2>1, <2>4, <3>1, <3>2, OwnedKept DEF IInv, TypeOK
  <2> QED
    BY <2>5, <2>6, <2>8, <2>9, <2>10 DEF IInv
<1> QED
  BY <1>1, <1>2 DEF Send

\* What a lookup returns is right, or is excused.
Excused(c) == \/ transport # "udp" /\ c \in cut
              \/ transport = "inet" /\ c \in orphaned
              \/ transport = "udp" /\ c \in dup

LEMMA ReturnInv ==
  ASSUME IInv, NEW c \in Client, NEW r \in Dictrec, Return(c, r),
         cpc[c] = "recv", r.text = TextFor(want[c]) \/ Excused(c),
         down' \in [Client -> Seq(Dictrec)], net' \subseteq net,
         \A d \in Client : down[d] = <<>> => down'[d] = <<>>
  PROVE  /\ TypeOK' /\ Working' /\ Looking' /\ Queued' /\ Owned'
         /\ AnswerIsToTheQuestion'
         /\ cpc'[c] = "prompt"
         /\ \A d \in Client : d # c => cpc'[d] = cpc[d]
         /\ UNCHANGED <<transport, spc, kid, kreq, up, reset, want, cut,
                        orphaned, dup>>
<1>1. /\ cpc' = [cpc EXCEPT ![c] = "prompt"]
      /\ rec' = [rec EXCEPT ![c] = r]
      /\ result' = [result EXCEPT ![c] = IF r.text = XXXX THEN "NOTFOUND"
                                                          ELSE r.text]
      /\ UNCHANGED <<transport, spc, at, backlog, kid, kreq, held, up, reset>>
      /\ UNCHANGED <<asked, want, cut, orphaned, dup, lost, killed>>
  BY DEF Return, serverVars, faultVars
<1>2. /\ cpc'[c] = "prompt"
      /\ result'[c] = IF r.text = XXXX THEN "NOTFOUND" ELSE r.text
      /\ \A d \in Client : d # c => /\ cpc'[d] = cpc[d] /\ rec'[d] = rec[d]
                                    /\ result'[d] = result[d]
  BY <1>1 DEF IInv, TypeOK
<1>3. TypeOK'
  <2>1. rec' \in [Client -> [word : Word \cup {None}, text : Text]]
    BY <1>1 DEF IInv, TypeOK, Dictrec, Text
  <2>2. result' \in [Client -> Text \cup {None, "NOTFOUND"}]
    BY <1>1 DEF IInv, TypeOK, Dictrec, Text
  <2> QED
    BY <1>1, <2>1, <2>2 DEF IInv, TypeOK
<1>4. Working' /\ Looking' /\ Queued'
  BY <1>1, <1>2 DEF IInv, Working, Looking, Queued
<1>5. AnswerIsToTheQuestion'
  <2>1. r.text = TextFor(want[c]) =>
          result'[c] = IF want[c] \in Dict THEN want[c] ELSE "NOTFOUND"
    BY <1>2, NetDictAssumption DEF TextFor
  <2> QED
    BY <1>1, <1>2, <2>1 DEF IInv, AnswerIsToTheQuestion, Excused
<1>6. Owned'
  BY <1>1, <1>2, OwnedKept DEF IInv, TypeOK
<1> QED
  BY <1>1, <1>2, <1>3, <1>4, <1>5, <1>6

LEMMA RecvInv ==
  ASSUME IInv, transport # "udp", NEW c \in Client, Recv(c)
  PROVE  IInv'
<1>1. /\ cpc[c] = "recv" /\ down[c] # <<>> /\ Return(c, Head(down[c]))
      /\ down' = [down EXCEPT ![c] = Tail(down[c])]
      /\ net' = net
  BY DEF Recv
<1>2. Head(down[c]) \in Dictrec /\ Tail(down[c]) \in Seq(Dictrec)
  BY <1>1, HeadTailProperties DEF IInv, TypeOK
<1>3. /\ down' \in [Client -> Seq(Dictrec)] /\ down'[c] = Tail(down[c])
      /\ \A d \in Client : d # c => down'[d] = down[d]
      /\ \A d \in Client : down[d] = <<>> => down'[d] = <<>>
  BY <1>1, <1>2 DEF IInv, TypeOK
<1>4. c \notin cut => /\ Answered(c)
                      /\ kid[c] = "closed" => c \in reset
  <2>1. c \notin orphaned
    BY <1>1 DEF IInv, Owned, Left, NoChild
  <2> QED
    BY <1>1, <2>1 DEF IInv, Dialogues, Dialogue, Quiet, Asking, Served, Gone
<1>5. c \notin cut => /\ Head(down[c]).text = TextFor(want[c])
                      /\ Tail(down[c]) = <<>>
  BY <1>4, LoneRecord DEF Answered
<1>6. /\ TypeOK' /\ Working' /\ Looking' /\ Queued' /\ Owned'
      /\ AnswerIsToTheQuestion'
      /\ cpc'[c] = "prompt"
      /\ \A d \in Client : d # c => cpc'[d] = cpc[d]
      /\ UNCHANGED <<transport, spc, kid, kreq, up, reset, want, cut,
                     orphaned, dup>>
  BY <1>1, <1>2, <1>3, <1>5, ReturnInv DEF Excused
<1>7. Dialogue(c)'
  BY <1>3, <1>4, <1>5, <1>6 DEF Dialogue, Answered, Quiet, Gone
<1>8. Dialogues' /\ Exchanges'
  BY <1>3, <1>6, <1>7, OthersTalkOn
<1> QED
  BY <1>6, <1>8 DEF IInv

\* The end of the stream is no answer, but a lookup only sees it after a kill.
LEMMA RecvNothingInv ==
  ASSUME IInv, transport # "udp", NEW c \in Client, RecvNothing(c)
  PROVE  IInv'
<1>1. /\ cpc[c] = "recv" /\ Hangup(c) /\ c \notin reset /\ Return(c, rec[c])
      /\ down' = down /\ net' = net
  BY DEF RecvNothing
<1>2. c \in cut \/ (transport = "inet" /\ c \in orphaned)
  <2>1. c \in cut \/ c \in orphaned
    BY <1>1 DEF IInv, Dialogues, Dialogue, Hangup, Gone
  <2>2. c \in orphaned => transport # "unix"
    BY <1>1 DEF IInv, Owned, Left
  <2>3. transport = "unix" \/ transport = "inet"
    BY DEF IInv, TypeOK
  <2> QED
    BY <2>1, <2>2, <2>3
<1>3. rec[c] \in Dictrec
  <2>1. rec[c] \in [word : Word \cup {None}, text : Text]
    BY DEF IInv, TypeOK
  <2>2. rec[c].word \in Word
    BY <1>1 DEF IInv, Looking
  <2> QED
    BY <2>1, <2>2 DEF Dictrec, Text
<1>4. down' \in [Client -> Seq(Dictrec)]
  BY <1>1 DEF IInv, TypeOK
<1>5. /\ TypeOK' /\ Working' /\ Looking' /\ Queued' /\ Owned'
      /\ AnswerIsToTheQuestion'
      /\ \A d \in Client : d # c => cpc'[d] = cpc[d]
      /\ UNCHANGED <<transport, spc, kid, kreq, up, reset, want, cut,
                     orphaned, dup>>
  BY <1>1, <1>2, <1>3, <1>4, ReturnInv DEF Excused
<1>6. Dialogue(c)'
  BY <1>2, <1>5 DEF Dialogue
<1>7. Dialogues' /\ Exchanges'
  BY <1>1, <1>5, <1>6, OthersTalkOn
<1> QED
  BY <1>5, <1>7 DEF IInv

\* The child has received what its client sent.
LEMMA ChildReceiveInv ==
  ASSUME IInv, transport # "udp", NEW c \in Client, ChildReceive(c)
  PROVE  IInv'
<1>1. /\ kid[c] = "recv" /\ up[c] # <<>>
      /\ kreq' = [kreq EXCEPT ![c] = Head(up[c])]
      /\ up' = [up EXCEPT ![c] = Tail(up[c])]
      /\ kid' = [kid EXCEPT ![c] = "reply"]
      /\ UNCHANGED <<transport, spc, at, backlog, held, down, reset, net, cpc,
                     rec>>
      /\ UNCHANGED <<asked, want, result, cut, orphaned, dup, lost, killed>>
  BY DEF ChildReceive, serverVars, clientVars, faultVars
<1>2. Head(up[c]) \in Dictrec /\ Tail(up[c]) \in Seq(Dictrec)
  BY <1>1, HeadTailProperties DEF IInv, TypeOK
<1>3. /\ kid'[c] = "reply" /\ kreq'[c] = Head(up[c]) /\ up'[c] = Tail(up[c])
      /\ \A d \in Client : d # c => /\ kid'[d] = kid[d] /\ kreq'[d] = kreq[d]
                                    /\ up'[d] = up[d]
      /\ \A s \in Server : kreq'[s] = kreq[s]
  BY <1>1, ClientsApart DEF IInv, TypeOK
<1>4. TypeOK'
  <2>1. kreq' \in [Server \cup Client -> Dictrec \cup Query \cup {None}]
    BY <1>1, <1>2 DEF IInv, TypeOK
  <2>2. up' \in [Client -> Seq(Dictrec)]
    BY <1>1, <1>2 DEF IInv, TypeOK
  <2> QED
    BY <1>1, <2>1, <2>2 DEF IInv, TypeOK, KidStates
<1>5. Working' /\ Looking'
  BY <1>1, <1>2, <1>3 DEF IInv, Working, Looking
<1>6. Queued'
  <2>1. \A s \in Server : \A i \in 1..Len(backlog[s]) : backlog[s][i] \in Client
    BY ElementOfSeq DEF IInv, TypeOK
  <2>2. \A s \in Server : \A i \in 1..Len(backlog[s]) :
          /\ kid'[backlog[s][i]] # "none"
          /\ s \notin killed => kid'[backlog[s][i]] = "queued"
    BY <1>1, <1>3, <2>1 DEF IInv, Queued
  <2> QED
    BY <1>1, <1>3, <2>2 DEF IInv, Queued
<1>7. Dialogue(c)'
  <2> SUFFICES ASSUME c \notin cut \cup orphaned PROVE Dialogue(c)'
    BY <1>1 DEF Dialogue
  <2>1. cpc[c] \notin {"prompt", "connect", "send"}
    BY <1>1 DEF IInv, Dialogues, Dialogue, Quiet
  <2>2. cpc[c] = "recv" => Served(c)'
    <3> SUFFICES ASSUME cpc[c] = "recv" PROVE Served(c)'
      OBVIOUS
    <3>1. Asking(c)
      BY <1>1 DEF IInv, Dialogues, Dialogue, Quiet, Served, Answered
    <3>2. Head(up[c]).word = want[c] /\ Tail(up[c]) = <<>>
      BY <3>1, LoneRecord DEF Asking
    <3> QED
      BY <1>1, <1>3, <3>1, <3>2 DEF Served, Asking
  <2> QED
    BY <1>1, <1>3, <2>1, <2>2 DEF Dialogue
<1>8. Dialogues' /\ Exchanges'
  BY <1>1, <1>3, <1>7, OthersTalkOn
<1>9. AnswerIsToTheQuestion'
  BY <1>1, AnswersKept DEF IInv
<1>10. Owned'
  BY <1>1, <1>3, OwnedKept DEF IInv, TypeOK
<1> QED
  BY <1>4, <1>5, <1>6, <1>8, <1>9, <1>10 DEF IInv

\* The child answers the word it was sent.
LEMMA ChildReplyInv ==
  ASSUME IInv, transport # "udp", NEW c \in Client, ChildReply(c)
  PROVE  IInv'
<1>1. /\ kid[c] = "reply"
      /\ kid' = [kid EXCEPT ![c] = IF Gone(c) THEN "closed" ELSE "recv"]
      /\ down' = [down EXCEPT ![c] = IF Gone(c) THEN down[c]
                                     ELSE Append(down[c], Reply(kreq[c]))]
      /\ kreq' = [kreq EXCEPT ![c] = None]
      /\ UNCHANGED <<transport, spc, at, backlog, held, up, reset, net, cpc,
                     rec>>
      /\ UNCHANGED <<asked, want, result, cut, orphaned, dup, lost, killed>>
  BY DEF ChildReply, serverVars, clientVars, faultVars
<1>2. /\ kreq[c] \in Dictrec /\ Reply(kreq[c]) \in Dictrec
      /\ Reply(kreq[c]).text = TextFor(kreq[c].word)
      /\ down[c] \in Seq(Dictrec)
      /\ Append(down[c], Reply(kreq[c])) \in Seq(Dictrec)
  BY <1>1, ReplyText, AppendProperties DEF IInv, Working, TypeOK
<1>3. /\ kid'[c] = IF Gone(c) THEN "closed" ELSE "recv"
      /\ down'[c] = IF Gone(c) THEN down[c] ELSE Append(down[c], Reply(kreq[c]))
      /\ \A d \in Client : d # c => /\ kid'[d] = kid[d] /\ kreq'[d] = kreq[d]
                                    /\ down'[d] = down[d]
      /\ \A s \in Server : kreq'[s] = kreq[s]
  BY <1>1, ClientsApart DEF IInv, TypeOK
<1>4. TypeOK'
  <2>1. kreq' \in [Server \cup Client -> Dictrec \cup Query \cup {None}]
    BY <1>1 DEF IInv, TypeOK
  <2>2. down' \in [Client -> Seq(Dictrec)]
    BY <1>1, <1>2 DEF IInv, TypeOK
  <2>3. kid' \in [Client -> KidStates]
    BY <1>1 DEF IInv, TypeOK, KidStates
  <2> QED
    BY <1>1, <2>1, <2>2, <2>3 DEF IInv, TypeOK
<1>5. Working' /\ Looking'
  BY <1>1, <1>3 DEF IInv, Working, Looking
<1>6. Queued'
  <2>1. \A s \in Server : \A i \in 1..Len(backlog[s]) : backlog[s][i] \in Client
    BY ElementOfSeq DEF IInv, TypeOK
  <2>2. \A s \in Server : \A i \in 1..Len(backlog[s]) :
          /\ kid'[backlog[s][i]] # "none"
          /\ s \notin killed => kid'[backlog[s][i]] = "queued"
    BY <1>1, <1>3, <2>1 DEF IInv, Queued
  <2> QED
    BY <1>1, <1>3, <2>2 DEF IInv, Queued
<1>7. Dialogue(c)'
  <2> SUFFICES ASSUME c \notin cut \cup orphaned, ~Gone(c)
               PROVE  Dialogue(c)'
    BY <1>1 DEF Dialogue, Gone
  <2>1. cpc[c] \notin {"prompt", "connect", "send"}
    BY <1>1 DEF IInv, Dialogues, Dialogue, Quiet
  <2>2. cpc[c] = "recv" => Answered(c)'
    <3> SUFFICES ASSUME cpc[c] = "recv" PROVE Answered(c)'
      OBVIOUS
    <3>1. Served(c)
      BY <1>1 DEF IInv, Dialogues, Dialogue, Quiet, Asking, Answered
    <3>2. down'[c] = <<Reply(kreq[c])>>
      BY <1>2, <1>3, <3>1, LoneRecord DEF Served
    <3>3. Reply(kreq[c]).text = TextFor(want[c])
      BY <1>2, <3>1 DEF Served
    <3> QED
      BY <1>1, <1>2, <1>3, <3>1, <3>2, <3>3 DEF Served, Answered
  <2> QED
    BY <1>1, <1>3, <2>1, <2>2 DEF Dialogue
<1>8. Dialogues' /\ Exchanges'
  BY <1>1, <1>3, <1>7, OthersTalkOn
<1>9. AnswerIsToTheQuestion'
  BY <1>1, AnswersKept DEF IInv
<1>10. Owned'
  BY <1>1, <1>3, OwnedKept DEF IInv, TypeOK, NoChild, Owned, Left
<1> QED
  BY <1>4, <1>5, <1>6, <1>8, <1>9, <1>10 DEF IInv

LEMMA ChildEndsInv ==
  ASSUME IInv, transport # "udp", NEW c \in Client, ChildEnds(c)
  PROVE  IInv'
<1>1. /\ kid[c] = "recv" /\ Gone(c)
      /\ kid' = [kid EXCEPT ![c] = "closed"]
      /\ UNCHANGED <<transport, spc, at, backlog, kreq, held, up, down, reset,
                     net>>
      /\ UNCHANGED <<cpc, rec, asked, want, result, cut, orphaned, dup, lost,
                     killed>>
  BY DEF ChildEnds, serverVars, clientVars, faultVars
<1>2. kid'[c] = "closed" /\ \A d \in Client : d # c => kid'[d] = kid[d]
  BY <1>1 DEF IInv, TypeOK
<1>3. TypeOK'
  BY <1>1 DEF IInv, TypeOK, KidStates
<1>4. Working' /\ Looking'
  BY <1>1, <1>2 DEF IInv, Working, Looking
<1>5. Queued'
  <2>1. \A s \in Server : \A i \in 1..Len(backlog[s]) : backlog[s][i] \in Client
    BY ElementOfSeq DEF IInv, TypeOK
  <2>2. \A s \in Server : \A i \in 1..Len(backlog[s]) :
          /\ kid'[backlog[s][i]] # "none"
          /\ s \notin killed => kid'[backlog[s][i]] = "queued"
    BY <1>1, <1>2, <2>1 DEF IInv, Queued
  <2> QED
    BY <1>1, <1>2, <2>2 DEF IInv, Queued
<1>6. Dialogue(c)'
  BY <1>1 DEF Dialogue, Gone
<1>7. Dialogues' /\ Exchanges'
  BY <1>1, <1>2, <1>6, OthersTalkOn
<1>8. AnswerIsToTheQuestion'
  BY <1>1, AnswersKept DEF IInv
<1>9. Owned'
  BY <1>1, <1>2, OwnedKept DEF IInv, TypeOK
<1> QED
  BY <1>3, <1>4, <1>5, <1>7, <1>8, <1>9 DEF IInv

\* The server takes the first connection of its queue.
LEMMA AcceptInv ==
  ASSUME IInv, NEW s \in Server, Accept(s)
  PROVE  IInv'
<1>1. /\ s \notin killed /\ backlog[s] # <<>>
      /\ kid' = [kid EXCEPT ![Head(backlog[s])] = "accepted"]
      /\ held' = [held EXCEPT ![s] = held[s] \cup {Head(backlog[s])}]
      /\ backlog' = [backlog EXCEPT ![s] = Tail(backlog[s])]
      /\ spc' = [spc EXCEPT ![s] = "fork"]
      /\ UNCHANGED <<transport, at, kreq, up, down, reset, net, cpc>>
      /\ UNCHANGED <<rec, asked, want, result, cut, orphaned, dup, lost,
                     killed>>
  BY DEF Accept, Alive, clientVars, faultVars
<1>2. PICK c \in Client :
      /\ Head(backlog[s]) = c /\ c = backlog[s][1]
      /\ Tail(backlog[s]) \in Seq(Client)
      /\ Len(backlog[s]) \in Nat \ {0}
      /\ Len(Tail(backlog[s])) = Len(backlog[s]) - 1
      /\ \A i \in 1..Len(Tail(backlog[s])) :
           /\ i + 1 \in 1..Len(backlog[s])
           /\ Tail(backlog[s])[i] = backlog[s][i + 1]
  <2>1. backlog[s] \in Seq(Client)
    BY DEF IInv, TypeOK
  <2>2. Len(backlog[s]) \in Nat \ {0}
    BY <1>1, <2>1, EmptySeq
  <2>3. Head(backlog[s]) = backlog[s][1] /\ backlog[s][1] \in Client
    BY <2>1, <2>2, ElementOfSeq
  <2> QED
    BY <1>1, <2>1, <2>2, <2>3, HeadTailProperties
<1>3. kid[c] = "queued"
  <2>1. 1 \in 1..Len(backlog[s])
    BY <1>2
  <2> QED
    BY <1>1, <1>2, <2>1 DEF IInv, Queued
<1>4. /\ kid'[c] = "accepted"
      /\ \A d \in Client : d # c => kid'[d] = kid[d]
      /\ backlog'[s] = Tail(backlog[s])
      /\ held'[s] = held[s] \cup {c}
      /\ \A t \in Server : t # s => /\ backlog'[t] = backlog[t]
                                    /\ held'[t] = held[t]
      /\ \A t \in Server : spc'[t] = "reply" => spc[t] = "reply"
  BY <1>1, <1>2 DEF IInv, TypeOK
<1>5. TypeOK'
  <2>1. backlog' \in [Server -> Seq(Client)]
    BY <1>1, <1>2 DEF IInv, TypeOK
  <2> QED
    BY <1>1, <1>2, <2>1 DEF IInv, TypeOK, KidStates
<1>6. Working' /\ Looking'
  BY <1>1, <1>4 DEF IInv, Working, Looking
<1>7. Queued'
  <2>1. \A t \in Server : \A i \in 1..Len(backlog'[t]) :
          \E j \in 1..Len(backlog[t]) :
            /\ backlog'[t][i] = backlog[t][j]
            /\ j = IF t = s THEN i + 1 ELSE i
    BY <1>2, <1>4
  <2>2. \A t \in Server : \A i \in 1..Len(backlog[t]) : backlog[t][i] \in Client
    BY ElementOfSeq DEF IInv, TypeOK
  <2>3. \A t \in Server : \A i \in 1..Len(backlog'[t]) : backlog'[t][i] # c
    <3> SUFFICES ASSUME NEW t \in Server, NEW i \in 1..Len(backlog'[t]),
                        backlog'[t][i] = c
                 PROVE  FALSE
      OBVIOUS
    <3>1. PICK j \in 1..Len(backlog[t]) :
            backlog[t][j] = c /\ j = IF t = s THEN i + 1 ELSE i
      BY <2>1
    <3>2. 1 \in 1..Len(backlog[s]) /\ backlog[s][1] = c
      BY <1>2
    <3>3. t = s /\ j = 1
      BY <3>1, <3>2 DEF IInv, Queued
    <3>4. i \in Nat \ {0}
      OBVIOUS
    <3> QED
      BY <3>1, <3>3, <3>4
  <2>4. \A d \in Client :
          /\ cpc'[d] = "connect" => asked'[d] # 0 /\ kid'[d] = "none"
          /\ asked'[d] = 0 => kid'[d] = "none"
    BY <1>1, <1>3, <1>4 DEF IInv, Queued
  <2>5. ASSUME NEW t \in Server, NEW i \in 1..Len(backlog'[t])
        PROVE  /\ kid'[backlog'[t][i]] # "none"
               /\ t \notin killed' => kid'[backlog'[t][i]] = "queued"
               /\ \A u \in Server : \A k \in 1..Len(backlog'[u]) :
                    backlog'[u][k] = backlog'[t][i] => u = t /\ k = i
    <3>1. PICK j \in 1..Len(backlog[t]) :
            backlog'[t][i] = backlog[t][j] /\ j = IF t = s THEN i + 1 ELSE i
      BY <2>1
    <3>2. /\ kid'[backlog'[t][i]] # "none"
          /\ t \notin killed' => kid'[backlog'[t][i]] = "queued"
      <4>1. /\ kid[backlog[t][j]] # "none"
            /\ t \notin killed => kid[backlog[t][j]] = "queued"
        BY DEF IInv, Queued
      <4>2. backlog[t][j] \in Client /\ backlog[t][j] # c
        BY <2>2, <2>3, <3>1
      <4>3. kid'[backlog[t][j]] = kid[backlog[t][j]] /\ killed' = killed
        BY <1>1, <1>4, <4>2
      <4> QED
        BY <3>1, <4>1, <4>3
    <3>3. ASSUME NEW u \in Server, NEW k \in 1..Len(backlog'[u]),
                 backlog'[u][k] = backlog'[t][i]
          PROVE  u = t /\ k = i
      <4>1. PICK l \in 1..Len(backlog[u]) :
              backlog'[u][k] = backlog[u][l] /\ l = IF u = s THEN k + 1 ELSE k
        BY <2>1
      <4>2. u = t /\ l = j
        BY <3>1, <3>3, <4>1 DEF IInv, Queued
      <4>3. i \in Int /\ k \in Int
        OBVIOUS
      <4> QED
        BY <3>1, <4>1, <4>2, <4>3
    <3> QED
      BY <3>2, <3>3
  <2> QED
    BY <2>4, <2>5 DEF Queued
<1>8. ASSUME NEW d \in Client PROVE Dialogue(d)' /\ Exchange(d)'
  <2>1. Dialogue(d) /\ Exchange(d)
    BY DEF IInv, Dialogues, Exchanges
  <2>2. Exchange(d)'
    BY <1>1, <1>4, <2>1, ExchangeKept DEF Serves
  <2>3. CASE d # c
    BY <1>1, <1>4, <2>1, <2>2, <2>3, DialogueKept
  <2>4. CASE d = c
    <3>1. Dialogue(c)'
      BY <1>1, <1>3, <1>4, <2>1, <2>4
         DEF Dialogue, Quiet, Asking, Served, Answered
    <3> QED
      BY <2>2, <2>4, <3>1
  <2> QED
    BY <2>3, <2>4
<1>9. Dialogues' /\ Exchanges'
  BY <1>8 DEF Dialogues, Exchanges
<1>10. AnswerIsToTheQuestion'
  BY <1>1, AnswersKept DEF IInv
<1>11. Owned'
  <2>1. /\ c \notin cut \cup orphaned /\ down[c] = <<>>
        /\ \A t \in Server : c \notin held[t]
    BY <1>3 DEF IInv, Owned, HeldOnce, Left, NoChild
  <2>2. HeldOnce'
    <3>1. HeldOnce /\ held \in [Server -> SUBSET Client]
      BY DEF IInv, Owned, TypeOK
    <3> QED
      BY <1>4, <2>1, <3>1 DEF HeldOnce
  <2>3. ASSUME NEW d \in Client, d # c PROVE Left(d)'
    <3>1. Left(d)
      BY DEF IInv, Owned
    <3> QED
      BY <1>1, <1>4, <2>3, <3>1 DEF Left, NoChild, Hangup
  <2>4. Left(c)'
    BY <1>1, <1>4, <2>1 DEF Left
  <2> QED
    BY <2>2, <2>3, <2>4 DEF Owned
<1> QED
  BY <1>5, <1>6, <1>7, <1>9, <1>10, <1>11 DEF IInv

\* The accepted connection gets a child.
LEMMA ForkInv ==
  ASSUME IInv, NEW s \in Server, Fork(s)
  PROVE  IInv'
<1>1. PICK c \in held[s] : /\ kid[c] = "accepted"
                           /\ kid' = [kid EXCEPT ![c] = "recv"]
  BY DEF Fork
<1>2. /\ spc' = [spc EXCEPT ![s] = "close"]
      /\ UNCHANGED <<transport, at, backlog, kreq, held, up, down, reset, net>>
      /\ UNCHANGED <<cpc, rec, asked, want, result, cut, orphaned, dup, lost,
                     killed>>
  BY DEF Fork, clientVars, faultVars
<1>3. /\ c \in Client /\ kid'[c] = "recv"
      /\ \A d \in Client : d # c => kid'[d] = kid[d]
      /\ \A t \in Server : spc'[t] = "reply" => spc[t] = "reply"
  BY <1>1, <1>2 DEF IInv, TypeOK
<1>4. TypeOK'
  BY <1>1, <1>2, <1>3 DEF IInv, TypeOK, KidStates
<1>5. Working' /\ Looking'
  BY <1>1, <1>2, <1>3 DEF IInv, Working, Looking
<1>6. Queued'
  <2>1. \A t \in Server : \A i \in 1..Len(backlog[t]) : backlog[t][i] \in Client
    BY ElementOfSeq DEF IInv, TypeOK
  <2>2. \A t \in Server : \A i \in 1..Len(backlog[t]) :
          /\ kid'[backlog[t][i]] # "none"
          /\ t \notin killed => kid'[backlog[t][i]] = "queued"
    BY <1>1, <1>3, <2>1 DEF IInv, Queued
  <2> QED
    BY <1>1, <1>2, <1>3, <2>2 DEF IInv, Queued
<1>7. Owned'
  <2>1. HeldOnce'
    BY <1>1, <1>2, <1>3 DEF IInv, Owned, HeldOnce, TypeOK
  <2>2. ASSUME NEW d \in Client PROVE Left(d)'
    <3>1. Left(d)
      BY DEF IInv, Owned
    <3>2. d = c => d \notin cut \cup orphaned
      BY <1>1, <3>1 DEF Left
    <3> QED
      BY <1>1, <1>2, <1>3, <3>1, <3>2 DEF Left, NoChild, Hangup
  <2> QED
    BY <2>1, <2>2 DEF Owned
<1>8. ASSUME NEW d \in Client PROVE Dialogue(d)' /\ Exchange(d)'
  <2>1. Dialogue(d) /\ Exchange(d)
    BY DEF IInv, Dialogues, Exchanges
  <2>2. Exchange(d)'
    BY <1>2, <1>3, <2>1, ExchangeKept DEF Serves
  <2>3. CASE d # c
    BY <1>2, <1>3, <2>1, <2>2, <2>3, DialogueKept
  <2>4. CASE d = c
    <3>1. Dialogue(c)'
      BY <1>1, <1>2, <1>3, <2>1, <2>4
         DEF Dialogue, Quiet, Asking, Served, Answered
    <3> QED
      BY <2>2, <2>4, <3>1
  <2> QED
    BY <2>3, <2>4
<1>9. Dialogues' /\ Exchanges'
  BY <1>8 DEF Dialogues, Exchanges
<1>10. AnswerIsToTheQuestion'
  BY <1>2, AnswersKept DEF IInv
<1> QED
  BY <1>4, <1>5, <1>6, <1>7, <1>9, <1>10 DEF IInv

\* The parent gives its descriptor up; the child, or nobody, has the socket.
LEMMA CloseSocketInv ==
  ASSUME IInv, NEW s \in Server, CloseSocket(s)
  PROVE  IInv'
<1>1. /\ spc' = [spc EXCEPT ![s] = "accept"]
      /\ held' = [held EXCEPT ![s] = {}]
      /\ reset' = reset \cup Unread(s)
      /\ UNCHANGED <<transport, at, backlog, kid, kreq, up, down, net>>
      /\ UNCHANGED <<cpc, rec, asked, want, result, cut, orphaned, dup, lost,
                     killed>>
  BY DEF CloseSocket, clientVars, faultVars
<1>2. /\ Unread(s) \subseteq Client /\ reset \subseteq reset'
      /\ held'[s] = {}
      /\ \A t \in Server : t # s => held'[t] = held[t]
      /\ \A t \in Server : spc'[t] = "reply" => spc[t] = "reply"
  BY <1>1 DEF IInv, TypeOK, Unread
<1>3. TypeOK'
  <2>1. reset' \subseteq Client
    BY <1>1, <1>2 DEF IInv, TypeOK
  <2> QED
    BY <1>1, <2>1 DEF IInv, TypeOK
<1>4. Working' /\ Looking' /\ Queued'
  BY <1>1, <1>2 DEF IInv, Working, Looking, Queued
<1>5. Owned'
  <2>1. HeldOnce'
    BY <1>1, <1>2 DEF IInv, Owned, HeldOnce
  <2>2. ASSUME NEW c \in Client PROVE Left(c)'
    <3>1. Left(c)
      BY DEF IInv, Owned
    <3>2. Hangup(c) => Hangup(c)'
      BY <1>1, <1>2 DEF Hangup
    <3> QED
      BY <1>1, <1>2, <3>1, <3>2 DEF Left, NoChild
  <2> QED
    BY <2>1, <2>2 DEF Owned
<1>6. ASSUME NEW c \in Client PROVE Dialogue(c)' /\ Exchange(c)'
  <2>1. Dialogue(c) /\ Exchange(c)
    BY DEF IInv, Dialogues, Exchanges
  <2>2. Dialogue(c)'
    BY <1>1, <1>2, <2>1, DialogueKept
  <2>3. Exchange(c)'
    BY <1>1, <1>2, <2>1, ExchangeKept DEF Serves
  <2> QED
    BY <2>2, <2>3
<1>7. Dialogues' /\ Exchanges'
  BY <1>6 DEF Dialogues, Exchanges
<1>8. AnswerIsToTheQuestion'
  BY <1>1, AnswersKept DEF IInv
<1> QED
  BY <1>3, <1>4, <1>5, <1>7, <1>8 DEF IInv

\* A server is killed, and with it the connections that have no child.
LEMMA KillServerInv ==
  ASSUME IInv, NEW s \in Server, KillServer(s)
  PROVE  IInv'
<1> DEFINE queued == {backlog[s][i] : i \in 1..Len(backlog[s])}
           alone  == {c \in held[s] : kid[c] = "accepted"}
<1>1. DOMAIN backlog[s] = 1..Len(backlog[s])
  <2>1. backlog[s] \in Seq(Client)
    BY DEF IInv, TypeOK
  <2> QED
    BY <2>1, LenProperties
<1>2. /\ s \notin killed
      /\ killed' = killed \cup {s}
      /\ at' = IF at = s THEN None ELSE at
      /\ reset' = reset \cup queued \cup Unread(s)
      /\ kid' = [c \in Client |-> IF c \in queued \cup alone THEN "closed"
                                                            ELSE kid[c]]
      /\ orphaned' = orphaned \cup alone
      /\ held' = [held EXCEPT ![s] = {}]
      /\ UNCHANGED <<transport, spc, backlog, kreq, up, down, net, cpc, rec,
                     asked>>
      /\ UNCHANGED <<want, result, cut, dup, lost>>
  BY <1>1 DEF KillServer, Alive, clientVars
<1>3. \A t \in Server : \A i \in 1..Len(backlog[t]) : backlog[t][i] \in Client
  BY ElementOfSeq DEF IInv, TypeOK
<1>4. /\ queued \subseteq Client /\ alone \subseteq Client
      /\ Unread(s) \subseteq Client
      /\ held'[s] = {} /\ \A t \in Server : t # s => held'[t] = held[t]
  <2>1. held \in [Server -> SUBSET Client] /\ held[s] \subseteq Client
    BY DEF IInv, TypeOK
  <2> QED
    BY <1>2, <1>3, <2>1 DEF Unread
<1>5. /\ \A c \in queued : kid[c] = "queued" /\ c \in reset'
      /\ \A c \in alone : /\ kid[c] = "accepted"
                          /\ up[c] # <<>> => c \in reset'
                          /\ \A t \in Server : c \in held[t] => t = s
      /\ \A c \in queued \cup alone : kid'[c] = "closed"
      /\ \A c \in Client : c \notin queued \cup alone => kid'[c] = kid[c]
  <2>1. \A c \in queued : kid[c] = "queued"
    BY <1>2 DEF IInv, Queued
  <2>2. \A c \in alone : up[c] # <<>> => c \in Unread(s)
    BY DEF Unread
  <2>3. \A c \in alone : \A t \in Server : c \in held[t] => t = s
    BY DEF IInv, Owned, HeldOnce
  <2>4. queued \subseteq reset' /\ Unread(s) \subseteq reset'
    BY <1>2
  <2>5. \A c \in alone : up[c] # <<>> => c \in reset'
    BY <2>2, <2>4, Zenon
  <2>6. \A c \in queued \cup alone : kid'[c] = "closed"
    BY <1>2, <1>4
  <2>7. \A c \in Client : c \notin queued \cup alone => kid'[c] = kid[c]
    BY <1>2
  <2> QED
    BY <2>1, <2>3, <2>4, <2>5, <2>6, <2>7
<1>6. \A t \in Server : \A i \in 1..Len(backlog[t]) :
        /\ t # s => backlog[t][i] \notin queued
        /\ t \notin killed => backlog[t][i] \notin alone
  BY DEF IInv, Queued
<1> HIDE DEF queued, alone
<1>7. TypeOK'
  <2>1. kid' \in [Client -> KidStates]
    BY <1>2 DEF IInv, TypeOK, KidStates
  <2>2. at' \in Server \cup {None}
    BY <1>2 DEF IInv, TypeOK
  <2>3. /\ held' \in [Server -> SUBSET Client]
        /\ reset' \subseteq Client /\ orphaned' \subseteq Client
        /\ killed' \subseteq Server \cup {Kid(c) : c \in Client}
    BY <1>2, <1>4 DEF IInv, TypeOK
  <2> QED
    BY <1>2, <2>1, <2>2, <2>3 DEF IInv, TypeOK, Kid
<1>8. Working' /\ Looking'
  <2>1. Looking'
    BY <1>2 DEF IInv, Looking
  <2>2. \A c \in Client : kid'[c] = "reply" => kid[c] = "reply"
    BY <1>5
  <2> QED
    BY <1>2, <2>1, <2>2 DEF IInv, Working
<1>9. Queued'
  <2>1. \A d \in Client :
          /\ cpc'[d] = "connect" => asked'[d] # 0 /\ kid'[d] = "none"
          /\ asked'[d] = 0 => kid'[d] = "none"
    BY <1>2, <1>5 DEF IInv, Queued
  <2>2. ASSUME NEW t \in Server, NEW i \in 1..Len(backlog[t])
        PROVE  /\ kid'[backlog[t][i]] # "none"
               /\ t \notin killed' => kid'[backlog[t][i]] = "queued"
    <3>1. /\ backlog[t][i] \in Client /\ kid[backlog[t][i]] # "none"
          /\ t \notin killed => kid[backlog[t][i]] = "queued"
      BY <1>3 DEF IInv, Queued
    <3> QED
      BY <1>2, <1>5, <1>6, <3>1
  <2> QED
    BY <1>2, <2>1, <2>2 DEF IInv, Queued
<1>10. ASSUME NEW d \in Client PROVE Dialogue(d)' /\ Exchange(d)' /\ Left(d)'
  <2>1. Dialogue(d) /\ Exchange(d) /\ Left(d)
    BY DEF IInv, Dialogues, Exchanges, Owned
  <2>2. Exchange(d)'
    BY <1>2, <2>1, ExchangeKept DEF Serves
  <2>3. Hangup(d) => Hangup(d)'
    BY <1>2, <1>4, <1>5 DEF Hangup
  <2>4. CASE d \notin queued \cup alone
    <3>1. Left(d)'
      BY <1>2, <1>5, <2>1, <2>3, <2>4 DEF Left, NoChild
    <3>2. Dialogue(d)'
      BY <1>2, <1>5, <2>1, <2>4, DialogueKept
    <3> QED
      BY <2>2, <3>1, <3>2
  <2>5. CASE d \in queued
    <3>1. Dialogue(d)'
      BY <1>2, <1>5, <2>1, <2>5
         DEF Dialogue, Quiet, Asking, Served, Answered
    <3>2. Left(d)'
      BY <1>2, <1>5, <2>1, <2>3, <2>5 DEF Left, NoChild
    <3> QED
      BY <2>2, <3>1, <3>2
  <2>6. CASE d \in alone
    <3>1. Dialogue(d)'
      BY <1>2, <2>6 DEF Dialogue
    <3>2. /\ kid[d] = "accepted" /\ d \notin cut \cup orphaned
          /\ down[d] = <<>> /\ kid'[d] = "closed"
      BY <1>5, <2>1, <2>6 DEF Left, NoChild
    <3>3. Hangup(d)'
      BY <1>4, <1>5, <2>6 DEF Hangup
    <3>4. transport = "unix" /\ cpc[d] = "recv" => up[d] # <<>>
      BY <2>1, <3>2, LoneRecord DEF Dialogue, Asking, Served, Answered
    <3>5. Left(d)'
      BY <1>2, <1>5, <2>6, <3>2, <3>3, <3>4 DEF Left
    <3> QED
      BY <2>2, <3>1, <3>5
  <2> QED
    BY <2>4, <2>5, <2>6
<1>11. Owned'
  <2>1. \A t \in Server : held'[t] \subseteq held[t]
    BY <1>4
  <2>2. \A c \in Client : kid[c] \notin {"none", "queued"} =>
                         kid'[c] \notin {"none", "queued"}
    BY <1>5
  <2>3. HeldOnce'
    <3>1. HeldOnce /\ held \in [Server -> SUBSET Client]
      BY DEF IInv, Owned, TypeOK
    <3> QED
      BY <2>1, <2>2, <3>1 DEF HeldOnce
  <2> QED
    BY <1>10, <2>3 DEF Owned
<1>12. Dialogues' /\ Exchanges'
  BY <1>10 DEF Dialogues, Exchanges
<1>13. AnswerIsToTheQuestion'
  BY <1>2, AnswersKept DEF IInv
<1> QED
  BY <1>8, <1>9, <1>12, <1>13, <1>7, <1>11 DEF IInv

\* A killed child leaves its client in cut, of which no more is said.
LEMMA KillChildInv ==
  ASSUME IInv, NEW c \in Client, KillChild(c)
  PROVE  IInv'
<1>1. /\ kid[c] \in {"recv", "reply"}
      /\ killed' = killed \cup {Kid(c)}
      /\ kid' = [kid EXCEPT ![c] = "closed"]
      /\ reset' = reset \/ reset' = reset \cup {c}
      /\ cut' = cut \cup {c}
      /\ UNCHANGED <<transport, spc, at, backlog, kreq, held, up, down, net>>
      /\ UNCHANGED <<cpc, rec, asked, want, result, orphaned, dup, lost>>
  BY DEF KillChild, KidRuns, serverVars, clientVars
<1>2. kid'[c] = "closed" /\ \A d \in Client : d # c => kid'[d] = kid[d]
  BY <1>1 DEF IInv, TypeOK
<1>3. TypeOK'
  <2>1. killed' \subseteq Server \cup {Kid(d) : d \in Client}
    BY <1>1 DEF IInv, TypeOK
  <2>2. reset' \subseteq Client /\ cut' \subseteq Client
    BY <1>1 DEF IInv, TypeOK
  <2>3. kid' \in [Client -> KidStates]
    BY <1>1 DEF IInv, TypeOK, KidStates
  <2> QED
    BY <1>1, <2>1, <2>2, <2>3 DEF IInv, TypeOK, Kid
<1>4. Working' /\ Looking'
  BY <1>1, <1>2 DEF IInv, Working, Looking
<1>5. Queued'
  <2>1. \A s \in Server : \A i \in 1..Len(backlog[s]) : backlog[s][i] \in Client
    BY ElementOfSeq DEF IInv, TypeOK
  <2>2. \A s \in Server : \A i \in 1..Len(backlog[s]) :
          /\ kid'[backlog[s][i]] # "none"
          /\ s \notin killed' => kid'[backlog[s][i]] = "queued"
    BY <1>1, <1>2, <2>1 DEF IInv, Queued
  <2> QED
    BY <1>1, <1>2, <2>2 DEF IInv, Queued
<1>6. ASSUME NEW d \in Client PROVE Dialogue(d)' /\ Exchange(d)'
  <2>1. Dialogue(d) /\ Exchange(d)
    BY DEF IInv, Dialogues, Exchanges
  <2>2. Exchange(d)'
    BY <1>1, <2>1, ExchangeKept DEF Serves
  <2>3. CASE d # c
    BY <1>1, <1>2, <2>1, <2>2, <2>3, DialogueKept
  <2>4. CASE d = c
    <3>1. Dialogue(c)'
      BY <1>1 DEF Dialogue
    <3> QED
      BY <2>2, <2>4, <3>1
  <2> QED
    BY <2>3, <2>4
<1>7. Dialogues' /\ Exchanges'
  BY <1>6 DEF Dialogues, Exchanges
<1>8. AnswerIsToTheQuestion'
  BY <1>1, AnswersKept DEF IInv
<1>9. Owned'
  <2>1. HeldOnce'
    BY <1>1, <1>2 DEF IInv, Owned, HeldOnce, TypeOK
  <2>2. ASSUME NEW d \in Client PROVE Left(d)'
    <3>1. Left(d)
      BY DEF IInv, Owned
    <3> QED
      BY <1>1, <1>2, <3>1 DEF Left, NoChild, Hangup
  <2> QED
    BY <2>1, <2>2 DEF Owned
<1> QED
  BY <1>3, <1>4, <1>5, <1>7, <1>8, <1>9 DEF IInv

-----------------------------------------------------------------------------
(* Datagrams.                                                              *)

\* While there are datagrams nothing is said of streams.
LEMMA NoDialogues ==
  ASSUME transport = "udp", transport' = transport
  PROVE  Dialogues'
BY DEF Dialogues, Dialogue

LEMMA SendQueryInv ==
  ASSUME IInv, transport = "udp", NEW c \in Client, SendQuery(c)
  PROVE  IInv'
<1>1. PICK q : /\ q = [src |-> c, dst |-> at, rec |-> rec[c], id |-> asked[c]]
               /\ net' = net \cup {q}
  BY DEF SendQuery
<1>2. /\ cpc[c] \in {"connect", "send"}
      /\ cpc' = [cpc EXCEPT ![c] = "recv"]
      /\ UNCHANGED <<transport, spc, at, backlog, kid, kreq, held, up, down,
                     reset>>
      /\ UNCHANGED <<rec, asked, want, result, cut, orphaned, dup, lost,
                     killed>>
  BY DEF SendQuery, serverVars, connVars, faultVars
<1>3. cpc'[c] = "recv" /\ \A d \in Client : d # c => cpc'[d] = cpc[d]
  BY <1>2 DEF IInv, TypeOK
<1>4. /\ rec[c] \in [word : Word \cup {None}, text : Text]
      /\ rec[c].word = want[c] /\ want[c] \in Word
      /\ at \in Server \cup {None} /\ asked[c] \in Nat
  BY <1>2 DEF IInv, TypeOK, Looking
<1>5. rec[c] \in Dictrec
  BY <1>4 DEF Dictrec, Text
<1>6. /\ q \in Query
      /\ q.src = c /\ q.dst \notin Client /\ q.rec.word = want[c]
  BY <1>1, <1>4, <1>5, NetDictAssumption DEF Query
<1>7. TypeOK'
  <2>1. net' \subseteq Query \cup Answer
    BY <1>1, <1>6 DEF IInv, TypeOK
  <2> QED
    BY <1>2, <2>1 DEF IInv, TypeOK
<1>8. Working' /\ Looking' /\ Queued'
  BY <1>2, <1>3, <1>4 DEF IInv, Working, Looking, Queued
<1>9. ASSUME NEW d \in Client PROVE Exchange(d)'
  <2>1. Exchange(d)
    BY DEF IInv, Exchanges
  <2>2. CASE d # c
    <3>1. \A e \in net' : Of(e, d) => e \in net
      BY <1>1, <1>6, <2>2 DEF Of
    <3> QED
      BY <1>2, <1>3, <2>1, <2>2, <3>1, ExchangeKept DEF Serves
  <2>3. CASE d = c
    <3> SUFFICES ASSUME c \notin dup PROVE Exchange(c)'
      BY <1>2, <2>3 DEF Exchange
    <3>1. /\ \A e \in net : ~Of(e, c)
          /\ \A s \in Server : ~Serves(s, c)
      BY <1>2, <2>1, <2>3 DEF Exchange
    <3>2. \A e \in net' : Of(e, c) => e = q
      BY <1>1, <3>1
    <3>3. \A s \in Server : ~Serves(s, c)'
      BY <1>2, <3>1 DEF Serves
    <3>4. Carries(q, c)'
      <4>1. q.src = c => q.rec.word = want'[c]
        BY <1>2, <1>6
      <4>2. q.dst # c
        BY <1>6
      <4> QED
        BY <4>1, <4>2 DEF Carries
    <3> QED
      BY <1>3, <3>2, <3>3, <3>4 DEF Exchange
  <2> QED
    BY <2>2, <2>3
<1>10. Dialogues' /\ Exchanges'
  BY <1>2, <1>9, NoDialogues DEF Exchanges
<1>11. AnswerIsToTheQuestion'
  BY <1>2, AnswersKept DEF IInv
<1>12. Owned'
  BY <1>2, <1>3, OwnedKept DEF IInv, TypeOK
<1> QED
  BY <1>7, <1>8, <1>10, <1>11, <1>12 DEF IInv

LEMMA RecvAnyInv ==
  ASSUME IInv, transport = "udp", NEW c \in Client, RecvAny(c)
  PROVE  IInv'
<1>1. PICK d \in net : d.dst = c /\ Return(c, d.rec) /\ net' = net \ {d}
  BY DEF RecvAny
<1>2. cpc[c] = "recv" /\ down' = down
  BY DEF RecvAny
<1>3. d.rec \in Dictrec
  BY <1>1, DatagramKinds DEF IInv, Answer
<1>4. c \notin dup => d.rec.text = TextFor(want[c])
  BY <1>1 DEF IInv, Exchanges, Exchange, Of, Carries
<1>5. down' \in [Client -> Seq(Dictrec)] /\ net' \subseteq net
  BY <1>1, <1>2 DEF IInv, TypeOK
<1>6. /\ TypeOK' /\ Working' /\ Looking' /\ Queued' /\ Owned'
      /\ AnswerIsToTheQuestion'
      /\ cpc'[c] = "prompt"
      /\ \A e \in Client : e # c => cpc'[e] = cpc[e]
      /\ UNCHANGED <<transport, spc, kid, kreq, up, reset, want, cut,
                     orphaned, dup>>
  BY <1>1, <1>2, <1>3, <1>4, <1>5, ReturnInv DEF Excused
<1>7. ASSUME NEW e \in Client PROVE Exchange(e)'
  <2>1. Exchange(e)
    BY DEF IInv, Exchanges
  <2>2. CASE e # c
    BY <1>5, <1>6, <2>1, <2>2, ExchangeKept DEF Serves
  <2>3. CASE e = c
    <3> SUFFICES ASSUME c \notin dup PROVE Exchange(c)'
      BY <1>6, <2>3 DEF Exchange
    <3>1. /\ \A f \in net : Of(f, c) => f = d
          /\ \A s \in Server : ~Serves(s, c)
      BY <1>1, <2>1, <2>3 DEF Exchange, Of
    <3>2. /\ \A f \in net' : ~Of(f, c)
          /\ \A s \in Server : ~Serves(s, c)'
      BY <1>1, <1>6, <3>1 DEF Serves
    <3> QED
      BY <3>2 DEF Exchange
  <2> QED
    BY <2>2, <2>3
<1>8. Dialogues' /\ Exchanges'
  BY <1>6, <1>7, NoDialogues DEF Exchanges
<1> QED
  BY <1>6, <1>8 DEF IInv

\* A query is in the server's hands now.
LEMMA TakeQueryInv ==
  ASSUME IInv, transport = "udp", NEW s \in Server, TakeQuery(s)
  PROVE  IInv'
<1>1. PICK q \in net : /\ q.dst \in Server
                       /\ kreq' = [kreq EXCEPT ![s] = q]
                       /\ net' = net \ {q}
  BY DEF TakeQuery
<1>2. /\ spc' = [spc EXCEPT ![s] = "reply"]
      /\ UNCHANGED <<transport, at, backlog, kid, held, up, down, reset, cpc,
                     rec>>
      /\ UNCHANGED <<asked, want, result, cut, orphaned, dup, lost, killed>>
  BY DEF TakeQuery, clientVars, faultVars
<1>3. q \in Query
  BY <1>1, DatagramKinds DEF IInv
<1>4. /\ spc'[s] = "reply" /\ kreq'[s] = q
      /\ \A t \in Server : t # s => spc'[t] = spc[t] /\ kreq'[t] = kreq[t]
  BY <1>1, <1>2 DEF IInv, TypeOK
<1>5. TypeOK'
  <2>1. kreq' \in [Server \cup Client -> Dictrec \cup Query \cup {None}]
    BY <1>1, <1>3 DEF IInv, TypeOK
  <2>2. net' \subseteq Query \cup Answer
    BY <1>1 DEF IInv, TypeOK
  <2> QED
    BY <1>2, <2>1, <2>2 DEF IInv, TypeOK
<1>6. Working' /\ Looking' /\ Queued'
  BY <1>2, <1>3, <1>4 DEF IInv, Working, Looking, Queued
<1>7. ASSUME NEW c \in Client PROVE Exchange(c)'
  <2>1. Exchange(c)
    BY DEF IInv, Exchanges
  <2>2. CASE q.src # c
    <3>1. \A t \in Server : Serves(t, c)' => Serves(t, c) /\ kreq'[t] = kreq[t]
      BY <1>4, <2>2 DEF Serves
    <3> QED
      BY <1>1, <1>2, <2>1, <3>1, ExchangeKept
  <2>3. CASE q.src = c
    <3> SUFFICES ASSUME c \notin dup PROVE Exchange(c)'
      BY <1>2 DEF Exchange
    <3>1. /\ cpc[c] = "recv" /\ q.rec.word = want[c]
          /\ \A e \in net : Of(e, c) => e = q
          /\ \A t \in Server : ~Serves(t, c)
      BY <1>1, <1>2, <2>1, <2>3 DEF Exchange, Of, Carries
    <3>2. \A e \in net' : ~Of(e, c)
      BY <1>1, <3>1
    <3>3. \A t \in Server : Serves(t, c)' => t = s
      BY <1>4, <3>1 DEF Serves
    <3> QED
      BY <1>2, <1>4, <3>1, <3>2, <3>3 DEF Exchange
  <2> QED
    BY <2>2, <2>3
<1>8. Dialogues' /\ Exchanges'
  BY <1>2, <1>7, NoDialogues DEF Exchanges
<1>9. AnswerIsToTheQuestion'
  BY <1>2, AnswersKept DEF IInv
<1>10. Owned'
  BY <1>2, OwnedKept DEF IInv, TypeOK
<1> QED
  BY <1>5, <1>6, <1>8, <1>9, <1>10 DEF IInv

\* The answer goes to whom the query came from.
LEMMA SendReplyInv ==
  ASSUME IInv, transport = "udp", NEW s \in Server, SendReply(s)
  PROVE  IInv'
<1>1. PICK q : q = kreq[s]
  OBVIOUS
<1>2. PICK a : /\ a = [src |-> s, dst |-> q.src, id |-> q.id, rec |-> Reply(q.rec)]
               /\ net' = net \cup {a}
  BY <1>1 DEF SendReply
<1>3. /\ spc[s] = "reply"
      /\ spc' = [spc EXCEPT ![s] = "wait"]
      /\ kreq' = [kreq EXCEPT ![s] = None]
      /\ UNCHANGED <<transport, at, backlog, kid, held, up, down, reset, cpc,
                     rec>>
      /\ UNCHANGED <<asked, want, result, cut, orphaned, dup, lost, killed>>
  BY DEF SendReply, clientVars, faultVars
<1>4. q \in Query
  BY <1>1, <1>3 DEF IInv, Working
<1>5. /\ q.src \in Client /\ q.rec \in Dictrec /\ q.id \in Nat
      /\ Reply(q.rec) \in Dictrec
      /\ Reply(q.rec).text = TextFor(q.rec.word)
  BY <1>4, ReplyText DEF Query
<1>6. /\ a \in Answer /\ a.src = s /\ a.dst = q.src
      /\ a.rec.text = TextFor(q.rec.word)
  BY <1>2, <1>5 DEF Answer
<1>7. /\ spc'[s] = "wait"
      /\ \A t \in Server : t # s => spc'[t] = spc[t] /\ kreq'[t] = kreq[t]
  BY <1>3 DEF IInv, TypeOK
<1>8. TypeOK'
  <2>1. kreq' \in [Server \cup Client -> Dictrec \cup Query \cup {None}]
    BY <1>3 DEF IInv, TypeOK
  <2>2. net' \subseteq Query \cup Answer
    BY <1>2, <1>6 DEF IInv, TypeOK
  <2> QED
    BY <1>3, <2>1, <2>2 DEF IInv, TypeOK
<1>9. Working' /\ Looking' /\ Queued'
  BY <1>3, <1>7 DEF IInv, Working, Looking, Queued
<1>10. \A c \in Client, t \in Server :
         Serves(t, c)' => t # s /\ Serves(t, c) /\ kreq'[t] = kreq[t]
  BY <1>7 DEF Serves
<1>11. ASSUME NEW c \in Client PROVE Exchange(c)'
  <2>1. Exchange(c)
    BY DEF IInv, Exchanges
  <2>2. a.src # c
    BY <1>6, ClientsApart
  <2>3. CASE q.src # c
    <3>1. \A e \in net' : Of(e, c) => e \in net
      BY <1>2, <1>6, <2>2, <2>3 DEF Of
    <3> QED
      BY <1>3, <1>10, <2>1, <3>1, ExchangeKept
  <2>4. CASE q.src = c
    <3> SUFFICES ASSUME c \notin dup PROVE Exchange(c)'
      BY <1>3 DEF Exchange
    <3>1. Serves(s, c)
      BY <1>1, <1>3, <2>4 DEF Serves
    <3>2. /\ cpc[c] = "recv" /\ q.rec.word = want[c]
          /\ \A e \in net : ~Of(e, c)
          /\ \A t \in Server : Serves(t, c) => t = s
      BY <1>1, <1>3, <2>1, <3>1 DEF Exchange
    <3>3. \A e \in net' : Of(e, c) => e = a
      BY <1>2, <3>2
    <3>4. \A t \in Server : ~Serves(t, c)'
      BY <1>10, <3>2
    <3>5. Carries(a, c)'
      BY <1>3, <1>6, <2>2, <3>2 DEF Carries
    <3> QED
      BY <1>3, <3>2, <3>3, <3>4, <3>5 DEF Exchange
  <2> QED
    BY <2>3, <2>4
<1>12. Dialogues' /\ Exchanges'
  BY <1>3, <1>11, NoDialogues DEF Exchanges
<1>13. AnswerIsToTheQuestion'
  BY <1>3, AnswersKept DEF IInv
<1>14. Owned'
  BY <1>3, OwnedKept DEF IInv, TypeOK
<1> QED
  BY <1>8, <1>9, <1>12, <1>13, <1>14 DEF IInv

\* The network loses a datagram.
LEMMA LoseInv ==
  ASSUME IInv, transport = "udp", Lose
  PROVE  IInv'
<1>1. /\ net' \subseteq net
      /\ lost' \subseteq lost \cup Client
      /\ UNCHANGED <<transport, spc, at, backlog, kid, kreq, held, up, down,
                     reset>>
      /\ UNCHANGED <<cpc, rec, asked, want, result, cut, orphaned, dup,
                     killed>>
  BY DEF Lose, serverVars, connVars, clientVars
<1>2. TypeOK'
  <2>1. lost' \subseteq Client /\ net' \subseteq Query \cup Answer
    BY <1>1 DEF IInv, TypeOK
  <2> QED
    BY <1>1, <2>1 DEF IInv, TypeOK
<1>3. Working' /\ Looking' /\ Queued'
  BY <1>1 DEF IInv, Working, Looking, Queued
<1>4. \A c \in Client : Exchange(c)'
  BY <1>1, ExchangeKept DEF IInv, Exchanges, Serves
<1>5. Dialogues' /\ Exchanges'
  BY <1>1, <1>4, NoDialogues DEF Exchanges
<1>6. AnswerIsToTheQuestion'
  BY <1>1, AnswersKept DEF IInv
<1>7. Owned'
  BY <1>1, OwnedKept DEF IInv, TypeOK
<1> QED
  BY <1>2, <1>3, <1>5, <1>6, <1>7 DEF IInv

\* The network doubles one: its client is in dup, of which no more is said.
LEMMA DoubleInv ==
  ASSUME IInv, transport = "udp", Double
  PROVE  IInv'
<1>1. PICK d \in net :
        /\ net' = net \cup {[d EXCEPT !.id = 0]}
        /\ dup' = dup \cup ({d.src, d.dst} \cap Client)
  BY DEF Double
<1>2. /\ UNCHANGED <<transport, spc, at, backlog, kid, kreq, held, up, down,
                     reset>>
      /\ UNCHANGED <<cpc, rec, asked, want, result, cut, orphaned, lost,
                     killed>>
  BY DEF Double, serverVars, connVars, clientVars
<1>3. PICK copy \in Query \cup Answer :
        /\ copy = [d EXCEPT !.id = 0]
        /\ copy.src = d.src /\ copy.dst = d.dst
  <2>1. CASE d \in Query
    <3>1. [d EXCEPT !.id = 0] \in Query
      BY <2>1 DEF Query
    <3>2. [d EXCEPT !.id = 0].src = d.src /\ [d EXCEPT !.id = 0].dst = d.dst
      BY <2>1 DEF Query
    <3> QED
      BY <3>1, <3>2
  <2>2. CASE d \in Answer
    <3>1. [d EXCEPT !.id = 0] \in Answer
      BY <2>2 DEF Answer
    <3>2. [d EXCEPT !.id = 0].src = d.src /\ [d EXCEPT !.id = 0].dst = d.dst
      BY <2>2 DEF Answer
    <3> QED
      BY <3>1, <3>2
  <2> QED
    BY <2>1, <2>2, DatagramKinds DEF IInv
<1>4. TypeOK'
  <2>1. dup' \subseteq Client /\ net' \subseteq Query \cup Answer
    BY <1>1, <1>3 DEF IInv, TypeOK
  <2> QED
    BY <1>2, <2>1 DEF IInv, TypeOK
<1>5. Working' /\ Looking' /\ Queued'
  BY <1>2 DEF IInv, Working, Looking, Queued
<1>6. ASSUME NEW c \in Client PROVE Exchange(c)'
  <2> SUFFICES ASSUME c \notin dup' PROVE Exchange(c)'
    BY DEF Exchange
  <2>1. ~Of(copy, c)
    BY <1>1, <1>3 DEF Of
  <2>2. \A e \in net' : Of(e, c) => e \in net
    BY <1>1, <1>3, <2>1
  <2>3. Exchange(c) /\ c \notin dup
    BY <1>1 DEF IInv, Exchanges
  <2> QED
    BY <1>2, <2>2, <2>3, ExchangeKept DEF Serves
<1>7. Dialogues' /\ Exchanges'
  BY <1>2, <1>6, NoDialogues DEF Exchanges
<1>8. AnswerIsToTheQuestion'
  BY <1>1, <1>2, AnswersKept DEF IInv
<1>9. Owned'
  BY <1>2, OwnedKept DEF IInv, TypeOK
<1> QED
  BY <1>4, <1>5, <1>7, <1>8, <1>9 DEF IInv

-----------------------------------------------------------------------------
LEMMA StepInv == IInv /\ [Next]_vars => IInv'
<1> SUFFICES ASSUME IInv, [Next]_vars PROVE IInv'
  OBVIOUS
<1>1. ASSUME NEW s \in Server,
             \/ StartUnix(s) \/ StartInet(s) \/ StartUdp(s)
             \/ Accepting(s) \/ UdpServer(s) \/ KillServer(s)
      PROVE  IInv'
  <2>1. CASE Accepting(s)
    BY <2>1, AcceptInv, ForkInv, CloseSocketInv DEF Accepting
  <2>2. CASE UdpServer(s)
    BY <2>2, TakeQueryInv, SendReplyInv DEF UdpServer
  <2> QED
    BY <1>1, <2>1, <2>2, StartInv, KillServerInv
<1>2. ASSUME NEW c \in Client, Lookup7(c) \/ Lookup8(c)
      PROVE  IInv'
  <2>1. transport # "udp"
    BY <1>2 DEF Lookup7, Lookup8
  <2>2. \/ Connect(c) \/ Send(c) \/ Recv(c) \/ RecvNothing(c)
        \/ Refused(c) \/ RecvFails(c)
    BY <1>2 DEF Lookup7, Lookup8
  <2>3. CASE Refused(c) \/ RecvFails(c)
    BY <2>1, <2>3, LeaveInv DEF Refused, RecvFails
  <2> QED
    BY <2>1, <2>2, <2>3, ConnectInv, SendInv, RecvInv, RecvNothingInv
<1>3. ASSUME NEW c \in Client, Lookup9(c)
      PROVE  IInv'
  BY <1>3, SendQueryInv, RecvAnyInv DEF Lookup9
<1>4. ASSUME NEW c \in Client, UsockChild(c) \/ IsockChild(c)
      PROVE  IInv'
  <2>1. transport # "udp" /\ (ChildReceive(c) \/ ChildReply(c) \/ ChildEnds(c))
    BY <1>4 DEF UsockChild, IsockChild
  <2> QED
    BY <2>1, ChildReceiveInv, ChildReplyInv, ChildEndsInv
<1>5. ASSUME NEW c \in Client, Quit(c)
      PROVE  IInv'
  <2>1. cpc[c] # "recv"
    BY <1>5 DEF Quit
  <2> QED
    BY <1>5, <2>1, LeaveInv DEF Quit
<1>6. ASSUME NEW c \in Client, Ask(c) \/ KillChild(c)
      PROVE  IInv'
  BY <1>6, AskInv, KillChildInv
<1>7. CASE Network
  BY <1>7, LoseInv, DoubleInv DEF Network
<1>8. CASE UNCHANGED vars
  BY <1>8, StutterInv
<1> QED
  BY <1>1, <1>2, <1>3, <1>4, <1>5, <1>6, <1>7, <1>8 DEF Next

\* What is under way between a client and who serves it, in every state.
THEOREM InductiveInvariant == Spec => []IInv
BY InitInv, StepInv, PTL DEF Spec

\* Every variable keeps its type, records and datagrams included.
THEOREM TypeCorrect == Spec => []TypeOK
<1>1. IInv => TypeOK
  BY DEF IInv
<1> QED
  BY <1>1, InductiveInvariant, PTL

\* lookup7.c:42-58, lookup8.c:48-63, lookup9.c:40-57: a lookup returns the
\* definition of the word asked for, or that it has none, unless the child of
\* its stream was killed, its server over TCP was killed between accept and
\* fork, or one of its datagrams was doubled; over any transport, with any
\* number of processes, lookups and faults.
THEOREM OwnAnswer == Spec => []AnswerIsToTheQuestion
<1>1. IInv => AnswerIsToTheQuestion
  BY DEF IInv
<1> QED
  BY <1>1, InductiveInvariant, PTL

-----------------------------------------------------------------------------
(* The search behind Reply: lookup5.c, over a file of any length.          *)

\* The middle of an interval that is not empty lies in it.
LEMMA MiddleInside ==
  ASSUME NEW a \in Nat, NEW b \in Nat, a < b
  PROVE  /\ (b + a) \div 2 \in Nat
         /\ a <= (b + a) \div 2 /\ (b + a) \div 2 < b
         /\ 2 * ((b + a) \div 2 - a - 1) <= b - a - 1
         /\ 2 * (b - (b + a) \div 2 - 1) <= b - a - 1
  BY SMTT(30)

\* Doubling the weight of an interval that has halved.
LEMMA HalfTwice ==
  ASSUME NEW x \in Int, NEW y \in Int, NEW w \in Nat, NEW n \in Int,
         2 * y <= x, x * w <= n
  PROVE  y * (2 * w) <= n
<1>1. y * (2 * w) = (2 * y) * w
  OBVIOUS
<1>2. (2 * y) * w <= x * w
  <2> DEFINE z == 2 * y
  <2>1. z \in Int /\ z <= x
    OBVIOUS
  <2> HIDE DEF z
  <2>2. z * w <= x * w
    BY <2>1, SMTT(30)
  <2> QED
    BY <2>2 DEF z
<1> QED
  BY <1>1, <1>2

\* The initial states satisfy the invariant.
LEMMA SearchInitInv == SearchInit => SearchInv
<1> SUFFICES ASSUME SearchInit PROVE SearchInv
  OBVIOUS
<1> USE Lookup5Assumption DEF SearchInit
<1>1. SearchTypeOK
  BY DEF SearchTypeOK
<1>2. Keeps /\ UsedUp /\ Hit
  BY DEF Keeps, UsedUp, Hit
<1>3. Halves
  BY DEF Halves
<1> QED
  BY <1>1, <1>2, <1>3 DEF SearchInv

\* Every round of the loop preserves it.
LEMMA SearchStepInv == SearchInv /\ [SearchNext]_searchVars => SearchInv'
<1> SUFFICES ASSUME SearchInv, [SearchNext]_searchVars PROVE SearchInv'
  OBVIOUS
<1>1. CASE UNCHANGED searchVars
  BY <1>1
     DEF searchVars, SearchInv, SearchTypeOK, Keeps, Halves, UsedUp, Hit, Present
<1>2. CASE Compare
  <2>1. SearchTypeOK /\ Keeps /\ Halves /\ UsedUp /\ Hit
    BY DEF SearchInv
  <2>2. /\ numrec \in 0..Len(Table) /\ numrec' = numrec /\ sought' = sought
        /\ start \in 0..numrec /\ end \in 0..numrec /\ cnt \in 0..Rounds
        /\ start < end /\ cnt < Rounds /\ found = 0
        /\ Len(Table) \in Nat /\ Rounds \in Nat
    BY <1>2, <2>1, Lookup5Assumption
       DEF Compare, Searching, SearchTypeOK, Halves
  <2>3. PICK m \in Nat : /\ m = Mid /\ start <= m /\ m < end
                         /\ 2 * (m - start - 1) <= end - start - 1
                         /\ 2 * (end - m - 1) <= end - start - 1
    BY <2>2, MiddleInside DEF Mid
  <2>4. m + 1 \in 1..numrec /\ m + 1 \in 1..Len(Table)
    BY <2>2, <2>3, SMT
  <2>5. \A i, j \in 1..Len(Table) : i < j => Table[i] < Table[j]
    BY Lookup5Assumption
  <2>6. Table \in [1..Len(Table) -> Int] /\ sought \in Int
    BY <2>1, Lookup5Assumption DEF SearchTypeOK
  <2>7. CASE Table[m + 1] = sought
    <3>1. found' = m + 1 /\ UNCHANGED <<start, end, cnt>>
      BY <1>2, <2>3, <2>7 DEF Compare
    <3>2. SearchTypeOK'
      BY <3>1, <2>1, <2>2, <2>4 DEF SearchTypeOK
    <3>3. Keeps' /\ Halves' /\ UsedUp'
      BY <3>1, <2>1, <2>2, <2>3 DEF Keeps, Halves, UsedUp, Present
    <3>4. Hit'
      BY <3>1, <2>2, <2>7 DEF Hit
    <3> QED
      BY <3>2, <3>3, <3>4 DEF SearchInv
  <2>8. CASE Table[m + 1] # sought
    <3>1. /\ cnt' = cnt + 1 /\ found' = found
          /\ \/ Table[m + 1] < sought /\ start' = m /\ end' = end
             \/ Table[m + 1] > sought /\ end' = m /\ start' = start
      <4>1. Narrow /\ cnt' = cnt + 1 /\ found' = found
        BY <1>2, <2>3, <2>8 DEF Compare
      <4>2. Table[m + 1] \in Int
        BY <2>4, <2>6
      <4>3. Table[m + 1] < sought \/ Table[m + 1] > sought
        BY <4>2, <2>6, <2>8
      <4>4. CASE Table[m + 1] < sought
        BY <4>1, <4>4, <2>3 DEF Narrow
      <4>5. CASE Table[m + 1] > sought
        <5>1. ~(Table[m + 1] < sought)
          BY <4>2, <4>5, <2>6
        <5> QED
          BY <5>1, <4>1, <4>5, <2>3 DEF Narrow
      <4> QED
        BY <4>3, <4>4, <4>5
    <3>2. SearchTypeOK'
      <4>1. start' \in 0..numrec /\ end' \in 0..numrec /\ cnt' \in 0..Rounds
        BY <3>1, <2>2, <2>3
      <4> QED
        BY <4>1, <3>1, <2>1, <2>2 DEF SearchTypeOK
    <3>3. Keeps'
      <4> SUFFICES ASSUME NEW i \in 1..numrec, Table[i] = sought
                   PROVE  start' < i /\ i <= end'
        BY <2>2 DEF Keeps
      <4>1. start < i /\ i <= end
        BY <2>1 DEF Keeps
      <4>2. i \in 1..Len(Table) /\ Table[i] \in Int /\ Table[m + 1] \in Int
        BY <2>2, <2>4, <2>6
      <4>3. Table[m + 1] < sought => m + 1 < i
        BY <4>2, <2>4, <2>5, <2>6
      <4>4. Table[m + 1] > sought => i < m + 1
        BY <4>2, <2>4, <2>5, <2>6
      <4> QED
        BY <3>1, <4>1, <4>3, <4>4, <2>2, <2>3
    <3>4. Halves'
      <4>1. /\ cnt + 1 \in 1..Rounds /\ Pow2[cnt] \in Nat
            /\ Pow2[cnt + 1] = 2 * Pow2[cnt]
        <5> DEFINE n == cnt + 1
        <5>1. n \in 1..Rounds /\ n - 1 = cnt /\ cnt \in 0..Rounds
          BY <2>2
        <5> HIDE DEF n
        <5>2. Pow2[n] = 2 * Pow2[n - 1]
          BY <5>1, Lookup5Assumption
        <5>3. Pow2[cnt] \in Nat
          BY <5>1, Lookup5Assumption
        <5> QED
          BY <5>1, <5>2, <5>3 DEF n
      <4>2. (end - start - 1) * Pow2[cnt] <= numrec - 1
        BY <2>1, <2>2 DEF Halves
      <4>3. (m - start - 1) * (2 * Pow2[cnt]) <= numrec - 1
        <5>1. /\ m - start - 1 \in Int /\ end - start - 1 \in Int
              /\ numrec - 1 \in Int
          BY <2>2, <2>3
        <5> QED
          BY <5>1, <4>1, <4>2, <2>3, HalfTwice
      <4>4. (end - m - 1) * (2 * Pow2[cnt]) <= numrec - 1
        <5>1. /\ end - m - 1 \in Int /\ end - start - 1 \in Int
              /\ numrec - 1 \in Int
          BY <2>2, <2>3
        <5> QED
          BY <5>1, <4>1, <4>2, <2>3, HalfTwice
      <4>5. start' <= end'
        BY <3>1, <2>2, <2>3
      <4>6. CASE start' = m /\ end' = end
        BY <4>6, <4>1, <4>4, <4>5, <3>1, <2>2 DEF Halves
      <4>7. CASE end' = m /\ start' = start
        BY <4>7, <4>1, <4>3, <4>5, <3>1, <2>2 DEF Halves
      <4> QED
        BY <3>1, <4>6, <4>7
    <3>5. UsedUp'
      <4> SUFFICES ASSUME cnt + 1 = Rounds, NEW i \in 1..numrec,
                          Table[i] = sought
                   PROVE  FALSE
        BY <3>1, <2>2 DEF UsedUp, Present
      <4>1. start < i /\ i <= end
        BY <2>1 DEF Keeps
      <4>2. /\ (end - start - 1) * Pow2[cnt] <= numrec - 1
            /\ cnt = Rounds - 1 /\ Pow2[cnt] \in Nat \ {0}
            /\ numrec <= Pow2[cnt]
        <5>1. cnt = Rounds - 1 /\ cnt \in 0..Rounds
          BY <2>2
        <5>2. Pow2[cnt] \in Nat \ {0} /\ Len(Table) <= Pow2[cnt]
          BY <5>1, Lookup5Assumption
        <5>3. (end - start - 1) * Pow2[cnt] <= numrec - 1
          BY <2>1, <2>2 DEF Halves
        <5> QED
          BY <5>1, <5>2, <5>3, <2>2
      <4>3. end - start - 1 = 0
        <5> DEFINE d == end - start - 1
                   w == Pow2[cnt]
        <5>1. d \in Nat /\ w \in Nat \ {0} /\ d * w <= w - 1
          BY <4>2, <2>2
        <5> HIDE DEF d, w
        <5>2. d >= 1 => d * w >= w
          BY <5>1, SMTT(30)
        <5>3. d = 0
          BY <5>1, <5>2
        <5> QED
          BY <5>3 DEF d
      <4>4. i = m + 1
        BY <4>1, <4>3, <2>2, <2>3
      <4> QED
        BY <4>4, <2>8
    <3>6. Hit'
      BY <3>1, <2>2 DEF Hit
    <3> QED
      BY <3>2, <3>3, <3>4, <3>5, <3>6 DEF SearchInv
  <2> QED
    BY <2>7, <2>8
<1> QED
  BY <1>1, <1>2 DEF SearchNext

\* The invariant of the loop.
THEOREM SearchInvariance == SearchSpec => []SearchInv
<1> QED
  BY SearchInitInv, SearchStepInv, PTL DEF SearchSpec

\* lookup5.c:60-83: when the loop is left a record was found exactly if the
\* file has the word, and it is the word's; the cut-off loses no word.
THEOREM SearchCorrect == SearchSpec => []SearchIsMembership
<1>1. SearchInv => SearchIsMembership
  <2> SUFFICES ASSUME SearchInv PROVE SearchIsMembership
    OBVIOUS
  <2>1. SearchTypeOK /\ Keeps /\ Halves /\ UsedUp /\ Hit
    BY DEF SearchInv
  <2>2. found # 0 => found <= numrec /\ Table[found] = sought
    BY <2>1, Lookup5Assumption DEF SearchTypeOK, Hit
  <2>3. found = 0 /\ start = end => ~Present
    <3>1. start \in Nat /\ end \in Nat /\ numrec \in Nat
      BY <2>1, Lookup5Assumption DEF SearchTypeOK
    <3> QED
      BY <2>1, <3>1 DEF Keeps, Present
  <2>4. found = 0 /\ cnt = Rounds => ~Present
    BY <2>1 DEF UsedUp
  <2> QED
    BY <2>2, <2>3, <2>4 DEF SearchIsMembership, FOUND, NOTFOUND, Searching
<1> QED
  BY <1>1, SearchInvariance, PTL

=============================================================================

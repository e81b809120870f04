------------------------------- MODULE Router -------------------------------
(***************************************************************************)
(* quiz_3: a router accepts three nodes and reads each to its end of file  *)
(* before the next; each node sends one message to a number, or to 0 for   *)
(* all, and reads until its end of file.  Numbers are those of the order   *)
(* in which the nodes were accepted, whatever numbers they call themselves.*)
(*                                                                         *)
(* External: a stream socket keeps what was written to it, its end is read *)
(* when the other side has gone, or ECONNRESET if that had something       *)
(* unread; writing to one that has gone is fatal.  KillNode ends a node.   *)
(***************************************************************************)
EXTENDS Integers, Sequences, FiniteSets

CONSTANTS Node,      \* three nodes
          Receiver,  \* what they send to: [Node -> 0..3]
          MaxKill    \* bound

VARIABLES
  program,
  order,     \* nodes in the order they were accepted
  npc,       \* nodes: "start", "connected", "reading", "ended", "killed"
  sent,      \* nodes whose message is in the router's socket
  inbox,     \* of each node: senders of the messages it has not read
  received,  \* history: [from, to]
  router,    \* "accept", "read", "killed"
  i          \* index of the node it reads
vars == <<program, order, npc, sent, inbox, received, router, i>>

Gone(n) == npc[n] \in {"ended", "killed"}

-----------------------------------------------------------------------------
Connect(n) ==
  /\ program = "router" /\ npc[n] = "start"
  /\ npc' = [npc EXCEPT ![n] = "connected"]
  /\ order' = Append(order, n)
  /\ UNCHANGED <<program, sent, inbox, received, router, i>>

\* Some time later it writes, and then only reads.
WriteMessage(n) ==
  /\ npc[n] = "connected"
  /\ IF router = "killed"
       THEN npc' = [npc EXCEPT ![n] = "killed"] /\ UNCHANGED sent
       ELSE npc' = [npc EXCEPT ![n] = "reading"] /\ sent' = sent \cup {n}
  /\ UNCHANGED <<program, order, inbox, received, router, i>>

NodeReads(n) ==
  /\ npc[n] = "reading"
  /\ \/ /\ inbox[n] # <<>>
        /\ received' = received \cup {[from |-> Head(inbox[n]), to |-> n]}
        /\ inbox' = [inbox EXCEPT ![n] = Tail(@)]
        /\ UNCHANGED npc
     \/ /\ inbox[n] = <<>> /\ router = "killed"
        /\ npc' = [npc EXCEPT ![n] = "ended"]
        /\ UNCHANGED <<received, inbox>>
  /\ UNCHANGED <<program, order, sent, router, i>>

KillNode(n) ==
  /\ npc[n] \in {"connected", "reading"}
  /\ Cardinality({m \in Node : npc[m] = "killed"}) < MaxKill
  /\ npc' = [npc EXCEPT ![n] = "killed"]
  /\ UNCHANGED <<program, order, sent, inbox, received, router, i>>

-----------------------------------------------------------------------------
Accepted == /\ router = "accept" /\ Len(order) = 3
            /\ router' = "read"
            /\ UNCHANGED <<program, order, npc, sent, inbox, received, i>>

\* To all means to those accepted before the sender.
Destinations(n) == IF Receiver[n] = 0 THEN {order[j] : j \in 1..(i - 1)}
                                      ELSE {order[Receiver[n]]}

Forward ==
  LET n == order[i] IN
    /\ router = "read" /\ n \in sent
    /\ sent' = sent \ {n}
    /\ IF \E d \in Destinations(n) : Gone(d)
         THEN router' = "killed" /\ UNCHANGED inbox
         ELSE /\ inbox' = [d \in Node |-> IF d \in Destinations(n)
                                            THEN Append(inbox[d], n) ELSE inbox[d]]
              /\ UNCHANGED router
    /\ UNCHANGED <<program, order, npc, received, i>>

\* Only the end of a node's file takes the router to the next.
\* A node that has left messages unread is an error that ends the router.
NextNode == /\ router = "read" /\ order[i] \notin sent /\ Gone(order[i])
            /\ IF inbox[order[i]] = <<>>
                 THEN i' = (i % 3) + 1 /\ UNCHANGED router
                 ELSE router' = "killed" /\ UNCHANGED i
            /\ UNCHANGED <<program, order, npc, sent, inbox, received>>

-----------------------------------------------------------------------------
Init == /\ order = <<>> /\ npc = [n \in Node |-> "start"]
        /\ sent = {} /\ inbox = [n \in Node |-> <<>>] /\ received = {}
        /\ router = "accept" /\ i = 1

NodeNext(n) == Connect(n) \/ WriteMessage(n) \/ NodeReads(n)
RouterNext  == Accepted \/ Forward \/ NextNode
Next == RouterNext \/ \E n \in Node : NodeNext(n) \/ KillNode(n)

Fairness == WF_vars(RouterNext) /\ \A n \in Node : WF_vars(NodeNext(n))

-----------------------------------------------------------------------------
Place(n) == CHOOSE j \in DOMAIN order : order[j] = n

\* router.c:32-57: the two sides wait for each other, so a message is received
\* only if every node accepted before its sender has been killed; one to all
\* is received by none accepted later.
OnlyTheFirstIsServed ==
  \A m \in received :
    /\ \A j \in 1..(Place(m.from) - 1) : Gone(order[j])
    /\ Receiver[m.from] = 0 => Place(m.to) < Place(m.from)

\* The first node's message to one node arrives, if nobody is killed.
FirstIsServed ==
  (Len(order) = 3 /\ Receiver[order[1]] # 0) ~>
    \/ \E m \in received : m.from = order[1]
    \/ \E n \in Node : Gone(n)

=============================================================================

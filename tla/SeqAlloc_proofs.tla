---------------------------- MODULE SeqAlloc_proofs ----------------------------
(***************************************************************************)
(* A server whose counter has never moved down grants no number twice, for *)
(* every set of servers and clients, every width of int and every amounts. *)
(***************************************************************************)
EXTENDS SeqAlloc, TLAPS

\* The remainder of a number less than one modulus away from the range.
LEMMA Remainder ==
  ASSUME NEW m \in Nat \ {0}, NEW x \in (-m)..(2 * m - 1)
  PROVE  /\ x >= m => x % m = x - m
         /\ x < 0 => x % m = x + m
         /\ x >= 0 /\ x < m => x % m = x
<1>1. CASE x >= m
  BY <1>1, SMTT(30)
<1>2. CASE x < 0
  BY <1>2, SMTT(30)
<1>3. CASE x >= 0 /\ x < m
  BY <1>3, SMTT(30)
<1> QED
  BY <1>1, <1>2, <1>3

\* The sum of two ints is an int again: exact when it fits, one turn off when
\* it does not.
LEMMA WrappedSum ==
  ASSUME IntsGiven, NEW a \in CInt, NEW b \in CInt
  PROVE  /\ Wrap(a + b) \in CInt
         /\ a + b \in CInt => Wrap(a + b) = a + b
         /\ a + b > IntMax => Wrap(a + b) = a + b - 2 * (IntMax + 1)
<1> DEFINE m == 2 * (IntMax + 1)
           x == a + b + IntMax + 1
<1>1. m \in Nat \ {0} /\ x \in (-m)..(2 * m - 1) /\ IntMax \in Nat
  BY DEF IntsGiven, CInt
<1>2. /\ x >= m => x % m = x - m
      /\ x < 0 => x % m = x + m
      /\ x >= 0 /\ x < m => x % m = x
  BY <1>1, Remainder
<1>3. Wrap(a + b) = (x % m) - (IntMax + 1)
  BY DEF Wrap
<1> HIDE DEF x, m
<1>4. CASE x >= m
  <2>1. Wrap(a + b) = x - m - (IntMax + 1)
    BY <1>2, <1>3, <1>4
  <2> QED
    BY <2>1, <1>1, <1>4 DEF x, m, CInt
<1>5. CASE x < 0
  <2>1. x % m = x + m
    BY <1>2, <1>5
  <2>2. Wrap(a + b) = (x + m) - (IntMax + 1)
    BY <1>3, <2>1
  <2> QED
    BY <2>2, <1>1, <1>5 DEF x, m, CInt
<1>6. CASE x >= 0 /\ x < m
  <2>1. Wrap(a + b) = x - (IntMax + 1)
    BY <1>2, <1>3, <1>6
  <2> QED
    BY <2>1, <1>1, <1>6 DEF x, m, CInt
<1> QED
  BY <1>4, <1>5, <1>6, <1>1

\* From a counter that is not negative, a step that does not move it down
\* passes exactly the amount asked for.
LEMMA UpwardStep ==
  ASSUME IntsGiven, NEW a \in CInt, NEW n \in CInt, a >= 0, Wrap(a + n) >= a
  PROVE  Wrap(a + n) = a + n
<1>1. a + n <= IntMax => a + n \in CInt
  BY DEF IntsGiven, CInt
<1>2. a + n > IntMax => Wrap(a + n) = a + n - 2 * (IntMax + 1)
  BY WrappedSum
<1> QED
  BY <1>1, <1>2, WrappedSum DEF IntsGiven, CInt

-----------------------------------------------------------------------------
AllocTypeOK ==
  /\ next \in [Server -> CInt]
  /\ granted \subseteq [by : Server, to : Client, from : CInt, amount : Amount]

\* What was granted lies below the counter.
Below == \A s \in Server :
           s \notin sunk =>
             /\ next[s] >= 0
             /\ \A g \in granted : g.by = s => g.from + g.amount <= next[s]

AllocInv == AllocTypeOK /\ Below /\ GrantsAreDisjoint

LEMMA InitAllocInv ==
  ASSUME IntsGiven, AllocInit
  PROVE  AllocInv
<1>1. 0 \in CInt
  BY DEF IntsGiven, CInt
<1>2. AllocTypeOK
  BY <1>1 DEF AllocInit, AllocTypeOK
<1>3. Below /\ GrantsAreDisjoint
  BY DEF AllocInit, Below, GrantsAreDisjoint
<1> QED
  BY <1>2, <1>3 DEF AllocInv

LEMMA GrantAllocInv ==
  ASSUME IntsGiven, AllocInv, NEW s \in Server, NEW c \in Client,
         NEW n \in Amount, Grant(s, c, n)
  PROVE  AllocInv'
<1> DEFINE new == [by |-> s, to |-> c, from |-> next[s], amount |-> n]
<1>1. /\ next[s] \in CInt
      /\ n \in CInt
      /\ next' = [next EXCEPT ![s] = Wrap(next[s] + n)]
      /\ granted' = granted \cup {new}
      /\ \A q \in Server : q \notin sunk' => q \notin sunk
      /\ s \notin sunk' => Wrap(next[s] + n) >= next[s]
  <2>1. next[s] \in CInt /\ n \in CInt
    BY DEF IntsGiven, AllocInv, AllocTypeOK
  <2>2. Wrap(next[s] + n) \in CInt
    BY <2>1, WrappedSum
  <2> QED
    BY <2>1, <2>2 DEF IntsGiven, Grant, Advance, CInt
<1>2. Wrap(next[s] + n) \in CInt
  BY <1>1, WrappedSum
<1>3. s \notin sunk' => next[s] >= 0 /\ next'[s] = next[s] + n
  BY <1>1, UpwardStep DEF AllocInv, AllocTypeOK, Below
<1>4. \A q \in Server : q # s => next'[q] = next[q]
  BY <1>1 DEF AllocInv, AllocTypeOK
<1>5. AllocTypeOK'
  <2>1. new \in [by : Server, to : Client, from : CInt, amount : Amount]
    BY <1>1
  <2> QED
    BY <1>1, <1>2, <2>1 DEF AllocInv, AllocTypeOK
<1>6. \A g \in granted : /\ g.by \in Server
                         /\ g.from \in Int
                         /\ g.amount \in Int
  <2> TAKE g \in granted
  <2>1. g \in [by : Server, to : Client, from : CInt, amount : Amount]
    BY DEF AllocInv, AllocTypeOK
  <2>2. g.by \in Server /\ g.from \in CInt /\ g.amount \in CInt
    BY <2>1 DEF IntsGiven
  <2> QED
    BY <2>2 DEF IntsGiven, CInt
<1>7. n \in Int /\ next[s] \in Int
  BY <1>1 DEF IntsGiven, CInt
<1>8. Below'
  <2> SUFFICES ASSUME NEW q \in Server, q \notin sunk'
               PROVE  /\ next'[q] >= 0
                      /\ \A g \in granted' :
                           g.by = q => g.from + g.amount <= next'[q]
    BY DEF Below
  <2>1. /\ q \notin sunk
        /\ next[q] >= 0
        /\ \A g \in granted : g.by = q => g.from + g.amount <= next[q]
    BY <1>1 DEF AllocInv, Below
  <2>2. CASE q = s
    <3>1. next'[s] = next[s] + n /\ next'[s] >= next[s]
      BY <2>2, <1>1, <1>3 DEF AllocInv, AllocTypeOK
    <3>2. \A g \in granted : g.by = s => g.from + g.amount <= next'[s]
      BY <2>1, <2>2, <3>1, <1>6, <1>7
    <3>3. new.by = s /\ new.from + new.amount = next'[s]
      BY <3>1
    <3> QED
      BY <2>1, <2>2, <3>1, <3>2, <3>3, <1>1, <1>7
  <2>3. CASE q # s
    BY <2>1, <2>3, <1>1, <1>4
  <2> QED
    BY <2>2, <2>3
<1>9. GrantsAreDisjoint'
  <2>1. ASSUME NEW g \in granted, g.by = s, s \notin sunk'
        PROVE  Numbers(g) \cap Numbers(new) = {}
    <3>1. g.from + g.amount <= next[s]
      BY <2>1, <1>1 DEF AllocInv, Below
    <3> QED
      BY <3>1, <2>1, <1>6, <1>7 DEF Numbers
  <2>2. ASSUME NEW g \in granted, NEW h \in granted, g # h, g.by = h.by,
               g.by \notin sunk'
        PROVE  Numbers(g) \cap Numbers(h) = {}
    BY <2>2, <1>1, <1>6 DEF AllocInv, GrantsAreDisjoint
  <2> SUFFICES ASSUME NEW g \in granted', NEW h \in granted', g # h,
                      g.by = h.by, g.by \notin sunk'
               PROVE  Numbers(g) \cap Numbers(h) = {}
    BY DEF GrantsAreDisjoint, Numbers
  <2>3. CASE g \in granted /\ h \in granted
    BY <2>2, <2>3
  <2>4. CASE g \in granted /\ h = new
    BY <2>1, <2>4
  <2>5. CASE h \in granted /\ g = new
    BY <2>1, <2>5
  <2> QED
    BY <2>3, <2>4, <2>5, <1>1
<1> QED
  BY <1>5, <1>8, <1>9 DEF AllocInv

LEMMA StutterAllocInv == AllocInv /\ UNCHANGED allocVars => AllocInv'
BY DEF AllocInv, AllocTypeOK, Below, GrantsAreDisjoint, allocVars

\* server.c:42-47, fifo_seqnum_server.c:77-83: whatever is granted by one
\* server, in one life and without the counter ever moving down, is disjoint.
THEOREM Disjoint ==
  ASSUME IntsGiven
  PROVE  AllocSpec => []GrantsAreDisjoint
<1>0. AllocInit => AllocInv
  BY InitAllocInv
<1>1. AllocInv /\ [AllocNext]_allocVars => AllocInv'
  BY GrantAllocInv, StutterAllocInv DEF AllocNext
<1>2. AllocInv => GrantsAreDisjoint
  BY DEF AllocInv
<1> QED
  BY <1>0, <1>1, <1>2, PTL DEF AllocSpec
=============================================================================

--------------------------- MODULE Programs_proofs ---------------------------
(***************************************************************************)
(* Proofs about the small programs, family by family: what each family's   *)
(* states have in common, that its steps keep it, and what follows of it.  *)
(* At the end the families are put together.                               *)
(***************************************************************************)
EXTENDS Programs, TLAPS, WellFoundedInduction, FiniteSetTheorems, SequenceTheorems

\* The library's induction theorems take an operator as a parameter, its theorem
\* on minimal elements does not: induction here is by the least counterexample.
LEMMA LeastNat ==
  ASSUME NEW S, S \subseteq Nat, S # {}
  PROVE  \E m \in S : \A n \in S : m <= n
<1> DEFINE Less == OpToRel(<, Nat)
<1>1. IsWellFoundedOn(Less, Nat)
  BY NatLessThanWellFounded
<1>2. \A x, y \in Nat : x < y => <<x, y>> \in Less
  BY DEF OpToRel
<1> HIDE DEF Less
<1>3. PICK m \in S : \A n \in S : ~(<<n, m>> \in Less)
  BY <1>1, WFMin
<1>4. \A n \in S : ~(n < m)
  BY <1>2, <1>3
<1> QED
  BY <1>4

\* A sequence of values of which each is a function of the one before.
Iterates(f, N, F, a) == f[0] = a /\ \A n \in 1..N : f[n] = F[f[n - 1]]

LEMMA IteratesExist ==
  ASSUME NEW U, NEW F \in [U -> U], NEW a \in U, NEW N \in Nat
  PROVE  \E f \in [0..N -> U] : Iterates(f, N, F, a)
<1> DEFINE Bad == {m \in Nat : ~ \E f \in [0..m -> U] : Iterates(f, m, F, a)}
<1>1. ASSUME Bad # {}
      PROVE  FALSE
  <2>1. PICK m \in Bad : \A n \in Bad : m <= n
    BY <1>1, LeastNat
  <2>2. m # 0
    <3>1. [n \in 0..0 |-> a] \in [0..0 -> U] /\ Iterates([n \in 0..0 |-> a], 0, F, a)
      BY DEF Iterates
    <3> QED
      BY <2>1, <3>1
  <2>3. PICK l \in Nat : m = l + 1
    <3>1. m - 1 \in Nat /\ m = (m - 1) + 1
      BY <2>1, <2>2
    <3> QED
      BY <3>1
  <2>4. PICK f \in [0..l -> U] : Iterates(f, l, F, a)
    <3>1. ~(m <= l)
      BY <2>3
    <3>2. l \notin Bad
      BY <2>1, <3>1
    <3> QED
      BY <3>2
  <2> DEFINE g == [n \in 0..m |-> IF n = m THEN F[f[l]] ELSE f[n]]
  <2>5. /\ 0..m = 0..l \cup {m} /\ m \notin 0..l /\ l \in 0..l /\ 0 \in 0..l /\ 0 # m
        /\ m - 1 = l
        /\ \A n \in 1..m : n = m \/ (n \in 1..l /\ n \in 0..l /\ n - 1 \in 0..l /\ n - 1 # m)
    BY <2>3
  <2>6. g \in [0..m -> U] /\ g[m] = F[f[l]] /\ \A n \in 0..l : g[n] = f[n]
    <3>1. F[f[l]] \in U
      BY <2>4, <2>5
    <3> QED
      BY <2>4, <2>5, <3>1
  <2> HIDE DEF g
  <2>7. Iterates(g, m, F, a)
    <3>1. g[0] = a
      BY <2>4, <2>5, <2>6 DEF Iterates
    <3>2. ASSUME NEW n \in 1..m
          PROVE  g[n] = F[g[n - 1]]
      <4>1. CASE n = m
        <5>1. n - 1 = l
          BY <2>5, <4>1
        <5> QED
          BY <2>5, <2>6, <4>1, <5>1
      <4>2. CASE n # m
        <5>1. n \in 1..l /\ n \in 0..l /\ n - 1 \in 0..l
          BY <2>5, <4>2
        <5>2. f[n] = F[f[n - 1]]
          BY <2>4, <5>1 DEF Iterates
        <5> QED
          BY <2>6, <5>1, <5>2
      <4> QED
        BY <4>1, <4>2
    <3> QED
      BY <3>1, <3>2 DEF Iterates
  <2> QED
    BY <2>1, <2>6, <2>7
<1> QED
  BY <1>1

LEMMA AppendIs ==
  ASSUME NEW S, NEW s \in Seq(S), NEW e \in S
  PROVE  /\ Append(s, e) \in Seq(S)
         /\ \E new \in Nat :
              /\ new = Len(s) + 1 /\ new \notin DOMAIN s
              /\ DOMAIN Append(s, e) = DOMAIN s \cup {new}
              /\ Append(s, e)[new] = e
              /\ \A k \in DOMAIN s : k \in Nat /\ k < new /\ Append(s, e)[k] = s[k]
<1>1. PICK l \in Nat : l = Len(s)
  OBVIOUS
<1>2. PICK new \in Nat : new = l + 1
  OBVIOUS
<1>3. DOMAIN s = 1..l
  BY <1>1
<1>4. /\ \A k \in 1..l : k \in Nat /\ k < new
      /\ new \notin 1..l /\ 1..new = 1..l \cup {new}
  BY <1>2
<1>5. /\ Append(s, e) \in Seq(S) /\ Len(Append(s, e)) = Len(s) + 1
      /\ Append(s, e)[Len(s) + 1] = e
      /\ \A k \in 1..Len(s) : Append(s, e)[k] = s[k]
  OBVIOUS
<1>6. DOMAIN Append(s, e) = 1..new
  BY <1>1, <1>2, <1>5
<1> QED
  BY <1>1, <1>2, <1>3, <1>4, <1>5, <1>6

-----------------------------------------------------------------------------
(* FifoModes.                                                              *)

Met == "server" \in met \/ "client" \in met
ClientCame == cPc \notin {"start", "refused"}

FifInv ==
  /\ Fif!ModesShowWhatTheyDo
  /\ fifo \in BOOLEAN /\ reading \in BOOLEAN /\ writing \in BOOLEAN /\ data \in BOOLEAN
  /\ data => wrote = "bytes"
  /\ wrote # "" => cPc \in {"close", "ended"} /\ Met
  /\ writing => ClientCame
  /\ reading => sPc \notin {"start", "open"}
  /\ ClientCame /\ ~writing => cPc = "ended"
  /\ Met => ClientCame /\ sPc \notin {"start", "open"}
  /\ sPc \notin {"start", "open"} /\ ~reading => sPc = "ended"
  /\ cPc = "write" => Met
  /\ serverMode = 2 /\ sPc \in {"read", "close"} => Met
  /\ says # "" => sPc \in {"close", "ended"}

LEMMA FifInit == Fif!Init => FifInv
BY DEF Fif!Init, FifInv, Fif!ModesShowWhatTheyDo, ClientCame, Met

LEMMA FifStep ==
  ASSUME FifInv, Fif!Next
  PROVE  FifInv'
<1> USE DEF FifInv, Fif!ModesShowWhatTheyDo, ClientCame, Met, Fif!SRest, Fif!CRest,
            Fif!modes, Fif!Opens
<1>1. CASE Fif!Mkfifo
  BY <1>1 DEF Fif!Mkfifo
<1>2. CASE Fif!ServerOpens
  <2>1. /\ sPc' \in {"close", "read", "opening"}
        /\ serverMode = 2 => sPc' = "opening"
    <3>1. sPc' = CASE serverMode = 1 -> "close"
                   [] serverMode = 3 -> "read"
                   [] OTHER -> "opening"
      BY <1>2 DEF Fif!ServerOpens
    <3> QED
      BY ONLY <3>1
  <2>2. Met' => writing
    <3>1. ~Met
      BY <1>2 DEF Fif!ServerOpens
    <3> QED
      BY <1>2, <3>1 DEF Fif!ServerOpens
  <2>3. reading' = TRUE
    BY <1>2 DEF Fif!ServerOpens
  <2> QED
    BY <1>2, <2>1, <2>2, <2>3 DEF Fif!ServerOpens
<1>3. CASE Fif!ServerIsOpen
  BY <1>3 DEF Fif!ServerIsOpen
<1>4. CASE Fif!ServerReads
  BY <1>4 DEF Fif!ServerReads
<1>5. CASE Fif!ServerCloses
  BY <1>5 DEF Fif!ServerCloses
<1>6. CASE Fif!ClientOpens
  <2>1. ~Met
    BY <1>6 DEF Fif!ClientOpens
  <2>2. CASE cPc' = "refused"
    <3>1. met' = met /\ writing' = writing
      BY <1>6, <2>2 DEF Fif!ClientOpens
    <3>2. cPc = "start"
      BY <1>6 DEF Fif!ClientOpens
    <3> QED
      BY <1>6, <2>1, <2>2, <3>1, <3>2 DEF Fif!ClientOpens
  <2>3. CASE cPc' # "refused"
    <3>1. writing' = TRUE /\ cPc' \in {"close", "opening"}
      BY <1>6, <2>3 DEF Fif!ClientOpens
    <3>2. Met' => reading
      BY <1>6, <2>1, <2>3 DEF Fif!ClientOpens
    <3>3. cPc = "start"
      BY <1>6 DEF Fif!ClientOpens
    <3> QED
      BY <1>6, <2>3, <3>1, <3>2, <3>3 DEF Fif!ClientOpens
  <2> QED
    BY <2>2, <2>3
<1>7. CASE Fif!ClientIsOpen
  BY <1>7 DEF Fif!ClientIsOpen
<1>8. CASE Fif!ClientWrites
  BY <1>8 DEF Fif!ClientWrites
<1>9. CASE Fif!ClientCloses
  BY <1>9 DEF Fif!ClientCloses
<1> QED
  BY <1>1, <1>2, <1>3, <1>4, <1>5, <1>6, <1>7, <1>8, <1>9
     DEF Fif!Next, Fif!Server, Fif!Client

-----------------------------------------------------------------------------
(* CondVar.                                                                *)

ConTypeOK ==
  /\ threads \subseteq Consumer /\ mtx \in Consumer \cup {Free}
  /\ written \in 0..NumData
  /\ consPc \in [Consumer -> {"none", "lock", "waiting", "woken", "check",
                             "unlock", "exited"}]
  /\ got \in [Consumer -> Seq(0..NumData)]
  /\ broadcasts \in Nat /\ spurious \in Nat

\* The buffer has what was written last, or the terminator; nobody has added up
\* what was not written; who is past the wait has the mutex.
ConInv ==
  /\ ConTypeOK /\ Con!OneValuePerCall
  /\ buffer \in {written, Con!Terminator}
  /\ \A c \in Consumer :
       /\ \A k \in DOMAIN got[c] : got[c][k] <= written
       /\ consPc[c] \in {"check", "unlock", "exited"} => mtx = c
  /\ prodPc = "ended" => \A c \in threads : consPc[c] = "exited"

LEMMA ConInit == Con!Init => ConInv
<1> SUFFICES ASSUME Con!Init
             PROVE  ConInv
  OBVIOUS
<1>1. threads \subseteq Consumer /\ prodPc # "ended"
  BY DEF Con!Init
<1>2. ConTypeOK
  BY <1>1, ProgramsAssumption DEF Con!Init, ConTypeOK
<1>3. \A c \in Consumer : DOMAIN got[c] = {} /\ Len(got[c]) = 0
  BY DEF Con!Init
<1> QED
  BY <1>1, <1>2, <1>3 DEF Con!Init, Con!Initially, Con!OneValuePerCall, ConInv

\* What the invariant says of one consumer.
ConKept(c) ==
  /\ Len(got[c]) + (IF consPc[c] \in {"woken", "check"} THEN 1 ELSE 0)
       <= broadcasts + spurious
  /\ \A m, n \in DOMAIN got[c] : m < n => got[c][m] <= got[c][n]
  /\ \A k \in DOMAIN got[c] : got[c][k] <= written
  /\ consPc[c] \in {"check", "unlock", "exited"} => mtx = c

AllKept ==
  /\ ConTypeOK
  /\ buffer \in {written, Con!Terminator}
  /\ \A c \in Consumer : ConKept(c)
  /\ prodPc = "ended" => \A c \in threads : consPc[c] = "exited"

LEMMA ConParts == ConInv <=> AllKept
<1>1. ASSUME ConTypeOK, \A c \in Consumer : ConKept(c),
             prodPc = "ended" => \A c \in threads : consPc[c] = "exited"
      PROVE  Con!OneValuePerCall
  <2>1. \A c \in Consumer : prodPc = "ended" /\ c \in threads => threads = {c}
    BY <1>1 DEF ConKept, ConTypeOK
  <2> QED
    BY <1>1, <2>1 DEF ConKept, Con!OneValuePerCall
<1>2. ASSUME ConInv
      PROVE  \A c \in Consumer : ConKept(c)
  BY <1>2 DEF ConInv, ConKept, Con!OneValuePerCall
<1> QED
  BY <1>1, <1>2 DEF ConInv, AllKept, ConKept

LEMMA ConPartsNext == (ConInv <=> AllKept)'
BY ConParts, PTL

LEMMA ConStep ==
  ASSUME ConInv, Con!Next
  PROVE  ConInv'
<1>1. /\ ConTypeOK /\ buffer \in {written, Con!Terminator}
      /\ \A c \in Consumer : ConKept(c)
      /\ prodPc = "ended" => \A c \in threads : consPc[c] = "exited"
  BY ConParts DEF AllKept
<1>2. NumData \in Nat /\ Free \notin Consumer
  BY ProgramsAssumption
<1>3. ASSUME ConTypeOK', buffer' \in {written', Con!Terminator},
             \A c \in Consumer : ConKept(c)',
             prodPc' = "ended" => \A c \in threads' : consPc'[c] = "exited"
      PROVE  ConInv'
  BY <1>3, ConPartsNext DEF AllKept, Con!Terminator
<1> USE DEF ConTypeOK, Con!ProdRest, Con!ConsRest, Con!Turn
<1>4. ASSUME NEW c \in Consumer, Con!Create(c)
      PROVE  ConInv'
  <2>1. prodPc = "create" /\ c \in threads /\ UNCHANGED <<prodPc, written, buffer>>
    BY <1>4 DEF Con!Create
  <2>2. ConTypeOK'
    BY <1>1, <1>4 DEF Con!Create
  <2>3. ASSUME NEW d \in Consumer
        PROVE  ConKept(d)'
    BY <1>1, <1>4 DEF Con!Create, ConKept
  <2> QED
    BY <1>1, <1>3, <2>1, <2>2, <2>3
<1>5. CASE Con!Write
  <2>1. ConTypeOK' /\ buffer' = written' /\ prodPc' = "broadcast"
    BY <1>1, <1>2, <1>5 DEF Con!Write
  <2>2. ASSUME NEW d \in Consumer
        PROVE  ConKept(d)'
    <3>1. /\ got' = got /\ consPc' = consPc /\ mtx' = mtx /\ written' = written + 1
          /\ broadcasts' = broadcasts /\ spurious' = spurious
      BY <1>5 DEF Con!Write
    <3>2. got[d] \in Seq(0..NumData) /\ \A k \in DOMAIN got[d] : got[d][k] \in Nat
      BY <1>1, <1>2
    <3> QED
      BY <1>1, <1>2, <3>1, <3>2 DEF ConKept
  <2> QED
    BY <1>3, <2>1, <2>2
<1>6. CASE Con!Broadcast
  <2>1. ConTypeOK' /\ UNCHANGED <<buffer, written>> /\ prodPc' = "write"
    BY <1>1, <1>6 DEF Con!Broadcast
  <2>2. ASSUME NEW d \in Consumer
        PROVE  ConKept(d)'
    <3>1. /\ got' = got /\ mtx' = mtx /\ written' = written
          /\ broadcasts' = broadcasts + 1 /\ spurious' = spurious
          /\ consPc'[d] = IF consPc[d] = "waiting" THEN "woken" ELSE consPc[d]
      BY <1>6 DEF Con!Broadcast
    <3>2. Len(got[d]) \in Nat
      BY <1>1
    <3> QED
      BY <1>1, <3>1, <3>2 DEF ConKept
  <2> QED
    BY <1>1, <1>3, <2>1, <2>2
<1>7. CASE Con!Terminate
  <2>1. ConTypeOK' /\ buffer' = Con!Terminator' /\ prodPc' = "join"
    BY <1>1, <1>7 DEF Con!Terminate, Con!Terminator
  <2>2. ASSUME NEW d \in Consumer
        PROVE  ConKept(d)'
    BY <1>1, <1>7 DEF Con!Terminate, ConKept
  <2> QED
    BY <1>3, <2>1, <2>2
<1>8. CASE Con!Join
  <2>1. ConTypeOK' /\ UNCHANGED <<buffer, written, consPc, threads>>
        /\ \A c \in threads : consPc[c] = "exited"
    BY <1>1, <1>8 DEF Con!Join
  <2>2. ASSUME NEW d \in Consumer
        PROVE  ConKept(d)'
    BY <1>1, <1>8 DEF Con!Join, ConKept
  <2> QED
    BY <1>1, <1>3, <2>1, <2>2 DEF Con!Terminator
\* A consumer's step keeps the others' parts if it takes the mutex only when
\* it is free and gives back its own.
<1>9. ASSUME NEW c \in Consumer, Con!ConsRest, ConTypeOK', ConKept(c)',
             \A d \in Consumer \ {c} : consPc'[d] = consPc[d] /\ got'[d] = got[d],
             spurious' >= spurious, consPc[c] # "exited",
             mtx = Free \/ mtx = c \/ mtx' = mtx
      PROVE  ConInv'
  <2>1. ASSUME NEW d \in Consumer, d # c
        PROVE  ConKept(d)'
    <3>1. /\ consPc'[d] = consPc[d] /\ got'[d] = got[d] /\ ConKept(d)
          /\ written' = written /\ broadcasts' = broadcasts
      BY <1>1, <1>9, <2>1
    <3>2. consPc[d] \in {"check", "unlock", "exited"} => mtx' = d
      BY <1>2, <1>9, <2>1, <3>1 DEF ConKept
    <3>3. Len(got[d]) \in Nat /\ spurious \in Nat /\ broadcasts \in Nat /\ spurious' \in Nat
      BY <1>1, <1>9
    <3>4. Len(got'[d]) + (IF consPc'[d] \in {"woken", "check"} THEN 1 ELSE 0)
            <= broadcasts' + spurious'
      <4>1. spurious' >= spurious
        BY <1>9
      <4>2. Len(got[d]) + (IF consPc[d] \in {"woken", "check"} THEN 1 ELSE 0)
              <= broadcasts + spurious
        BY <3>1 DEF ConKept
      <4>3. CASE consPc[d] \in {"woken", "check"}
        BY ONLY <3>1, <3>3, <4>1, <4>2, <4>3
      <4>4. CASE consPc[d] \notin {"woken", "check"}
        BY ONLY <3>1, <3>3, <4>1, <4>2, <4>4
      <4> QED
        BY <4>3, <4>4
    <3> QED
      BY <3>1, <3>2, <3>4 DEF ConKept
  <2>2. prodPc = "ended" => c \notin threads
    BY <1>1, <1>9
  <2>3. prodPc' = "ended" => \A d \in threads' : consPc'[d] = "exited"
    BY <1>1, <1>9, <2>2
  <2>4. buffer' \in {written', Con!Terminator}
    BY <1>1, <1>9
  <2> QED
    BY <1>3, <1>9, <2>1, <2>3, <2>4
<1>10. ASSUME NEW c \in Consumer, Con!LockAndWait(c)
       PROVE  ConInv'
  <2>1. ConKept(c)'
    BY <1>1, <1>10 DEF Con!LockAndWait, ConKept
  <2>2. /\ ConTypeOK' /\ consPc[c] # "exited" /\ spurious' = spurious
        /\ \A d \in Consumer \ {c} : consPc'[d] = consPc[d] /\ got'[d] = got[d]
        /\ mtx = Free
    BY <1>1, <1>10 DEF Con!LockAndWait
  <2> QED
    BY <1>1, <1>9, <1>10, <2>1, <2>2 DEF Con!LockAndWait
<1>11. ASSUME NEW c \in Consumer, Con!Spurious(c)
       PROVE  ConInv'
  <2>1. /\ got' = got /\ mtx' = mtx /\ written' = written
        /\ broadcasts' = broadcasts /\ spurious' = spurious + 1
        /\ consPc[c] = "waiting" /\ consPc'[c] = "woken"
    BY <1>1, <1>11 DEF Con!Spurious
  <2>2. ConKept(c)'
    <3>1. Len(got[c]) \in Nat /\ spurious \in Nat /\ broadcasts \in Nat
      BY <1>1
    <3> QED
      BY <1>1, <2>1, <3>1 DEF ConKept
  <2>3. /\ ConTypeOK' /\ spurious \in Nat
        /\ \A d \in Consumer \ {c} : consPc'[d] = consPc[d] /\ got'[d] = got[d]
    BY <1>1, <1>11 DEF Con!Spurious
  <2>4. Con!ConsRest /\ spurious' >= spurious /\ consPc[c] # "exited"
    BY <1>11, <2>1, <2>3 DEF Con!Spurious
  <2> QED
    BY <1>9, <2>1, <2>2, <2>3, <2>4
<1>12. ASSUME NEW c \in Consumer, Con!Relock(c)
       PROVE  ConInv'
  <2>1. ConKept(c)'
    BY <1>1, <1>12 DEF Con!Relock, ConKept
  <2>2. /\ ConTypeOK' /\ consPc[c] # "exited" /\ spurious' = spurious
        /\ \A d \in Consumer \ {c} : consPc'[d] = consPc[d] /\ got'[d] = got[d]
        /\ mtx = Free
    BY <1>1, <1>12 DEF Con!Relock
  <2> QED
    BY <1>1, <1>9, <1>12, <2>1, <2>2 DEF Con!Relock
<1>13. ASSUME NEW c \in Consumer, Con!Check(c)
       PROVE  ConInv'
  <2>1. /\ consPc[c] = "check" /\ mtx = c /\ mtx' = mtx /\ Con!ConsRest
        /\ spurious' = spurious
    BY <1>1, <1>13 DEF Con!Check, ConKept
  <2>2. CASE buffer = Con!Terminator
    <3>1. consPc' = [consPc EXCEPT ![c] = "exited"] /\ got' = got
      BY <1>13, <2>2 DEF Con!Check
    <3>2. Len(got[c]) \in Nat
      BY <1>1
    <3>3. ConKept(c)'
      BY <1>1, <2>1, <3>1, <3>2 DEF ConKept
    <3>4. /\ ConTypeOK' /\ spurious \in Nat
          /\ \A d \in Consumer \ {c} : consPc'[d] = consPc[d] /\ got'[d] = got[d]
      BY <1>1, <2>1, <3>1
    <3> QED
      BY <1>9, <2>1, <3>3, <3>4
  <2>3. CASE buffer # Con!Terminator
    <3>1. /\ consPc' = [consPc EXCEPT ![c] = "unlock"]
          /\ got' = [got EXCEPT ![c] = Append(got[c], written)]
      BY <1>1, <1>13, <2>3 DEF Con!Check
    <3>2. /\ got[c] \in Seq(0..NumData) /\ Len(got[c]) \in Nat
          /\ got'[c] = Append(got[c], written) /\ consPc'[c] = "unlock"
      BY <1>1, <3>1
    <3>3. /\ got'[c] \in Seq(0..NumData) /\ Len(got'[c]) = Len(got[c]) + 1
          /\ \A k \in 1..Len(got[c]) : got'[c][k] = got[c][k]
          /\ got'[c][Len(got[c]) + 1] = written
      BY <1>1, <3>2
    <3>4. \A k \in DOMAIN got[c] : got[c][k] \in Nat /\ got[c][k] <= written
      BY <1>1, <1>2, <3>2 DEF ConKept
    <3>5. \A k \in 1..Len(got[c]) + 1 : got'[c][k] \in Nat /\ got'[c][k] <= written
      BY <1>1, <1>2, <3>2, <3>3, <3>4
    <3>6. \A m, n \in DOMAIN got'[c] : m < n => got'[c][m] <= got'[c][n]
      BY <1>1, <3>2, <3>3, <3>5 DEF ConKept
    <3>7. ConKept(c)'
      BY <1>1, <2>1, <3>2, <3>3, <3>5, <3>6 DEF ConKept
    <3>8. /\ ConTypeOK' /\ spurious \in Nat
          /\ \A d \in Consumer \ {c} : consPc'[d] = consPc[d] /\ got'[d] = got[d]
      BY <1>1, <2>1, <3>1, <3>3
    <3> QED
      BY <1>9, <2>1, <3>7, <3>8
  <2> QED
    BY <2>2, <2>3
<1>14. ASSUME NEW c \in Consumer, Con!Unlock(c)
       PROVE  ConInv'
  <2>1. ConKept(c)'
    BY <1>1, <1>14 DEF Con!Unlock, ConKept
  <2>2. mtx = c
    BY <1>1, <1>14 DEF Con!Unlock, ConKept
  <2>3. /\ ConTypeOK' /\ consPc[c] # "exited" /\ spurious' = spurious
        /\ \A d \in Consumer \ {c} : consPc'[d] = consPc[d] /\ got'[d] = got[d]
    BY <1>1, <1>14 DEF Con!Unlock
  <2> QED
    BY <1>1, <1>9, <1>14, <2>1, <2>2, <2>3 DEF Con!Unlock
<1> QED
  BY <1>4, <1>5, <1>6, <1>7, <1>8, <1>10, <1>11, <1>12, <1>13, <1>14
     DEF Con!Next, Con!ProducerNext, Con!ConsumerNext

-----------------------------------------------------------------------------
(* Router.                                                                 *)

\* n was accepted, all before it have gone, and a message of its to all goes to
\* one that was accepted before.
Served(n, d) ==
  \E j \in DOMAIN order :
    /\ order[j] = n
    /\ \A k \in 1..(j - 1) : Rou!Gone(order[k])
    /\ Receiver[n] = 0 => \E k \in 1..(j - 1) : order[k] = d

RouTypeOK ==
  /\ order \in Seq(Node)
  /\ nodePc \in [Node -> {"start", "connected", "reading", "ended", "killed"}]
  /\ sent \subseteq Node /\ inbox \in [Node -> Seq(Node)]
  /\ received \subseteq [from : Node, to : Node]
  /\ turn \in 1..3

RouInv ==
  /\ RouTypeOK
  /\ \A j, k \in DOMAIN order : order[j] = order[k] => j = k
  /\ \A j \in DOMAIN order : nodePc[order[j]] # "start"
  /\ router # "accept" => Len(order) >= 3
  /\ \A j \in 1..(turn - 1) : j \in DOMAIN order /\ Rou!Gone(order[j])
  /\ \A d \in Node : \A k \in DOMAIN inbox[d] : Served(inbox[d][k], d)
  /\ \A m \in received : Served(m.from, m.to)

LEMMA RouInit == Rou!Init => RouInv
<1> SUFFICES ASSUME Rou!Init
             PROVE  RouInv
  OBVIOUS
<1>1. RouTypeOK
  BY DEF Rou!Init, RouTypeOK
<1>2. DOMAIN order = {} /\ \A d \in Node : DOMAIN inbox[d] = {}
  BY DEF Rou!Init
<1> QED
  BY <1>1, <1>2 DEF Rou!Init, RouInv

\* No node leaves the order or comes back.
LEMMA ServedStays ==
  ASSUME order \in Seq(Node),
         \A j \in DOMAIN order : j \in DOMAIN order' /\ order'[j] = order[j],
         \A n \in Node : Rou!Gone(n) => Rou!Gone(n)',
         NEW n, NEW d, Served(n, d)
  PROVE  Served(n, d)'
<1>1. PICK j \in DOMAIN order :
        /\ order[j] = n
        /\ \A k \in 1..(j - 1) : Rou!Gone(order[k])
        /\ Receiver[n] = 0 => \E k \in 1..(j - 1) : order[k] = d
  BY DEF Served
<1>2. \A k \in 1..(j - 1) : k \in DOMAIN order /\ order[k] \in Node
  OBVIOUS
<1>3. \A k \in 1..(j - 1) : nodePc'[order'[k]] \in {"ended", "killed"}
  BY <1>1, <1>2 DEF Rou!Gone
<1> QED
  BY <1>1, <1>2, <1>3 DEF Served, Rou!Gone

\* It is enough to look at the new messages.
LEMMA RouKeeps ==
  ASSUME RouInv, RouTypeOK',
         \A j \in DOMAIN order : j \in DOMAIN order' /\ order'[j] = order[j],
         \A n \in Node : Rou!Gone(n) => Rou!Gone(n)',
         \A j, k \in DOMAIN order' : order'[j] = order'[k] => j = k,
         \A j \in DOMAIN order' : nodePc'[order'[j]] # "start",
         router' # "accept" => Len(order') >= 3,
         \A j \in 1..(turn' - 1) : j \in DOMAIN order' /\ nodePc'[order'[j]] \in {"ended", "killed"},
         \A d \in Node : \A k \in DOMAIN inbox'[d] :
           (\E l \in DOMAIN inbox[d] : inbox'[d][k] = inbox[d][l])
             \/ Served(inbox'[d][k], d),
         \A m \in received' : m \in received \/ Served(m.from, m.to)
  PROVE  RouInv'
<1>1. order \in Seq(Node)
  BY DEF RouInv, RouTypeOK
<1>2. \A n, d : Served(n, d) => Served(n, d)'
  BY <1>1, ServedStays
<1>3. \A d \in Node : \A k \in DOMAIN inbox'[d] : Served(inbox'[d][k], d)
  BY DEF RouInv
<1>4. \A m \in received' : Served(m.from, m.to)
  BY DEF RouInv
<1>5. ASSUME NEW d \in Node, NEW k \in DOMAIN inbox'[d]
      PROVE  Served(inbox[d][k], d)'
  <2>1. PICK n : n = inbox'[d][k]
    OBVIOUS
  <2>2. Served(n, d)'
    BY <1>2, <1>3, <2>1
  <2> QED
    BY <2>1, <2>2 DEF Served
<1>6. ASSUME NEW m \in received'
      PROVE  Served(m.from, m.to)'
  BY <1>2, <1>4
<1> QED
  BY <1>5, <1>6 DEF RouInv, Rou!Gone

LEMMA RouStep ==
  ASSUME RouInv, Rou!Next
  PROVE  RouInv'
<1> USE DEF RouTypeOK, Rou!Gone
<1>1. RouTypeOK /\ Receiver \in [Node -> 0..3]
  BY ProgramsAssumption DEF RouInv
<1>2. ASSUME NEW n \in Node, Rou!Connect(n)
      PROVE  RouInv'
  <2>1. /\ nodePc[n] = "start" /\ nodePc' = [nodePc EXCEPT ![n] = "connected"]
        /\ order' = Append(order, n)
        /\ UNCHANGED <<sent, inbox, received, router, turn>>
    BY <1>2 DEF Rou!Connect
  <2>2. /\ Len(order') = Len(order) + 1 /\ Len(order) \in Nat
        /\ \A j \in 1..Len(order) : order'[j] = order[j] /\ order[j] \in Node
        /\ order'[Len(order) + 1] = n /\ order' \in Seq(Node)
    BY <1>1, <2>1
  <2>3. \A j \in 1..Len(order) : order[j] # n
    BY <1>1, <2>1 DEF RouInv
  <2>4. \A j, k \in DOMAIN order' : order'[j] = order'[k] => j = k
    <3>1. \A j, k \in 1..Len(order) : order[j] = order[k] => j = k
      BY <1>1 DEF RouInv
    <3>2. DOMAIN order' = 1..Len(order) + 1
      BY <2>2
    <3> QED
      BY <2>2, <2>3, <3>1, <3>2
  <2>5. \A j \in DOMAIN order' : nodePc'[order'[j]] # "start"
    <3>1. \A j \in 1..Len(order) : nodePc[order[j]] # "start"
      BY <1>1 DEF RouInv
    <3>2. DOMAIN order' = 1..Len(order) + 1
      BY <2>2
    <3> QED
      BY <1>1, <2>1, <2>2, <3>1, <3>2
  <2>6. \A j \in 1..(turn' - 1) : j \in DOMAIN order' /\ nodePc'[order'[j]] \in {"ended", "killed"}
    <3>1. \A j \in 1..(turn - 1) : j \in 1..Len(order) /\ nodePc[order[j]] \in {"ended", "killed"}
      BY <1>1 DEF RouInv
    <3>2. DOMAIN order' = 1..Len(order) + 1
      BY <2>2
    <3> QED
      BY <1>1, <2>1, <2>2, <3>1, <3>2
  <2>7. RouTypeOK'
    BY <1>1, <2>1, <2>2
  <2>8. /\ \A j \in DOMAIN order : j \in DOMAIN order' /\ order'[j] = order[j]
        /\ router' # "accept" => Len(order') >= 3
    BY <1>1, <2>1, <2>2 DEF RouInv
  <2>9. \A m \in Node : Rou!Gone(m) => Rou!Gone(m)'
    BY <1>1, <2>1
  <2>10. /\ \A d \in Node : \A k \in DOMAIN inbox'[d] : inbox'[d][k] = inbox[d][k]
         /\ inbox' = inbox /\ received' = received
    BY <2>1
  <2> QED
    BY <2>4, <2>5, <2>6, <2>7, <2>8, <2>9, <2>10, RouKeeps
\* A step that accepts nobody.
<1>3. ASSUME order' = order, RouTypeOK',
             \A n \in Node : nodePc[n] # "start" => nodePc'[n] # "start",
             \A n \in Node : Rou!Gone(n) => nodePc'[n] \in {"ended", "killed"},
             router' # "accept" => Len(order) >= 3,
             \A j \in 1..(turn' - 1) : j \in DOMAIN order /\ Rou!Gone(order[j]),
             \A d \in Node : \A k \in DOMAIN inbox'[d] :
               (\E l \in DOMAIN inbox[d] : inbox'[d][k] = inbox[d][l])
                 \/ Served(inbox'[d][k], d),
             \A m \in received' : m \in received \/ Served(m.from, m.to)
      PROVE  RouInv'
  <2>1. \A j \in DOMAIN order : order[j] \in Node
    BY <1>1
  <2>2. \A j \in DOMAIN order' : nodePc'[order'[j]] # "start"
    BY <1>3, <2>1 DEF RouInv
  <2>3. \A j \in 1..(turn' - 1) : /\ j \in DOMAIN order'
                                  /\ nodePc'[order'[j]] \in {"ended", "killed"}
    BY <1>3, <2>1
  <2>4. \A j, k \in DOMAIN order' : order'[j] = order'[k] => j = k
    BY <1>3 DEF RouInv
  <2>5. \A n \in Node : Rou!Gone(n) => Rou!Gone(n)'
    BY <1>3
  <2>6. router' # "accept" => Len(order') >= 3
    BY <1>3
  <2>7. \A j \in DOMAIN order : j \in DOMAIN order' /\ order'[j] = order[j]
    BY <1>3
  <2> QED
    BY <1>3, <2>2, <2>3, <2>4, <2>5, <2>6, <2>7, RouKeeps
<1>4. /\ \A j \in 1..(turn - 1) : j \in DOMAIN order /\ Rou!Gone(order[j])
      /\ router # "accept" => Len(order) >= 3
      /\ \A d \in Node : \A k \in DOMAIN inbox[d] : Served(inbox[d][k], d)
  BY DEF RouInv
<1>5. ASSUME NEW n \in Node, Rou!WriteMessage(n)
      PROVE  RouInv'
  <2>1. RouTypeOK'
    BY <1>1, <1>5 DEF Rou!WriteMessage
  <2>2. /\ UNCHANGED <<order, inbox, received, router, turn>>
        /\ \A m \in Node : nodePc[m] # "start" => nodePc'[m] # "start"
        /\ \A m \in Node : Rou!Gone(m) => nodePc'[m] \in {"ended", "killed"}
    BY <1>1, <1>5 DEF Rou!WriteMessage
  <2>3. /\ \A j \in 1..(turn' - 1) : j \in DOMAIN order /\ Rou!Gone(order[j])
        /\ router' # "accept" => Len(order) >= 3
    BY <1>4, <2>2
  <2> QED
    BY <1>3, <2>1, <2>2, <2>3
<1>6. ASSUME NEW n \in Node, Rou!NodeReads(n)
      PROVE  RouInv'
  <2>1. /\ UNCHANGED <<order, router, turn>>
        /\ \A m \in Node : nodePc[m] # "start" => nodePc'[m] # "start"
        /\ \A m \in Node : Rou!Gone(m) => nodePc'[m] \in {"ended", "killed"}
    BY <1>1, <1>6 DEF Rou!NodeReads
  <2>2. /\ \A j \in 1..(turn' - 1) : j \in DOMAIN order /\ Rou!Gone(order[j])
        /\ router' # "accept" => Len(order) >= 3
    BY <1>4, <2>1
  <2>3. CASE inbox[n] # <<>> /\ inbox' # inbox
    <3>1. /\ received' = received \cup {[from |-> Head(inbox[n]), to |-> n]}
          /\ inbox' = [inbox EXCEPT ![n] = Tail(@)] /\ nodePc' = nodePc /\ sent' = sent
      BY <1>6, <2>3 DEF Rou!NodeReads
    <3>2. /\ inbox[n] \in Seq(Node) /\ Len(inbox[n]) \in Nat /\ Len(inbox[n]) > 0
          /\ Head(inbox[n]) = inbox[n][1] /\ 1 \in DOMAIN inbox[n]
          /\ Head(inbox[n]) \in Node /\ Tail(inbox[n]) \in Seq(Node)
          /\ \A k \in DOMAIN Tail(inbox[n]) :
               k + 1 \in DOMAIN inbox[n] /\ Tail(inbox[n])[k] = inbox[n][k + 1]
      BY <1>1, <2>3
    <3>3. RouTypeOK'
      BY <1>1, <2>1, <3>1, <3>2
    <3>4. Served(inbox[n][1], n)
      BY <1>4, <3>2
    <3>5. \A m \in received' : m \in received \/ Served(m.from, m.to)
      BY <3>1, <3>2, <3>4
    <3>6. \A d \in Node : \A k \in DOMAIN inbox'[d] :
            \E l \in DOMAIN inbox[d] : inbox'[d][k] = inbox[d][l]
      BY <1>1, <3>1, <3>2
    <3> QED
      BY <1>3, <2>1, <2>2, <3>3, <3>5, <3>6
  <2>4. CASE inbox' = inbox /\ received' = received
    <3>1. RouTypeOK'
      BY <1>1, <1>6, <2>4 DEF Rou!NodeReads
    <3> QED
      BY <1>3, <2>1, <2>2, <2>4, <3>1
  <2>5. ASSUME inbox[n] # <<>>, inbox' = [inbox EXCEPT ![n] = Tail(@)]
        PROVE  inbox' # inbox
    <3>1. inbox'[n] = Tail(inbox[n]) /\ Len(Tail(inbox[n])) = Len(inbox[n]) - 1
          /\ Len(inbox[n]) \in Nat
      BY <1>1, <2>5
    <3>2. Len(inbox'[n]) # Len(inbox[n])
      BY <3>1
    <3> QED
      BY <3>2
  <2> QED
    BY <1>6, <2>3, <2>4, <2>5 DEF Rou!NodeReads
<1>7. ASSUME NEW n \in Node, Rou!KillNode(n)
      PROVE  RouInv'
  <2>1. /\ UNCHANGED <<order, inbox, received, router, turn>> /\ RouTypeOK'
        /\ \A m \in Node : nodePc[m] # "start" => nodePc'[m] # "start"
        /\ \A m \in Node : Rou!Gone(m) => nodePc'[m] \in {"ended", "killed"}
    BY <1>1, <1>7 DEF Rou!KillNode
  <2>2. /\ \A j \in 1..(turn' - 1) : j \in DOMAIN order /\ Rou!Gone(order[j])
        /\ router' # "accept" => Len(order) >= 3
    BY <1>4, <2>1
  <2> QED
    BY <1>3, <2>1, <2>2
<1>8. CASE Rou!Accepted
  <2>1. /\ UNCHANGED <<order, inbox, received, nodePc, turn>> /\ RouTypeOK'
        /\ Len(order) = 3
    BY <1>1, <1>8 DEF Rou!Accepted
  <2>2. \A j \in 1..(turn' - 1) : j \in DOMAIN order /\ Rou!Gone(order[j])
    BY <1>4, <2>1
  <2> QED
    BY <1>3, <2>1, <2>2
\* What the router forwards is of the node whose turn it is.
<1>9. CASE Rou!Forward
  <2> DEFINE n == order[turn]
  <2>1. /\ UNCHANGED <<order, nodePc, turn, received>> /\ router = "read"
        /\ n \in sent /\ sent' = sent \ {n}
        /\ router' \in {"read", "killed"}
        /\ inbox' \in {inbox, [d \in Node |-> IF d \in Rou!Destinations(n)
                                             THEN Append(inbox[d], n) ELSE inbox[d]]}
    BY <1>9 DEF Rou!Forward
  <2>2. Len(order) >= 3 /\ turn \in DOMAIN order /\ n \in Node
    BY <1>1, <1>4, <2>1
  <2>3. \A d \in Rou!Destinations(n) : Served(n, d)
    <3>1. \A k \in 1..(turn - 1) : Rou!Gone(order[k])
      BY <1>4
    <3> QED
      BY <1>1, <2>2, <3>1 DEF Served, Rou!Destinations
  <2> HIDE DEF n
  <2>4. RouTypeOK'
    <3>1. \A d \in Node : Append(inbox[d], n) \in Seq(Node)
      BY <1>1, <2>2
    <3>2. inbox' \in [Node -> Seq(Node)]
      BY <1>1, <2>1, <3>1
    <3> QED
      BY <1>1, <2>1, <2>2, <3>2
  <2>5. ASSUME NEW d \in Node, NEW k \in DOMAIN inbox'[d]
        PROVE  \/ \E l \in DOMAIN inbox[d] : inbox'[d][k] = inbox[d][l]
               \/ Served(inbox'[d][k], d)
    <3>1. CASE inbox'[d] = inbox[d]
      BY <2>5, <3>1
    <3>2. CASE inbox'[d] = Append(inbox[d], n) /\ d \in Rou!Destinations(n)
      <4>1. inbox[d] \in Seq(Node) /\ Len(inbox[d]) \in Nat
        BY <1>1
      <4>2. k \in 1..Len(inbox[d]) + 1
        BY <2>2, <2>5, <3>2, <4>1
      <4>3. CASE k = Len(inbox[d]) + 1
        <5>1. inbox'[d][k] = n
          BY <2>2, <3>2, <4>1, <4>3
        <5> QED
          BY <2>3, <3>2, <5>1
      <4>4. CASE k # Len(inbox[d]) + 1
        <5>1. k \in DOMAIN inbox[d] /\ inbox'[d][k] = inbox[d][k]
          BY <2>2, <3>2, <4>1, <4>2, <4>4
        <5> QED
          BY <5>1
      <4> QED
        BY <4>3, <4>4
    <3> QED
      BY <2>1, <3>1, <3>2
  <2>6. /\ \A j \in 1..(turn' - 1) : j \in DOMAIN order /\ Rou!Gone(order[j])
        /\ router' # "accept" => Len(order) >= 3
    BY <1>4, <2>1, <2>2
  <2> QED
    BY <1>3, <2>1, <2>4, <2>5, <2>6
<1>10. CASE Rou!NextNode
  <2>1. /\ UNCHANGED <<order, nodePc, sent, inbox, received>> /\ router = "read"
        /\ Rou!Gone(order[turn]) /\ turn' \in {turn, (turn % 3) + 1}
    BY <1>10 DEF Rou!NextNode
  <2>2. Len(order) >= 3 /\ turn \in DOMAIN order
    BY <1>1, <1>4, <2>1
  <2>3. \A j \in 1..(turn' - 1) : j \in 1..turn
    <3>1. turn = 1 \/ turn = 2 \/ turn = 3
      BY <1>1
    <3>2. PICK r : r = turn % 3
      OBVIOUS
    <3>3. r <= turn /\ r \in 0..2
      BY <3>1, <3>2
    <3>4. turn' = turn \/ turn' = r + 1
      BY <2>1, <3>2
    <3>5. turn \in Nat /\ turn' - 1 \in Int /\ turn' - 1 <= turn
      BY <3>1, <3>3, <3>4
    <3> QED
      BY <3>5
  <2>4. \A j \in 1..(turn' - 1) : j \in DOMAIN order /\ Rou!Gone(order[j])
    <3>1. \A j \in 1..turn : j = turn \/ j \in 1..(turn - 1)
      BY <1>1
    <3> QED
      BY <1>4, <2>1, <2>2, <2>3, <3>1
  <2>5. RouTypeOK'
    BY <1>1, <2>1
  <2> QED
    BY <1>3, <2>1, <2>2, <2>4, <2>5
<1> QED
  BY <1>2, <1>5, <1>6, <1>7, <1>8, <1>9, <1>10
     DEF Rou!Next, Rou!RouterNext, Rou!NodeNext

LEMMA RouSafe == RouInv => Rou!OnlyTheFirstIsServed
<1> SUFFICES ASSUME RouInv, NEW m \in received
             PROVE  /\ \A j \in 1..(Rou!Place(m.from) - 1) : Rou!Gone(order[j])
                    /\ Receiver[m.from] = 0 => Rou!Place(m.to) < Rou!Place(m.from)
  BY DEF Rou!OnlyTheFirstIsServed
<1>1. PICK j \in DOMAIN order :
        /\ order[j] = m.from
        /\ \A k \in 1..(j - 1) : Rou!Gone(order[k])
        /\ Receiver[m.from] = 0 => \E k \in 1..(j - 1) : order[k] = m.to
  BY DEF RouInv, Served
<1>2. ASSUME NEW k \in DOMAIN order
      PROVE  Rou!Place(order[k]) = k
  BY DEF RouInv, Rou!Place
<1>3. Rou!Place(m.from) = j
  BY <1>1, <1>2
<1>4. order \in Seq(Node) /\ DOMAIN order = 1..Len(order) /\ Len(order) \in Nat
  BY DEF RouInv, RouTypeOK
<1>5. Receiver[m.from] = 0 => Rou!Place(m.to) < j
  BY <1>1, <1>2, <1>4
<1> QED
  BY <1>1, <1>3, <1>5

-----------------------------------------------------------------------------
(* Pipes.                                                                  *)

PipText == STRING \cup {"none", "nothing", "garbage", "upper"}

PipTypeOK ==
  /\ ppPc \in [Pip!Proc -> {"none", "start", "prompt", "compare", "reply", "read",
                           "close", "use", "fclose", "wait", "again", "fgets",
                           "EMFILE", "exiting", "ended"}]
  /\ input \in Seq(STRING)
  /\ buf \in [Pip!Proc -> [text : PipText, rest : BOOLEAN]]
  /\ done \in [Pip!Proc -> Nat]
  /\ rd \subseteq Pip!Proc /\ wr \subseteq Pip!Proc
  /\ status \in {"none", "unset", "child's"}

Before(p) == ppPc[p] \in {"start", "none"}
Using(p)  == ppPc[p] \in {"close", "use"}

\* The upper-caser: the child waits for a line, has one before it that the
\* parent has in its buffer, has answered, or has ended at the line.
Idle     == /\ ppPc["child"] = "read" /\ toChild = <<>> /\ toParent = <<>>
            /\ buf["parent"].rest = buf["child"].rest
Asked    == /\ ppPc["child"] = "read" /\ toParent = <<>>
            /\ toChild = <<buf["parent"].text>>
            /\ buf["parent"].rest = (buf["child"].rest \/ buf["parent"].text = "long")
Answered == /\ ppPc["child"] = "read" /\ toChild = <<>> /\ toParent = <<"upper">>
            /\ buf["parent"].rest = buf["child"].rest /\ ~Pip!IsKill(buf["parent"])
Agreed   == /\ ppPc["child"] = "ended" /\ toChild = <<>>
            /\ Pip!IsKill(buf["parent"])

UpperInv ==
  LET pl == ppPc["parent"] IN
  /\ pl \in {"start", "prompt", "compare", "reply", "ended"}
  /\ pl = "start" => /\ ppPc["child"] = "none" /\ toChild = <<>> /\ toParent = <<>>
                     /\ buf["parent"] = buf["child"] /\ buf["parent"].text = "none"
  /\ pl = "prompt"  => Idle /\ buf["parent"].text # "kill"
  /\ pl = "compare" => \/ Idle /\ buf["parent"].text # "kill"
                       \/ Asked \/ Answered \/ Agreed
  /\ pl = "reply"   => ~Pip!IsKill(buf["parent"]) /\ (Idle \/ Asked \/ Answered)
  /\ pl = "ended"   => Pip!IsKill(buf["parent"]) /\ (Asked \/ Agreed)

\* popen and pipe_ls: what was written has been read or is in the pipe, the
\* writer has its end until it has written all, and who is done has had all.
PopenInv ==
  /\ \A p \in Pip!Proc : ppPc[p] \in {"start", "none", "close", "use", "fclose", "wait",
                                     "exiting", "ended"}
  /\ Before("parent") <=> Before("child")
  /\ Before("parent") => wr = {} /\ toChild = <<>> /\ \A p \in Pip!Proc : done[p] = 0
  /\ toChild \in Seq(Nat)
  /\ done[Pip!Reader] + Len(toChild) = done[Pip!Writer] /\ done[Pip!Writer] <= Lines
  /\ Using(Pip!Writer) => Pip!Writer \in wr
  /\ \A p \in Pip!Proc : Before(p) \/ Using(p) \/ done[p] = Lines

\* myrpc: a command in the pipe was typed and not yet executed.
RpcInv ==
  /\ ~eof => /\ done["child"] <= done["parent"]
             /\ toChild # <<>> => done["child"] < done["parent"]
  /\ ppPc["parent"] \in {"start", "again", "fgets", "wait", "EMFILE"}

PipInv ==
  /\ PipTypeOK
  /\ Pip!Upper => UpperInv
  /\ Pip!Popen => PopenInv
  /\ Pip!Rpc => RpcInv
  /\ ~Pip!Upper /\ ~Pip!Popen /\ ~Pip!Rpc => Before("parent")
  /\ status # "none" => Pip!Popen

LEMMA PipInit == Pip!Init => PipInv
<1> SUFFICES ASSUME Pip!Init
             PROVE  PipInv
  OBVIOUS
<1>1. input \in Seq(STRING)
  <2>1. input \in Inputs \cup {<<>>} /\ <<>> \in Seq(STRING)
    BY DEF Pip!Init
  <2> QED
    BY <2>1, ProgramsAssumption
<1>2. PICK text \in IF program = "rpc" THEN {"nothing", "garbage"} ELSE {"none"},
           rest \in IF program = "upper" THEN BOOLEAN ELSE {FALSE} :
        buf = [p \in Pip!Proc |-> [text |-> text, rest |-> rest]]
  BY DEF Pip!Init
<1>3. text \in PipText /\ rest \in BOOLEAN
  BY Zenon DEF PipText
<1>4. PipTypeOK
  BY <1>1, <1>2, <1>3 DEF Pip!Init, PipTypeOK, Pip!Proc
<1>5. Pip!Upper => UpperInv
  BY <1>2 DEF Pip!Init, Pip!Upper, UpperInv, Pip!Proc
<1>6. Pip!Popen => PopenInv
  <2>1. /\ toChild = <<>> /\ rd = {} /\ wr = {} /\ status = "none"
        /\ done = [p \in Pip!Proc |-> 0] /\ \A p \in Pip!Proc : Before(p) /\ ~Using(p)
        /\ \A p \in Pip!Proc : ppPc[p] \in {"start", "none"}
    BY DEF Pip!Init, Before, Using, Pip!Proc
  <2>2. Pip!Reader \in Pip!Proc /\ Pip!Writer \in Pip!Proc
    BY DEF Pip!Reader, Pip!Writer, Pip!Proc
  <2>3. done[Pip!Reader] = 0 /\ done[Pip!Writer] = 0 /\ Len(toChild) = 0
        /\ toChild \in Seq(Nat)
    BY <2>1, <2>2
  <2> QED
    BY <2>1, <2>2, <2>3, ProgramsAssumption DEF PopenInv, Pip!Proc
<1>7. Pip!Rpc => RpcInv
  BY DEF Pip!Init, Pip!Rpc, RpcInv, Pip!Proc
<1> QED
  BY <1>4, <1>5, <1>6, <1>7 DEF PipInv, Pip!Init, Before

LEMMA IntoIs ==
  ASSUME NEW b \in [text : PipText, rest : BOOLEAN], NEW l \in PipText
  PROVE  /\ Pip!Into(b, l) \in [text : PipText, rest : BOOLEAN]
         /\ Pip!Into(b, l).text = l
         /\ Pip!Into(b, l).rest = (b.rest \/ l = "long")
BY DEF Pip!Into

\* The steps of the upper-caser.
LEMMA UpperStep ==
  ASSUME PipTypeOK, Pip!Upper, UpperInv,
         \/ Pip!UpperFork \/ Pip!UpperSends \/ Pip!UpperCompares \/ Pip!UpperGets
         \/ Pip!UpperChild
  PROVE  PipTypeOK' /\ UpperInv' /\ UNCHANGED <<program, status>>
<1> USE DEF PipTypeOK, Pip!Proc, Pip!URest, Pip!Goto, Pip!Did, Pip!ends, Pip!pipe
<1> DEFINE P == buf["parent"]
           C == buf["child"]
<1>1. /\ P \in [text : PipText, rest : BOOLEAN] /\ C \in [text : PipText, rest : BOOLEAN]
      /\ "upper" \in PipText
  BY DEF PipText
<1>2. CASE Pip!UpperFork
  <2>1. UNCHANGED <<program, input, eof, toChild, toParent, buf, done, rd, wr, status>>
    BY <1>2 DEF Pip!UpperFork
  <2>2. ppPc["parent"] = "start" /\ ppPc' = [parent |-> "prompt", child |-> "read"]
    BY <1>2 DEF Pip!UpperFork
  <2>3. Idle' /\ buf'["parent"].text # "kill"
    BY <2>1, <2>2 DEF UpperInv, Idle
  <2> QED
    BY <2>1, <2>2, <2>3 DEF UpperInv
<1>3. CASE Pip!UpperSends
  <2>1. /\ UNCHANGED <<program, toParent, done, rd, wr, status>>
        /\ ppPc["parent"] = "prompt"
    BY <1>3 DEF Pip!UpperSends
  <2>2. Idle /\ P.text # "kill"
    BY <2>1 DEF UpperInv
  <2>3. ppPc' = [ppPc EXCEPT !["parent"] = "compare"]
    BY <1>3, <2>2 DEF Pip!UpperSends, Idle
  <2>4. CASE input' = input /\ buf' = buf /\ toChild' = toChild
    BY <2>1, <2>2, <2>3, <2>4 DEF UpperInv, Idle
  <2>5. CASE /\ input # <<>>
             /\ buf' = [buf EXCEPT !["parent"] = Pip!Into(@, Head(input))]
             /\ toChild' = Append(toChild, Head(input))
             /\ input' = Tail(input)
    <3>1. Head(input) \in PipText /\ input' \in Seq(STRING)
      BY <2>5 DEF PipText
    <3>2. PICK l : l = Head(input)
      OBVIOUS
    <3>3. /\ buf'["parent"] = Pip!Into(P, l) /\ buf'["child"] = C
          /\ buf' \in [Pip!Proc -> [text : PipText, rest : BOOLEAN]]
      BY <1>1, <2>5, <3>1, <3>2, IntoIs
    <3>4. /\ buf'["parent"].text = l
          /\ buf'["parent"].rest = (P.rest \/ l = "long")
      BY <1>1, <3>1, <3>2, <3>3, IntoIs
    <3>5. toChild' = <<l>>
      BY <2>2, <2>5, <3>2 DEF Idle
    <3>6. Asked'
      BY <2>1, <2>2, <2>3, <3>3, <3>4, <3>5 DEF Idle, Asked
    <3> QED
      BY <2>1, <2>3, <3>1, <3>3, <3>6, <2>5 DEF UpperInv
  <2> QED
    BY <1>3, <2>4, <2>5 DEF Pip!UpperSends
<1>4. CASE Pip!UpperCompares
  <2>1. /\ UNCHANGED <<program, input, toChild, toParent, buf, done, rd, wr, status>>
        /\ ppPc["parent"] = "compare"
        /\ ppPc' = [ppPc EXCEPT !["parent"] =
                      IF Pip!IsKill(buf["parent"]) THEN "ended" ELSE "reply"]
    BY <1>4 DEF Pip!UpperCompares
  <2>2. PipTypeOK'
    BY <2>1
  <2> QED
    BY <2>1, <2>2 DEF UpperInv, Idle, Asked, Answered, Agreed, Pip!IsKill
<1>5. CASE Pip!UpperGets
  <2>1. /\ UNCHANGED <<program, input, toChild, rd, wr, status>>
        /\ ppPc["parent"] = "reply" /\ toParent # <<>>
        /\ buf' = [buf EXCEPT !["parent"] = Pip!Into(@, Head(toParent))]
        /\ toParent' = Tail(toParent)
        /\ ppPc' = [ppPc EXCEPT !["parent"] = "prompt"]
        /\ done' = [done EXCEPT !["parent"] = @ + 1]
    BY <1>5 DEF Pip!UpperGets
  <2>2. Answered
    BY <2>1 DEF UpperInv, Idle, Asked
  <2>3. Head(toParent) = "upper" /\ toParent' = <<>>
    BY <2>1, <2>2 DEF Answered
  <2>4. /\ buf'["parent"] = Pip!Into(P, "upper") /\ buf'["child"] = C
        /\ buf' \in [Pip!Proc -> [text : PipText, rest : BOOLEAN]]
    BY <1>1, <2>1, <2>3, IntoIs
  <2>5. buf'["parent"].text = "upper" /\ buf'["parent"].rest = P.rest
    BY <1>1, <2>4, IntoIs
  <2>6. Idle'
    BY <2>1, <2>2, <2>3, <2>4, <2>5 DEF Answered, Idle
  <2> QED
    BY <2>1, <2>4, <2>5, <2>6 DEF UpperInv
<1>6. CASE Pip!UpperChild
  <2> DEFINE b == Pip!Into(C, Head(toChild))
  <2>1. /\ UNCHANGED <<program, input, rd, wr, status>>
        /\ ppPc["child"] = "read" /\ toChild # <<>> /\ toChild' = Tail(toChild)
        /\ done' = [done EXCEPT !["child"] = @ + 1]
        /\ \/ /\ Pip!IsKill(b) /\ ppPc' = [ppPc EXCEPT !["child"] = "ended"]
              /\ buf' = [buf EXCEPT !["child"] = b] /\ toParent' = toParent
           \/ /\ ~Pip!IsKill(b) /\ buf' = [buf EXCEPT !["child"] = Pip!Into(b, "upper")]
              /\ toParent' = Append(toParent, "upper") /\ ppPc' = ppPc
    BY <1>6 DEF Pip!UpperChild
  <2>2. Asked
    BY <2>1 DEF UpperInv, Idle, Answered, Agreed
  <2>3. Head(toChild) = P.text /\ toChild' = <<>> /\ toParent = <<>>
    BY <2>1, <2>2 DEF Asked
  <2>4. /\ b \in [text : PipText, rest : BOOLEAN] /\ b.text = P.text /\ b.rest = P.rest
    BY <1>1, <2>2, <2>3, IntoIs DEF Asked
  <2>5. Pip!IsKill(b) <=> Pip!IsKill(P)
    BY <2>4 DEF Pip!IsKill
  <2> HIDE DEF b
  <2>6. CASE Pip!IsKill(b)
    <3>1. /\ ppPc' = [ppPc EXCEPT !["child"] = "ended"]
          /\ buf' = [buf EXCEPT !["child"] = b] /\ toParent' = toParent
      BY <2>1, <2>6
    <3>2. Agreed' /\ buf'["parent"] = P /\ PipTypeOK'
      BY <2>1, <2>3, <2>4, <2>5, <2>6, <3>1 DEF Agreed
    <3> QED
      BY <2>1, <2>2, <2>5, <2>6, <3>1, <3>2 DEF UpperInv, Idle, Asked
  <2>7. CASE ~Pip!IsKill(b)
    <3>1. /\ buf' = [buf EXCEPT !["child"] = Pip!Into(b, "upper")]
          /\ toParent' = <<"upper">> /\ ppPc' = ppPc
      BY <2>1, <2>3, <2>7
    <3>2. /\ Pip!Into(b, "upper") \in [text : PipText, rest : BOOLEAN]
          /\ Pip!Into(b, "upper").rest = P.rest
      BY <1>1, <2>4, IntoIs
    <3>3. Answered' /\ buf'["parent"] = P /\ PipTypeOK'
      BY <2>1, <2>3, <2>5, <2>7, <3>1, <3>2 DEF Answered
    <3> QED
      BY <2>1, <2>2, <2>5, <2>7, <3>1, <3>3 DEF UpperInv, Idle, Asked
  <2> QED
    BY <2>6, <2>7
<1> QED
  BY <1>2, <1>3, <1>4, <1>5, <1>6

\* The steps of popen and pipe_ls.
LEMMA PopenStep ==
  ASSUME PipTypeOK, Pip!Popen, PopenInv,
         \/ Pip!PopenFork \/ Pip!ParentCloses \/ Pip!ChildCloses \/ Pip!Writes
         \/ Pip!Reads \/ Pip!ChildHasEnded \/ Pip!Fclose \/ Pip!Pclose \/ Pip!LsWaits
  PROVE  PipTypeOK' /\ PopenInv' /\ program' = program
<1> DEFINE R == Pip!Reader
           W == Pip!Writer
<1> USE DEF PipTypeOK, Pip!PRest, Pip!Goto, Pip!Did, Pip!ends, Before, Using
<1>1. /\ R \in Pip!Proc /\ W \in Pip!Proc /\ R # W /\ \A p \in Pip!Proc : p = R \/ p = W
      /\ Pip!Proc = {"parent", "child"} /\ Lines \in Nat
  BY ProgramsAssumption DEF Pip!Reader, Pip!Writer, Pip!Proc
<1>2. program' = program /\ R' = R /\ W' = W /\ Pip!Popen' /\ input' = input /\ buf' = buf
  BY DEF Pip!PopenFork, Pip!ParentCloses, Pip!ChildCloses, Pip!Writes, Pip!CloseUnused,
         Pip!Reads, Pip!ChildHasEnded, Pip!Fclose, Pip!Pclose, Pip!LsWaits, Pip!Reader, Pip!Writer, Pip!Popen
<1> HIDE DEF R, W
<1>3. CASE Pip!PopenFork
  <2>1. /\ ppPc["parent"] = "start" /\ ppPc' = [p \in Pip!Proc |-> "close"]
        /\ rd' = Pip!Proc /\ wr' = Pip!Proc /\ UNCHANGED <<toChild, done, status>>
    BY <1>3 DEF Pip!PopenFork
  <2>2. /\ toChild = <<>> /\ done[R] = 0 /\ done[W] = 0
    BY <1>1, <2>1 DEF PopenInv
  <2>3. PipTypeOK'
    BY <1>2, <2>1
  <2>4. \A p \in Pip!Proc : ppPc'[p] = "close"
    BY <2>1
  <2>5. /\ done'[R] + Len(toChild') = done'[W] /\ done'[W] <= Lines
        /\ toChild' \in Seq(Nat)
    BY <1>1, <2>1, <2>2
  <2>6. W \in wr'
    BY <1>1, <2>1
  <2> QED
    BY <1>1, <1>2, <2>3, <2>4, <2>5, <2>6 DEF PopenInv, R, W
\* The other steps are of a process that was forked.
<1>4. ASSUME ~Before("parent"), ppPc' \in [Pip!Proc -> {"use", "fclose", "wait", "ended",
                                                      "close", "exiting"}],
             done' \in [Pip!Proc -> Nat], status' \in {"none", "unset", "child's"},
             rd' \subseteq Pip!Proc, wr' \subseteq Pip!Proc, toChild' \in Seq(Nat),
             done'[R] + Len(toChild') = done'[W], done'[W] <= Lines,
             ppPc'[W] \in {"close", "use"} => W \in wr',
             \A p \in Pip!Proc : ppPc'[p] \in {"close", "use"} \/ done'[p] = Lines
      PROVE  PipTypeOK' /\ PopenInv' /\ program' = program
  <2>1. PipTypeOK'
    BY <1>1, <1>2, <1>4
  <2>2. \A p \in Pip!Proc : /\ ~Before(p)'
                            /\ ppPc'[p] \in {"start", "none", "close", "use", "fclose",
                                             "wait", "exiting", "ended"}
    BY <1>1, <1>4
  <2> QED
    BY <1>1, <1>2, <1>4, <2>1, <2>2 DEF PopenInv, R, W
<1>5. /\ toChild \in Seq(Nat) /\ done[R] + Len(toChild) = done[W] /\ done[W] <= Lines
      /\ Using(W) => W \in wr
      /\ \A p \in Pip!Proc : Before(p) \/ Using(p) \/ done[p] = Lines
      /\ Before("parent") <=> Before("child")
      /\ done \in [Pip!Proc -> Nat] /\ Len(toChild) \in Nat
      /\ \A p \in Pip!Proc : ppPc[p] \in {"start", "none", "close", "use", "fclose", "wait",
                                         "exiting", "ended"}
  BY DEF PopenInv, R, W
<1>6. ASSUME NEW p \in Pip!Proc, Pip!CloseUnused(p)
      PROVE  PipTypeOK' /\ PopenInv' /\ program' = program
  <2>1. /\ ppPc[p] = "close" /\ ppPc' = [ppPc EXCEPT ![p] = "use"]
        /\ UNCHANGED <<toChild, done, status>>
        /\ rd' \subseteq Pip!Proc /\ wr' \subseteq Pip!Proc
    BY <1>6 DEF Pip!CloseUnused
  <2>2. W \in wr => W \in wr'
    BY <1>1, <1>6 DEF Pip!CloseUnused, R
  <2>3. ~Before("parent") /\ ~Before("child")
    BY <1>1, <1>5, <2>1
  <2>4. ppPc' \in [Pip!Proc -> {"use", "fclose", "wait", "ended", "close", "exiting"}]
    BY <1>1, <1>5, <2>1, <2>3
  <2> QED
    BY <1>1, <1>4, <1>5, <2>1, <2>2, <2>3, <2>4
<1>7. CASE Pip!Writes
  <2>1. ppPc[W] = "use" /\ status' = status
    BY <1>7 DEF Pip!Writes, W
  <2>2. ~Before("parent") /\ ~Before("child")
    BY <1>1, <1>5, <2>1
  <2>3. CASE /\ done[W] < Lines /\ toChild' = Append(toChild, done[W] + 1)
             /\ done' = [done EXCEPT ![W] = @ + 1]
             /\ ppPc' = ppPc /\ rd' = rd /\ wr' = wr
    <3>1. toChild' \in Seq(Nat) /\ Len(toChild') = Len(toChild) + 1
      BY <1>1, <1>5, <2>3
    <3>2. done' \in [Pip!Proc -> Nat] /\ done'[R] = done[R] /\ done'[W] = done[W] + 1
      BY <1>1, <1>5, <2>3
    <3>3. \A p \in Pip!Proc : ppPc'[p] \in {"close", "use"} \/ done'[p] = Lines
      BY <1>1, <1>5, <2>1, <2>2, <2>3, <3>2
    <3>4. ppPc' \in [Pip!Proc -> {"use", "fclose", "wait", "ended", "close", "exiting"}]
      BY <1>1, <1>5, <2>2, <2>3
    <3> QED
      <4>1. done[R] \in Nat /\ done[W] \in Nat /\ done[W] + 1 <= Lines
        BY <1>1, <1>5, <2>3, ProgramsAssumption
      <4>2. done'[R] + Len(toChild') = done'[W] /\ done'[W] <= Lines
        <5>1. Len(toChild) \in Nat /\ done[R] + Len(toChild) = done[W]
          BY <1>5
        <5>2. PICK x, y, z \in Nat : x = done[R] /\ y = Len(toChild) /\ z = done[W]
          BY <4>1, <5>1
        <5>3. x + y = z
          BY <5>1, <5>2
        <5>4. x + (y + 1) = z + 1
          BY <5>3
        <5> QED
          BY <3>1, <3>2, <4>1, <5>2, <5>4
      <4>3. W \in wr'
        BY <1>5, <2>1, <2>3 DEF Using
      <4> QED
        BY <1>1, <1>4, <2>1, <2>2, <2>3, <3>1, <3>2, <3>3, <3>4, <4>2, <4>3
  <2>4. CASE done[W] = Lines /\ UNCHANGED <<toChild, done>>
    <3>1. PICK l \in {"exiting", "fclose"} : ppPc' = [ppPc EXCEPT ![W] = l]
      <4>1. done[W] = Lines /\ ~(done[W] < Lines)
        BY <1>1, <2>4
      <4>2. CASE W = "child"
        BY <1>7, <4>1, <4>2 DEF Pip!Writes, Pip!ChildEnds, W
      <4>3. CASE W = "parent"
        BY <1>7, <4>1, <4>3 DEF Pip!Writes, Pip!ChildEnds, W
      <4> QED
        BY <1>1, <4>2, <4>3
    <3>2. rd' \subseteq Pip!Proc /\ wr' \subseteq Pip!Proc
      BY <1>1, <1>7, <2>4 DEF Pip!Writes, Pip!ChildEnds
    <3>3. ppPc' \in [Pip!Proc -> {"use", "fclose", "wait", "ended", "close", "exiting"}]
      BY <1>1, <1>5, <2>2, <3>1
    <3> QED
      BY <1>1, <1>4, <1>5, <2>1, <2>2, <2>4, <3>1, <3>2, <3>3
  <2> QED
    BY <1>7, <2>3, <2>4 DEF Pip!Writes, W
<1>8. CASE Pip!Reads
  <2>1. ppPc[R] = "use" /\ status' = status
    BY <1>8 DEF Pip!Reads, R
  <2>2. ~Before("parent") /\ ~Before("child")
    BY <1>1, <1>5, <2>1
  <2>3. CASE /\ toChild # <<>> /\ toChild' = Tail(toChild)
             /\ done' = [done EXCEPT ![R] = @ + 1]
             /\ ppPc' = ppPc /\ rd' = rd /\ wr' = wr
    <3>1. toChild' \in Seq(Nat) /\ Len(toChild') = Len(toChild) - 1
      BY <1>1, <1>5, <2>3
    <3>2. done' \in [Pip!Proc -> Nat] /\ done'[R] = done[R] + 1 /\ done'[W] = done[W]
      BY <1>1, <1>5, <2>3
    <3>3. \A p \in Pip!Proc : ppPc'[p] \in {"close", "use"} \/ done'[p] = Lines
      BY <1>1, <1>5, <2>1, <2>2, <2>3, <3>2
    <3>4. ppPc' \in [Pip!Proc -> {"use", "fclose", "wait", "ended", "close", "exiting"}]
      BY <1>1, <1>5, <2>2, <2>3
    <3>5. /\ done[R] \in Nat /\ done[W] \in Nat
          /\ done'[R] + Len(toChild') = done'[W] /\ done'[W] <= Lines
      <4>1. done[R] \in Nat /\ done[W] \in Nat /\ Len(toChild) \in Nat
        BY <1>1, <1>5
      <4>2. \A x, y, z \in Nat : x + y = z => (x + 1) + (y - 1) = z
        OBVIOUS
      <4> QED
        BY <1>5, <3>1, <3>2, <4>1, <4>2
    <3> QED
      BY <1>1, <1>4, <1>5, <2>1, <2>2, <2>3, <3>1, <3>2, <3>3, <3>4, <3>5
  <2>4. CASE toChild = <<>> /\ wr = {} /\ UNCHANGED <<toChild, done>>
    <3>1. PICK l \in {"exiting", "fclose"} : ppPc' = [ppPc EXCEPT ![R] = l]
      BY <1>1, <1>8, <2>4 DEF Pip!Reads, Pip!ChildEnds, R
    <3>2. rd' \subseteq Pip!Proc /\ wr' \subseteq Pip!Proc
      BY <1>1, <1>8, <2>4 DEF Pip!Reads, Pip!ChildEnds
    <3>3. ppPc' \in [Pip!Proc -> {"use", "fclose", "wait", "ended", "close", "exiting"}]
      BY <1>1, <1>5, <2>2, <3>1
    <3>4. done[W] = Lines /\ done[R] = Lines /\ ~Using(W)
      <4>1. ~Using(W)
        BY <1>5, <2>4
      <4>2. done[W] = Lines
        BY <1>1, <1>5, <2>2, <4>1
      <4>3. Len(toChild) = 0
        BY <2>4
      <4> QED
        BY <1>1, <1>5, <4>1, <4>2, <4>3
    <3> QED
      BY <1>1, <1>4, <1>5, <2>1, <2>2, <2>4, <3>1, <3>2, <3>3, <3>4
  <2> QED
    BY <1>8, <2>3, <2>4 DEF Pip!Reads, R
\* The parent at its end.
<1>9. CASE Pip!Fclose \/ Pip!Pclose \/ Pip!LsWaits
  <2>1. /\ ppPc["parent"] \in {"fclose", "wait"}
        /\ UNCHANGED <<toChild, done>>
        /\ rd' \subseteq Pip!Proc /\ wr' \subseteq Pip!Proc
        /\ "child" \in wr => "child" \in wr'
        /\ status' \in {"none", "unset", "child's"}
    BY <1>5, <1>9 DEF Pip!Fclose, Pip!Pclose, Pip!LsWaits
  <2>2. PICK l \in {"wait", "ended"} : ppPc' = [ppPc EXCEPT !["parent"] = l]
    BY <1>9 DEF Pip!Fclose, Pip!Pclose, Pip!LsWaits
  <2>3. ~Before("parent") /\ ~Before("child")
    BY <1>1, <1>5, <2>1
  <2>4. ppPc' \in [Pip!Proc -> {"use", "fclose", "wait", "ended", "close", "exiting"}]
    BY <1>1, <1>5, <2>2, <2>3
  <2> QED
    BY <1>1, <1>4, <1>5, <2>1, <2>2, <2>3, <2>4
<1>10. CASE Pip!ChildHasEnded
  <2>1. /\ ppPc["child"] = "exiting" /\ ppPc' = [ppPc EXCEPT !["child"] = "ended"]
        /\ UNCHANGED <<toChild, done, status, rd, wr>>
    BY <1>10 DEF Pip!ChildHasEnded
  <2>2. ~Before("parent") /\ ~Before("child")
    BY <1>1, <1>5, <2>1
  <2>3. ppPc' \in [Pip!Proc -> {"use", "fclose", "wait", "ended", "close", "exiting"}]
    BY <1>1, <1>5, <2>1, <2>2
  <2> QED
    BY <1>1, <1>4, <1>5, <2>1, <2>2, <2>3
<1> QED
  BY <1>1, <1>3, <1>6, <1>7, <1>8, <1>9, <1>10 DEF Pip!ParentCloses, Pip!ChildCloses

\* The steps of myrpc.
LEMMA RpcStep ==
  ASSUME PipTypeOK, Pip!Rpc, RpcInv,
         Pip!RpcFork \/ Pip!RpcSends \/ Pip!RpcChild \/ Pip!RpcWaits
  PROVE  PipTypeOK' /\ RpcInv' /\ UNCHANGED <<program, status>>
<1> USE DEF PipTypeOK, Pip!Proc, Pip!RRest, Pip!Goto, Pip!Did, Pip!ends
<1>1. UNCHANGED <<program, status, rd, wr>>
  BY DEF Pip!RpcFork, Pip!RpcSends, Pip!RpcChild, Pip!RpcWaits
<1>2. CASE Pip!RpcFork
  <2>1. UNCHANGED <<input, eof, toChild, buf, done>>
    BY <1>2 DEF Pip!RpcFork
  <2>2. \/ ppPc' = [ppPc EXCEPT !["parent"] = "EMFILE"]
        \/ ppPc' = [parent |-> "fgets", child |-> "read"]
    BY <1>2 DEF Pip!RpcFork
  <2> QED
    BY <1>1, <2>1, <2>2 DEF RpcInv
<1>3. CASE Pip!RpcSends
  <2>1. ppPc' = [ppPc EXCEPT !["parent"] = "wait"]
    BY <1>3 DEF Pip!RpcSends
  <2>2. CASE input = <<>> /\ eof' = TRUE /\ UNCHANGED <<input, buf, done>>
    BY <1>1, <2>1, <2>2 DEF RpcInv
  <2>3. CASE /\ input # <<>>
             /\ buf' = [buf EXCEPT !["parent"].text = Head(input)]
             /\ input' = Tail(input) /\ done' = [done EXCEPT !["parent"] = @ + 1]
             /\ eof' = eof
    <3>1. Head(input) \in PipText /\ input' \in Seq(STRING)
      BY <2>3 DEF PipText
    <3>2. PICK l : l = Head(input)
      OBVIOUS
    <3>3. buf' = [buf EXCEPT !["parent"].text = l] /\ l \in PipText
      BY <2>3, <3>1, <3>2
    <3>4. buf' \in [Pip!Proc -> [text : PipText, rest : BOOLEAN]]
      BY <3>3
    <3>5. done' \in [Pip!Proc -> Nat] /\ done'["parent"] = done["parent"] + 1
          /\ done'["child"] = done["child"]
      BY <2>3
    <3> QED
      BY <1>1, <2>1, <2>3, <3>1, <3>4, <3>5 DEF RpcInv
  <2> QED
    BY <1>3, <2>2, <2>3 DEF Pip!RpcSends
<1>4. CASE Pip!RpcChild
  <2>1. /\ UNCHANGED <<input, eof, buf>> /\ toChild # <<>> /\ toChild' = <<>>
        /\ ppPc' = [ppPc EXCEPT !["child"] = "ended"]
        /\ done' \in {done, [done EXCEPT !["child"] = @ + 1]}
    BY <1>4 DEF Pip!RpcChild
  <2>2. /\ done' \in [Pip!Proc -> Nat] /\ done'["parent"] = done["parent"]
        /\ done'["child"] <= done["child"] + 1
    BY <2>1
  <2> QED
    BY <1>1, <2>1, <2>2 DEF RpcInv
<1>5. CASE Pip!RpcWaits
  BY <1>1, <1>5 DEF Pip!RpcWaits, RpcInv
<1> QED
  BY <1>2, <1>3, <1>4, <1>5

\* Each step is of the family that the program belongs to.
LEMMA PipStep ==
  ASSUME PipInv, Pip!Next
  PROVE  PipInv'
<1>1. /\ PipTypeOK
      /\ Pip!Upper => UpperInv
      /\ Pip!Popen => PopenInv
      /\ Pip!Rpc => RpcInv
      /\ ~Pip!Upper /\ ~Pip!Popen /\ ~Pip!Rpc => Before("parent")
      /\ status # "none" => Pip!Popen
  BY DEF PipInv
<1>2. CASE \/ Pip!UpperFork \/ Pip!UpperSends \/ Pip!UpperCompares \/ Pip!UpperGets
           \/ Pip!UpperChild
  <2>1. Pip!Upper
    <3>1. CASE Pip!UpperFork \/ Pip!UpperSends \/ Pip!UpperChild
      BY <3>1 DEF Pip!UpperFork, Pip!UpperSends, Pip!UpperChild
    <3>2. CASE Pip!UpperCompares \/ Pip!UpperGets
      <4>1. ppPc["parent"] \in {"compare", "reply"}
        BY <3>2 DEF Pip!UpperCompares, Pip!UpperGets
      <4> QED
        BY <1>1, <4>1 DEF PopenInv, RpcInv, Before, Pip!Proc
    <3> QED
      BY <1>2, <3>1, <3>2
  <2>2. PipTypeOK' /\ UpperInv' /\ UNCHANGED <<program, status>>
    BY <1>1, <1>2, <2>1, UpperStep
  <2>3. Pip!Upper' /\ ~Pip!Popen' /\ ~Pip!Rpc' /\ status' = "none"
    BY <1>1, <2>1, <2>2 DEF Pip!Upper, Pip!Popen, Pip!Rpc
  <2> QED
    BY <2>2, <2>3 DEF PipInv
<1>3. CASE \/ Pip!PopenFork \/ Pip!ParentCloses \/ Pip!ChildCloses \/ Pip!Writes
           \/ Pip!Reads \/ Pip!ChildHasEnded \/ Pip!Fclose \/ Pip!Pclose \/ Pip!LsWaits
  <2>1. Pip!Popen
    <3>1. CASE \/ Pip!PopenFork \/ Pip!ParentCloses \/ Pip!ChildCloses \/ Pip!Writes
               \/ Pip!Reads \/ Pip!ChildHasEnded
      BY <3>1 DEF Pip!PopenFork, Pip!ParentCloses, Pip!ChildCloses, Pip!CloseUnused,
                  Pip!Writes, Pip!Reads, Pip!ChildHasEnded
    <3>2. CASE Pip!Fclose
      <4>1. ppPc["parent"] = "fclose"
        BY <3>2 DEF Pip!Fclose
      <4> QED
        BY <1>1, <4>1 DEF UpperInv, RpcInv, Before
    <3>3. CASE Pip!Pclose \/ Pip!LsWaits
      BY <3>3 DEF Pip!Pclose, Pip!LsWaits, Pip!Popen
    <3> QED
      BY <1>3, <3>1, <3>2, <3>3
  <2>2. PipTypeOK' /\ PopenInv' /\ program' = program
    BY <1>1, <1>3, <2>1, PopenStep
  <2>3. ~Pip!Upper' /\ Pip!Popen' /\ ~Pip!Rpc'
    BY <2>1, <2>2 DEF Pip!Upper, Pip!Popen, Pip!Rpc
  <2> QED
    BY <2>2, <2>3 DEF PipInv
<1>4. CASE Pip!RpcFork \/ Pip!RpcSends \/ Pip!RpcChild \/ Pip!RpcWaits
  <2>1. Pip!Rpc
    BY <1>4 DEF Pip!RpcFork, Pip!RpcSends, Pip!RpcChild, Pip!RpcWaits
  <2>2. PipTypeOK' /\ RpcInv' /\ UNCHANGED <<program, status>>
    BY <1>1, <1>4, <2>1, RpcStep
  <2>3. ~Pip!Upper' /\ ~Pip!Popen' /\ Pip!Rpc' /\ status' = "none"
    BY <1>1, <2>1, <2>2 DEF Pip!Upper, Pip!Popen, Pip!Rpc
  <2> QED
    BY <2>2, <2>3 DEF PipInv
<1> QED
  BY <1>2, <1>3, <1>4 DEF Pip!Next, Pip!ParentNext

LEMMA PipSafe == PipInv => Pip!PipesAgree
<1> SUFFICES ASSUME PipInv
             PROVE  Pip!PipesAgree
  OBVIOUS
<1>1. CASE Pip!Upper
  BY <1>1 DEF PipInv, UpperInv, Pip!PipesAgree, Idle, Asked, Answered, Agreed, Pip!IsKill,
              Pip!Upper, Pip!Popen, Pip!Rpc
<1>2. CASE Pip!Popen
  <2>1. PopenInv
    BY <1>2 DEF PipInv
  <2>2. ppPc["parent"] # "SIGPIPE"
    BY <2>1 DEF PopenInv, Pip!Proc
  <2>3. \A p \in Pip!Proc : ppPc[p] \in {"fclose", "wait", "exiting", "ended"} => done[p] = Lines
    BY <2>1 DEF PopenInv, Before, Using
  <2> QED
    BY <1>2, <2>1, <2>2, <2>3
       DEF PopenInv, Pip!PipesAgree, Pip!Proc, Pip!Upper, Pip!Popen, Pip!Rpc
<1>3. CASE Pip!Rpc
  BY <1>3 DEF PipInv, RpcInv, Pip!PipesAgree, Pip!Upper, Pip!Popen, Pip!Rpc
<1>4. CASE ~Pip!Upper /\ ~Pip!Popen /\ ~Pip!Rpc
  BY <1>4 DEF PipInv, Pip!PipesAgree, Before
<1> QED
  BY <1>1, <1>2, <1>3, <1>4

-----------------------------------------------------------------------------
(* Signals.                                                                *)

SigTypeOK ==
  /\ sgPc \in [Sig!Proc -> {"none", "start", "send", "wait", "ended", "failed", "unblock",
                           "pause", "killed", "sigset", "setitimer", "loop", "mail",
                           "clear"}]
  /\ mask \in [Sig!Proc -> SUBSET Sig!Sig] /\ pending \in [Sig!Proc -> SUBSET Sig!Sig]
  /\ disp \in [Sig!Proc -> [Sig!Sig -> {"DFL", "IGN", "handler"}]]
  /\ scnt \in [Sig!Proc -> Nat] /\ cntErr \in Nat /\ told \in Nat
  /\ asked \in {"DFL", "IGN", "handler"}
  /\ owed \in BOOLEAN /\ unsaid \in BOOLEAN /\ lost \in BOOLEAN

NoHistory == timer = "off" /\ ~owed /\ ~unsaid /\ ~lost
Unforked  == sgPc["child"] = "none" /\ pending["child"] = {}
             /\ \A p \in Sig!Proc : scnt[p] = 0

\* The ping-pong: of the two, one is to send, or one has sent and the other has
\* not yet taken it.
Ball(p, c, atParent, atChild, ahead) ==
  /\ sgPc["parent"] = p /\ sgPc["child"] = c
  /\ pending["parent"] = atParent /\ pending["child"] = atChild
  /\ scnt["parent"] = scnt["child"] + ahead
OneBall ==
  \/ Ball("wait", "send", {}, {}, 0)
  \/ Ball("wait", "wait", {"USR1"}, {}, 0)
  \/ Ball("send", "wait", {}, {}, 0)
  \/ Ball("wait", "wait", {}, {"USR1"}, 1)
  \/ Ball("ended", "wait", {}, {"USR1"}, 1) /\ scnt["parent"] = NumSigs
  \/ Ball("ended", "ended", {}, {}, 0)

PingInv ==
  /\ NoHistory
  /\ sgPc["parent"] # "ended" => scnt["parent"] < NumSigs
  /\ \/ Unforked /\ sgPc["parent"] = "start" /\ pending["parent"] = {}
     \/ /\ \A p \in Sig!Proc : mask[p] = {"USR1"} /\ disp[p]["USR1"] = "handler"
        /\ OneBall

\* The calls: a held signal is not ignored, and who has the default disposition,
\* or is killed by it, has asked for it last.
CallsInv ==
  /\ timer = "off" /\ ~unsaid /\ ~lost /\ Unforked /\ pending["parent"] \subseteq {"INT"}
  /\ sgPc["parent"] \in {"start", "unblock", "pause", "ended", "killed"}
  /\ owed => "INT" \in pending["parent"] /\ disp["parent"]["INT"] # "IGN"
  /\ disp["parent"]["INT"] = "DFL" \/ sgPc["parent"] = "killed" => asked = "DFL"

\* The detector: it has the handler but before it asked for it and while it mails,
\* and an error not yet mailed about is one that came with the handler.  A mail is
\* of one error or more, and the count only grows until it is cleared.
Handling == sgPc["parent"] \in {"setitimer", "loop", "clear"}
DetectorInv ==
  /\ ~owed /\ Unforked /\ pending["parent"] \subseteq {"INT", "ALRM"}
  /\ sgPc["parent"] \in {"start", "sigset", "setitimer", "loop", "mail", "clear", "killed"}
  /\ disp["parent"]["INT"] = "handler" <=> Handling
  /\ unsaid => Handling /\ (cntErr > 0 \/ "INT" \in pending["parent"])
  /\ sgPc["parent"] \in {"mail", "clear"} => 0 < told /\ told <= cntErr
  /\ lost => told > 0

SigInv ==
  /\ SigTypeOK
  /\ Sig!PingPong => PingInv
  /\ program = "calls" => CallsInv
  /\ program = "detector" => DetectorInv
  /\ ~Sig!PingPong /\ program \notin {"calls", "detector"} =>
       NoHistory /\ Unforked /\ sgPc["parent"] = "start" /\ pending["parent"] = {}

LEMMA SigInit == Sig!Init => SigInv
<1> SUFFICES ASSUME Sig!Init
             PROVE  SigInv
  OBVIOUS
<1>1. /\ sgPc = [parent |-> "start", child |-> "none"]
      /\ pending = [p \in Sig!Proc |-> {}] /\ scnt = [p \in Sig!Proc |-> 0]
      /\ timer = "off" /\ owed = FALSE /\ unsaid = FALSE /\ cntErr = 0
      /\ asked = "DFL" /\ told = 0 /\ lost = FALSE
      /\ disp["parent"]["INT"] = "DFL"
  BY DEF Sig!Init, Sig!Proc, Sig!Sig
<1>2. SigTypeOK
  <2>1. /\ mask = [p \in Sig!Proc |-> {}]
        /\ disp = [p \in Sig!Proc |-> [s \in Sig!Sig |-> "DFL"]]
    BY DEF Sig!Init
  <2>2. sgPc \in [Sig!Proc -> {"start", "none"}]
    BY <1>1 DEF Sig!Proc
  <2> QED
    BY <1>1, <2>1, <2>2 DEF SigTypeOK
<1>3. NoHistory /\ Unforked /\ sgPc["parent"] = "start" /\ pending["parent"] = {}
      /\ scnt["parent"] < NumSigs
  BY <1>1, ProgramsAssumption DEF NoHistory, Unforked, Sig!Proc
<1> QED
  BY <1>1, <1>2, <1>3 DEF SigInv, PingInv, CallsInv, DetectorInv, NoHistory, Handling

LEMMA KillIs ==
  ASSUME SigTypeOK, NEW p \in Sig!Proc, NEW s \in Sig!Sig, Sig!Kill(p, s)
  PROVE  /\ pending' \in [Sig!Proc -> SUBSET Sig!Sig]
         /\ \A q \in Sig!Proc : q # p => pending'[q] = pending[q]
         /\ pending'[p] \in {pending[p], pending[p] \cup {s}}
         /\ disp[p][s] # "IGN" => pending'[p] = pending[p] \cup {s}
BY DEF SigTypeOK, Sig!Kill

\* The steps of the ping-pong.
LEMMA PingStep ==
  ASSUME SigTypeOK, Sig!PingPong, PingInv, Sig!Next
  PROVE  SigTypeOK' /\ PingInv' /\ program' = program
<1> USE DEF Sig!Proc, Sig!Sig, Sig!caller, Sig!detector, Sig!mails, Sig!Goto
<1>1. ASSUME NEW p \in Sig!Proc
      PROVE  sgPc[p] \in {"none", "start", "send", "wait", "ended"}
  BY DEF PingInv, OneBall, Ball, Unforked
<1>2. program \notin {"calls", "detector"}
  BY DEF Sig!PingPong
<1>3. ASSUME NEW p \in Sig!Proc, NEW s \in Sig!Sig, Sig!Deliver(p, s)
      PROVE  FALSE
  <2>1. Sig!Blocked(p) = mask[p]
    BY <1>1 DEF Sig!Blocked
  <2>2. s \in pending[p] /\ s \notin mask[p]
    BY <1>3, <2>1 DEF Sig!Deliver
  <2> QED
    BY <2>2 DEF PingInv, OneBall, Ball, Unforked
<1>4. ~Sig!Interrupt /\ ~Sig!Tick
  BY <1>2 DEF Sig!Interrupt, Sig!Tick, PingInv, NoHistory
<1>5. \/ Sig!Fork \/ Sig!ChildKill \/ Sig!ParentKill
      \/ \E p \in Sig!Proc : Sig!PingPong /\ Sig!Woken(p)
  <2>1. PICK p \in Sig!Proc : Sig!Step(p)
    BY <1>3, <1>4 DEF Sig!Next
  <2>2. /\ ~Sig!SigsetHold /\ ~Sig!Sigset /\ ~Sig!Sighold /\ ~Sig!Sigrelse
        /\ ~Sig!Sigignore /\ ~Sig!Sigpause
    BY <1>2 DEF Sig!SigsetHold, Sig!Sigset, Sig!Sighold, Sig!Sigrelse, Sig!Sigignore,
                Sig!Sigpause, Sig!Call
  <2>3. ~Sig!SigsetUnblocks /\ ~Sig!Mailed /\ ~Sig!AlarmClears
    BY <1>1 DEF Sig!SigsetUnblocks, Sig!Mailed, Sig!AlarmClears
  <2>4. ~Sig!Returns /\ ~Sig!Detect /\ ~Sig!AlarmChecks
    BY <1>2 DEF Sig!Returns, Sig!Detect, Sig!AlarmChecks, Sig!IsDetector
  <2> QED
    BY <2>1, <2>2, <2>3, <2>4 DEF Sig!Step, Sig!Sigsuspend, Sig!Sigwaitinfo
<1>6. CASE Sig!Fork
  <2>1. /\ UNCHANGED <<program, pending, scnt, timer, owed, unsaid, told, lost,
              asked, cntErr>>
        /\ sgPc' = [parent |-> "wait", child |-> "send"]
        /\ mask' = [p \in Sig!Proc |-> {"USR1"}]
        /\ disp' = [p \in Sig!Proc |-> [disp[p] EXCEPT !["USR1"] = "handler"]]
        /\ sgPc["parent"] = "start"
    BY <1>6 DEF Sig!Fork
  <2>2. SigTypeOK'
    BY <2>1 DEF SigTypeOK
  <2>3. Unforked /\ pending["parent"] = {} /\ scnt["parent"] < NumSigs /\ NoHistory
    BY <2>1 DEF PingInv, OneBall, Ball
  <2>4. Ball("wait", "send", {}, {}, 0)'
    BY <2>1, <2>3 DEF Ball, Unforked
  <2>5. \A p \in Sig!Proc : mask'[p] = {"USR1"} /\ disp'[p]["USR1"] = "handler"
    BY <2>1 DEF SigTypeOK
  <2>6. OneBall'
    BY <2>4 DEF OneBall
  <2> QED
    BY <2>1, <2>2, <2>3, <2>5, <2>6 DEF PingInv, NoHistory
\* The others are of processes that were forked.
<1>7. ASSUME sgPc["child"] # "none"
      PROVE  /\ \A p \in Sig!Proc : mask[p] = {"USR1"} /\ disp[p]["USR1"] = "handler"
             /\ OneBall /\ NoHistory
             /\ sgPc["parent"] # "ended" => scnt["parent"] < NumSigs
  BY <1>7 DEF PingInv, Unforked
<1>8. CASE Sig!ChildKill
  <2>1. sgPc["child"] = "send" /\ UNCHANGED <<program, mask, disp, scnt, timer, owed, unsaid,
                                              told, lost, asked, cntErr>>
    BY <1>8 DEF Sig!ChildKill
  <2>2. Ball("wait", "send", {}, {}, 0)
    BY <1>7, <2>1 DEF OneBall, Ball
  <2>3. sgPc' = [sgPc EXCEPT !["child"] = "wait"] /\ Sig!Kill("parent", "USR1")
    BY <1>8, <2>2 DEF Sig!ChildKill, Ball
  <2>4. /\ pending' \in [Sig!Proc -> SUBSET Sig!Sig]
        /\ pending'["parent"] = pending["parent"] \cup {"USR1"}
        /\ pending'["child"] = pending["child"]
    BY <1>7, <2>1, <2>3, KillIs
  <2>5. SigTypeOK'
    BY <2>1, <2>3, <2>4 DEF SigTypeOK
  <2>6. Ball("wait", "wait", {"USR1"}, {}, 0)'
    BY <2>1, <2>2, <2>3, <2>4 DEF Ball, SigTypeOK
  <2>7. OneBall' /\ sgPc'["parent"] # "ended" /\ sgPc["parent"] # "ended"
    BY <2>2, <2>6 DEF OneBall, Ball
  <2> QED
    BY <1>7, <2>1, <2>5, <2>7 DEF PingInv, NoHistory
<1>9. CASE Sig!ParentKill
  <2>1. /\ sgPc["parent"] = "send" /\ scnt' = [scnt EXCEPT !["parent"] = @ + 1]
        /\ sgPc' = [sgPc EXCEPT !["parent"] =
                      IF scnt["parent"] + 1 = NumSigs THEN "ended" ELSE "wait"]
        /\ Sig!Kill("child", "USR1")
        /\ UNCHANGED <<program, mask, disp, timer, owed, unsaid, told, lost,
              asked, cntErr>>
    BY <1>9 DEF Sig!ParentKill, Sig!Round
  <2>2. sgPc["child"] # "none"
    BY <2>1 DEF PingInv, OneBall, Ball
  <2>3. Ball("send", "wait", {}, {}, 0)
    BY <1>7, <2>1, <2>2 DEF OneBall, Ball
  <2>4. /\ pending' \in [Sig!Proc -> SUBSET Sig!Sig]
        /\ pending'["child"] = pending["child"] \cup {"USR1"}
        /\ pending'["parent"] = pending["parent"]
    BY <1>7, <2>1, <2>2, KillIs
  <2>5. scnt' \in [Sig!Proc -> Nat] /\ scnt'["child"] = scnt["child"]
        /\ scnt'["parent"] = scnt["parent"] + 1
    BY <2>1 DEF SigTypeOK
  <2>6. SigTypeOK'
    BY <2>1, <2>4, <2>5 DEF SigTypeOK
  <2>7. scnt["parent"] \in Nat /\ NumSigs \in Nat /\ scnt["parent"] < NumSigs
    BY <1>7, <2>1, <2>2, ProgramsAssumption DEF SigTypeOK
  <2>8. /\ \/ Ball("wait", "wait", {}, {"USR1"}, 1)'
           \/ Ball("ended", "wait", {}, {"USR1"}, 1)' /\ scnt'["parent"] = NumSigs
        /\ sgPc'["parent"] # "ended" => scnt'["parent"] < NumSigs
    BY <2>1, <2>3, <2>4, <2>5, <2>7 DEF Ball, SigTypeOK
  <2>9. OneBall'
    BY <2>8 DEF OneBall
  <2> QED
    BY <1>7, <2>1, <2>2, <2>6, <2>8, <2>9 DEF PingInv, NoHistory
<1>10. ASSUME NEW p \in Sig!Proc, Sig!Woken(p)
       PROVE  SigTypeOK' /\ PingInv' /\ program' = program
  <2>1. /\ sgPc[p] = "wait" /\ "USR1" \in pending[p]
        /\ pending' = [pending EXCEPT ![p] = @ \ {"USR1"}]
        /\ UNCHANGED <<program, mask, disp, timer, owed, unsaid, told, lost,
              asked, cntErr>>
    BY <1>10 DEF Sig!Woken, Sig!Taken
  <2>2. sgPc["child"] # "none"
    BY <2>1 DEF PingInv, Unforked, OneBall, Ball
  <2>3. CASE p = "parent"
    <3>1. sgPc' = [sgPc EXCEPT !["parent"] = "send"] /\ scnt' = scnt
      BY <1>10, <2>3 DEF Sig!Woken
    <3>2. Ball("wait", "wait", {"USR1"}, {}, 0)
      BY <1>7, <2>1, <2>2, <2>3 DEF OneBall, Ball
    <3>3. SigTypeOK'
      BY <2>1, <3>1 DEF SigTypeOK
    <3>4. Ball("send", "wait", {}, {}, 0)'
      BY <2>1, <2>3, <3>1, <3>2 DEF Ball, SigTypeOK
    <3>5. OneBall' /\ sgPc["parent"] # "ended"
      BY <2>1, <2>3, <3>4 DEF OneBall
    <3> QED
      BY <1>7, <2>1, <2>2, <3>1, <3>3, <3>5 DEF PingInv, NoHistory
  <2>4. CASE p = "child"
    <3>1. /\ scnt' = [scnt EXCEPT !["child"] = @ + 1]
          /\ sgPc' = [sgPc EXCEPT !["child"] =
                        IF scnt["child"] + 1 = NumSigs THEN "ended" ELSE "send"]
      BY <1>10, <2>4 DEF Sig!Woken, Sig!Round
    <3>2. \/ Ball("wait", "wait", {}, {"USR1"}, 1)
          \/ Ball("ended", "wait", {}, {"USR1"}, 1) /\ scnt["parent"] = NumSigs
      BY <1>7, <2>1, <2>2, <2>4 DEF OneBall, Ball
    <3>3. scnt' \in [Sig!Proc -> Nat] /\ scnt'["parent"] = scnt["parent"]
          /\ scnt'["child"] = scnt["child"] + 1
      BY <3>1 DEF SigTypeOK
    <3>4. SigTypeOK'
      BY <2>1, <2>4, <3>1, <3>3 DEF SigTypeOK
    <3>5. /\ pending'["parent"] = {} /\ pending'["child"] = {}
          /\ sgPc'["parent"] = sgPc["parent"]
      BY <2>1, <2>4, <3>1, <3>2 DEF Ball, SigTypeOK
    <3>6. sgPc'["child"] = IF scnt["child"] + 1 = NumSigs THEN "ended" ELSE "send"
      BY <3>1 DEF SigTypeOK
    <3>7. scnt["parent"] \in Nat /\ scnt["child"] \in Nat /\ NumSigs \in Nat
      BY ProgramsAssumption DEF SigTypeOK
    <3>8. Ball("wait", "send", {}, {}, 0)' \/ Ball("ended", "ended", {}, {}, 0)'
      <4>1. CASE Ball("wait", "wait", {}, {"USR1"}, 1)
        <5>1. scnt["child"] + 1 # NumSigs
          BY <1>7, <2>2, <3>7, <4>1 DEF Ball
        <5> QED
          BY <3>3, <3>5, <3>6, <3>7, <4>1, <5>1 DEF Ball
      <4>2. CASE Ball("ended", "wait", {}, {"USR1"}, 1) /\ scnt["parent"] = NumSigs
        <5>1. scnt["child"] + 1 = NumSigs
          BY <3>7, <4>2 DEF Ball
        <5> QED
          BY <3>3, <3>5, <3>6, <3>7, <4>2, <5>1 DEF Ball
      <4> QED
        BY <3>2, <4>1, <4>2
    <3>9. OneBall'
      BY <3>8 DEF OneBall
    <3> QED
      BY <1>7, <2>1, <2>2, <3>3, <3>4, <3>5, <3>9 DEF PingInv, NoHistory
  <2> QED
    BY <2>3, <2>4
<1> QED
  BY <1>5, <1>6, <1>8, <1>9, <1>10

LEMMA DeliverIs ==
  ASSUME SigTypeOK, NEW p \in Sig!Proc, NEW s \in Sig!Sig, Sig!Deliver(p, s)
  PROVE  /\ s \in pending[p] /\ pending' = [pending EXCEPT ![p] = @ \ {s}]
         /\ UNCHANGED <<program, mask, disp, scnt, asked, timer, unsaid, told, lost>>
         /\ ~(Sig!IsDetector /\ s = "ALRM")
         /\ \/ /\ disp[p][s] = "handler" /\ ~owed'
               /\ cntErr' = IF Sig!IsDetector THEN cntErr + 1 ELSE cntErr
               /\ \/ sgPc' = sgPc
                  \/ sgPc[p] = "pause" /\ sgPc' = [sgPc EXCEPT !["parent"] = "start"]
            \/ /\ disp[p][s] = "DFL" /\ ~owed' /\ cntErr' = cntErr
               /\ sgPc' = [sgPc EXCEPT ![p] = "killed"]
            \/ disp[p][s] = "IGN" /\ UNCHANGED <<sgPc, cntErr>> /\ (owed' => owed)
         /\ owed' \in BOOLEAN
<1>1. disp[p][s] \in {"DFL", "IGN", "handler"}
  BY DEF SigTypeOK
<1>2. /\ s \in pending[p] /\ pending' = [pending EXCEPT ![p] = @ \ {s}]
      /\ UNCHANGED <<program, mask, disp, scnt, asked, timer, unsaid, told, lost>>
      /\ ~(Sig!IsDetector /\ s = "ALRM")
  <2>1. s \in pending[p] /\ ~(Sig!IsDetector /\ s = "ALRM")
    BY DEF Sig!Deliver
  <2>2. pending' = [pending EXCEPT ![p] = @ \ {s}]
    BY DEF Sig!Deliver, Sig!Taken
  <2>3. UNCHANGED <<program, mask, disp, scnt, asked, timer, unsaid, told, lost>>
    BY DEF Sig!Deliver, Sig!mails
  <2> QED
    BY <2>1, <2>2, <2>3
<1>3. CASE disp[p][s] = "handler"
  BY <1>2, <1>3 DEF Sig!Deliver, Sig!IntHandler, Sig!Return, Sig!Goto
<1>4. CASE disp[p][s] = "DFL"
  BY <1>2, <1>4 DEF Sig!Deliver, Sig!Goto
<1>5. CASE disp[p][s] = "IGN"
  BY <1>2, <1>5 DEF Sig!Deliver, SigTypeOK
<1> QED
  BY <1>1, <1>3, <1>4, <1>5

\* Without a ping-pong, the child does not run.
LEMMA Alone ==
  ASSUME SigTypeOK, Unforked, ~Sig!PingPong, NEW p \in Sig!Proc
  PROVE  /\ ~Sig!ChildKill /\ ~Sig!Fork /\ ~Sig!ParentKill
         /\ ~Sig!Sigsuspend(p) /\ ~Sig!Sigwaitinfo(p)
         /\ p # "parent" => \A s \in Sig!Sig : ~Sig!Deliver(p, s)
BY DEF Unforked, Sig!ChildKill, Sig!Fork, Sig!ParentKill, Sig!Sigsuspend, Sig!Sigwaitinfo,
       Sig!PingPong, Sig!Deliver, Sig!Proc

\* sigaction discards a held signal only if it is to be ignored.
LEMMA InstallIs ==
  ASSUME SigTypeOK, CallsInv, NEW d \in {"IGN", "handler"}, Sig!Install(d)
  PROVE  /\ disp' \in [Sig!Proc -> [Sig!Sig -> {"DFL", "IGN", "handler"}]]
         /\ disp'["parent"]["INT"] = d
         /\ pending' \in [Sig!Proc -> SUBSET Sig!Sig] /\ pending'["child"] = {}
         /\ pending'["parent"] \subseteq {"INT"}
         /\ asked' = d /\ owed' \in BOOLEAN
         /\ owed' => "INT" \in pending'["parent"] /\ d # "IGN"
<1>1. disp' = [disp EXCEPT !["parent"] = [@ EXCEPT !["INT"] = d]]
  BY DEF Sig!Install, SigTypeOK, Sig!Proc
<1>2. \/ /\ d = "IGN" /\ owed' = FALSE
         /\ pending' = [pending EXCEPT !["parent"] = @ \ {"INT"}]
      \/ d # "IGN" /\ UNCHANGED <<pending, owed>>
  BY DEF Sig!Install, Sig!Taken
<1>3. asked' = d
  BY DEF Sig!Install
<1>4. owed' \in BOOLEAN
  BY <1>2 DEF SigTypeOK
<1>5. /\ pending' \in [Sig!Proc -> SUBSET Sig!Sig] /\ pending'["child"] = {}
      /\ pending'["parent"] \subseteq {"INT"}
  BY <1>2 DEF SigTypeOK, CallsInv, Unforked, Sig!Proc, Sig!Sig
<1>6. /\ disp' \in [Sig!Proc -> [Sig!Sig -> {"DFL", "IGN", "handler"}]]
      /\ disp'["parent"]["INT"] = d
  BY <1>1 DEF SigTypeOK, Sig!Proc, Sig!Sig
<1> QED
  BY <1>2, <1>3, <1>4, <1>5, <1>6 DEF CallsInv

\* The steps of a caller, and of the world on it.
LEMMA CallsStep ==
  ASSUME SigTypeOK, program = "calls", CallsInv, Sig!Next
  PROVE  SigTypeOK' /\ CallsInv' /\ program' = program
<1> USE DEF Sig!Proc, Sig!Sig, Sig!caller, Sig!detector, Sig!mails, Sig!Goto, Sig!Rest, Sig!Return,
            Sig!SetMask, Sig!Held, Sig!Released, Sig!Call
<1>1. ~Sig!PingPong /\ ~Sig!IsDetector
  BY DEF Sig!PingPong, Sig!IsDetector
<1>2. /\ Unforked /\ timer = "off" /\ ~unsaid /\ ~lost /\ pending["parent"] \subseteq {"INT"}
      /\ sgPc["parent"] \in {"start", "unblock", "pause", "ended", "killed"}
      /\ owed => "INT" \in pending["parent"] /\ disp["parent"]["INT"] # "IGN"
      /\ disp["parent"]["INT"] = "DFL" \/ sgPc["parent"] = "killed" => asked = "DFL"
  BY DEF CallsInv
<1>3. CASE Sig!SigsetHold \/ Sig!SigsetUnblocks \/ Sig!Sighold \/ Sig!Sigrelse
           \/ Sig!Sigpause \/ Sig!Returns
  <2>1. /\ UNCHANGED <<program, scnt, timer, cntErr, unsaid, told, lost, pending, disp, owed>>
        /\ asked' \in {asked, "DFL"} /\ sgPc["parent"] # "killed"
    BY <1>3 DEF Sig!SigsetHold, Sig!SigsetUnblocks, Sig!Sighold, Sig!Sigrelse, Sig!Sigpause,
                Sig!Returns
  <2>2. PICK l \in {"start", "pause", "ended"} : sgPc' = [sgPc EXCEPT !["parent"] = l]
    BY <1>3 DEF Sig!SigsetHold, Sig!SigsetUnblocks, Sig!Sighold, Sig!Sigrelse, Sig!Sigpause,
                Sig!Returns
  <2>3. PICK m \in SUBSET Sig!Sig : mask' \in {mask, [mask EXCEPT !["parent"] = m]}
    <3>1. /\ mask["parent"] \cup {"INT"} \in SUBSET Sig!Sig
          /\ mask["parent"] \ {"INT"} \in SUBSET Sig!Sig
      BY DEF SigTypeOK
    <3> QED
      BY <1>3, <3>1 DEF Sig!SigsetHold, Sig!SigsetUnblocks, Sig!Sighold, Sig!Sigrelse,
                        Sig!Sigpause, Sig!Returns
  <2>4. SigTypeOK'
    BY <2>1, <2>2, <2>3 DEF SigTypeOK
  <2> QED
    BY <1>2, <2>1, <2>2, <2>4 DEF CallsInv, Unforked, SigTypeOK
<1>4. CASE Sig!Sigset \/ Sig!Sigignore
  <2>1. /\ UNCHANGED <<program, scnt, timer, cntErr, unsaid, told, lost, mask>>
        /\ \E d \in {"IGN", "handler"} : Sig!Install(d)
    BY <1>4 DEF Sig!Sigset, Sig!Sigignore
  <2>2. PICK l \in {"unblock", "start"} : sgPc' = [sgPc EXCEPT !["parent"] = l]
    BY <1>4 DEF Sig!Sigset, Sig!Sigignore
  <2>3. PICK d \in {"IGN", "handler"} : Sig!Install(d)
    BY <2>1
  <2>4. /\ disp' \in [Sig!Proc -> [Sig!Sig -> {"DFL", "IGN", "handler"}]]
        /\ disp'["parent"]["INT"] = d
        /\ pending' \in [Sig!Proc -> SUBSET Sig!Sig] /\ pending'["child"] = {}
        /\ pending'["parent"] \subseteq {"INT"}
        /\ asked' = d /\ owed' \in BOOLEAN
        /\ owed' => "INT" \in pending'["parent"] /\ d # "IGN"
    BY <2>3, InstallIs
  <2>5. SigTypeOK'
    BY <2>1, <2>2, <2>4 DEF SigTypeOK
  <2> QED
    BY <1>2, <2>1, <2>2, <2>4, <2>5 DEF CallsInv, Unforked, SigTypeOK
<1>5. ASSUME NEW s \in Sig!Sig, Sig!Deliver("parent", s)
      PROVE  SigTypeOK' /\ CallsInv' /\ program' = program
  <2>1. s = "INT"
    BY <1>2, <1>5, DeliverIs
  <2>2. /\ pending' = [pending EXCEPT !["parent"] = @ \ {"INT"}]
        /\ UNCHANGED <<program, mask, disp, scnt, asked, timer, unsaid, told, lost>>
        /\ owed' \in BOOLEAN /\ cntErr' = cntErr
    BY <1>1, <1>5, <2>1, DeliverIs
  <2>3. \/ sgPc' = sgPc
        \/ sgPc["parent"] = "pause" /\ sgPc' = [sgPc EXCEPT !["parent"] = "start"]
        \/ disp["parent"]["INT"] = "DFL" /\ sgPc' = [sgPc EXCEPT !["parent"] = "killed"]
    BY <1>2, <1>5, <2>1, DeliverIs
  <2>4. SigTypeOK'
    BY <2>2, <2>3 DEF SigTypeOK
  <2>5. ~owed'
    <3>1. owed' => owed /\ disp["parent"]["INT"] = "IGN"
      BY <1>5, <2>1, DeliverIs
    <3> QED
      BY ONLY <1>2, <3>1
  <2> QED
    BY <1>2, <2>2, <2>3, <2>4, <2>5 DEF CallsInv, Unforked, SigTypeOK
<1>6. CASE Sig!Interrupt
  <2>1. /\ UNCHANGED <<program, sgPc, mask, disp, scnt, asked, timer, cntErr, told, lost>>
        /\ Sig!Kill("parent", "INT") /\ ~unsaid'
    BY <1>1, <1>2, <1>6 DEF Sig!Interrupt
  <2>2. unsaid' \in BOOLEAN /\ owed' \in BOOLEAN /\ (owed' => owed \/ disp["parent"]["INT"] # "IGN")
    BY <1>6 DEF Sig!Interrupt, SigTypeOK
  <2>3. /\ pending' \in [Sig!Proc -> SUBSET Sig!Sig] /\ pending'["child"] = pending["child"]
        /\ pending'["parent"] \in {pending["parent"], pending["parent"] \cup {"INT"}}
        /\ disp["parent"]["INT"] # "IGN" => "INT" \in pending'["parent"]
    BY <2>1, KillIs
  <2>4. SigTypeOK'
    BY <2>1, <2>2, <2>3 DEF SigTypeOK
  <2> QED
    BY <1>2, <2>1, <2>2, <2>3, <2>4 DEF CallsInv, Unforked
<1>7. /\ ~Sig!Tick /\ ~Sig!Detect /\ ~Sig!AlarmChecks /\ ~Sig!Mailed /\ ~Sig!AlarmClears
  BY <1>1, <1>2 DEF Sig!Tick, Sig!Detect, Sig!AlarmChecks, Sig!Mailed, Sig!AlarmClears
<1>8. CASE \E p \in Sig!Proc : Sig!Step(p)
  BY <1>1, <1>2, <1>3, <1>4, <1>7, <1>8, Alone DEF Sig!Step
<1>9. CASE \E p \in Sig!Proc, s \in Sig!Sig : Sig!Deliver(p, s)
  BY <1>1, <1>2, <1>5, <1>9, Alone
<1> QED
  BY <1>6, <1>7, <1>8, <1>9 DEF Sig!Next

\* The steps of the detector, its timer, and the world on it.
LEMMA DetectorStep ==
  ASSUME SigTypeOK, program = "detector", DetectorInv, Sig!Next
  PROVE  SigTypeOK' /\ DetectorInv' /\ program' = program
<1> USE DEF Sig!Proc, Sig!Sig, Sig!caller, Sig!detector, Sig!mails, Sig!Goto, Sig!DRest
<1>1. ~Sig!PingPong /\ Sig!IsDetector
  BY DEF Sig!PingPong, Sig!IsDetector
<1>2. /\ Unforked /\ ~owed /\ pending["parent"] \subseteq {"INT", "ALRM"}
      /\ sgPc["parent"] \in {"start", "sigset", "setitimer", "loop", "mail", "clear", "killed"}
      /\ disp["parent"]["INT"] = "handler" <=> Handling
      /\ unsaid => Handling /\ (cntErr > 0 \/ "INT" \in pending["parent"])
      /\ sgPc["parent"] \in {"mail", "clear"} => 0 < told /\ told <= cntErr
      /\ lost => told > 0
      /\ unsaid \in BOOLEAN /\ lost \in BOOLEAN /\ cntErr \in Nat /\ told \in Nat
  BY DEF DetectorInv, SigTypeOK
<1>3. CASE Sig!Detect
  <2>1. /\ UNCHANGED <<program, mask, scnt, asked, owed, pending, cntErr, unsaid, told, lost>>
        /\ sgPc["parent"] \in {"start", "sigset", "setitimer"}
    BY <1>3 DEF Sig!Detect
  <2>2. PICK l \in {"sigset", "setitimer", "loop"} : sgPc' = [sgPc EXCEPT !["parent"] = l]
    BY <1>3 DEF Sig!Detect
  <2>3. disp' \in [Sig!Proc -> [Sig!Sig -> {"DFL", "IGN", "handler"}]]
    BY <1>3 DEF Sig!Detect, SigTypeOK
  <2>4. (disp'["parent"]["INT"] = "handler" <=> Handling') /\ ~(unsaid /\ ~Handling')
    BY <1>2, <1>3, <2>2 DEF Sig!Detect, SigTypeOK, Handling
  <2>5. SigTypeOK'
    BY <2>1, <2>2, <2>3 DEF SigTypeOK
  <2> QED
    BY <1>2, <2>1, <2>2, <2>4, <2>5 DEF DetectorInv, Unforked, SigTypeOK, Handling
<1>4. CASE Sig!AlarmChecks
  <2>1. /\ UNCHANGED <<program, mask, scnt, asked, owed, timer, cntErr, lost>>
        /\ sgPc["parent"] = "loop"
    BY <1>4 DEF Sig!AlarmChecks
  <2>2. CASE cntErr # 0
    <3>1. /\ sgPc' = [sgPc EXCEPT !["parent"] = "mail"] /\ unsaid' = FALSE
          /\ told' = cntErr
          /\ disp' = [disp EXCEPT !["parent"]["INT"] = "IGN"]
          /\ pending' = [pending EXCEPT !["parent"] = {}]
      BY <1>4, <2>2 DEF Sig!AlarmChecks
    <3>2. SigTypeOK'
      BY <2>1, <3>1 DEF SigTypeOK
    <3>3. sgPc'["parent"] = "mail" /\ sgPc'["child"] = sgPc["child"]
      BY <3>1 DEF SigTypeOK, Sig!Proc
    <3>4. disp'["parent"]["INT"] = "IGN"
      BY <3>1 DEF SigTypeOK, Sig!Proc, Sig!Sig
    <3>5. pending'["parent"] = {} /\ pending'["child"] = pending["child"]
      BY <3>1 DEF SigTypeOK, Sig!Proc
    <3>6. 0 < told' /\ told' <= cntErr' /\ (lost' => told' > 0)
      BY <1>2, <2>1, <2>2, <3>1
    <3>7. Unforked'
      BY <1>2, <2>1, <3>3, <3>5 DEF Unforked
    <3> QED
      BY <1>2, <2>1, <3>1, <3>2, <3>3, <3>4, <3>5, <3>6, <3>7 DEF DetectorInv, Handling
  <2>3. CASE cntErr = 0
    <3>1. /\ pending' = [pending EXCEPT !["parent"] = @ \ {"ALRM"}]
          /\ UNCHANGED <<sgPc, unsaid, told, disp>>
      BY <1>4, <2>3 DEF Sig!AlarmChecks, Sig!Taken
    <3>2. SigTypeOK'
      BY <2>1, <3>1 DEF SigTypeOK
    <3> QED
      BY <1>2, <2>1, <2>3, <3>1, <3>2 DEF DetectorInv, Unforked, SigTypeOK, Handling
  <2> QED
    BY <2>2, <2>3
<1>5. CASE Sig!Mailed
  <2>1. /\ UNCHANGED <<program, mask, scnt, asked, owed, pending, cntErr, unsaid, told, lost>>
        /\ sgPc["parent"] = "mail" /\ sgPc' = [sgPc EXCEPT !["parent"] = "clear"]
        /\ disp' = [disp EXCEPT !["parent"]["INT"] = "handler"]
    BY <1>5 DEF Sig!Mailed
  <2>2. SigTypeOK'
    BY <2>1 DEF SigTypeOK
  <2> QED
    BY <1>2, <2>1, <2>2 DEF DetectorInv, Unforked, SigTypeOK, Handling
<1>6. CASE Sig!AlarmClears
  <2>1. /\ UNCHANGED <<program, mask, scnt, asked, owed, pending, disp, told>>
        /\ sgPc["parent"] = "clear" /\ sgPc' = [sgPc EXCEPT !["parent"] = "loop"]
        /\ cntErr' = 0 /\ unsaid' = (unsaid /\ "INT" \in pending["parent"])
        /\ lost' = (lost \/ cntErr > told)
    BY <1>6 DEF Sig!AlarmClears
  <2>2. SigTypeOK'
    BY <2>1 DEF SigTypeOK
  <2> QED
    BY <1>2, <2>1, <2>2 DEF DetectorInv, Unforked, SigTypeOK, Handling
<1>7. CASE Sig!Tick
  <2>1. /\ UNCHANGED <<program, mask, scnt, asked, owed, sgPc, disp, cntErr, unsaid, told,
                    lost>>
        /\ Sig!Kill("parent", "ALRM")
    BY <1>7 DEF Sig!Tick
  <2>2. /\ pending' \in [Sig!Proc -> SUBSET Sig!Sig] /\ pending'["child"] = pending["child"]
        /\ pending'["parent"] \in {pending["parent"], pending["parent"] \cup {"ALRM"}}
    BY <2>1, KillIs
  <2>3. SigTypeOK'
    BY <2>1, <2>2 DEF SigTypeOK
  <2> QED
    BY <1>2, <2>1, <2>2, <2>3 DEF DetectorInv, Unforked, Handling
<1>8. ASSUME NEW s \in Sig!Sig, Sig!Deliver("parent", s)
      PROVE  SigTypeOK' /\ DetectorInv' /\ program' = program
  <2>1. s = "INT"
    BY <1>1, <1>2, <1>8, DeliverIs
  <2>2. /\ pending' = [pending EXCEPT !["parent"] = @ \ {"INT"}]
        /\ UNCHANGED <<program, mask, disp, scnt, asked, timer, unsaid, told, lost>>
        /\ owed' \in BOOLEAN
    BY <1>8, <2>1, DeliverIs
  <2>3. ~owed'
    BY <1>2, <1>8, DeliverIs
  <2>4. \/ sgPc' = sgPc
        \/ /\ disp["parent"]["INT"] = "DFL"
           /\ sgPc' = [sgPc EXCEPT !["parent"] = "killed"]
    BY <1>2, <1>8, <2>1, DeliverIs
  <2>5. /\ cntErr' \in Nat /\ cntErr <= cntErr'
        /\ disp["parent"]["INT"] = "handler" => cntErr' > 0
    BY <1>1, <1>2, <1>8, <2>1, DeliverIs
  <2>6. SigTypeOK'
    BY <2>2, <2>4, <2>5 DEF SigTypeOK
  <2> QED
    BY <1>2, <2>2, <2>3, <2>4, <2>5, <2>6 DEF DetectorInv, Unforked, SigTypeOK, Handling
<1>9. CASE Sig!Interrupt
  <2>1. /\ UNCHANGED <<program, sgPc, mask, disp, scnt, asked, timer, cntErr, told, lost>>
        /\ Sig!Kill("parent", "INT")
    BY <1>9 DEF Sig!Interrupt
  <2>2. /\ unsaid' \in BOOLEAN /\ (unsaid' => Handling /\ (unsaid \/ disp["parent"]["INT"] = "handler"))
        /\ owed' \in BOOLEAN /\ ~owed'
    BY <1>2, <1>9 DEF Sig!Interrupt
  <2>3. /\ pending' \in [Sig!Proc -> SUBSET Sig!Sig] /\ pending'["child"] = pending["child"]
        /\ pending'["parent"] \in {pending["parent"], pending["parent"] \cup {"INT"}}
        /\ disp["parent"]["INT"] # "IGN" => "INT" \in pending'["parent"]
    BY <2>1, KillIs
  <2>4. SigTypeOK'
    BY <2>1, <2>2, <2>3 DEF SigTypeOK
  <2> QED
    BY <1>2, <2>1, <2>2, <2>3, <2>4 DEF DetectorInv, Unforked, Handling
<1>10. /\ ~Sig!SigsetHold /\ ~Sig!Sigset /\ ~Sig!Sighold /\ ~Sig!Sigrelse
       /\ ~Sig!Sigignore /\ ~Sig!Sigpause /\ ~Sig!SigsetUnblocks /\ ~Sig!Returns
  BY <1>2 DEF Sig!SigsetHold, Sig!Sigset, Sig!Sighold, Sig!Sigrelse, Sig!Sigignore,
              Sig!Sigpause, Sig!SigsetUnblocks, Sig!Returns, Sig!Call
<1>11. CASE \E p \in Sig!Proc : Sig!Step(p)
  BY <1>1, <1>2, <1>3, <1>4, <1>5, <1>6, <1>10, <1>11, Alone DEF Sig!Step
<1>12. CASE \E p \in Sig!Proc, s \in Sig!Sig : Sig!Deliver(p, s)
  BY <1>1, <1>2, <1>8, <1>12, Alone
<1> QED
  BY <1>7, <1>9, <1>11, <1>12 DEF Sig!Next

\* In the other programs nothing of this happens.
LEMMA SigIdle ==
  ASSUME SigTypeOK, ~Sig!PingPong, program \notin {"calls", "detector"},
         NoHistory, Unforked, sgPc["parent"] = "start", pending["parent"] = {}
  PROVE  ~Sig!Next
<1>1. /\ ~Sig!SigsetHold /\ ~Sig!Sigset /\ ~Sig!Sighold /\ ~Sig!Sigrelse
      /\ ~Sig!Sigignore /\ ~Sig!Sigpause
  BY DEF Sig!SigsetHold, Sig!Sigset, Sig!Sighold, Sig!Sigrelse, Sig!Sigignore,
         Sig!Sigpause, Sig!Call
<1>2. /\ ~Sig!SigsetUnblocks /\ ~Sig!Returns /\ ~Sig!Detect /\ ~Sig!AlarmChecks
      /\ ~Sig!Mailed /\ ~Sig!AlarmClears
  BY DEF Sig!SigsetUnblocks, Sig!Returns, Sig!Detect, Sig!AlarmChecks, Sig!Mailed,
         Sig!AlarmClears, Sig!IsDetector
<1>3. \A p \in Sig!Proc : ~Sig!Step(p)
  BY <1>1, <1>2, Alone DEF Sig!Step
<1>4. \A p \in Sig!Proc, s \in Sig!Sig : ~Sig!Deliver(p, s)
  BY DEF Sig!Deliver, Unforked, Sig!Proc
<1>5. ~Sig!Interrupt /\ ~Sig!Tick
  BY DEF Sig!Interrupt, Sig!Tick, NoHistory
<1> QED
  BY <1>3, <1>4, <1>5 DEF Sig!Next

LEMMA SigStep ==
  ASSUME SigInv, Sig!Next
  PROVE  SigInv'
<1>1. CASE Sig!PingPong
  BY <1>1, PingStep DEF SigInv, Sig!PingPong
<1>2. CASE program = "calls"
  BY <1>2, CallsStep DEF SigInv, Sig!PingPong
<1>3. CASE program = "detector"
  BY <1>3, DetectorStep DEF SigInv, Sig!PingPong
<1>4. CASE ~Sig!PingPong /\ program \notin {"calls", "detector"}
  BY <1>4, SigIdle DEF SigInv
<1> QED
  BY <1>1, <1>2, <1>3, <1>4

LEMMA SigSafe == SigInv => Sig!SignalsAreKept
<1> SUFFICES ASSUME SigInv
             PROVE  Sig!SignalsAreKept
  OBVIOUS
<1> USE DEF Sig!SignalsAreKept, SigInv, Sig!Proc, NoHistory
<1>1. \A p \in Sig!Proc : scnt[p] \in Nat
  BY DEF SigTypeOK
<1>2. CASE Sig!PingPong
  <2>1. PingInv /\ program # "calls"
    BY <1>2 DEF Sig!PingPong
  <2> QED
    BY <1>1, <2>1 DEF PingInv, OneBall, Ball, Unforked
<1>3. CASE program = "calls"
  BY <1>1, <1>3 DEF CallsInv, Unforked
<1>4. CASE program = "detector"
  BY <1>1, <1>4 DEF DetectorInv, Unforked, Handling
<1>5. CASE ~Sig!PingPong /\ program \notin {"calls", "detector"}
  BY <1>1, <1>5 DEF Unforked
<1> QED
  BY <1>2, <1>3, <1>4, <1>5

-----------------------------------------------------------------------------
(* Convert.                                                                *)

\* The lines with a blank line or none before them, those of them at which an
\* entry with a definition begins, and what is left of each line.
Begun == {n \in DOMAIN lines : \A m \in DOMAIN lines : m + 1 = n => lines[m] = Blank}
Entries == {n \in Begun : /\ lines[n] # Blank
                          /\ \E m \in DOMAIN lines : m = n + 1 /\ lines[m] # Blank}
Kept == [n \in DOMAIN lines |-> Cnv!Cut(n)]

\* Where the records are from: each is of two lines that are not blank, in the
\* order of the file, and every entry that was read has one; if no definition has
\* two lines, no record is of the middle of an entry.
Sources ==
  {src \in [DOMAIN records -> DOMAIN lines] :
     /\ \A k \in DOMAIN records :
          /\ src[k] < line /\ lines[src[k]] # Blank /\ records[k].word = lines[src[k]]
          /\ \E m \in DOMAIN lines :
               m = src[k] + 1 /\ lines[m] # Blank /\ records[k].text = Kept[m]
          /\ Cnv!OneLineEach => src[k] \in Begun
     /\ \A j, k \in DOMAIN records : j < k => src[j] < src[k]
     /\ \A n \in Entries : n < line => \E k \in DOMAIN records : src[k] = n}

CnvReading ==
  /\ cvPc = "word" /\ line > 0 => lines[line] = Blank \/ line \notin Begun
  /\ cvPc = "definition" => /\ line > 0 /\ lines[line] # Blank
                            /\ entryWord = Kept[line]
                            /\ Cnv!OneLineEach => line \in Begun
  /\ cvPc \in {"main", "lookup"} => line = Len(lines)

CnvAsking ==
  /\ cvPc = "lookup" => /\ answer = "none" /\ looked \in Nat /\ looked > 0
                        /\ \A k \in DOMAIN records : k < looked => records[k].word # wanted
  /\ answer # "none" => cvPc = "main"
  /\ answer = "not found" => \A k \in DOMAIN records : records[k].word # wanted
  /\ answer = "found" =>
       /\ looked \in DOMAIN records /\ records[looked].word = wanted
       /\ \A k \in DOMAIN records : k < looked => records[k].word # wanted

CnvInv ==
  /\ line \in Nat /\ line <= Len(lines) /\ lines \in Seq(Int)
  /\ records \in Seq([word : Int, text : Int])
  /\ cvPc \in {"word", "definition", "main", "lookup"}
  /\ Sources # {}
  /\ CnvReading
  /\ CnvAsking

LEMMA CnvInit == Cnv!Init => CnvInv
<1> SUFFICES ASSUME Cnv!Init
             PROVE  CnvInv
  OBVIOUS
<1>1. lines \in Seq(Int)
  <2>1. lines \in Texts \cup {<<>>} /\ <<>> \in Seq(Int)
    BY DEF Cnv!Init
  <2> QED
    BY <2>1, ProgramsAssumption
<1>2. /\ cvPc = "word" /\ line = 0 /\ records = <<>> /\ answer = "none"
  BY DEF Cnv!Init
<1>3. records \in Seq([word : Int, text : Int]) /\ DOMAIN records = {}
  BY <1>2
<1>4. [k \in DOMAIN records |-> 1] \in Sources
  <2>1. [k \in DOMAIN records |-> 1] \in [DOMAIN records -> DOMAIN lines]
    BY <1>3
  <2>2. \A n \in Entries : n \in Nat /\ n > 0
    BY <1>1 DEF Entries, Begun
  <2>3. \A n \in Entries : ~(n < line)
    BY <1>2, <2>2
  <2> QED
    BY <1>3, <2>1, <2>3 DEF Sources
<1>5. line \in Nat /\ line <= Len(lines)
  BY <1>1, <1>2
<1>6. CnvReading
  BY <1>2 DEF CnvReading
<1>7. CnvAsking
  BY <1>2 DEF CnvAsking
<1> QED
  BY <1>1, <1>2, <1>3, <1>4, <1>5, <1>6, <1>7 DEF CnvInv

\* The text does not change, nor what is said of it.
LEMMA TextStays ==
  ASSUME Cnv!Next
  PROVE  /\ lines' = lines /\ (Cnv!OneLineEach' <=> Cnv!OneLineEach)
         /\ Begun' = Begun /\ Entries' = Entries /\ Kept' = Kept
<1>1. lines' = lines /\ terminated' = terminated
  BY DEF Cnv!Next, Cnv!AtEnd, Cnv!GetWord, Cnv!GetDefinition, Cnv!Ask, Cnv!Compare,
         Cnv!FOUND, Cnv!NOTFOUND, Cnv!CRest, Cnv!QRest
<1>2. Cnv!OneLineEach' <=> Cnv!OneLineEach
  BY <1>1 DEF Cnv!OneLineEach
<1>3. Begun' = Begun
  BY <1>1 DEF Begun
<1>4. Entries' = Entries
  BY <1>1, <1>3 DEF Entries
<1>5. Kept' = Kept
  BY <1>1 DEF Kept, Cnv!Cut
<1> QED
  BY <1>1, <1>2, <1>3, <1>4, <1>5

\* While no record is added.
LEMMA SourcesStay ==
  ASSUME Cnv!Next, Sources # {}, line \in Nat, line' \in Nat, line <= line',
         \A n \in Entries : n < line' => n < line,
         lines \in Seq(Int), records' = records
  PROVE  Sources' # {}
<1>1. PICK src : src \in Sources
  OBVIOUS
<1>2. \A k \in DOMAIN records : src[k] \in Nat
  BY <1>1 DEF Sources
<1>3. \A n \in Nat : n < line => n < line'
  OBVIOUS
<1>4. \A k \in DOMAIN records : src[k] < line'
  BY <1>1, <1>2, <1>3 DEF Sources
<1>5. src \in Sources'
  BY <1>1, <1>4, TextStays DEF Sources
<1> QED
  BY <1>5

LEMMA CnvStep ==
  ASSUME CnvInv, Cnv!Next
  PROVE  CnvInv'
<1> USE DEF Cnv!query, Cnv!CRest, Cnv!QRest
<1>1. /\ line \in Nat /\ line <= Len(lines) /\ lines \in Seq(Int)
      /\ DOMAIN lines = 1..Len(lines) /\ Len(lines) \in Nat
      /\ cvPc \in {"word", "definition", "main", "lookup"}
      /\ Sources # {} /\ CnvReading /\ CnvAsking
  BY DEF CnvInv
<1>2. /\ records \in Seq([word : Int, text : Int]) /\ Len(records) \in Nat
      /\ DOMAIN records = 1..Len(records)
  BY DEF CnvInv
<1>3. /\ lines' = lines /\ (Cnv!OneLineEach' <=> Cnv!OneLineEach)
      /\ Begun' = Begun /\ Entries' = Entries /\ Kept' = Kept
  BY TextStays
<1>4. CASE Cnv!AtEnd
  <2>1. UNCHANGED <<line, entryWord, records, wanted, looked, answer>> /\ cvPc' = "main"
        /\ cvPc \in {"word", "definition"} /\ line = Len(lines)
    BY <1>4 DEF Cnv!AtEnd
  <2>2. Sources' # {}
    <3>1. line' \in Nat /\ line <= line'
      BY <1>1, <2>1
    <3> QED
      BY <1>1, <2>1, <3>1, SourcesStay
  <2>3. CnvReading' /\ CnvAsking'
    BY <1>1, <1>3, <2>1 DEF CnvReading, CnvAsking
  <2> QED
    BY <1>1, <1>2, <1>3, <2>1, <2>2, <2>3 DEF CnvInv
\* A line is read.
<1>5. CASE Cnv!GetWord \/ Cnv!GetDefinition
  <2>1. /\ line < Len(lines) /\ line' = line + 1 /\ cvPc \in {"word", "definition"}
        /\ UNCHANGED <<wanted, looked, answer>>
    BY <1>5 DEF Cnv!GetWord, Cnv!GetDefinition
  <2>2. PICK next \in DOMAIN lines : next = line + 1
    BY <1>1, <2>1
  <2>3. line' = next /\ next \in Nat /\ next <= Len(lines)
    BY <1>1, <2>1, <2>2
  <2>4. \A n \in Nat : n < next => n < line \/ n = line
    BY <1>1, <2>2
  <2>5. line < next
    BY <1>1, <2>2
  <2>6. next \in Begun <=> line = 0 \/ lines[line] = Blank
    <3>1. \A m \in DOMAIN lines : m + 1 = next <=> m = line
      BY <1>1, <2>2
    <3>2. line # 0 => line \in DOMAIN lines
      BY <1>1, <2>1
    <3>3. line = 0 => line \notin DOMAIN lines
      BY <1>1
    <3> QED
      BY <2>2, <3>1, <3>2, <3>3 DEF Begun
  <2>7. CnvAsking'
    <3>1. answer = "none"
      BY <1>1, <2>1 DEF CnvAsking
    <3>2. cvPc' # "lookup"
      BY <1>5, <2>1 DEF Cnv!GetWord, Cnv!GetDefinition
    <3> QED
      BY <2>1, <3>1, <3>2 DEF CnvAsking
  <2>8. line' \in Nat /\ line' <= Len(lines')
    BY <1>3, <2>3
  <2>9. CASE Cnv!GetWord
    <3>1. /\ cvPc = "word" /\ records' = records
          /\ \/ lines[next] = Blank /\ cvPc' = "word"
             \/ /\ lines[next] # Blank /\ cvPc' = "definition"
                /\ entryWord' = Cnv!Cut(next)
      BY <2>2, <2>9 DEF Cnv!GetWord
    <3>2. line \notin Entries
      <4>1. line \in Entries => line > 0
        BY <1>1 DEF Entries, Begun
      <4> QED
        BY <1>1, <3>1, <4>1 DEF CnvReading, Entries
    <3>3. \A n \in Entries : n < line' => n < line
      BY <1>1, <2>3, <2>4, <3>2 DEF Entries, Begun
    <3>4. Sources' # {}
      <4>1. line' \in Nat /\ line <= line'
        BY <1>1, <2>3, <2>5
      <4> QED
        BY <1>1, <3>1, <3>3, <4>1, SourcesStay
    <3>5. ASSUME Cnv!OneLineEach, lines[next] # Blank
          PROVE  next \in Begun
      <4>1. ASSUME line # 0, lines[line] # Blank
            PROVE  FALSE
        <5>1. line > 0 /\ line \in DOMAIN lines
          BY <1>1, <2>1, <4>1
        <5>2. line \notin Begun
          BY <1>1, <3>1, <4>1, <5>1 DEF CnvReading
        <5>3. PICK m \in DOMAIN lines : m + 1 = line /\ lines[m] # Blank
          BY <5>1, <5>2 DEF Begun
        <5>4. m \in 1..(Len(lines) - 2) /\ m + 2 = next
          BY <1>1, <2>1, <2>2, <5>3
        <5>5. PICK k \in m..(m + 2) : lines[k] = Blank
          BY <3>5, <5>4 DEF Cnv!OneLineEach
        <5>6. k = m \/ k = line \/ k = next
          BY <1>1, <2>2, <5>3, <5>4, <5>5
        <5> QED
          BY <3>5, <4>1, <5>3, <5>5, <5>6
      <4> QED
        BY <2>6, <4>1
    <3>6. Cnv!Cut(next) = Kept[next]
      BY <2>2 DEF Kept
    <3>7. CnvReading'
      <4>1. CASE lines[next] = Blank
        BY <1>3, <2>3, <3>1, <4>1 DEF CnvReading
      <4>2. CASE lines[next] # Blank
        <5>1. cvPc' = "definition" /\ entryWord' = Kept[next]
          BY <3>1, <3>6, <4>2
        <5>2. line' > 0
          BY <1>1, <2>1, <2>8
        <5> QED
          BY <1>3, <2>3, <3>5, <4>2, <5>1, <5>2 DEF CnvReading
      <4> QED
        BY <4>1, <4>2
    <3> QED
      BY <1>1, <1>2, <1>3, <2>7, <2>8, <3>1, <3>4, <3>7 DEF CnvInv
  <2>10. CASE Cnv!GetDefinition
    <3>1. /\ cvPc = "definition" /\ cvPc' = "word"
          /\ \/ lines[next] = Blank /\ records' = records
             \/ /\ lines[next] # Blank
                /\ records' = Append(records, [word |-> entryWord, text |-> Cnv!Cut(next)])
      BY <2>2, <2>10 DEF Cnv!GetDefinition
    <3>2. /\ line \in DOMAIN lines /\ lines[line] # Blank /\ entryWord = lines[line]
          /\ Cnv!OneLineEach => line \in Begun
      <4>1. /\ line > 0 /\ lines[line] # Blank /\ entryWord = Kept[line]
            /\ Cnv!OneLineEach => line \in Begun
        BY <1>1, <3>1 DEF CnvReading
      <4>2. line \in DOMAIN lines /\ line # Len(lines)
        <5>1. line < Len(lines)
          BY <2>1
        <5>2. PICK l \in Nat : l = Len(lines)
          BY <1>1
        <5>3. \A n \in Nat : n > 0 /\ n < l => n \in 1..l /\ n # l
          OBVIOUS
        <5> QED
          BY <1>1, <4>1, <5>1, <5>2, <5>3
      <4>3. Kept[line] = lines[line]
        BY <4>2 DEF Kept, Cnv!Cut
      <4> QED
        BY <4>1, <4>2, <4>3
    <3>3. next \notin Begun
      <4>1. line # 0
        BY <1>1, <3>2
      <4> QED
        BY <2>6, <3>2, <4>1
    <3>4. CnvReading'
      BY <1>3, <2>3, <3>1, <3>3 DEF CnvReading
    <3>5. CASE lines[next] = Blank
      <4>1. line \notin Entries
        <5>1. \A m \in DOMAIN lines : m = line + 1 => m = next
          BY <2>2
        <5> QED
          BY <3>5, <5>1 DEF Entries
      <4>2. \A n \in Entries : n < line' => n < line
        BY <1>1, <2>3, <2>4, <4>1 DEF Entries, Begun
      <4>3. line' \in Nat /\ line <= line'
        BY <1>1, <2>3, <2>5
      <4>4. Sources' # {} /\ records' = records
        BY <1>1, <3>1, <3>5, <4>2, <4>3, SourcesStay
      <4> QED
        BY <1>1, <1>2, <1>3, <2>7, <2>8, <3>1, <3>4, <4>4 DEF CnvInv
    <3>6. CASE lines[next] # Blank
      <4> DEFINE r == [word |-> lines[line], text |-> Kept[next]]
      <4>1. records' = Append(records, r)
        BY <2>2, <3>1, <3>2, <3>6 DEF Kept
      <4>2. lines[line] \in Int /\ Kept[next] \in Int
        <5>1. lines[line] \in Int /\ lines[next] \in Int
          BY <1>1, <2>2, <3>2
        <5>2. Kept[next] = lines[next] \/ Kept[next] = 0 - lines[next]
          BY <2>2 DEF Kept, Cnv!Cut
        <5>3. \A x \in Int : 0 - x \in Int
          OBVIOUS
        <5> QED
          BY <5>1, <5>2, <5>3
      <4>3. r \in [word : Int, text : Int] /\ r.word = lines[line] /\ r.text = Kept[next]
        BY <4>2
      <4> HIDE DEF r
      <4>4. PICK new \in Nat : new = Len(records) + 1
        BY <1>2
      <4>5. /\ records' \in Seq([word : Int, text : Int])
            /\ DOMAIN records' = DOMAIN records \cup {new} /\ new \notin DOMAIN records
            /\ records'[new] = r
            /\ \A k \in DOMAIN records : records'[k] = records[k] /\ k < new
        <5>1. records' \in Seq([word : Int, text : Int]) /\ Len(records') = Len(records) + 1
          BY <1>2, <4>1, <4>3
        <5>2. DOMAIN records' = 1..(Len(records) + 1)
          BY <1>2, <4>1, <5>1
        <5>3. DOMAIN records' = DOMAIN records \cup {new} /\ new \notin DOMAIN records
          BY <1>2, <4>4, <5>2
        <5>4. \A k \in 1..Len(records) : records'[k] = records[k]
          BY <1>2, <4>1
        <5>5. records'[Len(records) + 1] = r
          BY <1>2, <4>1
        <5>6. \A k \in DOMAIN records : k < new
          BY <1>2, <4>4
        <5> QED
          BY <1>2, <4>4, <5>1, <5>3, <5>4, <5>5, <5>6
      <4>6. PICK src : src \in Sources
        BY <1>1
      <4>7. PICK to2 \in [DOMAIN records' -> DOMAIN lines] :
              to2[new] = line /\ \A k \in DOMAIN records : to2[k] = src[k]
        <5> DEFINE t == [k \in DOMAIN records' |-> IF k = new THEN line ELSE src[k]]
        <5>1. \A k \in DOMAIN records : src[k] \in DOMAIN lines
          BY <4>6 DEF Sources
        <5>2. t \in [DOMAIN records' -> DOMAIN lines]
          BY <3>2, <4>5, <5>1
        <5>3. t[new] = line /\ \A k \in DOMAIN records : t[k] = src[k]
          BY <4>5
        <5> HIDE DEF t
        <5> QED
          BY <5>2, <5>3
      <4>8. to2 \in Sources'
        <5>1. \A k \in DOMAIN records :
                /\ src[k] \in Nat
                /\ src[k] < line /\ lines[src[k]] # Blank /\ records[k].word = lines[src[k]]
                /\ \E m \in DOMAIN lines :
                     m = src[k] + 1 /\ lines[m] # Blank /\ records[k].text = Kept[m]
                /\ Cnv!OneLineEach => src[k] \in Begun
          BY <1>1, <4>6 DEF Sources
        <5>2. \A n \in Nat : n < line => n < next
          BY <1>1, <2>3, <2>5
        <5>3. ASSUME NEW k \in DOMAIN records'
              PROVE  /\ to2[k] < next /\ lines[to2[k]] # Blank
                     /\ records'[k].word = lines[to2[k]]
                     /\ \E m \in DOMAIN lines :
                          m = to2[k] + 1 /\ lines[m] # Blank /\ records'[k].text = Kept[m]
                     /\ Cnv!OneLineEach => to2[k] \in Begun
          <6>1. CASE k = new
            BY <2>2, <2>5, <3>2, <3>6, <4>3, <4>5, <4>7, <6>1
          <6>2. CASE k \in DOMAIN records
            BY <4>5, <4>7, <5>1, <5>2, <6>2
          <6> QED
            BY <4>5, <6>1, <6>2
        <5>4. ASSUME NEW j \in DOMAIN records', NEW k \in DOMAIN records', j < k
              PROVE  to2[j] < to2[k]
          <6>1. CASE j = new
            <7>1. k # new /\ ~(k < new)
              BY <4>4, <5>4, <6>1, <1>2, <4>5
            <7> QED
              BY <4>5, <7>1
          <6>2. CASE j \in DOMAIN records /\ k = new
            BY <4>7, <5>1, <6>2
          <6>3. CASE j \in DOMAIN records /\ k \in DOMAIN records
            BY <4>6, <4>7, <5>4, <6>3 DEF Sources
          <6> QED
            BY <4>5, <6>1, <6>2, <6>3
        <5>5. ASSUME NEW n \in Entries, n < next
              PROVE  \E k \in DOMAIN records' : to2[k] = n
          <6>1. n < line \/ n = line
            BY <1>1, <2>4, <5>5 DEF Entries, Begun
          <6>2. CASE n = line
            BY <4>5, <4>7, <6>2
          <6>3. CASE n < line
            BY <4>5, <4>6, <4>7, <6>3 DEF Sources
          <6> QED
            BY <6>1, <6>2, <6>3
        <5> QED
          BY <1>3, <2>3, <4>7, <5>3, <5>4, <5>5 DEF Sources
      <4> QED
        BY <1>1, <1>3, <2>7, <2>8, <3>1, <3>4, <4>5, <4>8 DEF CnvInv
    <3> QED
      BY <3>5, <3>6
  <2> QED
    BY <1>5, <2>9, <2>10
\* The questions.
<1>6. CASE Cnv!Ask \/ Cnv!Compare \/ Cnv!FOUND \/ Cnv!NOTFOUND
  <2>1. /\ UNCHANGED <<line, records, entryWord>> /\ cvPc \in {"main", "lookup"}
        /\ cvPc' \in {"main", "lookup"}
    BY <1>6 DEF Cnv!Ask, Cnv!Compare, Cnv!FOUND, Cnv!NOTFOUND
  <2>2. Sources' # {}
    <3>1. line' \in Nat /\ line <= line'
      BY <1>1, <2>1
    <3> QED
      BY <1>1, <2>1, <3>1, SourcesStay
  <2>3. CnvReading'
    BY <1>1, <1>3, <2>1 DEF CnvReading
  <2>4. CnvAsking'
    <3>1. CASE Cnv!Ask
      <4>1. looked' = 1 /\ answer' = "none" /\ cvPc' = "lookup" /\ records' = records
        BY <3>1 DEF Cnv!Ask
      <4>2. \A k \in DOMAIN records : ~(k < 1)
        BY <1>2
      <4> QED
        BY <4>1, <4>2 DEF CnvAsking
    <3>2. CASE Cnv!Compare
      <4>1. /\ UNCHANGED <<cvPc, wanted, answer>> /\ cvPc = "lookup" /\ looked <= Len(records)
            /\ looked' = looked + 1 /\ records[looked].word # wanted
        BY <3>2 DEF Cnv!Compare
      <4>2. looked \in Nat /\ looked > 0 /\ answer = "none"
        BY <1>1, <4>1 DEF CnvAsking
      <4>3. \A k \in Nat : k < looked + 1 => k = looked \/ k < looked
        BY <4>2
      <4>4. looked + 1 \in Nat /\ looked + 1 > 0
        BY <4>2
      <4>5. \A k \in DOMAIN records : k \in Nat
        BY <1>2
      <4> QED
        BY <1>1, <2>1, <4>1, <4>2, <4>3, <4>4, <4>5 DEF CnvAsking
    <3>3. CASE Cnv!FOUND
      <4>1. /\ UNCHANGED <<wanted, looked>> /\ cvPc = "lookup" /\ looked <= Len(records)
            /\ records[looked].word = wanted
            /\ answer' = "found" /\ cvPc' = "main"
        BY <3>3 DEF Cnv!FOUND
      <4>2. looked \in Nat /\ looked > 0
        BY <1>1, <4>1 DEF CnvAsking
      <4>4. looked \in DOMAIN records
        BY <1>2, <4>1, <4>2
      <4> QED
        BY <1>1, <2>1, <4>1, <4>4 DEF CnvAsking
    <3>4. CASE Cnv!NOTFOUND
      <4>1. /\ UNCHANGED <<wanted, looked>> /\ cvPc = "lookup" /\ looked > Len(records)
            /\ answer' = "not found" /\ cvPc' = "main"
        BY <3>4 DEF Cnv!NOTFOUND
      <4>2. looked \in Nat
        BY <1>1, <4>1 DEF CnvAsking
      <4>3. \A k \in DOMAIN records : k < looked
        <5>1. PICK l \in Nat : l = Len(records)
          BY <1>2
        <5>2. PICK m \in Nat : m = looked
          BY <4>2
        <5>3. m > l
          BY <4>1, <5>1, <5>2
        <5>4. \A k \in 1..l : k < m
          BY <5>3
        <5> QED
          BY <1>2, <5>1, <5>2, <5>4
      <4> QED
        BY <1>1, <2>1, <4>1, <4>3 DEF CnvAsking
    <3> QED
      BY <1>6, <3>1, <3>2, <3>3, <3>4
  <2> QED
    BY <1>1, <1>2, <1>3, <2>1, <2>2, <2>3, <2>4 DEF CnvInv
<1> QED
  BY <1>4, <1>5, <1>6 DEF Cnv!Next

\* The record that is found is that of the first entry for the word.
LEMMA CnvSafe == CnvInv => Cnv!DictionaryIsKept
<1> SUFFICES ASSUME CnvInv
             PROVE  Cnv!DictionaryIsKept
  OBVIOUS
<1>1. /\ line \in Nat /\ line <= Len(lines) /\ lines \in Seq(Int)
      /\ DOMAIN lines = 1..Len(lines) /\ Len(lines) \in Nat
      /\ CnvReading /\ CnvAsking
  BY DEF CnvInv
<1>2. DOMAIN records = 1..Len(records) /\ Len(records) \in Nat
  BY DEF CnvInv
<1>3. PICK src : src \in Sources
  BY DEF CnvInv
<1>4. \A n \in DOMAIN lines : Cnv!Entry(n) <=> n \in Entries
  <2>1. ASSUME NEW n \in DOMAIN lines
        PROVE  Cnv!Entry(n) <=> n \in Entries
    <3>1. n < Len(lines) <=> n + 1 \in DOMAIN lines
      BY <1>1
    <3>2. n \in Nat /\ n > 0
      BY <1>1
    <3>3. (n > 1 => lines[n - 1] = Blank) <=> n \in Begun
      <4>1. CASE n > 1
        <5>1. PICK p \in DOMAIN lines : p = n - 1
          BY <1>1, <4>1
        <5>2. \A m \in DOMAIN lines : m + 1 = n <=> m = p
          BY <1>1, <5>1
        <5> QED
          BY <4>1, <5>1, <5>2 DEF Begun
      <4>2. CASE ~(n > 1)
        <5>1. \A m \in DOMAIN lines : m + 1 # n
          BY <1>1, <4>2
        <5> QED
          BY <4>2, <5>1 DEF Begun
      <4> QED
        BY <4>1, <4>2
    <3> QED
      BY <3>1, <3>3 DEF Entries, Cnv!Entry
  <2> QED
    BY <2>1
<1>5. ASSUME answer # "none"
      PROVE  \A n \in Entries : \E k \in DOMAIN records : src[k] = n
  <2>1. line = Len(lines)
    BY <1>1, <1>5 DEF CnvAsking, CnvReading
  <2>2. \A n, m \in DOMAIN lines : m = n + 1 => n < Len(lines)
    BY <1>1
  <2>3. \A n \in Entries : n < line
    BY <2>1, <2>2 DEF Entries, Begun
  <2> QED
    BY <1>3, <2>3 DEF Sources
<1>6. ASSUME answer = "not found", NEW n \in Entries
      PROVE  lines[n] # wanted
  <2>1. PICK k \in DOMAIN records : src[k] = n
    BY <1>5, <1>6
  <2>2. records[k].word # wanted /\ records[k].word = lines[n]
    BY <1>1, <1>3, <1>6, <2>1 DEF CnvAsking, Sources
  <2> QED
    BY <2>2
<1>7. ASSUME answer = "found"
      PROVE  /\ looked \in DOMAIN records
             /\ \A k \in DOMAIN records : k < looked => records[k].word # wanted
             /\ \E e, m \in DOMAIN lines :
                  /\ e = src[looked] /\ m = e + 1
                  /\ lines[e] = wanted /\ lines[e] # Blank /\ lines[m] # Blank
                  /\ records[looked].text = Cnv!Cut(m)
                  /\ Cnv!OneLineEach => e \in Begun
  <2>1. /\ looked \in DOMAIN records /\ records[looked].word = wanted
        /\ \A k \in DOMAIN records : k < looked => records[k].word # wanted
    BY <1>1, <1>7 DEF CnvAsking
  <2>2. \A m \in DOMAIN lines : Kept[m] = Cnv!Cut(m)
    BY DEF Kept
  <2>3. src[looked] \in DOMAIN lines
    BY <1>3, <2>1 DEF Sources
  <2>4. /\ lines[src[looked]] # Blank /\ records[looked].word = lines[src[looked]]
        /\ \E m \in DOMAIN lines :
             m = src[looked] + 1 /\ lines[m] # Blank /\ records[looked].text = Kept[m]
        /\ Cnv!OneLineEach => src[looked] \in Begun
    BY <1>3, <2>1 DEF Sources
  <2> QED
    BY <2>1, <2>2, <2>3, <2>4
<1>8. ASSUME answer = "found", Cnv!OneLineEach
      PROVE  \E n \in DOMAIN lines :
               /\ Cnv!Entry(n) /\ lines[n] = wanted
               /\ \A k \in 1..(n - 1) : Cnv!Entry(k) => lines[k] # wanted
               /\ terminated \/ n + 1 < Len(lines) => records[looked].text = lines[n + 1]
  <2>1. PICK e \in DOMAIN lines, m \in DOMAIN lines :
          /\ e = src[looked] /\ m = e + 1
          /\ lines[e] = wanted /\ lines[e] # Blank /\ lines[m] # Blank
          /\ records[looked].text = Cnv!Cut(m) /\ e \in Begun
    BY <1>7, <1>8
  <2>2. e \in Entries
    BY <2>1 DEF Entries
  <2>3. ASSUME NEW k \in Entries, k < e
        PROVE  lines[k] # wanted
    <3>1. PICK j \in DOMAIN records : src[j] = k
      BY <1>5, <1>8
    <3>2. looked \in DOMAIN records /\ records[j].word = lines[k]
      BY <1>3, <1>7, <1>8, <3>1 DEF Sources
    <3>3. k \in Nat /\ e \in Nat /\ ~(e < k) /\ e # k
      <4>1. k \in DOMAIN lines
        BY DEF Entries, Begun
      <4>2. \A x, y \in Nat : x < y => ~(y < x) /\ y # x
        OBVIOUS
      <4>3. k \in Nat /\ e \in Nat
        BY <1>1, <2>1, <4>1
      <4> QED
        BY <2>3, <4>2, <4>3
    <3>4. ~(looked < j)
      <4>1. looked < j => src[looked] < src[j]
        BY <1>3, <3>1, <3>2 DEF Sources
      <4> QED
        BY <2>1, <3>1, <3>3, <4>1
    <3>5. looked # j
      BY <2>1, <3>1, <3>3
    <3>6. j < looked
      BY <1>2, <3>1, <3>2, <3>4, <3>5
    <3> QED
      BY <1>7, <1>8, <3>1, <3>2, <3>6
  <2>4. \A n \in DOMAIN lines : \A k \in 1..(n - 1) : k \in DOMAIN lines /\ k < n
    <3>1. PICK l \in Nat : l = Len(lines)
      BY <1>1
    <3>2. DOMAIN lines = 1..l
      BY <1>1, <3>1
    <3>3. \A n \in 1..l : \A k \in 1..(n - 1) : k \in 1..l /\ k < n
      OBVIOUS
    <3> QED
      BY <3>2, <3>3
  <2>5. Cnv!Entry(e) /\ \A k \in 1..(e - 1) : Cnv!Entry(k) => lines[k] # wanted
    <3>1. ASSUME NEW k \in 1..(e - 1), Cnv!Entry(k)
          PROVE  lines[k] # wanted
      <4>1. k \in DOMAIN lines /\ k < e
        BY <2>4
      <4>2. k \in Entries
        BY <1>4, <3>1, <4>1
      <4> QED
        BY <2>3, <4>1, <4>2
    <3> QED
      BY <1>4, <2>2, <3>1
  <2>6. ASSUME terminated \/ e + 1 < Len(lines)
        PROVE  records[looked].text = lines[e + 1]
    <3>1. ~(m = Len(lines) /\ ~terminated)
      BY <1>1, <2>1, <2>6
    <3> QED
      BY <2>1, <3>1 DEF Cnv!Cut
  <2> QED
    BY <2>1, <2>5, <2>6
<1> QED
  <2>1. answer = "not found" => \A n \in DOMAIN lines : Cnv!Entry(n) => lines[n] # wanted
    BY <1>4, <1>6
  <2> QED
    BY <1>8, <2>1 DEF Cnv!DictionaryIsKept

-----------------------------------------------------------------------------
(* ProcTools.                                                              *)

Procs == [ppid : {0} \cup Pids, owner : {"mine", "other", "none", "garbage"},
          opens : BOOLEAN]

\* The numbers that the walk is done with.
Visited == {p \in Pids : p <= entry /\ (p = entry => ptPc \notin {"open", "name", "fgets", "fds", "readlink"})}

\* A process that has not changed is there; an entry that is gone, and an errno
\* that is set, are after a change.
WalkTypeOK ==
  /\ proc \in [Pids -> Procs] /\ checked \in Procs
  /\ entry \in {0} \cup Pids /\ changes \in Nat
  /\ ptPc \in {"readdir", "open", "name", "fgets", "fds", "readlink", "print", "ended",
              "error"}
  /\ ptPc \in {"open", "name", "fgets", "fds", "readlink"} => entry \in Pids
  /\ stable \subseteq {p \in Pids : Pro!Exists(p)}
  /\ gone \in BOOLEAN /\ (failed \/ gone => changes > 0)
  /\ ptPc \in {"open", "name"} => Pro!Exists(entry) \/ changes > 0
  /\ program \in {"user", "tree"} /\ ptPc = "error" => changes > 0
  /\ ptPc \in {"print", "ended"} => stable \subseteq Visited
  /\ program \in {"user", "tree"} /\ ptPc = "error" => stable \subseteq Visited

\* Those that the walk is done with are printed, with their names if they have
\* not changed, the others are not yet.  Until its file is open a process may end,
\* and its number be given away; what was opened is the process's own.
NameInv ==
  /\ ptPc = "name" =>
       /\ entry \in stable => proc[entry].owner = "mine"
       /\ \/ proc[entry].owner = "mine"
          \/ ~Pro!Exists(entry) /\ changes >= 1
          \/ changes >= 2
  /\ ptPc = "fgets" =>
       /\ entry \in stable => ~gone /\ proc[entry].owner = "mine"
       /\ ~gone => Pro!Exists(entry) /\ (proc[entry].owner = "mine" \/ changes >= 2)

UserInv ==
  /\ listed \in Seq([pid : Pids, was : Procs, name : Procs, read : BOOLEAN])
  /\ ptPc \in {"readdir", "open", "name", "fgets", "ended", "error"}
  /\ ptPc = "ended" => ~failed
  /\ \A k \in DOMAIN listed :
       /\ listed[k].pid \in Visited
       /\ listed[k].name.owner = "other" => changes >= 2
       /\ failed \/ listed[k].read
  /\ \A p \in stable \cap Visited :
       /\ proc[p].owner = "mine" => \E k \in DOMAIN listed : listed[k].pid = p
                                                          /\ listed[k].name = proc[p]
       /\ (\E k \in DOMAIN listed : listed[k].pid = p) => proc[p].owner = "mine"
  /\ NameInv

OpenedInv ==
  /\ listed \in Seq([pid : Pids, proc : Procs])
  /\ ptPc \in {"readdir", "open", "fds", "readlink", "ended", "error"}
  /\ ptPc = "fds" /\ entry \in stable => ~gone /\ proc[entry].owner = "mine"
  /\ ptPc = "readlink" /\ entry \in stable => proc[entry].owner = "mine"
  /\ ptPc # "error" =>
       \A p \in stable \cap Visited :
         /\ proc[p].owner = "mine"
         /\ proc[p].opens => \E k \in DOMAIN listed : listed[k].pid = p

\* A parent has been there before its child; the list is in the order of the
\* numbers and has each process that has not changed as it is.
TreeInv ==
  /\ listed \in Seq([pid : Pids, proc : Procs])
  /\ ptPc \in {"readdir", "open", "print", "ended", "error"}
  /\ Pro!Exists(1) /\ proc[1].ppid = 0
  /\ \A p \in stable : p # 1 => proc[p].ppid \in Pids /\ proc[p].ppid < p
  /\ \A k \in DOMAIN listed :
       /\ listed[k].pid \in Visited
       /\ listed[k].pid = 1 => listed[k].proc.ppid = 0
  /\ \A j, k \in DOMAIN listed : j < k => listed[j].pid < listed[k].pid
  /\ \A p \in stable \cap Visited :
       \E k \in DOMAIN listed : listed[k].pid = p /\ listed[k].proc = proc[p]

ProInv ==
  Pro!Walk => /\ WalkTypeOK
              /\ program = "user" => UserInv
              /\ program = "tree" => TreeInv
              /\ program = "opened" => OpenedInv

LEMMA ProInit == Pro!Init => ProInv
<1> SUFFICES ASSUME Pro!Init, Pro!Walk
             PROVE  /\ WalkTypeOK
                    /\ program = "user" => UserInv
                    /\ program = "tree" => TreeInv
                    /\ program = "opened" => OpenedInv
  BY DEF ProInv
<1>1. /\ ptPc = "readdir" /\ entry = 0 /\ failed = FALSE /\ checked = Pro!None
      /\ listed = <<>> /\ stable = {p \in Pids : Pro!Exists(p)} /\ changes = 0
      /\ gone = FALSE
  BY DEF Pro!Init
<1>2. Pids \subseteq Nat \ {0} /\ 1 \in Pids
  BY ProgramsAssumption
<1>3. proc \in {f \in [Pids -> [ppid : {0} \cup Pids, owner : Pro!Owners,
                                opens : Pro!Opens] \cup {Pro!None}] :
              /\ f[1] # Pro!None /\ f[1].ppid = 0 /\ ~f[1].opens
              /\ \A p \in Pids \ {1} : f[p] = Pro!None \/
                   (f[p].ppid \in 1..(p - 1) /\ f[f[p].ppid] # Pro!None)}
  BY DEF Pro!Init
<1>4. Pro!None \in Procs
  BY DEF Pro!None, Procs
<1>5. [ppid : {0} \cup Pids, owner : Pro!Owners, opens : Pro!Opens] \subseteq Procs
  <2>1. Pro!Owners \subseteq {"mine", "other", "none", "garbage"} /\ Pro!Opens \subseteq BOOLEAN
    BY DEF Pro!Owners, Pro!Opens
  <2> QED
    BY <2>1 DEF Procs
<1>6. proc \in [Pids -> Procs] 
  BY <1>3, <1>4, <1>5
<1>7. Visited = {}
  <2>1. \A p \in Pids : ~(p <= 0)
    BY <1>2
  <2> QED
    BY <1>1, <2>1 DEF Visited
<1>8. WalkTypeOK
  BY <1>1, <1>4, <1>6 DEF WalkTypeOK
<1>9. DOMAIN listed = {} /\ (\A S : listed \in Seq(S))
  BY <1>1
<1>10. UserInv
  BY <1>1, <1>7, <1>9 DEF UserInv, NameInv
<1>11. OpenedInv
  BY <1>1, <1>7, <1>9 DEF OpenedInv
<1>12. ASSUME program = "tree"
       PROVE  TreeInv
  <2>1. proc[1].ppid = 0
    BY <1>3
  <2>2. Pro!Exists(1)
    BY <1>3 DEF Pro!Exists
  <2>3. ASSUME NEW p \in stable, p # 1
        PROVE  proc[p].ppid \in Pids /\ proc[p].ppid < p
    <3>1. p \in Pids \ {1} /\ proc[p] # Pro!None
      BY <1>1, <2>3 DEF Pro!Exists
    <3>2. proc[p].ppid \in 1..(p - 1) /\ proc[p].ppid \in {0} \cup Pids
      BY <1>3, <1>6, <3>1 DEF Procs
    <3> QED
      BY <1>2, <3>1, <3>2
  <2> QED
    BY <1>1, <1>7, <1>9, <2>1, <2>2, <2>3 DEF TreeInv
<1> QED
  BY <1>8, <1>10, <1>11, <1>12

LEMMA PidsArePositive == Pids \subseteq Nat \ {0} /\ 1 \in Pids /\ IsFiniteSet(Pids)
BY ProgramsAssumption

\* The next number is the least of those after the last.
LEMMA NextEntryIs ==
  ASSUME WalkTypeOK, Pro!NextEntry
  PROVE  /\ UNCHANGED <<program, proc, stable, changes, failed, checked, gone, listed>>
         /\ ptPc = "readdir"
         /\ \/ /\ entry' = entry /\ stable \subseteq Visited'
               /\ ptPc' \in {"error", "print", "ended"}
               /\ ptPc' = "error" <=> failed
               /\ ptPc' = "print" => program = "tree"
            \/ /\ entry' \in Pids /\ ptPc' = "open" /\ Pro!Exists(entry')
               /\ entry' \notin Visited
         /\ Visited \subseteq Visited'
         /\ stable \cap Visited' \subseteq Visited
<1> DEFINE rest == {p \in Pids : p > entry /\ Pro!Exists(p)}
<1>1. /\ UNCHANGED <<program, proc, stable, changes, failed, checked, gone, listed>>
      /\ ptPc = "readdir"
      /\ \/ /\ rest = {} /\ entry' = entry
            /\ ptPc' = IF failed THEN "error"
                       ELSE IF program = "tree" THEN "print" ELSE "ended"
         \/ /\ rest # {} /\ ptPc' = "open"
            /\ entry' = CHOOSE p \in rest : \A q \in rest : p <= q
  BY DEF Pro!NextEntry, Pro!Env
<1>2. /\ entry \in Nat /\ stable \subseteq {p \in Pids : Pro!Exists(p)}
      /\ Pids \subseteq Nat \ {0}
  BY PidsArePositive DEF WalkTypeOK
<1>3. Visited = {p \in Pids : p <= entry}
  BY <1>1 DEF Visited
<1>4. CASE rest = {}
  <2>1. entry' = entry
    BY <1>1, <1>4
  <2>2. /\ ptPc' \in {"error", "print", "ended"}
        /\ ptPc' = "error" <=> failed
        /\ ptPc' = "print" => program = "tree"
    BY <1>1, <1>4
  <2>3. Visited' = Visited
    <3>1. ptPc' \notin {"open", "name", "fgets", "fds", "readlink"}
      BY <2>2
    <3> QED
      BY <1>3, <2>1, <3>1 DEF Visited
  <2>4. stable \subseteq Visited
    BY <1>2, <1>3, <1>4
  <2> QED
    BY <1>1, <2>1, <2>2, <2>3, <2>4
<1>5. CASE rest # {}
  <2>1. \E p \in rest : \A q \in rest : p <= q
    BY <1>2, <1>5, LeastNat
  <2>2. entry' = CHOOSE p \in rest : \A q \in rest : p <= q
    BY <1>1, <1>5
  <2>3. entry' \in rest /\ \A q \in rest : entry' <= q
    BY <2>1, <2>2
  <2>4. /\ ptPc' = "open" /\ entry' \in Pids /\ Pro!Exists(entry')
        /\ entry' \in Nat /\ entry < entry'
    BY <1>1, <1>2, <1>5, <2>3
  <2>5. Visited' = {p \in Pids : p <= entry' /\ p # entry'}
    BY <2>4 DEF Visited
  <2>6. \A p \in Nat : p <= entry => p <= entry' /\ p # entry'
    BY <1>2, <2>4
  <2>7. Visited \subseteq Visited'
    BY <1>2, <1>3, <2>5, <2>6
  <2>8. entry' \notin Visited
    BY <1>2, <1>3, <2>4
  <2>9. \A p \in Nat : p <= entry' /\ p # entry' /\ ~(p <= entry) => p > entry /\ ~(entry' <= p)
    BY <1>2, <2>4
  <2>10. stable \cap Visited' \subseteq Visited
    BY <1>2, <1>3, <2>3, <2>5, <2>9
  <2> QED
    BY <1>1, <2>4, <2>7, <2>8, <2>10
<1> QED
  BY <1>4, <1>5

\* What the rest of the system does in a step.
LEMMA EnvIs ==
  ASSUME WalkTypeOK, NEW q \in Pids, Pro!Exit(q) \/ Pro!Start(q)
  PROVE  /\ UNCHANGED <<program, ptPc, entry, failed, checked, listed>>
         /\ ptPc \notin {"ended", "error"}
         /\ changes' \in Nat /\ changes' > 0
         /\ changes >= 1 => changes' >= 2 
         /\ changes >= 2 => changes' >= 2
         /\ proc' \in [Pids -> Procs]
         /\ stable' \subseteq stable /\ \A p \in stable' : proc'[p] = proc[p]
         /\ \A p \in Pids : \/ proc'[p].owner = proc[p].owner /\ (Pro!Exists(p) => Pro!Exists(p)')
                            \/ p # 1 /\ Pro!Exists(p) /\ ~Pro!Exists(p)'
                            \/ ~Pro!Exists(p)
         /\ Pro!Exists(1) /\ proc[1].ppid = 0 => Pro!Exists(1)' /\ proc'[1].ppid = 0
         /\ gone' \in BOOLEAN
         /\ entry \in stable' => gone' = gone
         /\ entry \in Pids /\ Pro!Exists(entry) /\ ~gone' =>
              Pro!Exists(entry)' /\ proc'[entry].owner = proc[entry].owner /\ ~gone
<1>1. /\ UNCHANGED <<program, ptPc, entry, failed, checked, listed>>
      /\ ptPc \notin {"ended", "error"}
      /\ changes' = changes + 1 /\ stable' = {p \in stable : proc'[p] = proc[p]}
  BY DEF Pro!Exit, Pro!Start, Pro!Change
<1>2. changes \in Nat /\ proc \in [Pids -> Procs]
  BY DEF WalkTypeOK
<1>3. /\ changes' \in Nat /\ changes' > 0
      /\ changes >= 1 => changes' >= 2 
      /\ changes >= 2 => changes' >= 2
  BY <1>1, <1>2
<1>4. Pro!None \in Procs /\ Pro!None.owner = "none" /\ Pro!None.ppid = 0
  BY DEF Procs, Pro!None
<1>5. CASE Pro!Exit(q)
  <2>1. /\ q # 1 /\ Pro!Exists(q)
        /\ proc' = [r \in Pids |-> IF r = q THEN Pro!None
                                   ELSE IF proc[r].ppid = q THEN [proc[r] EXCEPT !.ppid = 1]
                                   ELSE proc[r]]
    BY <1>5 DEF Pro!Exit
  <2>2. ASSUME NEW r \in Pids, r # q
        PROVE  /\ proc'[r] \in Procs
               /\ proc'[r].owner = proc[r].owner /\ proc'[r].opens = proc[r].opens
               /\ proc[r].ppid # q => proc'[r] = proc[r]
               /\ proc[r].ppid = q => proc'[r].ppid = 1
    <3>1. proc[r] \in Procs
      BY <1>2
    <3>2. 1 \in Pids
      BY PidsArePositive
    <3>3. CASE proc[r].ppid = q
      <4>1. proc'[r] = [proc[r] EXCEPT !.ppid = 1]
        BY <2>1, <2>2, <3>3
      <4> QED
        BY <3>1, <3>2, <3>3, <4>1 DEF Procs
    <3>4. CASE proc[r].ppid # q
      <4>1. proc'[r] = proc[r]
        BY <2>1, <2>2, <3>4
      <4> QED
        BY <3>1, <3>4, <4>1
    <3> QED
      BY <3>3, <3>4
  <2>3. proc'[q] = Pro!None
    BY <2>1
  <2>4. proc' \in [Pids -> Procs]
    BY <1>4, <2>1, <2>2, <2>3
  <2>5. \A r \in Pids : r # q /\ Pro!Exists(r) => Pro!Exists(r)'
    <3>1. ASSUME NEW r \in Pids, r # q, Pro!Exists(r)
          PROVE  Pro!Exists(r)'
      <4>1. CASE proc[r].ppid # q
        BY <2>2, <3>1, <4>1 DEF Pro!Exists
      <4>2. CASE proc[r].ppid = q
        BY <1>4, <2>2, <3>1, <4>2 DEF Pro!Exists
      <4> QED
        BY <4>1, <4>2
    <3> QED
      BY <3>1
  <2>6. ~Pro!Exists(q)'
    BY <2>3 DEF Pro!Exists
  <2>7. Pro!Exists(1) /\ proc[1].ppid = 0 => Pro!Exists(1)' /\ proc'[1].ppid = 0
    <3>1. 1 \in Pids /\ q # 0
      BY PidsArePositive
    <3> QED
      BY <2>1, <2>2, <2>5, <3>1
  <2>8. gone' = (gone \/ q = entry)
    BY <1>5 DEF Pro!Exit
  <2>9. gone' \in BOOLEAN
    BY <2>8
  <2>10. entry \in stable' => gone' = gone
    <3>1. q \notin stable'
      BY <1>1, <2>1, <2>3 DEF Pro!Exists
    <3>2. gone \in BOOLEAN
      BY DEF WalkTypeOK
    <3> QED
      BY <2>8, <3>1, <3>2
  <2>11. entry \in Pids /\ Pro!Exists(entry) /\ ~gone' =>
           /\ Pro!Exists(entry)' /\ proc'[entry].owner = proc[entry].owner /\ ~gone
    <3>1. ~gone' => entry # q /\ ~gone
      BY <2>8
    <3>2. \A r \in Pids : r # q /\ proc[r] # Pro!None => proc'[r] # Pro!None
      BY <2>5 DEF Pro!Exists
    <3>3. entry' = entry
      BY <1>1
    <3> QED
      BY <2>2, <3>1, <3>2, <3>3 DEF Pro!Exists
  <2> QED
    BY <1>1, <1>3, <2>1, <2>2, <2>4, <2>5, <2>6, <2>7, <2>9, <2>10, <2>11
<1>6. CASE Pro!Start(q)
  <2>1. PICK parent \in {r \in Pids : Pro!Exists(r)}, owner \in Pro!Owners, opens \in Pro!Opens :
          proc' = [proc EXCEPT ![q] = [ppid |-> parent, owner |-> owner, opens |-> opens]]
    BY <1>6 DEF Pro!Start
  <2>2. [ppid |-> parent, owner |-> owner, opens |-> opens] \in Procs
    BY <2>1 DEF Procs, Pro!Owners, Pro!Opens
  <2>3. proc' \in [Pids -> Procs] /\ \A r \in Pids : r # q => proc'[r] = proc[r]
    BY <1>2, <2>1, <2>2
  <2>4. ~Pro!Exists(q)
    BY <1>6 DEF Pro!Start
  <2>5. \A r \in Pids : r # q => (Pro!Exists(r)' <=> Pro!Exists(r))
    BY <2>3 DEF Pro!Exists
  <2>6. 1 \in Pids
    BY PidsArePositive
  <2>7. gone' = gone /\ gone \in BOOLEAN
    BY <1>6 DEF Pro!Start, WalkTypeOK
  <2>8. entry \in Pids /\ Pro!Exists(entry) =>
          Pro!Exists(entry)' /\ proc'[entry].owner = proc[entry].owner
    BY <1>1, <2>3, <2>4 DEF Pro!Exists
  <2> QED
    BY <1>1, <1>3, <2>3, <2>4, <2>5, <2>6, <2>7, <2>8
<1> QED
  BY <1>5, <1>6

\* What is common to the steps at an entry.
LEMMA EntryIs ==
  ASSUME Pro!get_process_uid \/ Pro!get_process_cmdname \/ Pro!NameIsRead
           \/ Pro!get_process_info \/ Pro!OpenFds \/ Pro!ListFds \/ Pro!ReadLinks
  PROVE  /\ UNCHANGED <<program, proc, stable, changes, entry>>
         /\ ptPc \in {"open", "name", "fgets", "fds", "readlink"}
         /\ ptPc' \in {"readdir", "error", "name", "fgets", "fds", "readlink"}
         /\ failed' => failed \/ (ptPc \in {"open", "name"} /\ ~Pro!Exists(entry)) \/ gone
         /\ gone' = gone \/ gone' = FALSE
         /\ checked' = checked \/ checked' = proc[entry]
         /\ program \in {"user", "tree"} => ptPc' # "error"
         /\ ptPc' = "name" => ptPc = "open"
<1> USE DEF Pro!Walks, Pro!Env, Pro!PrintLine
<1>1. CASE Pro!get_process_uid
  <2>1. /\ UNCHANGED <<program, proc, stable, changes, entry>>
        /\ ptPc \in {"open", "name", "fgets", "fds", "readlink"}
        /\ ptPc' \in {"readdir", "error", "name", "fgets", "fds", "readlink"}
        /\ gone' = gone \/ gone' = FALSE
        /\ checked' = checked \/ checked' = proc[entry]
        /\ program \in {"user", "tree"} => ptPc' # "error"
        /\ ptPc' = "name" => ptPc = "open"
    BY <1>1 DEF Pro!get_process_uid
  <2>2. failed' => failed \/ (ptPc \in {"open", "name"} /\ ~Pro!Exists(entry)) \/ gone
    <3>1. failed' = (failed \/ ~Pro!Exists(entry)) /\ ptPc = "open"
      BY <1>1 DEF Pro!get_process_uid
    <3> QED
      BY ONLY <3>1
  <2> QED
    BY <2>1, <2>2, Zenon
<1>2. CASE Pro!get_process_cmdname
  <2>1. /\ UNCHANGED <<program, proc, stable, changes, entry>>
        /\ ptPc \in {"open", "name", "fgets", "fds", "readlink"}
        /\ ptPc' \in {"readdir", "error", "name", "fgets", "fds", "readlink"}
        /\ gone' = gone \/ gone' = FALSE
        /\ checked' = checked \/ checked' = proc[entry]
        /\ program \in {"user", "tree"} => ptPc' # "error"
        /\ ptPc' = "name" => ptPc = "open"
    BY <1>2 DEF Pro!get_process_cmdname
  <2>2. failed' => failed \/ (ptPc \in {"open", "name"} /\ ~Pro!Exists(entry)) \/ gone
    <3>1. failed' = (failed \/ ~Pro!Exists(entry)) /\ ptPc = "name"
      BY <1>2 DEF Pro!get_process_cmdname
    <3> QED
      BY ONLY <3>1
  <2> QED
    BY <2>1, <2>2, Zenon
<1>3. CASE Pro!NameIsRead
  <2>1. /\ UNCHANGED <<program, proc, stable, changes, entry>>
        /\ ptPc \in {"open", "name", "fgets", "fds", "readlink"}
        /\ ptPc' \in {"readdir", "error", "name", "fgets", "fds", "readlink"}
        /\ gone' = gone \/ gone' = FALSE
        /\ checked' = checked \/ checked' = proc[entry]
        /\ program \in {"user", "tree"} => ptPc' # "error"
        /\ ptPc' = "name" => ptPc = "open"
    BY <1>3 DEF Pro!NameIsRead
  <2>2. failed' => failed \/ (ptPc \in {"open", "name"} /\ ~Pro!Exists(entry)) \/ gone
    <3>1. failed' = (failed \/ gone)
      BY <1>3 DEF Pro!NameIsRead
    <3> QED
      BY ONLY <3>1
  <2> QED
    BY <2>1, <2>2, Zenon
<1>4. CASE Pro!get_process_info
  <2>1. /\ UNCHANGED <<program, proc, stable, changes, entry>>
        /\ ptPc \in {"open", "name", "fgets", "fds", "readlink"}
        /\ ptPc' \in {"readdir", "error", "name", "fgets", "fds", "readlink"}
        /\ gone' = gone \/ gone' = FALSE
        /\ checked' = checked \/ checked' = proc[entry]
        /\ program \in {"user", "tree"} => ptPc' # "error"
        /\ ptPc' = "name" => ptPc = "open"
    BY <1>4 DEF Pro!get_process_info
  <2>2. failed' => failed \/ (ptPc \in {"open", "name"} /\ ~Pro!Exists(entry)) \/ gone
    <3>1. failed' = (failed \/ ~Pro!Exists(entry)) /\ ptPc = "open"
      BY <1>4 DEF Pro!get_process_info
    <3> QED
      BY ONLY <3>1
  <2> QED
    BY <2>1, <2>2, Zenon
<1>5. CASE Pro!OpenFds
  <2>1. /\ UNCHANGED <<program, proc, stable, changes, entry>>
        /\ ptPc \in {"open", "name", "fgets", "fds", "readlink"}
        /\ ptPc' \in {"readdir", "error", "name", "fgets", "fds", "readlink"}
        /\ gone' = gone \/ gone' = FALSE
        /\ checked' = checked \/ checked' = proc[entry]
        /\ program \in {"user", "tree"} => ptPc' # "error"
        /\ ptPc' = "name" => ptPc = "open"
    BY <1>5 DEF Pro!OpenFds
  <2>2. failed' => failed \/ (ptPc \in {"open", "name"} /\ ~Pro!Exists(entry)) \/ gone
    <3>1. failed' = failed
      BY <1>5 DEF Pro!OpenFds
    <3> QED
      BY <3>1
  <2> QED
    BY <2>1, <2>2, Zenon
<1>6. CASE Pro!ListFds
  <2>1. /\ UNCHANGED <<program, proc, stable, changes, entry>>
        /\ ptPc \in {"open", "name", "fgets", "fds", "readlink"}
        /\ ptPc' \in {"readdir", "error", "name", "fgets", "fds", "readlink"}
        /\ gone' = gone \/ gone' = FALSE
        /\ checked' = checked \/ checked' = proc[entry]
        /\ program \in {"user", "tree"} => ptPc' # "error"
        /\ ptPc' = "name" => ptPc = "open"
    BY <1>6 DEF Pro!ListFds
  <2>2. failed' => failed \/ (ptPc \in {"open", "name"} /\ ~Pro!Exists(entry)) \/ gone
    <3>1. failed' = FALSE
      BY <1>6 DEF Pro!ListFds
    <3> QED
      BY <3>1
  <2> QED
    BY <2>1, <2>2, Zenon
<1>7. CASE Pro!ReadLinks
  <2>1. /\ UNCHANGED <<program, proc, stable, changes, entry>>
        /\ ptPc \in {"open", "name", "fgets", "fds", "readlink"}
        /\ ptPc' \in {"readdir", "error", "name", "fgets", "fds", "readlink"}
        /\ gone' = gone \/ gone' = FALSE
        /\ checked' = checked \/ checked' = proc[entry]
        /\ program \in {"user", "tree"} => ptPc' # "error"
        /\ ptPc' = "name" => ptPc = "open"
    BY <1>7 DEF Pro!ReadLinks
  <2>2. failed' => failed \/ (ptPc \in {"open", "name"} /\ ~Pro!Exists(entry)) \/ gone
    <3>1. failed' = failed
      BY <1>7 DEF Pro!ReadLinks
    <3> QED
      BY <3>1
  <2> QED
    BY <2>1, <2>2, Zenon
<1> QED
  BY <1>1, <1>2, <1>3, <1>4, <1>5, <1>6, <1>7

\* The walk is done with an entry when it reads the directory again.
LEMMA EntryIsVisited ==
  ASSUME WalkTypeOK, entry' = entry, ptPc \in {"open", "name", "fgets", "fds", "readlink"}
  PROVE  /\ ptPc' \in {"open", "name", "fgets", "fds", "readlink"} => Visited' = Visited
         /\ ptPc' \in {"readdir", "error"} => Visited' = Visited \cup {entry}
         /\ entry \in Pids /\ entry \notin Visited
<1>1. entry \in Pids /\ entry \in Nat /\ Pids \subseteq Nat
  BY PidsArePositive DEF WalkTypeOK
<1>2. entry \notin Visited
  BY DEF Visited
<1>3. ASSUME ptPc' \in {"open", "name", "fgets", "fds", "readlink"}
      PROVE  Visited' = Visited
  BY <1>3 DEF Visited
<1>4. ASSUME ptPc' \in {"readdir", "error"}
      PROVE  Visited' = Visited \cup {entry}
  <2>1. Visited' = {p \in Pids : p <= entry}
    BY <1>4 DEF Visited
  <2>2. Visited = {p \in Pids : p <= entry /\ p # entry}
    BY DEF Visited
  <2>3. entry <= entry
    BY <1>1
  <2> QED
    BY <1>1, <2>1, <2>2, <2>3
<1> QED
  BY <1>1, <1>2, <1>3, <1>4

LEMMA WalkStep ==
  ASSUME Pro!Walk, WalkTypeOK, Pro!Next
  PROVE  WalkTypeOK'
<1>1. /\ proc \in [Pids -> Procs] /\ checked \in Procs
      /\ entry \in {0} \cup Pids /\ changes \in Nat
      /\ ptPc \in {"readdir", "open", "name", "fgets", "fds", "readlink", "print", "ended",
              "error"}
      /\ ptPc \in {"open", "name", "fgets", "fds", "readlink"} => entry \in Pids
      /\ stable \subseteq {p \in Pids : Pro!Exists(p)}
      /\ gone \in BOOLEAN /\ (failed \/ gone => changes > 0)
      /\ ptPc \in {"open", "name"} => Pro!Exists(entry) \/ changes > 0
      /\ ptPc \in {"print", "ended"} => stable \subseteq Visited
  BY DEF WalkTypeOK
<1>2. ASSUME NEW q \in Pids, Pro!Exit(q) \/ Pro!Start(q)
      PROVE  WalkTypeOK'
  <2>1. /\ UNCHANGED <<program, ptPc, entry, failed, checked, listed>>
        /\ ptPc \notin {"ended", "error"}
        /\ changes' \in Nat /\ changes' > 0 /\ gone' \in BOOLEAN
        /\ proc' \in [Pids -> Procs]
        /\ stable' \subseteq stable /\ \A p \in stable' : proc'[p] = proc[p]
    BY <1>2, EnvIs
  <2>2. Visited' = Visited
    BY <2>1 DEF Visited
  <2>3. stable' \subseteq {p \in Pids : Pro!Exists(p)'}
    BY <1>1, <2>1 DEF Pro!Exists
  <2> QED
    BY <1>1, <2>1, <2>2, <2>3 DEF WalkTypeOK
<1>3. CASE Pro!NextEntry
  <2>1. UNCHANGED <<proc, stable>>
    BY <1>3, NextEntryIs
  <2>2. \A p : Pro!Exists(p)' <=> Pro!Exists(p)
    BY <2>1 DEF Pro!Exists
  <2>3. Pro!Exists(entry)' <=> proc[entry'] # Pro!None
    BY <2>1 DEF Pro!Exists
  <2>4. \/ /\ entry' = entry /\ stable \subseteq Visited'
           /\ ptPc' \in {"error", "print", "ended"}
           /\ ptPc' = "error" <=> failed
        \/ /\ entry' \in Pids /\ ptPc' = "open" /\ proc[entry'] # Pro!None
    BY <1>3, NextEntryIs DEF Pro!Exists
  <2>5. UNCHANGED <<program, proc, stable, changes, failed, checked, gone, listed>>
    BY <1>3, NextEntryIs
  <2> QED
    BY <1>1, <2>2, <2>3, <2>4, <2>5 DEF WalkTypeOK
<1>4. CASE Pro!print_tree
  <2>1. /\ UNCHANGED <<program, proc, stable, changes, entry, failed, checked, gone, listed>>
        /\ ptPc = "print" /\ ptPc' = "ended"
    BY <1>4 DEF Pro!print_tree, Pro!Env
  <2>2. Visited' = Visited
    BY <2>1 DEF Visited
  <2>3. \A p : Pro!Exists(p)' <=> Pro!Exists(p)
    BY <2>1 DEF Pro!Exists
  <2> QED
    BY <1>1, <2>1, <2>2, <2>3 DEF WalkTypeOK
<1>5. CASE Pro!get_process_uid \/ Pro!get_process_cmdname \/ Pro!NameIsRead
             \/ Pro!get_process_info \/ Pro!OpenFds \/ Pro!ListFds \/ Pro!ReadLinks
  <2>1. /\ UNCHANGED <<program, proc, stable, changes, entry>>
        /\ ptPc \in {"open", "name", "fgets", "fds", "readlink"}
        /\ ptPc' \in {"readdir", "error", "name", "fgets", "fds", "readlink"}
        /\ failed' => failed \/ (ptPc \in {"open", "name"} /\ ~Pro!Exists(entry)) \/ gone
        /\ gone' = gone \/ gone' = FALSE
        /\ checked' = checked \/ checked' = proc[entry]
        /\ program \in {"user", "tree"} => ptPc' # "error"
        /\ ptPc' = "name" => ptPc = "open"
    BY <1>5, EntryIs
  <2>2. \A p : Pro!Exists(p)' <=> Pro!Exists(p)
    BY <2>1 DEF Pro!Exists
  <2>3. Pro!Exists(entry)' <=> Pro!Exists(entry)
    BY <2>1 DEF Pro!Exists
  <2>4. entry \in Pids /\ checked' \in Procs
    BY <1>1, <2>1
  <2>5. gone' \in BOOLEAN
    BY <1>1, <2>1
  <2>6. failed \/ gone \/ (ptPc \in {"open", "name"} /\ ~Pro!Exists(entry)) => changes > 0
    BY <1>1
  <2>7. failed' \/ gone' => changes' > 0
    BY <2>1, <2>6
  <2> QED
    BY <1>1, <2>1, <2>2, <2>3, <2>4, <2>5, <2>7 DEF WalkTypeOK
<1> QED
  BY <1>2, <1>3, <1>4, <1>5 DEF Pro!Next, Pro!ToolNext

\* A line is added to the list, with the name that was read or left over.
LEMMA LineStep ==
  ASSUME program = "user", WalkTypeOK, UserInv, NEW name \in Procs, NEW isRead \in BOOLEAN,
         ptPc \in {"name", "fgets"}, UNCHANGED <<program, proc, stable, changes, entry, checked>>,
         Pro!PrintLine(name, isRead), failed => failed', failed' \/ isRead,
         name.owner = "other" => changes >= 2,
         entry \in stable => name = proc[entry]
  PROVE  UserInv'
<1> DEFINE e == [pid |-> entry, was |-> checked, name |-> name, read |-> isRead]
           Lines2 == [pid : Pids, was : Procs, name : Procs, read : BOOLEAN]
<1>1. /\ checked \in Procs
      /\ listed \in Seq(Lines2)
      /\ \A k \in DOMAIN listed :
           /\ listed[k].pid \in Visited
           /\ listed[k].name.owner = "other" => changes >= 2
           /\ failed \/ listed[k].read
      /\ \A p \in stable \cap Visited :
           /\ proc[p].owner = "mine" => \E k \in DOMAIN listed : listed[k].pid = p
                                                              /\ listed[k].name = proc[p]
           /\ (\E k \in DOMAIN listed : listed[k].pid = p) => proc[p].owner = "mine"
      /\ entry \in stable => proc[entry].owner = "mine"
  BY DEF WalkTypeOK, UserInv, NameInv
<1>2. listed' = Append(listed, e) /\ ptPc' = "readdir"
  BY DEF Pro!PrintLine
<1>3. entry \in Pids /\ Visited' = Visited \cup {entry} /\ entry \notin Visited
  BY <1>2, EntryIsVisited
<1>4. /\ e \in Lines2
      /\ e.pid = entry /\ e.name = name /\ e.read = isRead
  BY <1>1, <1>3
<1> HIDE DEF e, Lines2
<1>5. /\ listed' \in Seq(Lines2)
      /\ \E new \in Nat :
           /\ DOMAIN listed' = DOMAIN listed \cup {new}
           /\ listed'[new] = e
           /\ \A k \in DOMAIN listed : listed'[k] = listed[k]
  BY <1>1, <1>2, <1>4, AppendIs
<1>6. PICK new \in Nat :
        /\ DOMAIN listed' = DOMAIN listed \cup {new}
        /\ listed'[new] = e
        /\ \A k \in DOMAIN listed : listed'[k] = listed[k]
  BY <1>5
<1>7. \A k \in DOMAIN listed' :
        /\ listed'[k].pid \in Visited'
        /\ listed'[k].name.owner = "other" => changes' >= 2
        /\ failed' \/ listed'[k].read
  BY <1>1, <1>3, <1>4, <1>6
<1>8. ASSUME NEW p \in stable \cap Visited'
      PROVE  /\ proc[p].owner = "mine" => \E k \in DOMAIN listed' : listed'[k].pid = p
                                                              /\ listed'[k].name = proc[p]
             /\ (\E k \in DOMAIN listed' : listed'[k].pid = p) => proc[p].owner = "mine"
  <2>1. CASE p = entry
    BY <1>1, <1>4, <1>6, <2>1
  <2>2. CASE p # entry
    <3>1. p \in stable \cap Visited
      BY <1>3, <2>2
    <3> QED
      BY <1>1, <1>4, <1>6, <2>2, <3>1
  <2> QED
    BY <2>1, <2>2
<1> QED
  BY <1>2, <1>5, <1>7, <1>8 DEF UserInv, NameInv, Lines2

LEMMA UserStep ==
  ASSUME program = "user", WalkTypeOK, UserInv, Pro!Next
  PROVE  UserInv'
<1>1. /\ proc \in [Pids -> Procs] /\ checked \in Procs /\ changes \in Nat
      /\ ptPc \in {"open", "name", "fgets", "fds", "readlink"} => entry \in Pids
      /\ stable \subseteq {p \in Pids : Pro!Exists(p)}
      /\ ptPc \in {"open", "name"} => Pro!Exists(entry) \/ changes > 0
      /\ gone \in BOOLEAN
  BY DEF WalkTypeOK
<1>2. /\ listed \in Seq([pid : Pids, was : Procs, name : Procs, read : BOOLEAN])
      /\ ptPc \in {"readdir", "open", "name", "fgets", "ended", "error"}
      /\ ptPc = "ended" => ~failed
      /\ \A k \in DOMAIN listed :
           /\ listed[k].pid \in Visited
           /\ listed[k].name.owner = "other" => changes >= 2
           /\ failed \/ listed[k].read
      /\ \A p \in stable \cap Visited :
           /\ proc[p].owner = "mine" => \E k \in DOMAIN listed : listed[k].pid = p
                                                              /\ listed[k].name = proc[p]
           /\ (\E k \in DOMAIN listed : listed[k].pid = p) => proc[p].owner = "mine"
  BY DEF UserInv
<1>3. /\ ptPc = "name" =>
           /\ entry \in stable => proc[entry].owner = "mine"
           /\ \/ proc[entry].owner = "mine"
              \/ ~Pro!Exists(entry) /\ changes >= 1
              \/ changes >= 2
      /\ ptPc = "fgets" =>
           /\ entry \in stable => ~gone /\ proc[entry].owner = "mine"
           /\ ~gone => Pro!Exists(entry) /\ (proc[entry].owner = "mine" \/ changes >= 2)
  BY DEF UserInv, NameInv
<1>4. ASSUME NEW q \in Pids, Pro!Exit(q) \/ Pro!Start(q)
      PROVE  UserInv'
  <2>1. /\ UNCHANGED <<program, ptPc, entry, failed, checked, listed>>
        /\ changes >= 1 => changes' >= 2
        /\ changes >= 2 => changes' >= 2
        /\ changes' \in Nat /\ changes' > 0
        /\ stable' \subseteq stable /\ \A p \in stable' : proc'[p] = proc[p]
        /\ \A p \in Pids : \/ proc'[p].owner = proc[p].owner /\ (Pro!Exists(p) => Pro!Exists(p)')
                           \/ p # 1 /\ Pro!Exists(p) /\ ~Pro!Exists(p)'
                           \/ ~Pro!Exists(p)
    BY <1>4, EnvIs
  <2>2. Visited' = Visited
    BY <2>1 DEF Visited
  <2>3. changes' >= 1
    BY <2>1
  <2>4. ASSUME ptPc = "name"
        PROVE  \/ proc'[entry].owner = "mine"
               \/ proc'[entry] = Pro!None /\ changes' >= 1
               \/ changes' >= 2
    <3>1. entry \in Pids
      BY <1>1, <2>4
    <3>2. CASE proc[entry].owner = "mine"
      <4>1. proc[entry] # Pro!None
        BY <3>2 DEF Pro!None
      <4> QED
        BY <2>1, <2>3, <3>1, <3>2, <4>1 DEF Pro!Exists
    <3>3. CASE ~Pro!Exists(entry) /\ changes >= 1
      BY <2>1, <3>3
    <3>4. CASE changes >= 2
      BY <2>1, <3>4
    <3> QED
      BY <1>3, <2>4, <3>2, <3>3, <3>4
  <2>5. /\ entry \in stable' => gone' = gone
        /\ entry \in Pids /\ Pro!Exists(entry) /\ ~gone' =>
              proc'[entry] # Pro!None /\ proc'[entry].owner = proc[entry].owner /\ ~gone
        /\ gone => gone'
    <3>1. gone => gone'
      BY <1>4 DEF Pro!Exit, Pro!Start
    <3>2. entry' = entry
      BY <2>1
    <3> QED
      BY <1>4, <3>1, <3>2, EnvIs DEF Pro!Exists
  <2>6. ASSUME ptPc = "fgets"
        PROVE  /\ entry \in stable' => ~gone' /\ proc'[entry].owner = "mine"
               /\ ~gone' => /\ proc'[entry] # Pro!None
                            /\ proc'[entry].owner = "mine" \/ changes' >= 2
    BY <1>1, <1>3, <2>1, <2>5, <2>6
  <2>7. NameInv'
    BY <1>3, <2>1, <2>4, <2>6 DEF NameInv, Pro!Exists
  <2>8. \A p \in stable' \cap Visited' :
          /\ proc'[p].owner = "mine" => \E k \in DOMAIN listed : listed[k].pid = p
                                                              /\ listed[k].name = proc'[p]
          /\ (\E k \in DOMAIN listed : listed[k].pid = p) => proc'[p].owner = "mine"
    BY <1>2, <2>1, <2>2
  <2>9. \A k \in DOMAIN listed :
          /\ listed[k].pid \in Visited'
          /\ listed[k].name.owner = "other" => changes' >= 2
          /\ failed \/ listed[k].read
    BY <1>2, <2>1, <2>2
  <2> QED
    BY <1>2, <2>1, <2>7, <2>8, <2>9 DEF UserInv
<1>5. CASE Pro!NextEntry
  <2>1. /\ UNCHANGED <<program, proc, stable, changes, failed, checked, gone, listed>>
        /\ ptPc' \in {"error", "ended", "open"}
        /\ ptPc' = "ended" => ~failed
        /\ Visited \subseteq Visited' /\ stable \cap Visited' \subseteq Visited
    BY <1>5, NextEntryIs
  <2>2. stable \cap Visited' = stable \cap Visited
    BY <2>1
  <2>3. \A k \in DOMAIN listed : listed[k].pid \in Visited'
    BY <1>2, <2>1
  <2>4. NameInv'
    BY <2>1 DEF NameInv
  <2> QED
    BY <1>2, <2>1, <2>2, <2>3, <2>4 DEF UserInv
<1>6. CASE Pro!get_process_uid
  <2>1. /\ UNCHANGED <<program, proc, stable, changes, entry, listed>>
        /\ ptPc = "open"
        /\ \/ ptPc' = "name" /\ proc[entry].owner = "mine"
           \/ ptPc' = "readdir" /\ proc[entry].owner # "mine"
    BY <1>6 DEF Pro!get_process_uid, Pro!Env, Pro!Walks
  <2>2. /\ entry \in Pids /\ entry \notin Visited
        /\ ptPc' = "name" => Visited' = Visited
        /\ ptPc' = "readdir" => Visited' = Visited \cup {entry}
    BY <2>1, EntryIsVisited
  <2>3. \A k \in DOMAIN listed : listed[k].pid \in Visited' /\ listed[k].pid # entry
    BY <1>2, <2>1, <2>2
  <2>4. \A p \in stable \cap Visited' :
          /\ proc[p].owner = "mine" => \E k \in DOMAIN listed : listed[k].pid = p
                                                              /\ listed[k].name = proc[p]
          /\ (\E k \in DOMAIN listed : listed[k].pid = p) => proc[p].owner = "mine"
    BY <1>2, <2>1, <2>2, <2>3
  <2>5. NameInv'
    BY <2>1 DEF NameInv
  <2>6. failed => failed'
    BY <1>6 DEF Pro!get_process_uid
  <2>7. \A k \in DOMAIN listed : failed' \/ listed[k].read
    BY <1>2, <2>6
  <2> QED
    BY <1>2, <2>1, <2>3, <2>4, <2>5, <2>7 DEF UserInv
<1>7. CASE Pro!get_process_cmdname
  <2>1. /\ UNCHANGED <<program, proc, stable, changes, entry, checked>>
        /\ ptPc = "name" /\ failed' = (failed \/ ~Pro!Exists(entry))
    BY <1>7 DEF Pro!get_process_cmdname, Pro!Env, Pro!Walks
  <2>2. CASE Pro!Exists(entry)
    <3>1. ptPc' = "fgets" /\ gone' = FALSE /\ listed' = listed
      BY <1>7, <2>2 DEF Pro!get_process_cmdname
    <3>2. Visited' = Visited
      BY <2>1, <3>1, EntryIsVisited
    <3>3. failed => failed'
      BY <2>1
    <3>4. NameInv'
      BY <1>3, <2>1, <2>2, <3>1 DEF NameInv, Pro!Exists
    <3>5. \A k \in DOMAIN listed : failed' \/ listed[k].read
      BY <1>2, <3>3
    <3> QED
      BY <1>2, <2>1, <3>1, <3>2, <3>4, <3>5 DEF UserInv
  <2>3. CASE ~Pro!Exists(entry)
    <3>1. Pro!PrintLine(Pro!None, FALSE)
      BY <1>7, <2>3 DEF Pro!get_process_cmdname
    <3>2. Pro!None \in Procs /\ Pro!None.owner # "other"
      BY DEF Procs, Pro!None
    <3>3. entry \notin stable
      BY <1>1, <2>3
    <3>4. failed'
      BY <2>1, <2>3
    <3> QED
      BY <2>1, <3>1, <3>2, <3>3, <3>4, LineStep
  <2> QED
    BY <2>2, <2>3
<1>8. CASE Pro!NameIsRead
  <2> DEFINE n == IF gone THEN Pro!Left ELSE proc[entry]
             Lines2 == [pid : Pids, was : Procs, name : Procs, read : BOOLEAN]
  <2>1. /\ UNCHANGED <<program, proc, stable, changes, entry, checked>>
        /\ ptPc = "fgets" /\ failed' = (failed \/ gone)
        /\ Pro!PrintLine(n, ~gone)
    BY <1>8 DEF Pro!NameIsRead, Pro!Env, Pro!Walks
  <2>2. Pro!Left \in Procs /\ (Pro!Left.owner = "other" => changes >= 2)
    <3>1. CASE listed = <<>>
      <4>1. Pro!Left = [ppid |-> 0, owner |-> "garbage", opens |-> FALSE]
        BY <3>1 DEF Pro!Left, Pro!Garbage, Pro!None
      <4> QED
        BY <4>1 DEF Procs
    <3>2. CASE listed # <<>>
      <4>1. PICK k \in DOMAIN listed : k = Len(listed)
        BY <1>2, <3>2
      <4>2. Pro!Left = listed[k].name
        BY <3>2, <4>1 DEF Pro!Left
      <4>3. listed[k] \in Lines2
        <5>1. listed \in Seq(Lines2)
          BY <1>2
        <5> HIDE DEF Lines2
        <5> QED
          BY <4>1, <5>1
      <4>4. listed[k].name \in Procs
        BY <4>3
      <4>5. listed[k].name.owner = "other" => changes >= 2
        BY <1>2, <4>1
      <4> QED
        BY <4>2, <4>4, <4>5
    <3> QED
      BY <3>1, <3>2
  <2>3. entry \in Pids /\ proc[entry] \in Procs
    BY <1>1, <2>1
  <2>4. /\ n \in Procs
        /\ n.owner = "other" => changes >= 2
        /\ entry \in stable => n = proc[entry]
    BY <1>3, <2>1, <2>2, <2>3
  <2> HIDE DEF n
  <2>5. gone \in BOOLEAN
    BY DEF WalkTypeOK
  <2>6. (~gone) \in BOOLEAN
    BY <2>5, Zenon
  <2>7. (failed => failed') /\ (failed' \/ ~gone)
    BY <2>1
  <2> QED
    BY <2>1, <2>4, <2>6, <2>7, LineStep
<1> QED
  <2>1. ptPc \notin {"print", "fds", "readlink"}
    BY <1>2
  <2> QED
    BY <1>4, <1>5, <1>6, <1>7, <1>8, <2>1
       DEF Pro!Next, Pro!ToolNext, Pro!Walks, Pro!get_process_info, Pro!print_tree,
           Pro!OpenFds, Pro!ListFds, Pro!ReadLinks

LEMMA OpenedStep ==
  ASSUME program = "opened", WalkTypeOK, OpenedInv, Pro!Next
  PROVE  OpenedInv'
<1>1. /\ proc \in [Pids -> Procs] /\ checked \in Procs
      /\ ptPc \in {"open", "name", "fgets", "fds", "readlink"} => entry \in Pids
      /\ stable \subseteq Pids
  BY DEF WalkTypeOK
<1>2. /\ listed \in Seq([pid : Pids, proc : Procs])
      /\ ptPc \in {"readdir", "open", "fds", "readlink", "ended", "error"}
      /\ ptPc = "fds" /\ entry \in stable => ~gone /\ proc[entry].owner = "mine"
      /\ ptPc = "readlink" /\ entry \in stable => proc[entry].owner = "mine"
      /\ ptPc # "error" =>
           \A p \in stable \cap Visited :
             /\ proc[p].owner = "mine"
             /\ proc[p].opens => \E k \in DOMAIN listed : listed[k].pid = p
  BY DEF OpenedInv
<1>3. ASSUME NEW q \in Pids, Pro!Exit(q) \/ Pro!Start(q)
      PROVE  OpenedInv'
  <2>1. /\ UNCHANGED <<program, ptPc, entry, failed, checked, listed>>
        /\ stable' \subseteq stable /\ \A p \in stable' : proc'[p] = proc[p]
        /\ entry \in stable' => gone' = gone
    BY <1>3, EnvIs
  <2>2. Visited' = Visited
    BY <2>1 DEF Visited
  <2> QED
    BY <1>2, <2>1, <2>2 DEF OpenedInv
<1>4. CASE Pro!NextEntry
  <2>1. /\ UNCHANGED <<program, proc, stable, changes, failed, checked, gone, listed>>
        /\ ptPc = "readdir" /\ ptPc' \in {"error", "ended", "open"}
        /\ stable \cap Visited' \subseteq Visited
    BY <1>4, NextEntryIs
  <2> QED
    BY <1>2, <2>1 DEF OpenedInv
<1>5. CASE Pro!OpenFds
  <2>1. /\ UNCHANGED <<program, proc, stable, changes, entry, listed>>
        /\ ptPc = "open" /\ gone' = FALSE
        /\ \/ ptPc' = "fds" /\ proc[entry].owner = "mine"
           \/ ptPc' = "error"
    BY <1>5 DEF Pro!OpenFds, Pro!Env, Pro!Walks
  <2>2. ptPc' = "fds" => Visited' = Visited
    BY <2>1, EntryIsVisited
  <2> QED
    BY <1>2, <2>1, <2>2 DEF OpenedInv
<1>6. CASE Pro!ListFds
  <2>1. /\ UNCHANGED <<program, proc, stable, changes, entry, checked, listed>>
        /\ ptPc = "fds"
        /\ \/ ptPc' = "readlink" /\ ~gone
           \/ ptPc' = "readdir" /\ gone
    BY <1>6 DEF Pro!ListFds, Pro!Env, Pro!Walks
  <2>2. /\ ptPc' = "readlink" => Visited' = Visited
        /\ ptPc' = "readdir" => Visited' = Visited \cup {entry}
    BY <2>1, EntryIsVisited
  <2>3. ptPc' = "readdir" => entry \notin stable
    BY <1>2, <2>1
  <2>4. stable \cap Visited' = stable \cap Visited
    BY <2>1, <2>2, <2>3
  <2> QED
    BY <1>2, <2>1, <2>4 DEF OpenedInv
<1>7. CASE Pro!ReadLinks
  <2> DEFINE e == [pid |-> entry, proc |-> proc[entry]]
  <2>1. /\ UNCHANGED <<program, proc, stable, changes, entry, checked>>
        /\ ptPc = "readlink" /\ ptPc' \in {"error", "readdir"}
        /\ \/ proc[entry].opens /\ listed' = Append(listed, e)
           \/ ~proc[entry].opens /\ listed' = listed
    BY <1>7 DEF Pro!ReadLinks, Pro!Env, Pro!Walks
  <2>2. entry \in Pids /\ Visited' = Visited \cup {entry}
    BY <2>1, EntryIsVisited
  <2>3. e \in [pid : Pids, proc : Procs] /\ e.pid = entry
    BY <1>1, <2>2
  <2> HIDE DEF e
  <2>4. ptPc # "error"
    BY <2>1
  <2>5. CASE proc[entry].opens /\ listed' = Append(listed, e)
    <3>1. /\ listed' \in Seq([pid : Pids, proc : Procs])
          /\ \E new \in Nat :
               /\ DOMAIN listed' = DOMAIN listed \cup {new}
               /\ listed'[new] = e
               /\ \A k \in DOMAIN listed : listed'[k] = listed[k]
      BY <1>2, <2>3, <2>5, AppendIs
    <3>2. \A p \in stable \cap Visited' :
             /\ proc[p].owner = "mine"
             /\ proc[p].opens => \E k \in DOMAIN listed' : listed'[k].pid = p
      BY <1>2, <2>1, <2>2, <2>3, <2>4, <3>1
    <3> QED
      BY <2>1, <3>1, <3>2 DEF OpenedInv
  <2>6. CASE ~proc[entry].opens /\ listed' = listed
    <3>1. \A p \in stable \cap Visited' :
             /\ proc[p].owner = "mine"
             /\ proc[p].opens => \E k \in DOMAIN listed : listed[k].pid = p
      BY <1>2, <2>1, <2>2, <2>4, <2>6
    <3> QED
      BY <1>2, <2>1, <2>6, <3>1 DEF OpenedInv
  <2> QED
    BY <2>1, <2>5, <2>6
<1> QED
  <2>1. ptPc # "print"
    BY <1>2
  <2> QED
    BY <1>3, <1>4, <1>5, <1>6, <1>7, <2>1
       DEF Pro!Next, Pro!ToolNext, Pro!Walks, Pro!get_process_info, Pro!print_tree,
           Pro!get_process_uid, Pro!get_process_cmdname, Pro!NameIsRead

LEMMA TreeStep ==
  ASSUME program = "tree", WalkTypeOK, TreeInv, Pro!Next
  PROVE  TreeInv'
<1>1. /\ proc \in [Pids -> Procs]
      /\ ptPc \in {"open", "name", "fgets", "fds", "readlink"} => entry \in Pids
      /\ stable \subseteq {p \in Pids : Pro!Exists(p)}
  BY DEF WalkTypeOK
<1>2. /\ listed \in Seq([pid : Pids, proc : Procs])
      /\ ptPc \in {"readdir", "open", "print", "ended", "error"}
      /\ Pro!Exists(1) /\ proc[1].ppid = 0
      /\ \A p \in stable : p # 1 => proc[p].ppid \in Pids /\ proc[p].ppid < p
      /\ \A k \in DOMAIN listed :
           /\ listed[k].pid \in Visited
           /\ listed[k].pid = 1 => listed[k].proc.ppid = 0
      /\ \A j, k \in DOMAIN listed : j < k => listed[j].pid < listed[k].pid
      /\ \A p \in stable \cap Visited :
           \E k \in DOMAIN listed : listed[k].pid = p /\ listed[k].proc = proc[p]
  BY DEF TreeInv
<1>3. ASSUME NEW q \in Pids, Pro!Exit(q) \/ Pro!Start(q)
      PROVE  TreeInv'
  <2>1. /\ UNCHANGED <<program, ptPc, entry, failed, checked, listed>>
        /\ stable' \subseteq stable /\ \A p \in stable' : proc'[p] = proc[p]
        /\ Pro!Exists(1)' /\ proc'[1].ppid = 0
    BY <1>2, <1>3, EnvIs
  <2>2. Visited' = Visited
    BY <2>1 DEF Visited
  <2>3. \A p \in stable' : p # 1 => proc'[p].ppid \in Pids /\ proc'[p].ppid < p
    BY <1>2, <2>1
  <2>4. \A p \in stable' \cap Visited :
           \E k \in DOMAIN listed : listed[k].pid = p /\ listed[k].proc = proc'[p]
    BY <1>2, <2>1
  <2> QED
    BY <1>2, <2>1, <2>2, <2>3, <2>4 DEF TreeInv
<1>4. CASE Pro!NextEntry
  <2>1. /\ UNCHANGED <<program, proc, stable, changes, failed, checked, gone, listed>>
        /\ ptPc' \in {"error", "print", "ended", "open"}
        /\ Visited \subseteq Visited' /\ stable \cap Visited' \subseteq Visited
    BY <1>4, NextEntryIs
  <2>2. stable \cap Visited' = stable \cap Visited
    BY <2>1
  <2>3. Pro!Exists(1)' <=> Pro!Exists(1)
    BY <2>1 DEF Pro!Exists
  <2>4. \A k \in DOMAIN listed : listed[k].pid \in Visited'
    BY <1>2, <2>1
  <2> QED
    BY <1>2, <2>1, <2>2, <2>3, <2>4 DEF TreeInv
<1>5. CASE Pro!get_process_info
  <2> DEFINE e == [pid |-> entry, proc |-> proc[entry]]
  <2>1. /\ UNCHANGED <<program, proc, stable, changes, entry, checked>>
        /\ ptPc = "open" /\ ptPc' = "readdir"
        /\ \/ Pro!Exists(entry) /\ listed' = Append(listed, e)
           \/ ~Pro!Exists(entry) /\ listed' = listed
    BY <1>5 DEF Pro!get_process_info, Pro!Env, Pro!Walks
  <2>2. entry \in Pids /\ Visited' = Visited \cup {entry}
    BY <2>1, EntryIsVisited
  <2>3. \A p \in Visited : p < entry
    <3>1. \A p \in Visited : p \in Nat /\ p <= entry /\ p # entry
      BY <2>1, PidsArePositive DEF Visited
    <3>2. entry \in Nat
      BY <2>2, PidsArePositive
    <3> QED
      BY <3>1, <3>2
  <2>4. Pro!Exists(1)' /\ proc'[1].ppid = 0
    BY <1>2, <2>1 DEF Pro!Exists
  <2>5. e \in [pid : Pids, proc : Procs] /\ e.pid = entry /\ e.proc = proc[entry]
    BY <1>1, <2>2
  <2> HIDE DEF e
  <2>6. CASE Pro!Exists(entry) /\ listed' = Append(listed, e)
    <3>1. /\ listed' \in Seq([pid : Pids, proc : Procs])
          /\ \E new \in Nat :
               /\ DOMAIN listed' = DOMAIN listed \cup {new}
               /\ listed'[new] = e
               /\ \A k \in DOMAIN listed : k \in Nat /\ k < new /\ listed'[k] = listed[k]
      BY <1>2, <2>5, <2>6, AppendIs
    <3>2. PICK new \in Nat :
            /\ DOMAIN listed' = DOMAIN listed \cup {new}
            /\ listed'[new] = e
            /\ \A k \in DOMAIN listed : k \in Nat /\ k < new /\ listed'[k] = listed[k]
      BY <3>1
    <3>3. \A k \in DOMAIN listed' :
             /\ listed'[k].pid \in Visited'
             /\ listed'[k].pid = 1 => listed'[k].proc.ppid = 0
      BY <1>2, <2>2, <2>5, <3>2
    <3>4. ASSUME NEW j \in DOMAIN listed', NEW k \in DOMAIN listed', j < k
          PROVE  listed'[j].pid < listed'[k].pid
      <4>1. CASE j = new
        <5>1. \A i \in Nat : i < new => ~(new < i)
          OBVIOUS
        <5>2. ~(new < new)
          OBVIOUS
        <5> QED
          BY <3>2, <3>4, <4>1, <5>1, <5>2
      <4>2. CASE j \in DOMAIN listed /\ k = new
        BY <1>2, <2>3, <2>5, <3>2, <4>2
      <4>3. CASE j \in DOMAIN listed /\ k \in DOMAIN listed
        BY <1>2, <3>2, <3>4, <4>3
      <4> QED
        BY <3>2, <4>1, <4>2, <4>3
    <3>5. \A p \in stable \cap Visited' :
             \E k \in DOMAIN listed' : listed'[k].pid = p /\ listed'[k].proc = proc[p]
      BY <1>2, <2>2, <2>5, <3>2
    <3> QED
      BY <1>2, <2>1, <2>4, <3>1, <3>3, <3>4, <3>5 DEF TreeInv
  <2>7. CASE ~Pro!Exists(entry) /\ listed' = listed
    <3>1. stable \cap Visited' = stable \cap Visited
      BY <1>1, <2>2, <2>7
    <3>2. \A k \in DOMAIN listed : listed[k].pid \in Visited'
      BY <1>2, <2>2
    <3> QED
      BY <1>2, <2>1, <2>4, <2>7, <3>1, <3>2 DEF TreeInv
  <2> QED
    BY <2>1, <2>6, <2>7
<1>6. CASE Pro!print_tree
  <2>1. /\ UNCHANGED <<program, proc, stable, changes, entry, failed, checked, gone, listed>>
        /\ ptPc = "print" /\ ptPc' = "ended"
    BY <1>6 DEF Pro!print_tree, Pro!Env
  <2>2. Visited' = Visited
    BY <2>1 DEF Visited
  <2>3. Pro!Exists(1)' <=> Pro!Exists(1)
    BY <2>1 DEF Pro!Exists
  <2> QED
    BY <1>2, <2>1, <2>2, <2>3 DEF TreeInv
<1> QED
  <2>1. ptPc \notin {"name", "fds", "readlink"}
    BY <1>2
  <2> QED
    BY <1>3, <1>4, <1>5, <1>6, <2>1
       DEF Pro!Next, Pro!ToolNext, Pro!Walks, Pro!get_process_uid, Pro!get_process_cmdname,
           Pro!NameIsRead, Pro!OpenFds, Pro!ListFds, Pro!ReadLinks

LEMMA ProStep ==
  ASSUME ProInv, Pro!Next
  PROVE  ProInv'
<1>1. CASE ~Pro!Walk
  <2>1. program' = program
    BY DEF Pro!Next, Pro!ToolNext, Pro!NextEntry, Pro!get_process_uid,
           Pro!get_process_cmdname, Pro!NameIsRead, Pro!get_process_info,
           Pro!print_tree, Pro!OpenFds, Pro!PrintLine,
           Pro!ListFds, Pro!ReadLinks, Pro!Exit, Pro!Start, Pro!Change, Pro!Env
  <2> QED
    BY <1>1, <2>1 DEF ProInv, Pro!Walk
<1>2. CASE Pro!Walk
  <2>1. program' = program
    BY DEF Pro!Next, Pro!ToolNext, Pro!NextEntry, Pro!get_process_uid,
           Pro!get_process_cmdname, Pro!NameIsRead, Pro!get_process_info,
           Pro!print_tree, Pro!OpenFds, Pro!PrintLine,
           Pro!ListFds, Pro!ReadLinks, Pro!Exit, Pro!Start, Pro!Change, Pro!Env
  <2> QED
    BY <1>2, <2>1, WalkStep, UserStep, TreeStep, OpenedStep DEF ProInv
<1> QED
  BY <1>1, <1>2

\* The numbers that are printed below those of a set, and their generations.
Below(S) == {listed[k].pid : k \in {k \in DOMAIN listed : listed[k].proc.ppid \in S}}

LEMMA ListedPids ==
  ASSUME TreeInv
  PROVE  \A k \in DOMAIN listed : listed[k].pid \in Pids
<1>1. listed \in Seq([pid : Pids, proc : Procs])
  BY DEF TreeInv
<1>2. ASSUME NEW k \in DOMAIN listed
      PROVE  listed[k].pid \in Pids
  <2> DEFINE R == [pid : Pids, proc : Procs]
  <2>1. listed \in Seq(R)
    BY <1>1
  <2>2. \A x \in R : x.pid \in Pids
    OBVIOUS
  <2> HIDE DEF R
  <2>3. listed[k] \in R
    BY <2>1
  <2> QED
    BY <2>2, <2>3
<1> QED
  BY <1>2

LEMMA PrintedIs ==
  ASSUME TreeInv
  PROVE  \E f \in [0..Len(listed) -> SUBSET Pids] :
           /\ f[0] = {1} /\ \A n \in 1..Len(listed) : f[n] = Below(f[n - 1])
           /\ Pro!Printed = UNION {f[n] : n \in 0..Len(listed)}
<1> DEFINE F == [S \in SUBSET Pids |-> Below(S)]
           B == CHOOSE below : below = [n \in 0..Len(listed) |->
                  IF n = 0 THEN {1}
                  ELSE {listed[k].pid : k \in {k \in DOMAIN listed :
                                                 listed[k].proc.ppid \in below[n - 1]}}]
<1>1. Pro!Printed = UNION {B[n] : n \in 0..Len(listed)}
  BY DEF Pro!Printed
<1> HIDE DEF B
<1>2. F \in [SUBSET Pids -> SUBSET Pids]
  <2>1. \A k \in DOMAIN listed : listed[k].pid \in Pids
    BY ListedPids
  <2> QED
    BY <2>1 DEF Below
<1>3. Len(listed) \in Nat /\ {1} \in SUBSET Pids
  BY PidsArePositive DEF TreeInv
<1>4. PICK f \in [0..Len(listed) -> SUBSET Pids] : Iterates(f, Len(listed), F, {1})
  BY <1>2, <1>3, IteratesExist
<1>5. /\ 0 \in 0..Len(listed) /\ \A n \in 1..Len(listed) : n # 0 /\ n \in 0..Len(listed)
      /\ \A n \in 0..Len(listed) : n # 0 => n \in 1..Len(listed) /\ n - 1 \in 0..Len(listed)
  BY <1>3
<1>6. \A n \in 1..Len(listed) : f[n] = Below(f[n - 1])
  <2>1. \A n \in 1..Len(listed) : n - 1 \in 0..Len(listed)
    BY <1>3
  <2>2. \A n \in 1..Len(listed) : F[f[n - 1]] = Below(f[n - 1])
    BY <2>1
  <2> QED
    BY <1>4, <2>2 DEF Iterates
<1>7. f = [n \in 0..Len(listed) |->
             IF n = 0 THEN {1}
             ELSE {listed[k].pid : k \in {k \in DOMAIN listed :
                                            listed[k].proc.ppid \in f[n - 1]}}]
  <2>1. f = [n \in 0..Len(listed) |-> f[n]]
    OBVIOUS
  <2>2. ASSUME NEW n \in 0..Len(listed)
        PROVE  f[n] = IF n = 0 THEN {1}
                      ELSE {listed[k].pid : k \in {k \in DOMAIN listed :
                                                     listed[k].proc.ppid \in f[n - 1]}}
    BY <1>4, <1>5, <1>6 DEF Iterates, Below
  <2> QED
    BY <2>1, <2>2
<1>8. B = [n \in 0..Len(listed) |->
             IF n = 0 THEN {1}
             ELSE {listed[k].pid : k \in {k \in DOMAIN listed :
                                            listed[k].proc.ppid \in B[n - 1]}}]
  BY <1>7 DEF B
<1>9. B[0] = {1} /\ \A n \in 1..Len(listed) : B[n] = Below(B[n - 1])
  BY <1>5, <1>8 DEF Below
<1>10. B \in [0..Len(listed) -> SUBSET Pids]
  <2>1. ASSUME NEW n \in 0..Len(listed)
        PROVE  B[n] \subseteq Pids
    <3>1. \A k \in DOMAIN listed : listed[k].pid \in Pids
      BY ListedPids
    <3> QED
      BY <1>3, <1>5, <1>9, <3>1 DEF Below
  <2>2. B = [n \in 0..Len(listed) |-> B[n]]
    BY <1>8
  <2> QED
    BY <2>1, <2>2
<1> QED
  BY <1>1, <1>9, <1>10

LEMMA SameCardinality ==
  ASSUME NEW S
  PROVE  Pro!Cardinality(S) = Cardinality(S)
BY DEF Pro!Cardinality, Cardinality

LEMMA AncestorsAre ==
  ASSUME proc \in [Pids -> Procs], NEW p \in Pids
  PROVE  \E up :
           /\ up[0] = {p}
           /\ \A n \in 1..Cardinality(Pids) : up[n] = {proc[q].ppid : q \in up[n - 1] \ {0}}
           /\ Pro!Ancestors(p) = (UNION {up[n] : n \in 0..Cardinality(Pids)}) \ {0}
<1> DEFINE N == Pro!Cardinality(Pids)
           U == SUBSET ({0} \cup Pids)
           F == [S \in U |-> {proc[q].ppid : q \in S \ {0}}]
           A == CHOOSE up : up = [n \in 0..N |->
                  IF n = 0 THEN {p} ELSE {proc[q].ppid : q \in up[n - 1] \ {0}}]
<1>1. Pro!Ancestors(p) = (UNION {A[n] : n \in 0..N}) \ {0}
  BY DEF Pro!Ancestors
<1> HIDE DEF A
<1>2. \A q \in Pids : proc[q].ppid \in {0} \cup Pids
  BY DEF Procs
<1>3. N = Cardinality(Pids)
  BY SameCardinality
<1> HIDE DEF N
<1>4. N \in Nat
  BY <1>3, PidsArePositive, FS_CardinalityType
<1>5. F \in [U -> U] /\ {p} \in U
  BY <1>2
<1> HIDE DEF F
<1>6. PICK f \in [0..N -> U] : Iterates(f, N, F, {p})
  BY <1>4, <1>5, IteratesExist
<1>7. /\ 0 \in 0..N /\ \A n \in 1..N : n # 0 /\ n \in 0..N /\ n - 1 \in 0..N
      /\ \A n \in 0..N : n # 0 => n \in 1..N /\ n - 1 \in 0..N
  BY <1>4
<1>8. \A n \in 1..N : f[n] = {proc[q].ppid : q \in f[n - 1] \ {0}}
  <2>1. \A n \in 1..N : F[f[n - 1]] = {proc[q].ppid : q \in f[n - 1] \ {0}}
    <3>1. \A S \in U : F[S] = {proc[q].ppid : q \in S \ {0}}
      BY DEF F
    <3> QED
      BY <1>6, <1>7, <3>1
  <2> QED
    BY <1>6, <2>1 DEF Iterates
<1>9. f = [n \in 0..N |-> IF n = 0 THEN {p} ELSE {proc[q].ppid : q \in f[n - 1] \ {0}}]
  <2>1. f = [n \in 0..N |-> f[n]]
    BY <1>6
  <2>2. ASSUME NEW n \in 0..N
        PROVE  f[n] = IF n = 0 THEN {p} ELSE {proc[q].ppid : q \in f[n - 1] \ {0}}
    BY <1>6, <1>7, <1>8 DEF Iterates
  <2> QED
    BY <2>1, <2>2
<1>10. A = [n \in 0..N |-> IF n = 0 THEN {p} ELSE {proc[q].ppid : q \in A[n - 1] \ {0}}]
  BY <1>9 DEF A
<1>11. A[0] = {p} /\ \A n \in 1..N : A[n] = {proc[q].ppid : q \in A[n - 1] \ {0}}
  BY <1>7, <1>10
<1> QED
  BY <1>1, <1>3, <1>11

\* The ancestors that have not changed are processes with lower and lower
\* numbers, down to init: there are fewer generations than numbers.
LEMMA AncestorsAreClosed ==
  ASSUME WalkTypeOK, TreeInv, NEW p \in Pids, Pro!Ancestors(p) \subseteq stable
  PROVE  \E T : /\ p \in T /\ T \subseteq stable
                /\ \A q \in T : q # 1 => proc[q].ppid \in T /\ proc[q].ppid < q
<1> DEFINE N == Cardinality(Pids)
           Upto(q) == {r \in Pids : r <= q}
<1>1. Pids \subseteq Nat \ {0} /\ IsFiniteSet(Pids) /\ N \in Nat
  BY PidsArePositive, FS_CardinalityType
<1>2. PICK up :
        /\ up[0] = {p}
        /\ \A n \in 1..N : up[n] = {proc[q].ppid : q \in up[n - 1] \ {0}}
        /\ Pro!Ancestors(p) = (UNION {up[n] : n \in 0..N}) \ {0}
  BY AncestorsAre DEF WalkTypeOK
<1>3. \A q \in Pids : Cardinality(Upto(q)) \in Nat /\ Cardinality(Upto(q)) <= N
  BY <1>1, FS_Subset, FS_CardinalityType
<1>4. ASSUME NEW q \in Pids, NEW r \in Pids, r < q
      PROVE  Cardinality(Upto(r)) + 1 <= Cardinality(Upto(q))
  <2>1. q \in Upto(q) /\ Upto(r) \subseteq Upto(q) \ {q}
    <3>1. q \in Nat /\ r \in Nat
      BY <1>1
    <3>2. q <= q /\ \A x \in Nat : x <= r => x <= q /\ x # q
      BY <1>4, <3>1
    <3> QED
      BY <1>1, <3>2
  <2>2. IsFiniteSet(Upto(q)) /\ IsFiniteSet(Upto(q) \ {q})
    BY <1>1, FS_Subset
  <2>3. Cardinality(Upto(q) \ {q}) = Cardinality(Upto(q)) - 1
    BY <2>1, <2>2, FS_RemoveElement
  <2>4. Cardinality(Upto(r)) <= Cardinality(Upto(q) \ {q})
    BY <2>1, <2>2, FS_Subset
  <2> QED
    BY <1>3, <2>3, <2>4
<1> DEFINE C == [q \in Pids |-> Cardinality(Upto(q))]
           T == {q \in Pids : \E i \in 0..N : q \in up[i] /\ i + C[q] <= N}
<1>5. /\ \A q \in Pids : C[q] \in Nat /\ C[q] <= N
      /\ \A q, r \in Pids : r < q => C[r] + 1 <= C[q]
  BY <1>3, <1>4
<1> HIDE DEF N, C, Upto
<1>6. p \in T
  <2>1. 0 \in 0..N /\ 0 + C[p] <= N
    BY <1>1, <1>5
  <2> QED
    BY <1>2, <2>1
<1>7. T \subseteq stable
  <2>1. \A q \in T : q # 0 /\ \E i \in 0..N : q \in up[i]
    BY <1>1
  <2> QED
    BY <1>2, <2>1
<1>8. ASSUME NEW q \in T, q # 1
      PROVE  proc[q].ppid \in T /\ proc[q].ppid < q
  <2>1. proc[q].ppid \in Pids /\ proc[q].ppid < q
    BY <1>7, <1>8 DEF TreeInv
  <2>2. PICK i \in 0..N : q \in up[i] /\ i + C[q] <= N
    OBVIOUS
  <2>3. PICK r \in Pids : r = proc[q].ppid
    BY <2>1
  <2>4. C[r] + 1 <= C[q] /\ C[r] \in Nat /\ C[q] \in Nat
    BY <1>5, <2>1, <2>3
  <2>5. PICK j \in 1..N : i = j - 1 /\ j + C[r] <= N
    <3>1. i + 1 \in 1..N /\ i = (i + 1) - 1 /\ (i + 1) + C[r] <= N
      BY <1>1, <2>2, <2>4
    <3> QED
      BY <3>1
  <2>6. r \in up[j]
    <3>1. q # 0
      BY <1>1
    <3>2. up[j] = {proc[x].ppid : x \in up[i] \ {0}}
      BY <1>2, <2>5
    <3> QED
      BY <2>2, <2>3, <3>1, <3>2
  <2>7. j \in 0..N
    BY <1>1
  <2> QED
    BY <2>1, <2>3, <2>5, <2>6, <2>7
<1> QED
  BY <1>6, <1>7, <1>8

\* Every such process is in the list after its parent, and printed in a
\* generation no later than its place in the list.
LEMMA TreeIsPrinted ==
  ASSUME WalkTypeOK, TreeInv, stable \subseteq Visited,
         NEW p \in Pids, Pro!Ancestors(p) \subseteq stable
  PROVE  p \in Pro!Printed
<1>1. PICK T : /\ p \in T /\ T \subseteq stable
               /\ \A q \in T : q # 1 => proc[q].ppid \in T /\ proc[q].ppid < q
  BY AncestorsAreClosed
<1>2. PICK f \in [0..Len(listed) -> SUBSET Pids] :
        /\ f[0] = {1} /\ \A n \in 1..Len(listed) : f[n] = Below(f[n - 1])
        /\ Pro!Printed = UNION {f[n] : n \in 0..Len(listed)}
  BY PrintedIs
<1>3. PICK l \in Nat : l = Len(listed) /\ DOMAIN listed = 1..l
  BY DEF TreeInv
<1> DEFINE Shown(q) == \E k \in 1..l : listed[k].pid = q /\ \E n \in 0..k : q \in f[n]
           Bad == {q \in T : ~Shown(q)}
<1>4. T \subseteq Pids /\ T \subseteq Nat
  BY <1>1, PidsArePositive DEF WalkTypeOK
<1>5. Bad = {}
  <2>1. SUFFICES ASSUME Bad # {}
                 PROVE  FALSE
    OBVIOUS
  <2>2. PICK q \in Bad : \A r \in Bad : q <= r
    BY <1>4, <2>1, LeastNat
  <2>3. PICK k \in 1..l : listed[k].pid = q /\ listed[k].proc = proc[q]
    <3>1. q \in stable \cap Visited
      BY <1>1
    <3> QED
      BY <1>3, <3>1 DEF TreeInv
  <2>4. CASE q = 1
    <3>1. 0 \in 0..k /\ q \in f[0]
      BY <1>2, <2>4
    <3> QED
      BY <2>3, <3>1
  <2>5. CASE q # 1
    <3>1. PICK r \in T : r = proc[q].ppid /\ r < q
      BY <1>1, <2>5
    <3>2. Shown(r)
      <4>1. r \in Nat /\ q \in Nat
        BY <1>4
      <4>2. ~(q <= r)
        BY <3>1, <4>1
      <4> QED
        BY <2>2, <4>2
    <3>3. PICK j \in 1..l, n \in 0..l : listed[j].pid = r /\ n <= j /\ r \in f[n]
      <4>1. PICK j \in 1..l : listed[j].pid = r /\ \E n \in 0..j : r \in f[n]
        BY <3>2
      <4>2. PICK n \in 0..j : r \in f[n]
        BY <4>1
      <4>3. n \in 0..l /\ n <= j
        BY <1>3
      <4> QED
        BY <4>1, <4>2, <4>3
    <3>4. j < k
      <4>1. \A x, y \in Nat : x < y => ~(y < x) /\ x # y
        OBVIOUS
      <4>2. r \in Nat /\ q \in Nat
        BY <1>4
      <4>3. ~(k < j)
        <5>1. k < j => listed[k].pid < listed[j].pid
          BY <1>3, <2>3, <3>3 DEF TreeInv
        <5> QED
          BY <2>3, <3>1, <3>3, <4>1, <4>2, <5>1
      <4>4. k # j
        BY <2>3, <3>1, <3>3, <4>1, <4>2
      <4> QED
        BY <2>3, <3>3, <4>3, <4>4
    <3>5. PICK m \in 1..l : m - 1 = n /\ m <= k
      <4>1. n + 1 \in 1..l /\ (n + 1) - 1 = n /\ n + 1 <= k
        BY <1>3, <2>3, <3>3, <3>4
      <4> QED
        BY <4>1
    <3>6. q \in f[m]
      <4>1. f[m] = Below(f[n])
        BY <1>2, <1>3, <3>5
      <4>2. q \in Below(f[n])
        BY <1>3, <2>3, <3>1, <3>3 DEF Below
      <4> QED
        BY <4>1, <4>2
    <3>7. m \in 0..k
      BY <2>3, <3>5
    <3> QED
      BY <2>3, <3>6, <3>7
  <2> QED
    BY <2>4, <2>5
<1>6. PICK k \in 1..l : \E n \in 0..k : p \in f[n]
  BY <1>1, <1>5
<1>7. PICK n \in 0..k : p \in f[n]
  BY <1>6
<1>8. n \in 0..l
  BY <1>3, <1>6, <1>7
<1> QED
  BY <1>2, <1>3, <1>7, <1>8

LEMMA ProSafe == ProInv => Pro!StableProcessesAreSeen
<1> SUFFICES ASSUME ProInv
             PROVE  Pro!StableProcessesAreSeen
  OBVIOUS
<1>1. ASSUME program = "user"
      PROVE  /\ Pro!Stopped => \A p \in stable :
                  proc[p].owner = "mine" <=> \E k \in DOMAIN listed :
                                               listed[k].pid = p /\ listed[k].name = proc[p]
             /\ ptPc = "error" => changes > 0
             /\ ptPc = "ended" => \A k \in DOMAIN listed : listed[k].read
             /\ \A k \in DOMAIN listed : listed[k].name.owner = "other" => changes >= 2
  <2>1. WalkTypeOK /\ UserInv
    BY <1>1 DEF ProInv, Pro!Walk
  <2>2. Pro!Stopped => stable \subseteq Visited
    BY <1>1, <2>1 DEF WalkTypeOK, Pro!Stopped
  <2>3. ptPc = "error" => changes > 0
    BY <1>1, <2>1 DEF WalkTypeOK
  <2>4. \A p \in stable \cap Visited :
          /\ proc[p].owner = "mine" => \E k \in DOMAIN listed : listed[k].pid = p
                                                              /\ listed[k].name = proc[p]
          /\ (\E k \in DOMAIN listed : listed[k].pid = p) => proc[p].owner = "mine"
    BY <2>1 DEF UserInv
  <2>5. /\ ptPc = "ended" => \A k \in DOMAIN listed : listed[k].read
        /\ \A k \in DOMAIN listed : listed[k].name.owner = "other" => changes >= 2
    BY <2>1 DEF UserInv
  <2> QED
    BY <2>2, <2>3, <2>4, <2>5
<1>2. ASSUME program = "tree"
      PROVE  /\ ptPc = "ended" =>
                  /\ \A p \in Pids : Pro!Exists(p) /\ Pro!Ancestors(p) \subseteq stable
                                       => p \in Pro!Printed
                  /\ \A j, k \in DOMAIN listed : listed[j].pid = listed[k].pid => j = k
                  /\ \A k \in DOMAIN listed :
                       listed[k].pid = 1 => listed[k].proc.ppid \notin Pro!Printed
             /\ ptPc = "error" => changes > 0
  <2>1. WalkTypeOK /\ TreeInv
    BY <1>2 DEF ProInv, Pro!Walk
  <2>2. ptPc = "error" => changes > 0
    BY <1>2, <2>1 DEF WalkTypeOK
  <2>3. ptPc = "ended" => stable \subseteq Visited
    BY <2>1 DEF WalkTypeOK
  <2>4. ASSUME NEW j \in DOMAIN listed, NEW k \in DOMAIN listed,
               listed[j].pid = listed[k].pid
        PROVE  j = k
    <3>1. j \in Nat /\ k \in Nat /\ listed[k].pid \in Nat /\ listed[j].pid \in Nat
      <4>1. DOMAIN listed = 1..Len(listed) /\ Len(listed) \in Nat
        BY <2>1 DEF TreeInv
      <4> QED
        <5>1. listed[k].pid \in Pids /\ listed[j].pid \in Pids
          BY <2>1, ListedPids
        <5>2. j \in Nat /\ k \in Nat
          BY <4>1
        <5> QED
          BY <5>1, <5>2, PidsArePositive
    <3>2. j < k => listed[j].pid < listed[k].pid
      BY <2>1 DEF TreeInv
    <3>3. k < j => listed[k].pid < listed[j].pid
      BY <2>1 DEF TreeInv
    <3>4. \A x, y \in Nat : x < y \/ y < x \/ x = y
      OBVIOUS
    <3>5. \A x \in Nat : ~(x < x)
      OBVIOUS
    <3> QED
      BY <2>4, <3>1, <3>2, <3>3, <3>4, <3>5
  <2>5. ASSUME NEW k \in DOMAIN listed, listed[k].pid = 1
        PROVE  listed[k].proc.ppid \notin Pro!Printed
    <3>1. listed[k].proc.ppid = 0
      BY <2>1, <2>5 DEF TreeInv
    <3>2. PICK f \in [0..Len(listed) -> SUBSET Pids] :
            Pro!Printed = UNION {f[n] : n \in 0..Len(listed)}
      BY <2>1, PrintedIs
    <3>3. 0 \notin Pids
      BY PidsArePositive
    <3> QED
      BY <3>1, <3>2, <3>3
  <2>6. ptPc = "ended" => \A p \in Pids : Pro!Ancestors(p) \subseteq stable => p \in Pro!Printed
    BY <2>1, <2>3, TreeIsPrinted
  <2> QED
    BY <2>2, <2>4, <2>5, <2>6
<1>3. ASSUME program = "opened", ptPc = "ended"
      PROVE  \A p \in stable :
               /\ proc[p].owner = "mine"
               /\ proc[p].opens => \E k \in DOMAIN listed : listed[k].pid = p
  <2>1. WalkTypeOK /\ OpenedInv
    BY <1>3 DEF ProInv, Pro!Walk
  <2>2. stable \subseteq Visited
    BY <1>3, <2>1 DEF WalkTypeOK
  <2> QED
    BY <1>3, <2>1, <2>2 DEF OpenedInv
<1> QED
  BY <1>1, <1>2, <1>3 DEF Pro!StableProcessesAreSeen

-----------------------------------------------------------------------------
(* FileTools.                                                              *)

Bytes   == {Zero, Letter, Newline, Other}
Readers == {"cp", "tee", "tee -a", "mycat", "tail"}
Source  == file["source"]
Dest    == file["dest"]

FilTypeOK ==
  /\ Source \in Seq(Bytes) /\ Dest \in Seq(Bytes) /\ file = [source |-> Source, dest |-> Dest]
  /\ to \in {"source", "dest"} /\ (to = "source" => program \in Fil!Copies)
  /\ pos \in Nat /\ off \in Nat /\ need \in Nat /\ counted \in Nat /\ size \in Nat
  /\ appends \in Nat
  /\ ftBuf \in Seq(Bytes) /\ out \in Seq(Bytes)
  /\ ftPc \in {"start", "read", "write", "print", "back", "truncate", "memcpy",
               "ended", "EINVAL"}
  /\ ftPc \in {"read", "write"} => program \in Readers
  /\ ftPc = "print" => program \in Fil!Tees
  /\ ftPc = "back" => program = "tail"
  /\ ftPc \in {"truncate", "memcpy", "EINVAL"} => program = "49_1"
  /\ ftPc = "ended" => program = "49_1" \/ program \in Readers
  /\ ftPc = "start" => pos = 0 /\ off = 0 /\ out = <<>> /\ counted = 0

\* The buffer has the last bytes that were read; at the end all were.
ReadInv ==
  /\ ftPc \in {"read", "write", "print"} => pos <= Len(Source)
  /\ ftPc = "ended" /\ program \in Readers => pos = Len(Source)
  /\ ftPc \in {"write", "print"} =>
       /\ Len(ftBuf) <= pos
       /\ \A k \in 1..Len(ftBuf) : \A n \in 1..Len(Source) :
            n + Len(ftBuf) = pos + k => Source[n] = ftBuf[k]
  /\ program \in {"cp", "tee", "tee -a"} =>
       /\ ftPc = "write" => off + Len(ftBuf) = pos
       /\ ftPc \in {"read", "print", "ended"} => off = pos

\* What cp has not written are zeros; what it copied to itself was appended.
CpInv ==
  program = "cp" =>
    /\ ftPc \in {"read", "write", "ended"} /\ to = "dest" =>
         /\ Len(Dest) <= off
         /\ \A k \in 1..Len(Dest) : Dest[k] = Source[k]
         /\ \A k \in 1..off : Len(Dest) < k => Source[k] = Zero
    /\ ftPc # "start" /\ to = "source" => Len(Source) <= appends

MapInv ==
  program = "49_1" =>
    /\ ftPc \in {"start", "truncate", "EINVAL"} => Dest = Old
    /\ ftPc \in {"truncate", "memcpy"} => size <= Len(Source)
    /\ ftPc = "memcpy" /\ to = "dest" => Len(Dest) = size
    /\ ftPc = "ended" => /\ \A k \in 1..size : file[to][k] = Source[k]
                         /\ to = "dest" => Len(Dest) = size

OutInv ==
  program \in {"mycat", "tee", "tee -a"} =>
    /\ ftPc \in {"write", "print"} => Len(out) + Len(ftBuf) = pos
    /\ ftPc \in {"read", "ended"} => Len(out) = pos
    /\ \A k \in 1..Len(out) : out[k] = Source[k]

TeeInv ==
  program = "tee" /\ ftPc # "start" =>
    /\ off <= Len(Dest)
    /\ \A k \in 1..off : Dest[k] = Source[k]

\* Where the bytes that tee -a has written are among the new ones.
Places ==
  {at \in [1..off -> (Len(Old) + 1)..Len(Dest)] :
     /\ \A j, k \in 1..off : j < k => at[j] < at[k]
     /\ \A k \in 1..off : Dest[at[k]] = Source[k]
     /\ \A n \in (Len(Old) + 1)..Len(Dest) :
          (\A k \in 1..off : at[k] # n) => Dest[n] = Other}

AddInv ==
  program = "tee -a" =>
    /\ Len(Dest) = Len(Old) + off + appends
    /\ \A k \in 1..Len(Old) : Dest[k] = Old[k]
    /\ Places # {}

\* The newlines behind each place of what tail found, and the places at which
\* what it prints may begin.
Behind == [s \in 0..size |-> {k \in (s + 1)..size : Source[k] = Newline}]

Starts ==
  {s \in 0..size :
     /\ ftPc = "write" => s + Len(out) + Len(ftBuf) = pos
     /\ ftPc # "write" => s + Len(out) = pos
     /\ \A k \in 1..Len(out) : Source[s + k] = out[k]
     /\ s = 0 => Cardinality(Behind[s]) <= need
     /\ s # 0 => Cardinality(Behind[s]) = need /\ Source[s] = Newline}

TailInv ==
  program = "tail" =>
    /\ ftPc # "start" => size <= Len(Source)
    /\ ftPc = "back" => /\ pos <= size /\ counted = Cardinality(Behind[pos])
                        /\ counted <= need /\ out = <<>>
    /\ ftPc \in {"read", "write", "ended"} => Starts # {}

FilInv == FilTypeOK /\ ReadInv /\ CpInv /\ MapInv /\ OutInv /\ TeeInv /\ AddInv /\ TailInv

LEMMA OverwriteIs ==
  ASSUME NEW c \in Seq(Bytes), NEW at \in Nat, NEW b \in Seq(Bytes),
         NEW w, w = Fil!Overwrite(c, at, b)
  PROVE  /\ w \in Seq(Bytes) /\ Len(w) \in Nat
         /\ at + Len(b) <= Len(c) => Len(w) = Len(c)
         /\ Len(c) <= at + Len(b) => Len(w) = at + Len(b)
         /\ \A k \in 1..Len(b) : w[at + k] = b[k]
         /\ \A k \in 1..Len(c) : k <= at => w[k] = c[k]
         /\ \A k \in 1..at : Len(c) < k => w[k] = Zero
<1>1. PICK lc \in Nat : lc = Len(c)
  OBVIOUS
<1>2. PICK lb \in Nat : lb = Len(b)
  OBVIOUS
<1>3. PICK n \in Nat : /\ n = IF at + lb > lc THEN at + lb ELSE lc
                       /\ at + lb <= n /\ lc <= n
  OBVIOUS
<1>4. (IF at + Len(b) > Len(c) THEN at + Len(b) ELSE Len(c)) = n
  BY <1>1, <1>2, <1>3
<1> DEFINE e(k) == CASE k > at /\ k <= at + Len(b) -> b[k - at]
                     [] k <= Len(c) /\ (k <= at \/ k > at + Len(b)) -> c[k]
                     [] OTHER -> Zero
<1>5. w = [k \in 1..n |-> e(k)]
  BY <1>4 DEF Fil!Overwrite
<1>6. \A k \in 1..lb : at + k \in 1..n /\ e(at + k) = b[k]
  <2>1. \A k \in 1..lb : /\ at + k > at /\ at + k <= at + lb /\ (at + k) - at = k
                         /\ ~(at + k <= at) /\ ~(at + k > at + lb) /\ at + k \in 1..n
    BY <1>3
  <2> QED
    BY <1>2, <2>1
<1>7. \A k \in 1..lc : k <= at => k \in 1..n /\ e(k) = c[k]
  <2>1. \A k \in 1..lc : k <= at => ~(k > at) /\ k \in 1..n /\ k <= lc
    BY <1>3
  <2> QED
    BY <1>1, <2>1
<1>8. \A k \in 1..at : lc < k => k \in 1..n /\ e(k) = Zero
  <2>1. \A k \in 1..at : lc < k => ~(k > at) /\ k \in 1..n /\ ~(k <= lc)
    BY <1>3
  <2> QED
    BY <1>1, <2>1
<1>9. \A k \in 1..n : e(k) \in Bytes
  <2>1. \A k \in 1..n : k > at /\ k <= at + lb => k - at \in 1..lb
    OBVIOUS
  <2>2. \A k \in 1..n : k <= lc => k \in 1..lc
    OBVIOUS
  <2>3. /\ \A k \in 1..lb : b[k] \in Bytes
        /\ \A k \in 1..lc : c[k] \in Bytes
        /\ Zero \in Bytes
    BY <1>1, <1>2 DEF Bytes
  <2> QED
    BY <1>1, <1>2, <2>1, <2>2, <2>3
<1> HIDE DEF e
<1>10. w \in Seq(Bytes) /\ Len(w) = n
  BY <1>3, <1>5, <1>9
<1>11. /\ at + lb <= lc => n = lc
       /\ lc <= at + lb => n = at + lb
  BY <1>3
<1>12. \A k \in 1..n : w[k] = e(k)
  BY <1>5
<1> QED
  BY <1>1, <1>2, <1>3, <1>6, <1>7, <1>8, <1>10, <1>11, <1>12

LEMMA FileIs ==
  ASSUME FilTypeOK, NEW x, file' = [file EXCEPT ![to] = x]
  PROVE  /\ to = "source" => Source' = x /\ Dest' = Dest
         /\ to = "dest" => Source' = Source /\ Dest' = x
         /\ file' = [source |-> Source', dest |-> Dest']
<1>1. file = [source |-> Source, dest |-> Dest] /\ to \in {"source", "dest"}
  BY DEF FilTypeOK
<1>2. CASE to = "source"
  <2>1. file' = [source |-> x, dest |-> Dest]
    BY <1>1, <1>2
  <2> QED
    BY <1>2, <2>1 DEF Source, Dest
<1>3. CASE to = "dest"
  <2>1. file' = [source |-> Source, dest |-> x]
    BY <1>1, <1>3
  <2> QED
    BY <1>3, <2>1 DEF Source, Dest
<1> QED
  BY <1>1, <1>2, <1>3

LEMMA ReadIs ==
  ASSUME FilTypeOK, ReadInv, Fil!Read
  PROVE  /\ ftPc = "read" /\ program \in Readers
         /\ \E n \in Nat :
              /\ pos' = pos + n /\ pos' <= Len(Source) /\ Len(ftBuf') = n
              /\ \A k \in 1..n : ftBuf'[k] = Source[pos + k]
              /\ ftBuf' \in Seq(Bytes)
              /\ ftPc' = IF n = 0 THEN "ended" ELSE "write"
              /\ n = 0 => pos = Len(Source)
         /\ UNCHANGED <<program, file, to, off, out, need, counted, size, appends>>
<1>1. /\ ftPc = "read" /\ program \in Readers
      /\ UNCHANGED <<program, file, to, off, out, need, counted, size, appends>>
  BY DEF Fil!Read, Fil!Fixed, Fil!tail, FilTypeOK
<1>2. PICK p \in Nat : p = pos
  BY DEF FilTypeOK
<1>3. Source \in Seq(Bytes)
  BY DEF FilTypeOK
<1>4. PICK l \in Nat : l = Len(Source)
  BY <1>3
<1>5. p <= l
  BY <1>1, <1>2, <1>4 DEF ReadInv
<1>6. PICK r \in Nat : r = l - p /\ p + r = l
  BY <1>5
<1>7. PICK most \in Nat : /\ most = IF r < BUF_SIZE THEN r ELSE BUF_SIZE
                          /\ most <= r /\ (most = 0 => r = 0)
  BY ProgramsAssumption
<1>8. PICK n : /\ n \in IF program \in Fil!Tees /\ most > 0 THEN 1..most ELSE {most}
               /\ ftBuf' = SubSeq(Source, p + 1, p + n)
               /\ pos' = p + n
               /\ ftPc' = IF n = 0 THEN "ended" ELSE "write"
  BY <1>2, <1>4, <1>6, <1>7 DEF Fil!Read, Source
<1>9. n \in Nat /\ n <= most /\ (n = 0 => most = 0)
  BY <1>7, <1>8
<1>10. p + n <= l /\ (n = 0 => p = l)
  BY <1>6, <1>7, <1>9
<1>11. \A k \in 1..n : p + k \in 1..l
  BY <1>9, <1>10
<1>12. Len(ftBuf') = n /\ ftBuf' \in Seq(Bytes) /\ \A k \in 1..n : ftBuf'[k] = Source[p + k]
  <2>1. (p + n) - (p + 1) + 1 = n /\ \A k \in 1..n : p + 1 + k - 1 = p + k
    BY <1>9
  <2>2. ftBuf' = [k \in 1..n |-> Source[p + k]]
    <3>1. SubSeq(Source, p + 1, p + n) = [k \in 1..n |-> Source[p + 1 + k - 1]]
      BY <1>9, <2>1, <1>3
    <3> QED
      BY <1>8, <2>1, <3>1
  <2>3. \A k \in 1..n : Source[p + k] \in Bytes
    BY <1>3, <1>4, <1>11
  <2> QED
    BY <1>9, <2>2, <2>3
<1>13. pos' = pos + n /\ pos' <= Len(Source) /\ (n = 0 => pos = Len(Source))
  BY <1>2, <1>4, <1>8, <1>10
<1> QED
  BY <1>1, <1>2, <1>8, <1>9, <1>12, <1>13

LEMMA AppendOtherIs ==
  ASSUME FilTypeOK, Fil!AppendOther
  PROVE  /\ ftPc \notin {"ended", "EINVAL"} /\ appends' = appends + 1
         /\ UNCHANGED <<program, ftPc, to, pos, off, ftBuf, out, need, counted, size>>
         /\ file' = [source |-> Source', dest |-> Dest']
         /\ program \in Fil!Tees => Source' = Source /\ Dest' = Append(Dest, Other)
         /\ program \notin Fil!Tees => Source' = Append(Source, Other) /\ Dest' = Dest
<1>1. /\ ftPc \notin {"ended", "EINVAL"} /\ appends' = appends + 1
      /\ UNCHANGED <<program, ftPc, to, pos, off, ftBuf, out, need, counted, size>>
      /\ file' = [file EXCEPT ![IF program \in Fil!Tees THEN to ELSE "source"] =
                    Append(@, Other)]
  BY DEF Fil!AppendOther, Fil!tail
<1>2. file = [source |-> Source, dest |-> Dest] /\ (program \in Fil!Tees => to = "dest")
  BY DEF FilTypeOK, Fil!Tees, Fil!Copies
<1>3. CASE program \in Fil!Tees
  <2>1. file' = [file EXCEPT !["dest"] = Append(Dest, Other)]
    BY <1>1, <1>2, <1>3 DEF Dest
  <2>2. file' = [source |-> Source, dest |-> Append(Dest, Other)]
    BY <1>2, <2>1
  <2>3. Source' = Source /\ Dest' = Append(Dest, Other)
    BY <2>2 DEF Source, Dest
  <2> QED
    BY <1>1, <1>3, <2>2, <2>3
<1>4. CASE program \notin Fil!Tees
  <2>1. file' = [source |-> Append(Source, Other), dest |-> Dest]
    BY <1>1, <1>2, <1>4
  <2> QED
    BY <1>1, <1>4, <2>1 DEF Source, Dest
<1> QED
  BY <1>3, <1>4

LEMMA FilInit == Fil!Init => FilInv
<1> SUFFICES ASSUME Fil!Init
             PROVE  FilInv
  OBVIOUS
<1>1. /\ ftPc = "start" /\ pos = 0 /\ off = 0 /\ size = 0 /\ appends = 0 /\ counted = 0
      /\ ftBuf = <<>> /\ out = <<>>
  BY DEF Fil!Init
<1>2. /\ file = [source |-> Source, dest |-> Dest] /\ Source \in Seq(Bytes)
      /\ program \in Readers \cup {"49_1"} => Dest = Old
      /\ Dest \in Seq(Bytes)
  <2>1. CASE program \in Fil!Copies \cup Fil!Tees \cup {"mycat", "tail"}
    <3>1. PICK c \in Contents : file = [source |-> c, dest |-> Old]
      BY <2>1 DEF Fil!Init
    <3>2. c \in Seq(Bytes) /\ Old \in Seq(Bytes)
      BY ProgramsAssumption DEF Bytes
    <3> QED
      BY <3>1, <3>2 DEF Source, Dest
  <2>2. CASE program \notin Fil!Copies \cup Fil!Tees \cup {"mycat", "tail"}
    <3>1. file = [source |-> <<>>, dest |-> <<>>] /\ <<>> \in Seq(Bytes)
      BY <2>2 DEF Fil!Init
    <3> QED
      BY <2>2, <3>1 DEF Source, Dest, Readers, Fil!Copies, Fil!Tees
  <2> QED
    BY <2>1, <2>2
<1>3. /\ to \in {"source", "dest"} /\ (to = "source" => program \in Fil!Copies)
      /\ need \in Nat
  BY DEF Fil!Init
<1>4. FilTypeOK
  BY <1>1, <1>2, <1>3 DEF FilTypeOK
<1>5. ReadInv /\ CpInv
  BY <1>1 DEF ReadInv, CpInv
<1>6. MapInv /\ TailInv
  BY <1>1, <1>2 DEF MapInv, TailInv
<1>7. OutInv /\ TeeInv
  BY <1>1 DEF OutInv, TeeInv
<1>8. AddInv
  <2>1. SUFFICES ASSUME program = "tee -a"
                 PROVE  /\ Len(Dest) = Len(Old) + off + appends
                        /\ \A k \in 1..Len(Old) : Dest[k] = Old[k]
                        /\ Places # {}
    BY DEF AddInv
  <2>2. Dest = Old /\ Len(Old) \in Nat
    <3>1. Dest = Old
      BY <1>2, <2>1 DEF Readers
    <3>2. Old \in Seq({Zero, Letter, Newline, Other})
      BY ProgramsAssumption
    <3> QED
      BY <3>1, <3>2
  <2>3. [k \in 1..off |-> k] \in Places
    <3>1. 1..off = {} /\ (Len(Old) + 1)..Len(Dest) = {}
      BY <1>1, <2>2
    <3> QED
      BY <3>1 DEF Places
  <2> QED
    BY <1>1, <2>2, <2>3
<1> QED
  BY <1>4, <1>5, <1>6, <1>7, <1>8 DEF FilInv

LEMMA OpenStep ==
  ASSUME FilInv, Fil!OpenToCopy
  PROVE  FilInv'
<1>1. FilTypeOK /\ ReadInv /\ AddInv
  BY DEF FilInv
<1>2. /\ program \in {"cp", "tee", "tee -a", "mycat"} /\ ftPc = "start" /\ ftPc' = "read"
      /\ UNCHANGED <<program, to, pos, off, ftBuf, out, need, counted, size, appends>>
  BY DEF Fil!OpenToCopy, Fil!At, Fil!Fixed, Fil!tail
<1>3. /\ pos = 0 /\ off = 0 /\ out = <<>>
      /\ Source \in Seq(Bytes) /\ Dest \in Seq(Bytes) /\ <<>> \in Seq(Bytes)
      /\ to \in {"source", "dest"} /\ (program # "cp" => to = "dest")
      /\ Len(Source) \in Nat /\ Len(Dest) \in Nat /\ Len(<<>>) = 0 /\ appends \in Nat
  <2>1. pos = 0 /\ off = 0 /\ out = <<>> /\ appends \in Nat
    BY <1>1, <1>2 DEF FilTypeOK
  <2>2. Source \in Seq(Bytes) /\ Dest \in Seq(Bytes)
    BY <1>1 DEF FilTypeOK
  <2>3. to \in {"source", "dest"} /\ (program # "cp" => to = "dest")
    BY <1>1, <1>2 DEF FilTypeOK, Fil!Copies
  <2> QED
    BY <2>1, <2>2, <2>3
<1>4. /\ file' = [source |-> Source', dest |-> Dest']
      /\ program \in {"tee -a", "mycat"} => Source' = Source /\ Dest' = Dest
      /\ program = "tee" => Source' = Source /\ Dest' = <<>>
      /\ program = "cp" /\ to = "dest" => Source' = Source /\ Dest' = <<>>
      /\ program = "cp" /\ to = "source" => Source' = <<>> /\ Dest' = Dest
  <2>1. CASE program \in {"cp", "tee"}
    <3>1. file' = [file EXCEPT ![to] = <<>>]
      BY <2>1 DEF Fil!OpenToCopy
    <3> QED
      BY <1>1, <1>3, <2>1, <3>1, FileIs
  <2>2. CASE program \in {"tee -a", "mycat"}
    <3>1. file' = file
      BY <2>2 DEF Fil!OpenToCopy
    <3> QED
      BY <1>1, <2>2, <3>1 DEF FilTypeOK, Source, Dest
  <2> QED
    BY <1>2, <2>1, <2>2
<1>5. Source' \in Seq(Bytes) /\ Dest' \in Seq(Bytes) /\ Len(Source') \in Nat
  BY <1>2, <1>3, <1>4
<1>6. FilTypeOK'
  BY <1>1, <1>2, <1>4, <1>5 DEF FilTypeOK, Readers, Fil!Copies
<1>7. ReadInv' /\ CpInv'
  <2>1. ReadInv'
    <3>1. ftPc' = "read" /\ pos' <= Len(Source') /\ off' = pos'
      <4>1. ftPc' = "read" /\ pos' = 0 /\ off' = 0
        BY <1>2, <1>3
      <4>2. 0 <= Len(Source')
        BY <1>5
      <4> QED
        BY <4>1, <4>2
    <3> QED
      BY <3>1 DEF ReadInv
  <2>2. program = "cp" /\ to = "dest" => /\ Len(Dest') <= off /\ off = 0
                                          /\ 1..Len(Dest') = {} /\ 1..off = {}
    BY <1>3, <1>4
  <2>3. program = "cp" /\ to = "source" => Len(Source') <= appends
    BY <1>3, <1>4
  <2> QED
    BY <1>2, <2>1, <2>2, <2>3 DEF CpInv
<1>8. MapInv' /\ TailInv'
  BY <1>2 DEF MapInv, TailInv
<1>9. OutInv' /\ TeeInv'
  <2>1. Len(out') = pos' /\ 1..Len(out') = {}
    <3>1. out' = <<>> /\ pos' = 0
      BY <1>2, <1>3
    <3>2. Len(out') = 0 /\ 1..0 = {}
      BY <3>1
    <3> QED
      BY <3>1, <3>2
  <2>2. program = "tee" => off' <= Len(Dest') /\ 1..off' = {}
    BY <1>2, <1>3, <1>4
  <2> QED
    BY <1>2, <2>1, <2>2 DEF OutInv, TeeInv
<1>10. AddInv'
  <2>1. program = "tee -a" => UNCHANGED <<Places, Dest>>
    BY <1>2, <1>4 DEF Places
  <2> QED
    BY <1>1, <1>2, <2>1 DEF AddInv
<1> QED
  BY <1>6, <1>7, <1>8, <1>9, <1>10 DEF FilInv

LEMMA FilReadStep ==
  ASSUME FilInv, Fil!Read
  PROVE  FilInv'
<1>1. /\ FilTypeOK /\ ReadInv /\ CpInv /\ OutInv /\ TeeInv /\ AddInv /\ TailInv
  BY DEF FilInv
<1>2. PICK n \in Nat :
        /\ pos' = pos + n /\ pos' <= Len(Source) /\ Len(ftBuf') = n
        /\ \A k \in 1..n : ftBuf'[k] = Source[pos + k]
        /\ ftBuf' \in Seq(Bytes)
        /\ ftPc' = IF n = 0 THEN "ended" ELSE "write"
        /\ n = 0 => pos = Len(Source)
  BY <1>1, ReadIs
<1>3. /\ ftPc = "read" /\ program \in Readers
      /\ UNCHANGED <<program, file, to, off, out, need, counted, size, appends>>
  BY <1>1, ReadIs
<1>4. Source' = Source /\ Dest' = Dest
  BY <1>3 DEF Source, Dest
<1>5. /\ pos \in Nat /\ off \in Nat /\ Len(Source) \in Nat /\ Len(Dest) \in Nat
      /\ out \in Seq(Bytes) /\ Len(out) \in Nat /\ pos' \in Nat
  BY <1>1, <1>2 DEF FilTypeOK
<1>6. /\ ftPc' \in {"ended", "write"}
      /\ ftPc' = "ended" => pos' = pos /\ pos' = Len(Source) /\ n = 0
      /\ pos' <= Len(Source) /\ Len(ftBuf') <= pos' /\ Len(ftBuf') \in Nat
  BY <1>2, <1>5
<1>7. FilTypeOK'
  BY <1>1, <1>2, <1>3, <1>4, <1>5, <1>6 DEF FilTypeOK
<1>8. ReadInv'
  <2>1. \A k \in 1..n : \A m \in 1..Len(Source) :
          m + n = pos + n + k => Source[m] = ftBuf'[k]
    <3>1. \A k \in 1..n : \A m \in Nat : m + n = pos + n + k => m = pos + k
      <4>1. \A a, b, c, d \in Nat : a + b = c + b + d => a = c + d
        OBVIOUS
      <4>2. \A k \in 1..n : k \in Nat
        OBVIOUS
      <4> QED
        BY <1>5, <4>1, <4>2
    <3>2. \A m \in 1..Len(Source) : m \in Nat
      BY <1>5
    <3> QED
      BY <1>2, <3>1, <3>2
  <2>2. \A k \in 1..Len(ftBuf') : \A m \in 1..Len(Source) :
          m + Len(ftBuf') = pos' + k => Source[m] = ftBuf'[k]
    BY <1>2, <2>1
  <2>3. program \in {"cp", "tee", "tee -a"} => off = pos
    BY <1>1, <1>3 DEF ReadInv
  <2>4. off = pos => off + Len(ftBuf') = pos'
    BY <1>2
  <2> QED
    BY <1>3, <1>4, <1>6, <2>2, <2>3, <2>4 DEF ReadInv
<1>9. CpInv'
  BY <1>1, <1>3, <1>4, <1>6 DEF CpInv
<1>10. MapInv'
  BY <1>3 DEF MapInv, Readers
<1>11. OutInv'
  <2>1. Len(out) = pos => Len(out) + Len(ftBuf') = pos'
    BY <1>2
  <2> QED
    BY <1>1, <1>3, <1>4, <1>6, <2>1 DEF OutInv
<1>12. TeeInv'
  BY <1>1, <1>3, <1>4, <1>6 DEF TeeInv
<1>13. AddInv'
  <2>1. Places' = Places
    BY <1>3, <1>4 DEF Places
  <2> QED
    BY <1>1, <1>3, <1>4, <2>1 DEF AddInv
<1>14. TailInv'
  <2>1. SUFFICES ASSUME program = "tail"
                 PROVE  size <= Len(Source) /\ Starts' # {}
    BY <1>3, <1>4, <1>6 DEF TailInv
  <2>2. PICK s : s \in Starts
    BY <1>1, <1>3, <2>1 DEF TailInv
  <2>3. s \in Nat /\ s \in 0..size /\ s + Len(out) = pos
    BY <1>1, <1>3, <2>2 DEF Starts, FilTypeOK
  <2>4. /\ ftPc' = "write" => s + Len(out) + Len(ftBuf') = pos'
        /\ ftPc' # "write" => s + Len(out) = pos'
    <3>1. s + Len(out) + Len(ftBuf') = pos'
      BY <1>2, <2>3
    <3> QED
      BY <1>6, <2>3, <3>1
  <2>5. Behind' = Behind
    BY <1>3, <1>4 DEF Behind
  <2>6. s \in Starts'
    BY <1>3, <1>4, <2>2, <2>4, <2>5 DEF Starts
  <2> QED
    BY <1>1, <1>3, <2>1, <2>6 DEF TailInv
<1> QED
  BY <1>7, <1>8, <1>9, <1>10, <1>11, <1>12, <1>13, <1>14 DEF FilInv

LEMMA BufferIs ==
  ASSUME FilTypeOK, ReadInv, ftPc \in {"write", "print"},
         NEW b \in Nat, b + Len(ftBuf) = pos
  PROVE  \A j \in 1..Len(ftBuf) : b + j \in 1..Len(Source) /\ Source[b + j] = ftBuf[j]
<1>1. /\ pos <= Len(Source) /\ pos \in Nat
      /\ \A k \in 1..Len(ftBuf) : \A n \in 1..Len(Source) :
           n + Len(ftBuf) = pos + k => Source[n] = ftBuf[k]
  BY DEF ReadInv, FilTypeOK
<1>2. PICK l \in Nat : l = Len(ftBuf)
  BY DEF FilTypeOK
<1>3. PICK s \in Nat : s = Len(Source)
  BY DEF FilTypeOK
<1>4. b + l <= s
  BY <1>1, <1>2, <1>3
<1>5. \A j \in 1..l : b + j \in 1..s /\ b + j + l = b + l + j
  BY <1>4
<1> QED
  BY <1>1, <1>2, <1>3, <1>5

LEMMA TwoParts ==
  ASSUME NEW a \in Nat, NEW b \in Nat
  PROVE  /\ \A k \in 1..(a + b) : k \in 1..a \/ \E j \in 1..b : k = a + j
         /\ \A k \in 1..a : k \in 1..(a + b)
         /\ \A j \in 1..b : a + j \in 1..(a + b)
<1>1. \A k \in 1..(a + b) : k > a => k - a \in 1..b /\ k = a + (k - a)
  OBVIOUS
<1> QED
  BY <1>1

LEMMA Concatenated ==
  ASSUME NEW a \in Seq(Bytes), NEW b \in Seq(Bytes), NEW c, c = a \o b
  PROVE  /\ c \in Seq(Bytes) /\ Len(c) = Len(a) + Len(b)
         /\ \A k \in 1..Len(a) : c[k] = a[k]
         /\ \A j \in 1..Len(b) : c[Len(a) + j] = b[j]
  OBVIOUS

LEMMA CpWritesStep ==
  ASSUME FilInv, Fil!CpWrites
  PROVE  FilInv'
<1>1. FilTypeOK /\ ReadInv /\ CpInv
  BY DEF FilInv
<1>2. /\ program = "cp" /\ ftPc = "write" /\ ftPc' = "read"
      /\ UNCHANGED <<program, to, pos, ftBuf, out, need, counted, size, appends>>
      /\ off' = off + Len(ftBuf)
      /\ file' = IF Fil!all_zeros THEN file
                   ELSE [file EXCEPT ![to] = Fil!Overwrite(file[to], off, ftBuf)]
  BY DEF Fil!CpWrites, Fil!At, Fil!Fixed, Fil!tail
<1>3. /\ pos \in Nat /\ off \in Nat /\ appends \in Nat
      /\ ftBuf \in Seq(Bytes) /\ Len(ftBuf) \in Nat
      /\ Source \in Seq(Bytes) /\ Dest \in Seq(Bytes) /\ to \in {"source", "dest"}
  BY <1>1 DEF FilTypeOK
<1>4. Len(Source) \in Nat /\ Len(Dest) \in Nat
  BY <1>3
<1>5. off + Len(ftBuf) = pos /\ off' = pos /\ pos <= Len(Source) /\ off <= pos
  <2>1. off + Len(ftBuf) = pos /\ pos <= Len(Source)
    BY <1>1, <1>2 DEF ReadInv
  <2> QED
    BY <1>2, <1>3, <2>1
<1>6. \A j \in 1..Len(ftBuf) : off + j \in 1..Len(Source) /\ Source[off + j] = ftBuf[j]
  BY <1>1, <1>2, <1>3, <1>5, BufferIs
<1>7. \A k \in 1..pos : k \in 1..off \/ \E j \in 1..Len(ftBuf) : k = off + j
  BY <1>3, <1>5, TwoParts
<1>8. PICK w : w = Fil!Overwrite(file[to], off, ftBuf)
  OBVIOUS
<1>9. /\ to = "dest" => file[to] = Dest
      /\ to = "source" => file[to] = Source
  BY DEF Source, Dest
<1>10. /\ file' = [source |-> Source', dest |-> Dest']
       /\ Fil!all_zeros => Source' = Source /\ Dest' = Dest
       /\ ~Fil!all_zeros /\ to = "dest" => Source' = Source /\ Dest' = w
       /\ ~Fil!all_zeros /\ to = "source" => Source' = w /\ Dest' = Dest
  <2>1. CASE Fil!all_zeros
    BY <1>1, <1>2, <2>1 DEF FilTypeOK, Source, Dest
  <2>2. CASE ~Fil!all_zeros
    <3>1. file' = [file EXCEPT ![to] = w]
      BY <1>2, <1>8, <2>2
    <3> QED
      BY <1>1, <2>2, <3>1, FileIs
  <2> QED
    BY <2>1, <2>2
<1>11. w \in Seq(Bytes)
  BY <1>3, <1>8, <1>9, OverwriteIs
<1>12. /\ Source' \in Seq(Bytes) /\ Dest' \in Seq(Bytes) /\ Len(Source') = Len(Source)
       /\ to = "dest" => Source' = Source
  <2>1. to = "source" => Len(w) = Len(Source)
    BY <1>3, <1>5, <1>8, <1>9, OverwriteIs
  <2> QED
    BY <1>3, <1>10, <1>11, <2>1
<1>13. FilTypeOK'
  BY <1>1, <1>2, <1>3, <1>5, <1>10, <1>12 DEF FilTypeOK, Readers
<1>14. ReadInv'
  BY <1>2, <1>5, <1>12 DEF ReadInv
<1>15. CpInv'
  <2>1. to = "source" => Len(Source') <= appends'
    BY <1>1, <1>2, <1>12 DEF CpInv
  <2>2. ASSUME to = "dest"
        PROVE  /\ Len(Dest') <= off'
               /\ \A k \in 1..Len(Dest') : Dest'[k] = Source[k]
               /\ \A k \in 1..off' : Len(Dest') < k => Source[k] = Zero
    <3>1. /\ Len(Dest) <= off
          /\ \A k \in 1..Len(Dest) : Dest[k] = Source[k]
          /\ \A k \in 1..off : Len(Dest) < k => Source[k] = Zero
      BY <1>1, <1>2, <2>2 DEF CpInv
    <3>2. CASE Fil!all_zeros
      <4>1. Dest' = Dest
        BY <1>10, <3>2
      <4>2. \A j \in 1..Len(ftBuf) : Source[off + j] = Zero
        BY <1>3, <1>6, <3>2 DEF Fil!all_zeros
      <4>3. Len(Dest) <= pos
        BY <1>3, <1>4, <1>5, <3>1
      <4> QED
        BY <1>5, <1>7, <3>1, <4>1, <4>2, <4>3
    <3>3. CASE ~Fil!all_zeros
      <4>1. Dest' = w
        BY <1>10, <2>2, <3>3
      <4>2. Len(Dest) <= off + Len(ftBuf)
        BY <1>3, <1>4, <3>1
      <4>3. /\ Len(w) = off + Len(ftBuf)
            /\ \A k \in 1..Len(ftBuf) : w[off + k] = ftBuf[k]
            /\ \A k \in 1..Len(Dest) : k <= off => w[k] = Dest[k]
            /\ \A k \in 1..off : Len(Dest) < k => w[k] = Zero
        BY <1>3, <1>8, <1>9, <2>2, <4>2, OverwriteIs
      <4>4. \A k \in 1..off : w[k] = Source[k]
        <5>1. \A k \in 1..off : k <= off /\ (k \in 1..Len(Dest) \/ Len(Dest) < k)
          BY <1>3, <1>4
        <5> QED
          BY <3>1, <4>3, <5>1
      <4>5. \A k \in 1..pos : w[k] = Source[k]
        BY <1>6, <1>7, <4>3, <4>4
      <4>6. Len(Dest') = pos /\ \A k \in 1..off' : ~(Len(Dest') < k)
        BY <1>3, <1>5, <4>1, <4>3
      <4> QED
        BY <1>3, <1>5, <4>1, <4>5, <4>6
    <3> QED
      BY <3>2, <3>3
  <2> QED
    BY <1>2, <1>12, <2>1, <2>2 DEF CpInv
<1>16. MapInv' /\ OutInv' /\ TeeInv' /\ AddInv' /\ TailInv'
  BY <1>2 DEF MapInv, OutInv, TeeInv, AddInv, TailInv
<1> QED
  BY <1>13, <1>14, <1>15, <1>16 DEF FilInv

LEMMA TeeWritesStep ==
  ASSUME FilInv, Fil!TeeWrites
  PROVE  FilInv'
<1>1. FilTypeOK /\ ReadInv /\ OutInv /\ TeeInv /\ AddInv
  BY DEF FilInv
<1>2. /\ program \in {"tee", "tee -a"} /\ ftPc = "write" /\ ftPc' = "print"
      /\ UNCHANGED <<program, to, pos, ftBuf, out, need, counted, size, appends>>
      /\ off' = off + Len(ftBuf) /\ to = "dest"
  BY <1>1 DEF Fil!TeeWrites, Fil!At, Fil!Fixed, Fil!tail, Fil!Tees, FilTypeOK, Fil!Copies
<1>3. PICK w : /\ file' = [file EXCEPT ![to] = w]
               /\ program = "tee -a" => w = Dest \o ftBuf
               /\ program = "tee" => w = Fil!Overwrite(Dest, off, ftBuf)
  BY <1>2 DEF Fil!TeeWrites, Dest
<1>4. /\ pos \in Nat /\ off \in Nat /\ appends \in Nat
      /\ ftBuf \in Seq(Bytes) /\ Len(ftBuf) \in Nat
      /\ Source \in Seq(Bytes) /\ Dest \in Seq(Bytes) /\ Len(Dest) \in Nat
      /\ Len(Source) \in Nat
  BY <1>1 DEF FilTypeOK
<1>5. off + Len(ftBuf) = pos /\ off' = pos /\ pos <= Len(Source)
  <2>1. off + Len(ftBuf) = pos /\ pos <= Len(Source)
    BY <1>1, <1>2 DEF ReadInv
  <2> QED
    BY <1>2, <2>1
<1>6. \A j \in 1..Len(ftBuf) : off + j \in 1..Len(Source) /\ Source[off + j] = ftBuf[j]
  BY <1>1, <1>2, <1>4, <1>5, BufferIs
<1>7. /\ \A k \in 1..pos : k \in 1..off \/ \E j \in 1..Len(ftBuf) : k = off + j
      /\ \A k \in 1..off : k \in 1..pos
      /\ \A j \in 1..Len(ftBuf) : off + j \in 1..pos
  BY <1>4, <1>5, TwoParts
<1>8. /\ file' = [source |-> Source', dest |-> Dest'] /\ Source' = Source /\ Dest' = w
      /\ w \in Seq(Bytes)
  <2>1. w \in Seq(Bytes)
    <3>1. CASE program = "tee"
      BY <1>3, <1>4, <3>1, OverwriteIs
    <3>2. CASE program = "tee -a"
      <4>1. w = Dest \o ftBuf
        BY <1>3, <3>2
      <4> QED
        BY <1>4, <4>1, Concatenated, Zenon
    <3> QED
      BY <1>2, <3>1, <3>2
  <2> QED
    BY <1>1, <1>2, <1>3, <2>1, FileIs
<1>9. FilTypeOK'
  BY <1>1, <1>2, <1>4, <1>5, <1>8 DEF FilTypeOK, Fil!Tees
<1>10. ReadInv'
  BY <1>1, <1>2, <1>5, <1>8 DEF ReadInv
<1>11. OutInv'
  BY <1>1, <1>2, <1>8 DEF OutInv
<1>12. TeeInv'
  <2>1. SUFFICES ASSUME program = "tee"
                 PROVE  pos <= Len(w) /\ \A k \in 1..pos : w[k] = Source[k]
    BY <1>2, <1>5, <1>8 DEF TeeInv
  <2>2. off <= Len(Dest) /\ \A k \in 1..off : Dest[k] = Source[k]
    BY <1>1, <1>2, <2>1 DEF TeeInv
  <2>3. /\ Len(w) \in Nat
        /\ off + Len(ftBuf) <= Len(Dest) => Len(w) = Len(Dest)
        /\ Len(Dest) <= off + Len(ftBuf) => Len(w) = off + Len(ftBuf)
        /\ \A k \in 1..Len(ftBuf) : w[off + k] = ftBuf[k]
        /\ \A k \in 1..Len(Dest) : k <= off => w[k] = Dest[k]
    BY <1>3, <1>4, <2>1, OverwriteIs
  <2>4. pos <= Len(w)
    <3>1. \A a, b, c \in Nat : (a <= b => c = b) /\ (b <= a => c = a) => a <= c
      OBVIOUS
    <3> QED
      BY <1>4, <1>5, <2>3, <3>1
  <2>5. \A k \in 1..off : k \in 1..Len(Dest) /\ k <= off
    BY <1>4, <2>2
  <2>6. \A k \in 1..off : w[k] = Source[k]
    BY <2>2, <2>3, <2>5
  <2> QED
    BY <1>6, <1>7, <2>3, <2>4, <2>6
<1>13. AddInv'
  <2>1. SUFFICES ASSUME program = "tee -a"
                 PROVE  /\ Len(w) = Len(Old) + pos + appends
                        /\ \A k \in 1..Len(Old) : w[k] = Old[k]
                        /\ Places' # {}
    BY <1>2, <1>5, <1>8 DEF AddInv
  <2>2. PICK o \in Nat : o = Len(Old)
    <3>1. Old \in Seq({Zero, Letter, Newline, Other})
      BY ProgramsAssumption
    <3> QED
      BY <3>1
  <2>3. /\ Len(Dest) = o + off + appends
        /\ \A k \in 1..o : Dest[k] = Old[k]
        /\ Places # {}
    BY <1>1, <2>1, <2>2 DEF AddInv
  <2>4. /\ Len(w) = Len(Dest) + Len(ftBuf)
        /\ \A k \in 1..Len(Dest) : w[k] = Dest[k]
        /\ \A j \in 1..Len(ftBuf) : w[Len(Dest) + j] = ftBuf[j]
    <3>1. Dest \in Seq(Bytes) /\ ftBuf \in Seq(Bytes) /\ w = Dest \o ftBuf
      BY <1>3, <1>4, <2>1
    <3> QED
      BY <3>1, Concatenated
  <2>5. PICK d \in Nat : d = Len(Dest)
    BY <1>4
  <2>6. PICK b \in Nat : b = Len(ftBuf)
    BY <1>4
  <2>7. d + b = o + pos + appends
    <3>1. \A x, y, z, u \in Nat : (x + y + z) + u = x + (y + u) + z
      OBVIOUS
    <3> QED
      <4>1. d = o + off + appends /\ off + b = pos
        BY <1>5, <2>3, <2>5, <2>6
      <4>2. o \in Nat /\ off \in Nat /\ appends \in Nat /\ b \in Nat
        BY <1>4, <2>2, <2>6
      <4>3. (o + off + appends) + b = o + (off + b) + appends
        BY <3>1, <4>2
      <4> QED
        BY <4>1, <4>3
  <2>8. \A k \in 1..o : k \in 1..d
    BY <1>4, <2>3, <2>5
  <2>9. PICK at : at \in Places
    BY <2>3
  <2>10. /\ at \in [1..off -> (o + 1)..d]
         /\ \A j, k \in 1..off : j < k => at[j] < at[k]
         /\ \A k \in 1..off : Dest[at[k]] = Source[k]
         /\ \A n \in (o + 1)..d : (\A k \in 1..off : at[k] # n) => Dest[n] = Other
    BY <2>2, <2>5, <2>9 DEF Places
  <2>11. /\ \A n \in (o + 1)..d : n \in 1..d /\ n <= d /\ n \in (o + 1)..(d + b)
         /\ \A j \in 1..b : d + j \in (o + 1)..(d + b)
         /\ \A n \in (o + 1)..(d + b) : n \in (o + 1)..d \/ \E j \in 1..b : n = d + j
    <3>1. o <= d
      BY <1>4, <2>3, <2>5
    <3>2. \A n \in (o + 1)..d : n \in 1..d /\ n <= d /\ n \in (o + 1)..(d + b)
      OBVIOUS
    <3>3. \A j \in 1..b : d + j \in (o + 1)..(d + b)
      BY <3>1
    <3>4. \A n \in (o + 1)..(d + b) : n \in 1..(d + b) /\ (n \in 1..d => n \in (o + 1)..d)
      OBVIOUS
    <3> QED
      BY <3>2, <3>3, <3>4, TwoParts
  <2>12. PICK new \in [1..pos -> (o + 1)..(d + b)] :
           /\ \A k \in 1..off : new[k] = at[k]
           /\ \A j \in 1..b : new[off + j] = d + j
    <3> DEFINE h == [k \in 1..(off + b) |-> IF k <= off THEN at[k] ELSE d + (k - off)]
    <3>1. \A k \in 1..(off + b) : /\ k <= off => k \in 1..off
                                  /\ ~(k <= off) => d + (k - off) \in (o + 1)..(d + b)
      <4>1. \A k \in 1..(off + b) : ~(k <= off) => k - off \in 1..b
        BY <1>4
      <4> QED
        <5>1. \A k \in 1..(off + b) : k <= off => k \in 1..off
          BY <1>4
        <5>2. \A k \in 1..(off + b) : ~(k <= off) => d + (k - off) \in (o + 1)..(d + b)
          BY <2>11, <4>1
        <5> QED
          BY <5>1, <5>2
    <3>2. \A k \in 1..off : at[k] \in (o + 1)..(d + b)
      BY <2>10, <2>11
    <3>3. h \in [1..(off + b) -> (o + 1)..(d + b)]
      BY <3>1, <3>2
    <3>4. \A k \in 1..off : h[k] = at[k]
      <4>1. \A k \in 1..off : k \in 1..(off + b) /\ k <= off
        BY <1>4
      <4> QED
        BY <4>1
    <3>5. \A j \in 1..b : h[off + j] = d + j
      <4>1. \A j \in 1..b : /\ off + j \in 1..(off + b) /\ ~(off + j <= off)
                            /\ (off + j) - off = j
        BY <1>4
      <4> QED
        BY <4>1
    <3> HIDE DEF h
    <3>6. off + b = pos
      BY <1>5, <2>6
    <3> QED
      BY <3>3, <3>4, <3>5, <3>6
  <2>13. \A k \in 1..pos : w[new[k]] = Source[k]
    <3>1. \A k \in 1..off : w[new[k]] = Source[k]
      BY <2>4, <2>5, <2>10, <2>11, <2>12
    <3>2. \A j \in 1..b : w[new[off + j]] = Source[off + j]
      BY <1>6, <2>4, <2>5, <2>6, <2>12
    <3> QED
      BY <1>7, <2>6, <3>1, <3>2
  <2>14. ASSUME NEW j \in 1..pos, NEW k \in 1..pos, j < k
         PROVE  new[j] < new[k]
    <3>1. CASE k \in 1..off
      <4>1. j \in 1..off
        BY <1>4, <1>5, <2>14, <3>1
      <4> QED
        BY <2>10, <2>12, <2>14, <3>1, <4>1
    <3>2. CASE j \in 1..off /\ \E l \in 1..b : k = off + l
      <4>1. PICK l \in 1..b : k = off + l
        BY <3>2
      <4>2. new[j] \in (o + 1)..d /\ new[k] = d + l
        BY <2>10, <2>12, <3>2, <4>1
      <4>3. \A x \in (o + 1)..d : x < d + l
        OBVIOUS
      <4> QED
        BY <4>2, <4>3
    <3>3. CASE (\E m \in 1..b : j = off + m) /\ \E l \in 1..b : k = off + l
      <4>1. PICK m \in 1..b : j = off + m
        BY <3>3
      <4>2. PICK l \in 1..b : k = off + l
        BY <3>3
      <4>3. new[j] = d + m /\ new[k] = d + l
        BY <2>12, <4>1, <4>2
      <4>4. m < l
        BY <1>4, <2>14, <4>1, <4>2
      <4> QED
        BY <4>3, <4>4
    <3> QED
      BY <1>7, <2>6, <3>1, <3>2, <3>3
  <2>15. ASSUME NEW n \in (o + 1)..(d + b), \A k \in 1..pos : new[k] # n
         PROVE  w[n] = Other
    <3>1. ~ \E j \in 1..b : n = d + j
      BY <1>7, <2>6, <2>12, <2>15
    <3>2. n \in (o + 1)..d /\ n \in 1..d
      BY <2>11, <3>1
    <3>3. \A k \in 1..off : at[k] # n
      BY <1>7, <2>12, <2>15
    <3> QED
      BY <2>4, <2>5, <2>10, <3>2, <3>3
  <2>16. new \in Places'
    <3>1. Len(w) = d + b
      BY <2>4, <2>5, <2>6
    <3> QED
      BY <1>5, <1>8, <2>2, <2>12, <2>13, <2>14, <2>15, <3>1 DEF Places
  <2>17. Len(w) = Len(Old) + pos + appends
    BY <2>2, <2>4, <2>5, <2>6, <2>7
  <2>18. \A k \in 1..Len(Old) : w[k] = Old[k]
    BY <2>2, <2>3, <2>4, <2>5, <2>8
  <2> QED
    BY <2>16, <2>17, <2>18
<1>14. CpInv' /\ MapInv' /\ TailInv'
  BY <1>2 DEF CpInv, MapInv, TailInv
<1> QED
  BY <1>9, <1>10, <1>11, <1>12, <1>13, <1>14 DEF FilInv

LEMMA PrintsStep ==
  ASSUME FilInv, Fil!Prints
  PROVE  FilInv'
<1>1. FilTypeOK /\ ReadInv /\ OutInv /\ TeeInv /\ AddInv /\ TailInv
  BY DEF FilInv
<1>2. /\ \/ program \in {"tee", "tee -a"} /\ ftPc = "print"
         \/ program \in {"mycat", "tail"} /\ ftPc = "write"
      /\ ftPc' = "read" /\ out' = out \o ftBuf
      /\ UNCHANGED <<program, to, appends, file, pos, off, ftBuf, need, counted, size>>
  BY DEF Fil!Prints, Fil!At, Fil!Fixed, Fil!tail, Fil!Tees
<1>3. /\ pos \in Nat /\ ftBuf \in Seq(Bytes) /\ Len(ftBuf) \in Nat
      /\ out \in Seq(Bytes) /\ Len(out) \in Nat /\ Len(Source) \in Nat
  BY <1>1 DEF FilTypeOK
<1>4. Source' = Source /\ Dest' = Dest
  BY <1>2 DEF Source, Dest
<1>5. /\ out' \in Seq(Bytes) /\ Len(out') = Len(out) + Len(ftBuf)
      /\ \A k \in 1..Len(out) : out'[k] = out[k]
      /\ \A j \in 1..Len(ftBuf) : out'[Len(out) + j] = ftBuf[j]
  <2>1. out \in Seq(Bytes) /\ ftBuf \in Seq(Bytes) /\ out' = out \o ftBuf
    BY <1>2, <1>3
  <2> QED
    BY <2>1, Concatenated
<1>6. \A k \in 1..Len(out') : k \in 1..Len(out) \/ \E j \in 1..Len(ftBuf) : k = Len(out) + j
  <2>1. PICK l \in Nat : l = Len(out)
    BY <1>3
  <2>2. PICK m \in Nat : m = Len(ftBuf)
    BY <1>3
  <2>3. Len(out') = l + m
    BY <1>5, <2>1, <2>2
  <2> QED
    <3>1. \A k \in 1..(l + m) : k \in 1..l \/ \E j \in 1..m : k = l + j
      BY <2>1, <2>2, TwoParts
    <3> QED
      BY <2>1, <2>2, <2>3, <3>1
<1>7. FilTypeOK'
  BY <1>1, <1>2, <1>4, <1>5 DEF FilTypeOK, Readers
<1>8. ReadInv'
  BY <1>1, <1>2, <1>4 DEF ReadInv
<1>9. OutInv'
  <2>1. SUFFICES ASSUME program \in {"mycat", "tee", "tee -a"}
                 PROVE  Len(out') = pos /\ \A k \in 1..Len(out') : out'[k] = Source[k]
    BY <1>2, <1>4 DEF OutInv
  <2>2. Len(out) + Len(ftBuf) = pos /\ \A k \in 1..Len(out) : out[k] = Source[k]
    BY <1>1, <1>2, <2>1 DEF OutInv
  <2>3. \A j \in 1..Len(ftBuf) : Source[Len(out) + j] = ftBuf[j]
    BY <1>1, <1>2, <1>3, <2>2, BufferIs
  <2>4. Len(out') = pos
    BY <1>5, <2>2
  <2>5. ASSUME NEW k \in 1..Len(out')
        PROVE  out'[k] = Source[k]
    <3>1. CASE k \in 1..Len(out)
      <4>1. out'[k] = out[k]
        BY <1>5, <3>1
      <4> QED
        BY <2>2, <3>1, <4>1
    <3>2. CASE \E j \in 1..Len(ftBuf) : k = Len(out) + j
      <4>1. PICK j \in 1..Len(ftBuf) : k = Len(out) + j
        BY <3>2
      <4>2. out'[Len(out) + j] = ftBuf[j]
        BY <1>5
      <4>3. Source[Len(out) + j] = ftBuf[j]
        BY <2>3
      <4> QED
        BY <4>1, <4>2, <4>3
    <3> QED
      BY <1>6, <3>1, <3>2
  <2> QED
    BY <2>4, <2>5
<1>10. TeeInv'
  BY <1>1, <1>2, <1>4 DEF TeeInv
<1>11. AddInv'
  <2>1. Places' = Places
    BY <1>2, <1>4 DEF Places
  <2> QED
    BY <1>1, <1>2, <1>4, <2>1 DEF AddInv
<1>12. TailInv'
  <2>1. SUFFICES ASSUME program = "tail"
                 PROVE  size <= Len(Source) /\ Starts' # {}
    BY <1>2, <1>4 DEF TailInv
  <2>2. size <= Len(Source)
    BY <1>1, <1>2, <2>1 DEF TailInv
  <2>3. PICK s : s \in Starts
    BY <1>1, <1>2, <2>1 DEF TailInv
  <2>4. /\ s \in Nat /\ s \in 0..size /\ s + Len(out) + Len(ftBuf) = pos
        /\ \A k \in 1..Len(out) : Source[s + k] = out[k]
    BY <1>1, <1>2, <2>1, <2>3 DEF Starts, FilTypeOK
  <2>5. PICK b \in Nat : b = s + Len(out)
    BY <1>3, <2>4
  <2>6. \A j \in 1..Len(ftBuf) : Source[b + j] = ftBuf[j]
    BY <1>1, <1>2, <2>4, <2>5, BufferIs
  <2>7. \A j \in 1..Len(ftBuf) : s + (Len(out) + j) = b + j
    BY <1>3, <2>4, <2>5
  <2>8. \A k \in 1..Len(out') : Source[s + k] = out'[k]
    <3>1. \A k \in 1..Len(out) : Source[s + k] = out'[k]
      BY <1>5, <2>4
    <3>2. \A j \in 1..Len(ftBuf) : Source[s + (Len(out) + j)] = out'[Len(out) + j]
      BY <1>5, <2>6, <2>7
    <3> QED
      BY <1>6, <3>1, <3>2
  <2>9. s + Len(out') = pos
    <3>1. s + (Len(out) + Len(ftBuf)) = s + Len(out) + Len(ftBuf)
      BY <1>3, <2>4
    <3> QED
      BY <1>5, <2>4, <3>1
  <2>10. Behind' = Behind
    BY <1>2, <1>4 DEF Behind
  <2>11. s \in Starts'
    BY <1>2, <1>4, <2>3, <2>8, <2>9, <2>10 DEF Starts
  <2> QED
    BY <2>2, <2>11
<1>13. CpInv' /\ MapInv'
  BY <1>2 DEF CpInv, MapInv
<1> QED
  BY <1>7, <1>8, <1>9, <1>10, <1>11, <1>12, <1>13 DEF FilInv

LEMMA CountsAgree ==
  ASSUME NEW S
  PROVE  Fil!Cardinality(S) = Cardinality(S)
BY DEF Fil!Cardinality, Cardinality

LEMMA BehindIs ==
  ASSUME FilTypeOK
  PROVE  \A s \in 0..size : /\ Behind[s] = {k \in (s + 1)..size : Source[k] = Newline}
                            /\ Behind[s] \subseteq 1..size
                            /\ IsFiniteSet(Behind[s]) /\ Cardinality(Behind[s]) \in Nat
<1>1. size \in Nat
  BY DEF FilTypeOK
<1>2. \A s \in 0..size : Behind[s] = {k \in (s + 1)..size : Source[k] = Newline}
  BY DEF Behind
<1>3. \A s \in 0..size : \A k \in (s + 1)..size : k \in 1..size
  BY <1>1
<1>4. \A s \in 0..size : Behind[s] \in SUBSET (1..size)
  BY <1>2, <1>3
<1>5. IsFiniteSet(1..size)
  BY <1>1, FS_Interval
<1>6. \A s \in 0..size : IsFiniteSet(Behind[s])
  BY <1>4, <1>5, FS_Subset
<1> QED
  BY <1>2, <1>4, <1>6, FS_CardinalityType

LEMMA TailOpensStep ==
  ASSUME FilInv, Fil!TailOpens
  PROVE  FilInv'
<1>1. FilTypeOK
  BY DEF FilInv
<1>2. /\ program = "tail" /\ ftPc = "start" /\ ftPc' = "back"
      /\ UNCHANGED <<program, to, appends, file, off, ftBuf, out, need, counted>>
      /\ size' = Len(Source) /\ pos' = Len(Source)
  BY DEF Fil!TailOpens, Fil!At, Fil!Fixed, Fil!tail, Source
<1>3. Source' = Source /\ Dest' = Dest
  BY <1>2 DEF Source, Dest
<1>4. Len(Source) \in Nat /\ need \in Nat /\ out = <<>> /\ counted = 0
  BY <1>1, <1>2 DEF FilTypeOK
<1>5. FilTypeOK'
  BY <1>1, <1>2, <1>3, <1>4 DEF FilTypeOK
<1>6. ReadInv'
  BY <1>2 DEF ReadInv
<1>7. TailInv'
  <2>1. PICK l \in Nat : l = Len(Source)
    BY <1>4
  <2>2. size' = l /\ pos' = l
    BY <1>2, <2>1
  <2>3. Behind'[l] = {}
    <3>1. Behind' = [s \in 0..l |-> {k \in (s + 1)..l : Source[k] = Newline}]
      BY <1>3, <2>2 DEF Behind
    <3>2. l \in 0..l /\ (l + 1)..l = {}
      OBVIOUS
    <3> QED
      BY <3>1, <3>2
  <2>4. Cardinality(Behind'[l]) = 0
    BY <2>3, FS_EmptySet
  <2>5. size' <= Len(Source') /\ pos' <= size'
    BY <1>3, <2>1, <2>2
  <2>6. counted' = 0 /\ counted' <= need' /\ out' = <<>>
    BY <1>2, <1>4
  <2> QED
    BY <1>2, <2>2, <2>4, <2>5, <2>6 DEF TailInv
<1>8. CpInv' /\ MapInv' /\ OutInv' /\ TeeInv' /\ AddInv'
  BY <1>2 DEF CpInv, MapInv, OutInv, TeeInv, AddInv
<1> QED
  BY <1>5, <1>6, <1>7, <1>8 DEF FilInv

LEMMA TailGoesBackStep ==
  ASSUME FilInv, Fil!TailGoesBack
  PROVE  FilInv'
<1>1. FilTypeOK /\ TailInv
  BY DEF FilInv
<1>2. /\ program = "tail" /\ ftPc = "back"
      /\ UNCHANGED <<program, to, appends, file, off, ftBuf, out, need, size>>
  BY DEF Fil!TailGoesBack, Fil!At, Fil!Fixed, Fil!tail
<1>3. Source' = Source /\ Dest' = Dest
  BY <1>2 DEF Source, Dest
<1>4. /\ pos \in Nat /\ size \in Nat /\ need \in Nat /\ Len(Source) \in Nat
      /\ counted \in Nat
  BY <1>1 DEF FilTypeOK
<1>5. /\ size <= Len(Source) /\ pos <= size /\ counted = Cardinality(Behind[pos])
      /\ counted <= need /\ out = <<>>
  BY <1>1, <1>2 DEF TailInv
<1>6. PICK lo \in Nat : /\ lo = IF pos < BUF_SIZE THEN 0 ELSE pos - BUF_SIZE
                        /\ lo <= pos
  <2>1. BUF_SIZE \in Nat
    BY ProgramsAssumption
  <2>2. \A x, y \in Nat : x < y \/ (x - y \in Nat /\ x - y <= x)
    OBVIOUS
  <2>3. \A x \in Nat : 0 <= x /\ 0 \in Nat
    OBVIOUS
  <2>4. CASE pos < BUF_SIZE
    BY <1>4, <2>3, <2>4
  <2>5. CASE ~(pos < BUF_SIZE)
    BY <1>4, <2>1, <2>2, <2>5
  <2> QED
    BY <2>4, <2>5
<1>7. PICK lines2 : lines2 = {k \in (lo + 1)..pos : Source[k] = Newline}
  OBVIOUS
<1>8. PICK enough : enough = {k \in lines2 :
                       counted + Cardinality({l \in lines2 : l >= k}) = need + 1}
  OBVIOUS
<1>9. /\ pos' \in IF enough = {} THEN {lo} ELSE enough
      /\ counted' = counted + Cardinality(lines2)
      /\ ftPc' = IF enough # {} \/ lo = 0 THEN "read" ELSE "back"
  <2>1. Fil!NewlinesIn(file["source"], lo + 1, pos) = lines2
    BY <1>7 DEF Fil!NewlinesIn, Source
  <2>2. PICK found2 :
          found2 = {k \in lines2 :
                      counted + Fil!Cardinality({l \in lines2 : l >= k}) = need + 1}
    OBVIOUS
  <2>3. found2 = enough
    BY <1>8, <2>2, CountsAgree
  <2>4. Fil!Cardinality(lines2) = Cardinality(lines2)
    BY CountsAgree
  <2>5. /\ pos' \in IF found2 = {} THEN {lo} ELSE found2
        /\ counted' = counted + Fil!Cardinality(lines2)
        /\ ftPc' = IF found2 # {} \/ lo = 0 THEN "read" ELSE "back"
    <3>1. lo = IF pos < BUF_SIZE THEN 0 ELSE pos - BUF_SIZE
      BY <1>6
    <3>2. counted' = counted + Fil!Cardinality(lines2)
      BY <2>1, <3>1 DEF Fil!TailGoesBack
    <3>3. pos' \in IF found2 = {} THEN {lo} ELSE found2
      BY <2>1, <2>2, <3>1, Zenon DEF Fil!TailGoesBack
    <3>4. ftPc' = IF found2 # {} \/ lo = 0 THEN "read" ELSE "back"
      BY <2>1, <2>2, <3>1, Zenon DEF Fil!TailGoesBack
    <3> QED
      BY <3>2, <3>3, <3>4
  <2> QED
    BY <2>3, <2>4, <2>5
<1>10. lo \in 0..size /\ pos \in 0..size /\ lines2 \subseteq 1..size /\ lines2 \subseteq 1..pos
  BY <1>4, <1>5, <1>6, <1>7
<1>11. IsFiniteSet(lines2) /\ Cardinality(lines2) \in Nat
  <2>1. IsFiniteSet(1..size)
    BY <1>4, FS_Interval
  <2>2. IsFiniteSet(lines2)
    BY <1>10, <2>1, FS_Subset
  <2> QED
    BY <2>2, FS_CardinalityType
<1>12. /\ IsFiniteSet(Behind[pos]) /\ Cardinality(Behind[pos]) \in Nat
       /\ Behind[pos] = {k \in (pos + 1)..size : Source[k] = Newline}
       /\ Behind[lo] = {k \in (lo + 1)..size : Source[k] = Newline}
  BY <1>1, <1>10, BehindIs
<1>13. \A T \in SUBSET lines2 :
         /\ Cardinality(T) \in Nat
         /\ Cardinality(T \cup Behind[pos]) = counted + Cardinality(T)
  <2>1. SUFFICES ASSUME NEW T \in SUBSET lines2
                 PROVE  /\ Cardinality(T) \in Nat
                        /\ Cardinality(T \cup Behind[pos]) = counted + Cardinality(T)
    OBVIOUS
  <2>2. IsFiniteSet(T) /\ Cardinality(T) \in Nat
    BY <1>11, FS_Subset, FS_CardinalityType
  <2>3. T \cap Behind[pos] = {}
    <3>1. \A k \in 1..pos : k \notin (pos + 1)..size
      BY <1>4
    <3> QED
      BY <1>10, <1>12, <3>1
  <2>4. Cardinality(T \cap Behind[pos]) = 0
    BY <2>3, FS_EmptySet
  <2>5. Cardinality(T \cup Behind[pos]) =
          Cardinality(T) + Cardinality(Behind[pos]) - Cardinality(T \cap Behind[pos])
    BY <1>12, <2>2, FS_Union
  <2> QED
    BY <1>4, <1>5, <1>12, <2>2, <2>4, <2>5
<1>14. Behind' = Behind
  BY <1>2, <1>3 DEF Behind
\* The line is found at which what is to be printed begins.
<1>15. CASE enough # {}
  <2>1. pos' \in enough /\ ftPc' = "read"
    BY <1>9, <1>15
  <2>2. PICK s \in Nat : s = pos' /\ s \in lines2 /\ s # 0 /\ s \in 0..size
    BY <1>4, <1>8, <1>10, <2>1
  <2>3. counted + Cardinality({l \in lines2 : l >= s}) = need + 1
    BY <1>8, <2>1, <2>2
  <2>4. {l \in lines2 : l >= s} \cup Behind[pos] = Behind[s] \cup {s} /\ s \notin Behind[s]
    <3>1. Behind[s] = {k \in (s + 1)..size : Source[k] = Newline}
      BY <1>1, <2>2, BehindIs
    <3>2. s \in (lo + 1)..pos /\ Source[s] = Newline
      BY <1>7, <2>2
    <3>3. \A k \in Nat : (k \in (lo + 1)..pos /\ k >= s) \/ k \in (pos + 1)..size
                           <=> k \in (s + 1)..size \/ k = s
      BY <1>4, <1>5, <3>2
    <3>4. s \notin (s + 1)..size
      OBVIOUS
    <3>5. /\ \A k \in (lo + 1)..pos : k \in Nat
          /\ \A k \in (pos + 1)..size : k \in Nat
          /\ \A k \in (s + 1)..size : k \in Nat
      BY <1>4
    <3> QED
      BY <1>7, <1>12, <3>1, <3>2, <3>3, <3>4, <3>5
  <2>5. Cardinality(Behind[s] \cup {s}) = need + 1
    BY <1>13, <2>3, <2>4
  <2>6. Cardinality(Behind[s]) = need
    <3>1. Cardinality(Behind[s]) \in Nat /\ IsFiniteSet(Behind[s])
      BY <1>1, <2>2, BehindIs
    <3>2. Cardinality(Behind[s] \cup {s}) = Cardinality(Behind[s]) + 1
      BY <2>4, <3>1, FS_AddElement
    <3>3. \A x, y \in Nat : x + 1 = y + 1 => x = y
      OBVIOUS
    <3> QED
      BY <1>4, <2>5, <3>1, <3>2, <3>3
  <2>7. Source[s] = Newline
    BY <1>7, <2>2
  <2>8. out' = <<>> /\ Len(out') = 0 /\ 1..Len(out') = {} /\ s + Len(out') = pos'
    <3>1. out' = <<>> /\ Len(out') = 0 /\ 1..Len(out') = {}
      BY <1>2, <1>5
    <3>2. s + 0 = s
      OBVIOUS
    <3> QED
      BY <2>2, <3>1, <3>2
  <2>9. s \in Starts'
    BY <1>2, <1>3, <1>14, <2>1, <2>2, <2>6, <2>7, <2>8 DEF Starts
  <2>10. TailInv'
    BY <1>2, <1>3, <1>5, <2>1, <2>9 DEF TailInv
  <2>11. pos' \in Nat /\ counted' \in Nat
    BY <1>4, <1>9, <1>11, <2>2
  <2>12. FilTypeOK'
    BY <1>1, <1>2, <1>3, <2>1, <2>11 DEF FilTypeOK, Readers
  <2>13. ReadInv'
    <3>1. pos' <= Len(Source')
      BY <1>3, <1>4, <1>5, <2>2
    <3> QED
      BY <1>2, <2>1, <3>1 DEF ReadInv
  <2> QED
    BY <1>2, <2>10, <2>12, <2>13 DEF FilInv, CpInv, MapInv, OutInv, TeeInv, AddInv
\* Too few: all is printed, or the search goes on.
<1>16. CASE enough = {}
  <2>1. pos' = lo /\ counted' = counted + Cardinality(lines2)
    BY <1>9, <1>16
  <2>2. counted' <= need
    <3>1. ASSUME ~(counted + Cardinality(lines2) <= need)
          PROVE  FALSE
      <4> DEFINE From(n) == {l \in lines2 : l >= n}
                 Low == {n \in Nat : counted + Cardinality(From(n)) <= need}
      <4>2. \A n \in Nat : IsFiniteSet(From(n)) /\ Cardinality(From(n)) \in Nat
        <5>1. \A n \in Nat : From(n) \in SUBSET lines2
          OBVIOUS
        <5>2. \A n \in Nat : IsFiniteSet(From(n))
          BY <1>11, <5>1, FS_Subset
        <5> QED
          BY <5>2, FS_CardinalityType
      <4>3. pos + 1 \in Low
        <5>1. From(pos + 1) = {}
          <6>1. \A l \in 1..pos : ~(l >= pos + 1)
            BY <1>4
          <6> QED
            BY <1>10, <6>1
        <5>2. Cardinality(From(pos + 1)) = 0
          BY <5>1, FS_EmptySet
        <5>3. pos + 1 \in Nat /\ counted + 0 <= need
          BY <1>4, <1>5
        <5> QED
          BY <5>2, <5>3
      <4>4. PICK m \in Low : \A n \in Low : m <= n
        <5>1. Low \subseteq Nat /\ Low # {}
          BY <4>3
        <5> HIDE DEF Low
        <5> QED
          BY <5>1, LeastNat
      <4>5. m # 0
        <5>1. From(0) = lines2
          <6>1. \A l \in 1..pos : l >= 0
            BY <1>4
          <6> QED
            BY <1>10, <6>1
        <5> QED
          BY <3>1, <5>1, <4>4
      <4>6. PICK p \in Nat : p + 1 = m
        <5>1. m - 1 \in Nat /\ (m - 1) + 1 = m
          BY <4>4, <4>5
        <5> QED
          BY <5>1
      <4>7. ~(counted + Cardinality(From(p)) <= need)
        <5>1. p \notin Low
          BY <4>4, <4>6
        <5> QED
          BY <5>1
      <4>8. counted + Cardinality(From(m)) <= need
        BY <4>4
      <4>9. \A l \in lines2 : l \in Nat /\ (l >= p <=> l >= m \/ l = p)
        BY <1>4, <1>10, <4>6
      <4>10. m \in Nat /\ ~(p >= m)
        BY <4>6
      <4>11. p \in lines2
        <5>1. ASSUME p \notin lines2
              PROVE  FALSE
          <6>1. From(p) = From(m)
            BY <4>9, <5>1
          <6> QED
            BY <4>7, <4>8, <6>1
        <5> QED
          BY <5>1
      <4>12. From(p) = From(m) \cup {p} /\ p \notin From(m)
        BY <4>9, <4>10, <4>11
      <4>13. IsFiniteSet(From(m)) /\ Cardinality(From(m)) \in Nat
        BY <4>2, <4>10
      <4> HIDE DEF From, Low
      <4>14. Cardinality(From(p)) = Cardinality(From(m)) + 1
        BY <4>12, <4>13, FS_AddElement
      <4>15. \A c, g, x \in Nat : c + x <= g /\ ~(c + (x + 1) <= g) => c + (x + 1) = g + 1
        OBVIOUS
      <4>16. counted + Cardinality(From(p)) = need + 1
        BY <1>4, <4>7, <4>8, <4>13, <4>14, <4>15
      <4> QED
        BY <1>8, <1>16, <4>11, <4>16 DEF From
    <3> QED
      BY <2>1, <3>1
  <2>3. counted' = Cardinality(Behind[lo])
    <3>1. lines2 \cup Behind[pos] = Behind[lo]
      <4>1. \A k \in Nat : k \in (lo + 1)..pos \/ k \in (pos + 1)..size
                             <=> k \in (lo + 1)..size
        BY <1>4, <1>5, <1>6
      <4>2. /\ \A k \in (lo + 1)..pos : k \in Nat
            /\ \A k \in (pos + 1)..size : k \in Nat
            /\ \A k \in (lo + 1)..size : k \in Nat
        BY <1>4
      <4> QED
        BY <1>7, <1>12, <4>1, <4>2
    <3> QED
      BY <1>13, <2>1, <3>1
  <2>4. counted' \in Nat /\ pos' <= Len(Source') /\ pos' <= size' /\ pos' \in Nat
    <3>1. lo <= size /\ lo <= Len(Source)
      BY <1>4, <1>5, <1>6
    <3> QED
      BY <1>2, <1>3, <1>4, <1>11, <2>1, <3>1
  <2>5. ftPc' = IF lo = 0 THEN "read" ELSE "back"
    BY <1>9, <1>16
  <2>6. FilTypeOK'
    BY <1>1, <1>2, <1>3, <2>4, <2>5 DEF FilTypeOK, Readers
  <2>7. ReadInv'
    BY <1>2, <2>4, <2>5 DEF ReadInv
  <2>8. out' = <<>> /\ Len(out') = 0 /\ 1..Len(out') = {}
    BY <1>2, <1>5
  <2>9. ASSUME lo = 0
        PROVE  0 \in Starts'
    <3>1. 0 + Len(out') = pos'
      BY <2>1, <2>8, <2>9
    <3> QED
      BY <1>2, <1>10, <1>14, <2>2, <2>3, <2>5, <2>8, <2>9, <3>1 DEF Starts
  <2>10. TailInv'
    BY <1>2, <1>3, <1>5, <1>14, <2>1, <2>2, <2>3, <2>4, <2>5, <2>8, <2>9 DEF TailInv
  <2> QED
    BY <1>2, <2>6, <2>7, <2>10 DEF FilInv, CpInv, MapInv, OutInv, TeeInv, AddInv
<1> QED
  BY <1>15, <1>16

LEMMA MapSourceStep ==
  ASSUME FilInv, Fil!MapSource
  PROVE  FilInv'
<1>1. FilTypeOK /\ MapInv
  BY DEF FilInv
<1>2. /\ program = "49_1" /\ ftPc = "start" /\ ftPc' \in {"EINVAL", "truncate"}
      /\ UNCHANGED <<program, to, appends, file, pos, off, ftBuf, out, need, counted>>
      /\ size' = Len(Source)
  BY DEF Fil!MapSource, Fil!At, Fil!Fixed, Fil!tail, Source
<1>3. Source' = Source /\ Dest' = Dest
  BY <1>2 DEF Source, Dest
<1>4. Len(Source) \in Nat /\ size' \in Nat /\ size' <= Len(Source')
  <2>1. PICK l \in Nat : l = Len(Source)
    BY <1>1 DEF FilTypeOK
  <2> QED
    BY <1>2, <1>3, <2>1
<1>5. FilTypeOK'
  BY <1>1, <1>2, <1>3, <1>4 DEF FilTypeOK
<1>6. MapInv'
  BY <1>1, <1>2, <1>3, <1>4 DEF MapInv
<1>7. ReadInv' /\ CpInv' /\ OutInv' /\ TeeInv' /\ AddInv' /\ TailInv'
  BY <1>2 DEF ReadInv, CpInv, OutInv, TeeInv, AddInv, TailInv, Readers
<1> QED
  BY <1>5, <1>6, <1>7 DEF FilInv

LEMMA MapDestStep ==
  ASSUME FilInv, Fil!MapDest
  PROVE  FilInv'
<1>1. FilTypeOK /\ MapInv
  BY DEF FilInv
<1>2. /\ program = "49_1" /\ ftPc = "truncate" /\ ftPc' = "memcpy"
      /\ UNCHANGED <<program, to, appends, pos, off, ftBuf, out, need, counted, size>>
      /\ file' = [file EXCEPT ![to] = Fil!Resize(file[to], size)]
  BY DEF Fil!MapDest, Fil!At, Fil!Fixed, Fil!tail
<1>3. /\ Source \in Seq(Bytes) /\ Dest \in Seq(Bytes) /\ to \in {"source", "dest"}
      /\ size \in Nat /\ size <= Len(Source)
  BY <1>1, <1>2 DEF FilTypeOK, MapInv
<1>4. PICK w : w = Fil!Resize(file[to], size)
  OBVIOUS
<1>5. w \in Seq(Bytes) /\ Len(w) = size
  <2>1. PICK c \in Seq(Bytes) : file[to] = c
    BY <1>3 DEF Source, Dest
  <2>2. w = [k \in 1..size |-> IF k <= Len(c) THEN c[k] ELSE Zero]
    BY <1>4, <2>1 DEF Fil!Resize
  <2>3. PICK l \in Nat : l = Len(c)
    OBVIOUS
  <2>4. \A k \in 1..size : (k <= Len(c) => c[k] \in Bytes) /\ Zero \in Bytes
    <3>1. \A k \in 1..size : k <= l => k \in 1..l
      OBVIOUS
    <3> QED
      BY <2>3, <3>1 DEF Bytes
  <2> QED
    BY <1>3, <2>2, <2>4
<1>6. /\ file' = [source |-> Source', dest |-> Dest']
      /\ to = "dest" => Source' = Source /\ Dest' = w
      /\ to = "source" => Source' = w /\ Dest' = Dest
  BY <1>1, <1>2, <1>4, FileIs
<1>7. /\ Source' \in Seq(Bytes) /\ Dest' \in Seq(Bytes) /\ size <= Len(Source')
      /\ to = "dest" => Len(Dest') = size
  <2>1. size <= size
    BY <1>3
  <2> QED
    BY <1>3, <1>5, <1>6, <2>1
<1>8. FilTypeOK'
  BY <1>1, <1>2, <1>6, <1>7 DEF FilTypeOK
<1>9. MapInv'
  BY <1>2, <1>7 DEF MapInv
<1>10. ReadInv' /\ CpInv' /\ OutInv' /\ TeeInv' /\ AddInv' /\ TailInv'
  BY <1>2 DEF ReadInv, CpInv, OutInv, TeeInv, AddInv, TailInv, Readers
<1> QED
  BY <1>8, <1>9, <1>10 DEF FilInv

LEMMA MemcpyStep ==
  ASSUME FilInv, Fil!Memcpy
  PROVE  FilInv'
<1>1. FilTypeOK /\ MapInv
  BY DEF FilInv
<1>2. PICK b : b = SubSeq(Source, 1, size)
  OBVIOUS
<1>3. /\ program = "49_1" /\ ftPc = "memcpy" /\ ftPc' = "ended"
      /\ UNCHANGED <<program, to, appends, pos, off, ftBuf, out, need, counted, size>>
      /\ file' = [file EXCEPT ![to] = Fil!Overwrite(file[to], 0, b)]
  BY <1>2 DEF Fil!Memcpy, Fil!At, Fil!Fixed, Fil!tail, Source
<1>4. /\ Source \in Seq(Bytes) /\ Dest \in Seq(Bytes) /\ to \in {"source", "dest"}
      /\ size \in Nat /\ size <= Len(Source) /\ (to = "dest" => Len(Dest) = size)
  BY <1>1, <1>3 DEF FilTypeOK, MapInv
<1>5. b \in Seq(Bytes) /\ Len(b) = size /\ \A k \in 1..size : b[k] = Source[k]
  <2>1. PICK l \in Nat : l = Len(Source)
    BY <1>4
  <2>2. \A k \in 1..size : k \in 1..l
    BY <1>4, <2>1
  <2>3. b = [k \in 1..size |-> Source[k]]
    BY <1>2, <1>4
  <2>4. \A k \in 1..size : Source[k] \in Bytes
    BY <1>4, <2>1, <2>2
  <2> QED
    BY <1>4, <2>3, <2>4
<1>6. PICK w : w = Fil!Overwrite(file[to], 0, b)
  OBVIOUS
<1>7. /\ to = "dest" => file[to] = Dest
      /\ to = "source" => file[to] = Source
  BY DEF Source, Dest
<1>8. w \in Seq(Bytes)
  <2>1. 0 \in Nat
    OBVIOUS
  <2> QED
    BY <1>4, <1>5, <1>6, <1>7, <2>1, OverwriteIs
<1>9. to = "dest" => Len(w) = size /\ \A k \in 1..size : w[k] = Source[k]
  <2>1. SUFFICES ASSUME to = "dest"
                 PROVE  Len(w) = size /\ \A k \in 1..size : w[k] = Source[k]
    OBVIOUS
  <2>2. 0 \in Nat /\ 0 + Len(b) = size /\ Len(Dest) <= 0 + Len(b)
    BY <1>4, <1>5, <2>1
  <2>3. Len(w) = 0 + Len(b) /\ \A k \in 1..Len(b) : w[0 + k] = b[k]
    <3>1. /\ Dest \in Seq(Bytes) /\ b \in Seq(Bytes) /\ 0 \in Nat
          /\ w = Fil!Overwrite(Dest, 0, b)
      BY <1>4, <1>5, <1>6, <1>7, <2>1
    <3>2. /\ Len(Dest) <= 0 + Len(b) => Len(w) = 0 + Len(b)
          /\ \A k \in 1..Len(b) : w[0 + k] = b[k]
      BY <3>1, OverwriteIs
    <3> QED
      BY <2>2, <3>2
  <2>4. \A k \in 1..size : 0 + k = k
    OBVIOUS
  <2> QED
    BY <1>5, <2>2, <2>3, <2>4
<1>10. /\ file' = [source |-> Source', dest |-> Dest']
       /\ to = "dest" => Source' = Source /\ Dest' = w
       /\ to = "source" => Source' = w /\ Dest' = Dest
  BY <1>1, <1>3, <1>6, FileIs
<1>11. Source' \in Seq(Bytes) /\ Dest' \in Seq(Bytes)
  BY <1>4, <1>8, <1>10
<1>12. FilTypeOK'
  BY <1>1, <1>3, <1>10, <1>11 DEF FilTypeOK
<1>13. MapInv'
  <2>1. file'[to'] = IF to = "dest" THEN Dest' ELSE Source'
    BY <1>3, <1>4, <1>10
  <2> QED
    BY <1>3, <1>4, <1>9, <1>10, <2>1 DEF MapInv
<1>14. ReadInv' /\ CpInv' /\ OutInv' /\ TeeInv' /\ AddInv' /\ TailInv'
  BY <1>3 DEF ReadInv, CpInv, OutInv, TeeInv, AddInv, TailInv, Readers
<1> QED
  BY <1>12, <1>13, <1>14 DEF FilInv

LEMMA Appended ==
  ASSUME NEW a \in Seq(Bytes), NEW c, c = Append(a, Other)
  PROVE  /\ c \in Seq(Bytes) /\ Len(c) = Len(a) + 1
         /\ \A k \in 1..Len(a) : c[k] = a[k]
         /\ c[Len(a) + 1] = Other
<1>1. Other \in Bytes
  BY DEF Bytes
<1> QED
  BY <1>1

LEMMA AppendOtherStep ==
  ASSUME FilInv, Fil!AppendOther
  PROVE  FilInv'
<1>1. /\ FilTypeOK /\ ReadInv /\ CpInv /\ MapInv /\ OutInv /\ TeeInv /\ AddInv /\ TailInv
  BY DEF FilInv
<1>2. /\ ftPc \notin {"ended", "EINVAL"} /\ appends' = appends + 1
      /\ UNCHANGED <<program, ftPc, to, pos, off, ftBuf, out, need, counted, size>>
      /\ file' = [source |-> Source', dest |-> Dest']
      /\ program \in Fil!Tees => Source' = Source /\ Dest' = Append(Dest, Other)
      /\ program \notin Fil!Tees => Source' = Append(Source, Other) /\ Dest' = Dest
  BY <1>1, AppendOtherIs
<1>3. /\ Source \in Seq(Bytes) /\ Dest \in Seq(Bytes)
      /\ Len(Source) \in Nat /\ Len(Dest) \in Nat
      /\ pos \in Nat /\ off \in Nat /\ appends \in Nat /\ size \in Nat
      /\ ftBuf \in Seq(Bytes) /\ out \in Seq(Bytes) /\ Len(ftBuf) \in Nat /\ Len(out) \in Nat
  BY <1>1 DEF FilTypeOK
<1>4. /\ Source' \in Seq(Bytes) /\ Len(Source') \in Nat /\ Len(Source) <= Len(Source')
      /\ Len(Source') <= Len(Source) + 1
      /\ \A k \in 1..Len(Source) : Source'[k] = Source[k]
  <2>1. CASE program \in Fil!Tees
    <3>1. Source' = Source /\ Len(Source) <= Len(Source) + 1
      BY <1>2, <1>3, <2>1
    <3> QED
      BY <1>3, <3>1
  <2>2. CASE program \notin Fil!Tees
    <3>1. Source' = Append(Source, Other)
      BY <1>2, <2>2
    <3>2. /\ Source' \in Seq(Bytes) /\ Len(Source') = Len(Source) + 1
          /\ \A k \in 1..Len(Source) : Source'[k] = Source[k]
      BY <1>3, <3>1, Appended
    <3> QED
      BY <1>3, <3>2
  <2> QED
    BY <2>1, <2>2
<1>5. /\ Dest' \in Seq(Bytes)
      /\ program \notin Fil!Tees => Dest' = Dest
      /\ program \in Fil!Tees =>
           /\ Len(Dest') = Len(Dest) + 1
           /\ \A k \in 1..Len(Dest) : Dest'[k] = Dest[k]
           /\ Dest'[Len(Dest) + 1] = Other
  <2>1. CASE program \in Fil!Tees
    <3>1. Dest' = Append(Dest, Other)
      BY <1>2, <2>1
    <3> QED
      BY <1>3, <2>1, <3>1, Appended
  <2>2. CASE program \notin Fil!Tees
    BY <1>2, <1>3, <2>2
  <2> QED
    BY <2>1, <2>2
<1>6. FilTypeOK'
  <2>1. appends' \in Nat
    BY <1>2, <1>3
  <2> QED
    BY <1>1, <1>2, <1>4, <1>5, <2>1 DEF FilTypeOK
<1>7. ReadInv'
  <2>1. ftPc \in {"read", "write", "print"} => pos <= Len(Source')
    <3>1. \A x, y, z \in Nat : x <= y /\ y <= z => x <= z
      OBVIOUS
    <3> QED
      BY <1>1, <1>3, <1>4, <3>1 DEF ReadInv
  <2>2. ASSUME ftPc \in {"write", "print"},
               NEW k \in 1..Len(ftBuf), NEW n \in 1..Len(Source'),
               n + Len(ftBuf) = pos + k
        PROVE  Source'[n] = ftBuf[k]
    <3>1. pos <= Len(Source)
      BY <1>1, <2>2 DEF ReadInv
    <3>2. \A x, y, z, u \in Nat : x + y = z + u /\ u <= y => x <= z
      OBVIOUS
    <3>3. n \in Nat /\ 1 <= n /\ k \in Nat /\ k <= Len(ftBuf)
      BY <1>3, <1>4
    <3>4. n <= pos
      BY <1>3, <2>2, <3>2, <3>3
    <3>5. n \in 1..Len(Source)
      BY <1>3, <3>1, <3>3, <3>4
    <3>6. Source[n] = ftBuf[k]
      BY <1>1, <2>2, <3>5 DEF ReadInv
    <3> QED
      BY <1>4, <3>5, <3>6
  <2>3. /\ ftPc \in {"write", "print"} => Len(ftBuf) <= pos
        /\ program \in {"cp", "tee", "tee -a"} =>
             /\ ftPc = "write" => off + Len(ftBuf) = pos
             /\ ftPc \in {"read", "print", "ended"} => off = pos
    BY <1>1 DEF ReadInv
  <2> QED
    BY <1>2, <2>1, <2>2, <2>3 DEF ReadInv
<1>8. CpInv'
  <2>1. SUFFICES ASSUME program = "cp"
                 PROVE  CpInv'
    BY <1>2 DEF CpInv
  <2>2. Dest' = Dest
    BY <1>5, <2>1 DEF Fil!Tees
  <2>3. ASSUME ftPc \in {"read", "write", "ended"}, to = "dest"
        PROVE  /\ Len(Dest) <= off
               /\ \A k \in 1..Len(Dest) : Dest[k] = Source'[k]
               /\ \A k \in 1..off : Len(Dest) < k => Source'[k] = Zero
    <3>1. /\ Len(Dest) <= off
          /\ \A k \in 1..Len(Dest) : Dest[k] = Source[k]
          /\ \A k \in 1..off : Len(Dest) < k => Source[k] = Zero
      BY <1>1, <2>1, <2>3 DEF CpInv
    <3>2. off <= Len(Source)
      <4>1. pos <= Len(Source) /\ (off = pos \/ off + Len(ftBuf) = pos)
        BY <1>1, <1>2, <2>1, <2>3 DEF ReadInv
      <4>2. \A x, y, z, u \in Nat : z <= u /\ (x = z \/ x + y = z) => x <= u
        OBVIOUS
      <4> QED
        BY <1>3, <4>1, <4>2
    <3>3. /\ \A k \in 1..Len(Dest) : k \in 1..Len(Source)
          /\ \A k \in 1..off : k \in 1..Len(Source)
      BY <1>3, <3>1, <3>2
    <3> QED
      BY <1>4, <3>1, <3>3
  <2>4. ftPc # "start" /\ to = "source" => Len(Source') <= appends'
    <3>1. ftPc # "start" /\ to = "source" => Len(Source) <= appends
      BY <1>1, <2>1 DEF CpInv
    <3>2. \A x, y, z \in Nat : x <= y + 1 /\ y <= z => x <= z + 1
      OBVIOUS
    <3> QED
      BY <1>2, <1>3, <1>4, <3>1, <3>2
  <2> QED
    BY <1>2, <2>2, <2>3, <2>4 DEF CpInv
<1>9. MapInv'
  <2>1. SUFFICES ASSUME program = "49_1"
                 PROVE  MapInv'
    BY <1>2 DEF MapInv
  <2>2. Dest' = Dest
    BY <1>5, <2>1 DEF Fil!Tees
  <2>3. ftPc \in {"truncate", "memcpy"} => size <= Len(Source')
    <3>1. \A x, y, z \in Nat : x <= y /\ y <= z => x <= z
      OBVIOUS
    <3> QED
      BY <1>1, <1>3, <1>4, <2>1, <3>1 DEF MapInv
  <2> QED
    BY <1>1, <1>2, <2>1, <2>2, <2>3 DEF MapInv
<1>10. OutInv'
  <2>1. SUFFICES ASSUME program \in {"mycat", "tee", "tee -a"}
                 PROVE  OutInv'
    BY <1>2 DEF OutInv
  <2>2. /\ ftPc \in {"write", "print"} => Len(out) + Len(ftBuf) = pos
        /\ ftPc \in {"read", "ended"} => Len(out) = pos
        /\ \A k \in 1..Len(out) : out[k] = Source[k]
    BY <1>1, <2>1 DEF OutInv
  <2>3. \A k \in 1..Len(out) : k \in 1..Len(Source)
    <3>1. CASE ftPc = "start"
      <4>1. 1..Len(out) = {}
        BY <1>1, <3>1 DEF FilTypeOK
      <4> QED
        BY <4>1
    <3>2. CASE ftPc \in {"read", "write", "print"}
      <4>1. pos <= Len(Source) /\ (Len(out) = pos \/ Len(out) + Len(ftBuf) = pos)
        BY <1>1, <2>2, <3>2 DEF ReadInv
      <4>2. \A x, y, z, u \in Nat : z <= u /\ (x = z \/ x + y = z) => x <= u
        OBVIOUS
      <4>3. Len(out) <= Len(Source)
        BY <1>3, <4>1, <4>2
      <4> QED
        BY <1>3, <4>3
    <3> QED
      BY <1>1, <1>2, <2>1, <3>1, <3>2 DEF FilTypeOK
  <2> QED
    BY <1>2, <1>4, <2>2, <2>3 DEF OutInv
<1>11. TeeInv'
  <2>1. SUFFICES ASSUME program = "tee", ftPc # "start"
                 PROVE  off <= Len(Dest') /\ \A k \in 1..off : Dest'[k] = Source'[k]
    BY <1>2 DEF TeeInv
  <2>2. off <= Len(Dest) /\ \A k \in 1..off : Dest[k] = Source[k]
    BY <1>1, <2>1 DEF TeeInv
  <2>3. Source' = Source /\ Len(Dest') = Len(Dest) + 1 /\ \A k \in 1..Len(Dest) : Dest'[k] = Dest[k]
    BY <1>2, <1>5, <2>1 DEF Fil!Tees
  <2>4. off <= Len(Dest) + 1 /\ \A k \in 1..off : k \in 1..Len(Dest)
    BY <1>3, <2>2
  <2> QED
    BY <2>2, <2>3, <2>4
<1>12. AddInv'
  <2>1. SUFFICES ASSUME program = "tee -a"
                 PROVE  /\ Len(Dest') = Len(Old) + off + (appends + 1)
                        /\ \A k \in 1..Len(Old) : Dest'[k] = Old[k]
                        /\ Places' # {}
    BY <1>2 DEF AddInv
  <2>2. PICK o \in Nat : o = Len(Old)
    <3>1. Old \in Seq({Zero, Letter, Newline, Other})
      BY ProgramsAssumption
    <3> QED
      BY <3>1
  <2>3. /\ Len(Dest) = o + off + appends
        /\ \A k \in 1..o : Dest[k] = Old[k]
        /\ Places # {}
    BY <1>1, <2>1, <2>2 DEF AddInv
  <2>4. /\ Source' = Source /\ Len(Dest') = Len(Dest) + 1
        /\ \A k \in 1..Len(Dest) : Dest'[k] = Dest[k]
        /\ Dest'[Len(Dest) + 1] = Other
    BY <1>2, <1>5, <2>1 DEF Fil!Tees
  <2>5. PICK d \in Nat : d = Len(Dest)
    BY <1>3
  <2>6. d = o + off + appends
    BY <2>3, <2>5
  <2>7. d + 1 = o + off + (appends + 1) /\ o <= d
    <3>1. \A x, y, z, u \in Nat : u = x + y + z => u + 1 = x + y + (z + 1) /\ x <= u
      OBVIOUS
    <3> QED
      BY <1>3, <2>6, <3>1
  <2>8. PICK at : at \in Places
    BY <2>3
  <2>9. /\ at \in [1..off -> (o + 1)..d]
        /\ \A j, k \in 1..off : j < k => at[j] < at[k]
        /\ \A k \in 1..off : Dest[at[k]] = Source[k]
        /\ \A n \in (o + 1)..d : (\A k \in 1..off : at[k] # n) => Dest[n] = Other
    BY <2>2, <2>5, <2>8 DEF Places
  <2>10. /\ \A n \in (o + 1)..d : n \in 1..d /\ n \in (o + 1)..(d + 1)
         /\ \A n \in (o + 1)..(d + 1) : n \in (o + 1)..d \/ n = d + 1
    OBVIOUS
  <2>11. at \in [1..off -> (o + 1)..(d + 1)] /\ \A k \in 1..off : Dest'[at[k]] = Source[k]
    BY <2>4, <2>5, <2>9, <2>10
  <2>12. \A n \in (o + 1)..(d + 1) : (\A k \in 1..off : at[k] # n) => Dest'[n] = Other
    BY <2>4, <2>5, <2>9, <2>10
  <2>13. at \in Places'
    <3>1. Len(Dest') = d + 1
      BY <2>4, <2>5
    <3> QED
      BY <1>2, <2>2, <2>4, <2>9, <2>11, <2>12, <3>1 DEF Places
  <2>14. \A k \in 1..o : Dest'[k] = Old[k]
    <3>1. \A k \in 1..o : k \in 1..d
      BY <2>7
    <3> QED
      BY <2>3, <2>4, <2>5, <3>1
  <2> QED
    BY <2>2, <2>4, <2>5, <2>7, <2>13, <2>14
<1>13. TailInv'
  <2>1. SUFFICES ASSUME program = "tail", ftPc # "start"
                 PROVE  TailInv'
    BY <1>2 DEF TailInv
  <2>2. size <= Len(Source)
    BY <1>1, <2>1 DEF TailInv
  <2>3. size <= Len(Source')
    <3>1. \A x, y, z \in Nat : x <= y /\ y <= z => x <= z
      OBVIOUS
    <3> QED
      BY <1>3, <1>4, <2>2, <3>1
  <2>4. Behind' = Behind
    <3>1. \A s \in 0..size : \A k \in (s + 1)..size : k \in 1..Len(Source)
      BY <1>3, <2>2
    <3>2. \A s \in 0..size : \A k \in (s + 1)..size : Source'[k] = Source[k]
      BY <1>4, <3>1
    <3>3. \A s \in 0..size : {k \in (s + 1)..size : Source'[k] = Newline} =
                             {k \in (s + 1)..size : Source[k] = Newline}
      BY <3>2
    <3> QED
      BY <1>2, <3>3 DEF Behind
  <2>5. ASSUME ftPc \in {"read", "write", "ended"}
        PROVE  Starts' # {}
    <3>1. PICK s : s \in Starts
      BY <1>1, <2>1, <2>5 DEF TailInv
    <3>2. /\ s \in 0..size /\ s \in Nat
          /\ ftPc = "write" => s + Len(out) + Len(ftBuf) = pos
          /\ ftPc # "write" => s + Len(out) = pos
          /\ \A k \in 1..Len(out) : Source[s + k] = out[k]
      BY <1>3, <3>1 DEF Starts
    <3>3. \A k \in 1..Len(out) : s + k \in 1..Len(Source)
      <4>1. pos <= Len(Source)
        BY <1>1, <1>2, <2>5 DEF ReadInv
      <4>2. \A x, y, z, u, v \in Nat : u <= v /\ (x + y + z = u \/ x + y = u) => x + y <= v
        OBVIOUS
      <4>3. s + Len(out) <= Len(Source)
        BY <1>3, <2>5, <3>2, <4>1, <4>2
      <4> QED
        BY <1>3, <3>2, <4>3
    <3>4. \A k \in 1..Len(out) : Source'[s + k] = out[k]
      BY <1>4, <3>2, <3>3
    <3>5. s # 0 => Source'[s] = Source[s]
      <4>1. s # 0 => s \in 1..Len(Source)
        BY <1>3, <2>2, <3>2
      <4> QED
        BY <1>4, <4>1
    <3>6. s \in Starts'
      BY <1>2, <2>4, <3>1, <3>2, <3>4, <3>5 DEF Starts
    <3> QED
      BY <3>6
  <2> QED
    BY <1>1, <1>2, <2>1, <2>3, <2>4, <2>5 DEF TailInv
<1> QED
  BY <1>6, <1>7, <1>8, <1>9, <1>10, <1>11, <1>12, <1>13 DEF FilInv

LEMMA FilStep ==
  ASSUME FilInv, Fil!Next
  PROVE  FilInv'
BY OpenStep, FilReadStep, CpWritesStep, TeeWritesStep, PrintsStep, TailOpensStep,
   TailGoesBackStep, MapSourceStep, MapDestStep, MemcpyStep, AppendOtherStep
   DEF Fil!Next, Fil!ToolNext

LEMMA FirstPart ==
  ASSUME NEW s \in Seq(Bytes), NEW n \in Nat, NEW t, Len(t) = n, t \in Seq(Bytes),
         \A k \in 1..n : t[k] = s[k]
  PROVE  SubSeq(s, 1, n) = t
<1>1. SubSeq(s, 1, n) = [k \in 1..n |-> s[k]]
  OBVIOUS
<1>2. t = [k \in 1..n |-> t[k]]
  OBVIOUS
<1> QED
  BY <1>1, <1>2

\* What the copies, the outputs and the end of a file are to be follows.
LEMMA FilSafe ==
  FilInv => Fil!CopiesAreRight /\ Fil!OutputsAreRight /\ Fil!TailIsRight
<1> SUFFICES ASSUME FilInv
             PROVE  Fil!CopiesAreRight /\ Fil!OutputsAreRight /\ Fil!TailIsRight
  OBVIOUS
<1>1. /\ FilTypeOK /\ ReadInv /\ CpInv /\ MapInv /\ OutInv /\ TeeInv /\ AddInv /\ TailInv
  BY DEF FilInv
<1>2. /\ Source \in Seq(Bytes) /\ Dest \in Seq(Bytes)
      /\ Len(Source) \in Nat /\ Len(Dest) \in Nat
      /\ pos \in Nat /\ off \in Nat /\ appends \in Nat /\ size \in Nat /\ need \in Nat
      /\ out \in Seq(Bytes) /\ Len(out) \in Nat
      /\ to \in {"source", "dest"} /\ (to = "source" => program \in Fil!Copies)
  BY <1>1 DEF FilTypeOK
<1>3. Fil!CopiesAreRight
  <2>1. ASSUME program = "cp", ftPc = "ended", to = "dest"
        PROVE  /\ Source = <<>> \/ Source[Len(Source)] # Zero => Dest = Source
               /\ Len(Dest) <= Len(Source)
               /\ Dest = SubSeq(Source, 1, Len(Dest))
               /\ Fil!IsZeros(SubSeq(Source, Len(Dest) + 1, Len(Source)))
    <3>1. /\ Len(Dest) <= off
          /\ \A k \in 1..Len(Dest) : Dest[k] = Source[k]
          /\ \A k \in 1..off : Len(Dest) < k => Source[k] = Zero
      BY <1>1, <2>1 DEF CpInv
    <3>2. off = Len(Source)
      BY <1>1, <2>1 DEF ReadInv, Readers
    <3>3. Dest = SubSeq(Source, 1, Len(Dest))
      BY <1>2, <3>1, FirstPart
    <3>4. PICK l \in Nat : l = Len(Source)
      BY <1>2
    <3>5. PICK n \in Nat : n = Len(Dest)
      BY <1>2
    <3>6. PICK z : z = SubSeq(Source, n + 1, l)
      OBVIOUS
    <3>7. z = [k \in 1..(l - n) |-> Source[n + k]]
      <4>1. l - (n + 1) + 1 = l - n /\ \A k \in 1..(l - n) : k + (n + 1) - 1 = n + k
        OBVIOUS
      <4> QED
        BY <3>6, <4>1
    <3>8. \A k \in 1..(l - n) : n + k \in 1..l /\ n < n + k
      OBVIOUS
    <3>9. \A k \in DOMAIN z : z[k] = Zero
      BY <3>1, <3>2, <3>4, <3>5, <3>7, <3>8
    <3>10. ASSUME Source = <<>> \/ Source[l] # Zero
           PROVE  Dest = Source
      <4>1. n <= l
        BY <3>1, <3>2, <3>4, <3>5
      <4>2. ~(n < l)
        <5>1. n < l => l \in 1..l
          OBVIOUS
        <5>2. Source = <<>> => l = 0
          BY <3>4
        <5> QED
          BY <3>1, <3>2, <3>4, <3>5, <3>10, <5>1, <5>2
      <4>3. Len(Dest) = Len(Source)
        BY <3>4, <3>5, <4>1, <4>2
      <4> QED
        BY <1>2, <3>1, <4>3, SeqEqual
    <3> QED
      BY <3>1, <3>2, <3>3, <3>4, <3>5, <3>6, <3>9, <3>10 DEF Fil!IsZeros
  <2>2. ASSUME program = "49_1", ftPc = "ended"
        PROVE  /\ SubSeq(file[to], 1, size) = SubSeq(Source, 1, size)
               /\ to = "dest" => Len(Dest) = size
    <3>1. /\ \A k \in 1..size : file[to][k] = Source[k]
          /\ to = "dest" => Len(Dest) = size
      BY <1>1, <2>2 DEF MapInv
    <3>2. PICK x : x = file[to]
      OBVIOUS
    <3>3. \A k \in 1..size : x[k] = Source[k]
      BY <3>1, <3>2
    <3>4. /\ SubSeq(x, 1, size) = [k \in 1..size |-> x[k]]
          /\ SubSeq(Source, 1, size) = [k \in 1..size |-> Source[k]]
      BY <1>2
    <3> QED
      BY <3>1, <3>2, <3>3, <3>4
  <2>3. ftPc = "EINVAL" => Dest = Old
    BY <1>1 DEF FilTypeOK, MapInv
  <2> QED
    BY <2>1, <2>2, <2>3 DEF Fil!CopiesAreRight, Fil!Ended, Source, Dest
<1>4. Fil!OutputsAreRight
  <2>1. ASSUME program \in {"tee", "tee -a", "mycat"}, ftPc = "ended"
        PROVE  out = Source
    <3>1. Len(out) = Len(Source)
      BY <1>1, <2>1 DEF OutInv, ReadInv, Readers
    <3>2. \A k \in 1..Len(out) : out[k] = Source[k]
      BY <1>1, <2>1 DEF OutInv
    <3> QED
      BY <1>2, <3>1, <3>2, SeqEqual
  <2>2. ASSUME program = "tee", ftPc = "read"
        PROVE  SubSeq(Dest, 1, off) = out
    <3>1. off = Len(out)
      BY <1>1, <2>2 DEF OutInv, ReadInv
    <3>2. \A k \in 1..off : out[k] = Dest[k]
      BY <1>1, <2>2, <3>1 DEF OutInv, TeeInv
    <3> QED
      BY <1>2, <3>1, <3>2, FirstPart
  <2>3. ASSUME program = "tee -a", ftPc = "read"
        PROVE  /\ SubSeq(Dest, 1, Len(Old)) = Old
               /\ Len(Dest) = Len(Old) + Len(out) + appends
               /\ \E at \in [1..Len(out) -> (Len(Old) + 1)..Len(Dest)] :
                    /\ \A j, k \in 1..Len(out) : j < k => at[j] < at[k]
                    /\ \A k \in 1..Len(out) : Dest[at[k]] = out[k]
                    /\ \A n \in (Len(Old) + 1)..Len(Dest) :
                         (\A k \in 1..Len(out) : at[k] # n) => Dest[n] = Other
    <3>1. off = Len(out) /\ \A k \in 1..off : out[k] = Source[k]
      BY <1>1, <2>3 DEF OutInv, ReadInv
    <3>2. Old \in Seq(Bytes) /\ Len(Old) \in Nat
      BY ProgramsAssumption DEF Bytes
    <3>3. /\ Len(Dest) = Len(Old) + off + appends
          /\ \A k \in 1..Len(Old) : Dest[k] = Old[k]
          /\ Places # {}
      BY <1>1, <2>3 DEF AddInv
    <3>4. SubSeq(Dest, 1, Len(Old)) = Old
      BY <1>2, <3>2, <3>3, FirstPart
    <3>5. PICK at : at \in Places
      BY <3>3
    <3>6. /\ at \in [1..off -> (Len(Old) + 1)..Len(Dest)]
          /\ \A j, k \in 1..off : j < k => at[j] < at[k]
          /\ \A k \in 1..off : Dest[at[k]] = Source[k]
          /\ \A n \in (Len(Old) + 1)..Len(Dest) :
               (\A k \in 1..off : at[k] # n) => Dest[n] = Other
      BY <3>5 DEF Places
    <3>7. \A k \in 1..off : Dest[at[k]] = out[k]
      BY <3>1, <3>6
    <3>8. Len(Dest) = Len(Old) + Len(out) + appends
      BY <3>1, <3>3
    <3> QED
      BY <3>1, <3>4, <3>6, <3>7, <3>8
  <2>4. Fil!Ended(Fil!Tees \cup {"mycat"}) => out = file["source"]
    BY <2>1 DEF Fil!Ended, Fil!Tees, Source
  <2> QED
    BY <2>2, <2>3, <2>4, Zenon DEF Fil!OutputsAreRight, Dest
<1>5. Fil!TailIsRight
  <2>1. SUFFICES ASSUME program = "tail", ftPc = "ended"
                 PROVE  Fil!TailIsRight
    BY DEF Fil!TailIsRight, Fil!Ended
  <2>2. PICK s : s \in Starts
    BY <1>1, <2>1 DEF TailInv
  <2>3. /\ s \in 0..size /\ s \in Nat /\ s + Len(out) = Len(Source)
        /\ \A k \in 1..Len(out) : Source[s + k] = out[k]
        /\ s = 0 => Cardinality(Behind[s]) <= need
        /\ s # 0 => Cardinality(Behind[s]) = need /\ Source[s] = Newline
    BY <1>1, <1>2, <2>1, <2>2 DEF Starts, ReadInv, Readers
  <2>4. PICK l \in Nat : l = Len(Source)
    BY <1>2
  <2>5. PICK m \in Nat : m = Len(out)
    BY <1>2
  <2>6. s + m = l /\ l - m = s
    <3>1. s + m = l
      BY <2>3, <2>4, <2>5
    <3> QED
      BY <2>3, <3>1
  <2>7. out = SubSeq(Source, s + 1, l)
    <3>1. l - (s + 1) + 1 = l - s /\ \A k \in 1..(l - s) : k + (s + 1) - 1 = s + k
      BY <2>3
    <3>2. SubSeq(Source, s + 1, l) = [k \in 1..(l - s) |-> Source[s + k]]
      BY <2>3, <3>1
    <3>4. l - s = m
      BY <2>3, <2>6
    <3>3. out = [k \in 1..m |-> out[k]]
      BY <1>2, <2>5
    <3> QED
      BY <2>3, <2>5, <3>2, <3>3, <3>4
  <2>8. Fil!NewlinesIn(Source, s + 1, size) = Behind[s]
    BY <1>1, <2>3, BehindIs DEF Fil!NewlinesIn
  <2>9. Fil!Cardinality(Fil!NewlinesIn(Source, s + 1, size)) = Cardinality(Behind[s])
    BY <2>8, CountsAgree
  <2>10. s = Len(Source) - Len(out)
    BY <2>4, <2>5, <2>6
  <2>11. PICK c : c = Fil!Cardinality(Fil!NewlinesIn(Source, s + 1, size))
    OBVIOUS
  <2>12. /\ out = SubSeq(Source, s + 1, Len(Source))
         /\ IF s = 0 THEN c <= need ELSE c = need /\ Source[s] = Newline
    BY <2>3, <2>4, <2>7, <2>9, <2>11
  <2> QED
    BY <2>10, <2>11, <2>12 DEF Fil!TailIsRight, Source
<1> QED
  BY <1>3, <1>4, <1>5

LEMMA FilStays == FilInv /\ program' = program /\ FilSame => FilInv'
<1> SUFFICES ASSUME FilInv, program' = program, FilSame
             PROVE  FilInv'
  OBVIOUS
<1>1. /\ program' = program
      /\ UNCHANGED <<ftPc, file, to, pos, off, ftBuf, out, need, counted, size, appends>>
  BY DEF FilSame
<1>2. UNCHANGED <<Source, Dest>>
  BY <1>1 DEF Source, Dest
<1>3. UNCHANGED <<Places, Behind>>
  BY <1>1, <1>2 DEF Places, Behind
<1>4. UNCHANGED Starts
  BY <1>1, <1>2, <1>3 DEF Starts
<1>5. FilTypeOK' /\ ReadInv' /\ CpInv'
  <2>1. FilTypeOK'
    <3>1. FilTypeOK
      BY DEF FilInv
    <3>2. Fil!Copies' = Fil!Copies
      BY DEF Fil!Copies
    <3> QED
      BY <1>1, <1>2, <3>1, <3>2 DEF FilTypeOK
  <2>2. ReadInv'
    BY <1>1, <1>2 DEF FilInv, ReadInv
  <2>3. CpInv'
    BY <1>1, <1>2 DEF FilInv, CpInv
  <2> QED
    BY <2>1, <2>2, <2>3
<1>6. MapInv' /\ OutInv' /\ TeeInv'
  BY <1>1, <1>2 DEF FilInv, MapInv, OutInv, TeeInv
<1>7. AddInv' /\ TailInv'
  BY <1>1, <1>2, <1>3, <1>4 DEF FilInv, AddInv, TailInv
<1> QED
  BY <1>5, <1>6, <1>7 DEF FilInv

-----------------------------------------------------------------------------
(* The composition.                                                        *)

KeptInv == SigInv /\ PipInv /\ FifInv /\ ConInv /\ RouInv

\* What a family leaves alone keeps its invariant.
LEMMA SigStays == SigInv /\ program' = program /\ SigSame => SigInv'
<1> SUFFICES ASSUME SigInv, program' = program, SigSame
             PROVE  SigInv'
  OBVIOUS
<1> USE DEF SigSame, Unforked, NoHistory, Handling
<1>1. SigTypeOK => SigTypeOK'
  BY DEF SigTypeOK
<1>2. PingInv => PingInv'
  BY DEF PingInv, OneBall, Ball
<1>3. CallsInv => CallsInv'
  BY DEF CallsInv
<1>4. DetectorInv => DetectorInv'
  BY DEF DetectorInv
<1> QED
  BY <1>1, <1>2, <1>3, <1>4 DEF SigInv, Sig!PingPong

LEMMA PipStays == PipInv /\ program' = program /\ PipSame => PipInv'
<1> SUFFICES ASSUME PipInv, program' = program, PipSame
             PROVE  PipInv'
  OBVIOUS
<1> USE DEF PipSame, Pip!Proc
<1>1. PipTypeOK => PipTypeOK'
  BY DEF PipTypeOK
<1>2. UpperInv => UpperInv'
  BY DEF UpperInv, Idle, Asked, Answered, Agreed, Pip!IsKill
<1>3. PopenInv => PopenInv'
  BY DEF PopenInv, Before, Using, Pip!Reader, Pip!Writer
<1>4. RpcInv => RpcInv'
  BY DEF RpcInv
<1> QED
  BY <1>1, <1>2, <1>3, <1>4 DEF PipInv, Before, Pip!Upper, Pip!Popen, Pip!Rpc

LEMMA FifStays == FifInv /\ FifSame => FifInv'
<1> SUFFICES ASSUME FifInv, FifSame
             PROVE  FifInv'
  OBVIOUS
<1> USE DEF FifSame
<1>1. (Met <=> Met') /\ (ClientCame <=> ClientCame')
  BY DEF Met, ClientCame
<1>2. Fif!ModesShowWhatTheyDo => Fif!ModesShowWhatTheyDo'
  BY DEF Fif!ModesShowWhatTheyDo
<1> QED
  BY <1>1, <1>2 DEF FifInv

LEMMA ConStays == ConInv /\ ConSame => ConInv'
BY DEF ConSame, ConInv, ConTypeOK, Con!OneValuePerCall, Con!Terminator

LEMMA RouStays == RouInv /\ RouSame => RouInv'
BY DEF RouSame, RouInv, RouTypeOK, Served, Rou!Gone, Rou!Destinations

LEMMA KeptStep ==
  ASSUME KeptInv, [ProgramsNext]_programsVars
  PROVE  KeptInv'
<1> USE DEF KeptInv
<1>1. CASE UNCHANGED programsVars
  <2>1. /\ program' = program /\ UNCHANGED Sig!vars /\ UNCHANGED Pip!vars
        /\ UNCHANGED Fif!vars /\ UNCHANGED Con!vars /\ UNCHANGED Rou!vars
    BY <1>1 DEF programsVars
  <2>2. SigSame
    BY <2>1 DEF SigSame, Sig!vars, Sig!process, Sig!caller, Sig!detector, Sig!mails
  <2>3. PipSame
    BY <2>1 DEF PipSame, Pip!vars, Pip!pipe, Pip!ends
  <2>4. FifSame
    BY <2>1 DEF FifSame, Fif!vars, Fif!modes
  <2>5. ConSame
    BY <2>1 DEF ConSame, Con!vars
  <2>6. RouSame
    BY <2>1 DEF RouSame, Rou!vars
  <2> QED
    BY <2>1, <2>2, <2>3, <2>4, <2>5, <2>6, SigStays, PipStays, FifStays, ConStays, RouStays
<1>2. CASE ProgramsNext
  <2>1. /\ program' = program
        /\ SigSame \/ Sig!Next
        /\ PipSame \/ Pip!Next
        /\ FifSame \/ Fif!Next
        /\ ConSame \/ Con!Next
        /\ RouSame \/ Rou!Next
    BY <1>2 DEF ProgramsNext
  <2> QED
    BY <2>1, SigStays, PipStays, FifStays, ConStays, RouStays,
       SigStep, PipStep, FifStep, ConStep, RouStep
<1> QED
  BY <1>1, <1>2

\* The programs that have partners lose, make up and confuse nothing beyond what
\* the code does lose: whatever the number of signals, lines, values, consumers
\* and nodes, whoever the callers and whatever is typed.
THEOREM PartnersLoseNothing == ProgramsSpec => []NothingIsLost
<1>1. ProgramsInit => KeptInv
  BY SigInit, PipInit, FifInit, ConInit, RouInit DEF ProgramsInit, KeptInv
<1>2. KeptInv /\ [ProgramsNext]_programsVars => KeptInv'
  BY KeptStep
<1>3. KeptInv => NothingIsLost
  BY SigSafe, PipSafe, RouSafe DEF KeptInv, NothingIsLost, FifInv, ConInv
<1> QED
  BY <1>1, <1>2, <1>3, PTL DEF ProgramsSpec

LEMMA CnvStays == CnvInv /\ program' = program /\ CnvSame => CnvInv'
<1> SUFFICES ASSUME CnvInv, program' = program, CnvSame
             PROVE  CnvInv'
  OBVIOUS
<1>1. UNCHANGED <<cvPc, lines, terminated, line, entryWord, records, wanted, looked, answer>>
  BY DEF CnvSame
<1>2. Kept' = Kept
  BY <1>1 DEF Kept, Cnv!Cut
<1>3. Begun' = Begun /\ (Cnv!OneLineEach' <=> Cnv!OneLineEach)
  BY <1>1 DEF Begun, Cnv!OneLineEach
<1>4. Entries' = Entries
  BY <1>1, <1>3 DEF Entries
<1>5. Sources' = Sources
  BY <1>1, <1>2, <1>3, <1>4 DEF Sources
<1>6. CnvReading' /\ CnvAsking'
  BY <1>1, <1>2, <1>3 DEF CnvInv, CnvReading, CnvAsking
<1> QED
  BY <1>1, <1>5, <1>6 DEF CnvInv

LEMMA ProStays == ProInv /\ program' = program /\ ProSame => ProInv'
<1> SUFFICES ASSUME ProInv, program' = program, ProSame
             PROVE  ProInv'
  OBVIOUS
<1>1. UNCHANGED <<ptPc, proc, entry, failed, checked, gone, listed, stable, changes>>
  BY DEF ProSame
<1>2. Visited' = Visited
  BY <1>1 DEF Visited
<1>3. \A p : Pro!Exists(p)' <=> Pro!Exists(p)
  BY <1>1 DEF Pro!Exists
<1>4. WalkTypeOK => WalkTypeOK'
  BY <1>1, <1>2 DEF WalkTypeOK, Pro!Exists
<1>5. UserInv => UserInv'
  <2>1. NameInv => NameInv'
    BY <1>1, <1>3 DEF NameInv
  <2> QED
    BY <1>1, <1>2, <2>1 DEF UserInv
<1>6. TreeInv => TreeInv'
  BY <1>1, <1>2 DEF TreeInv, Pro!Exists
<1>7. OpenedInv => OpenedInv'
  BY <1>1, <1>2 DEF OpenedInv
<1> QED
  BY <1>4, <1>5, <1>6, <1>7 DEF ProInv, Pro!Walk

ResultsInv == CnvInv /\ ProInv /\ FilInv

LEMMA ResultsStep ==
  ASSUME ResultsInv, [ProgramsNext]_programsVars
  PROVE  ResultsInv'
<1> USE DEF ResultsInv
<1>1. CASE UNCHANGED programsVars
  <2>1. /\ program' = program /\ UNCHANGED Cnv!vars /\ UNCHANGED Pro!vars
        /\ UNCHANGED Fil!vars
    BY <1>1 DEF programsVars
  <2>2. CnvSame
    BY <2>1 DEF CnvSame, Cnv!vars, Cnv!reading, Cnv!query
  <2>3. ProSame
    BY <2>1 DEF ProSame, Pro!vars
  <2>4. FilSame
    BY <2>1 DEF FilSame, Fil!vars, Fil!files, Fil!tail
  <2> QED
    BY <2>1, <2>2, <2>3, <2>4, CnvStays, ProStays, FilStays
<1>2. CASE ProgramsNext
  <2>1. /\ program' = program
        /\ CnvSame \/ Cnv!Next
        /\ ProSame \/ Pro!Next
        /\ FilSame \/ Fil!Next
    BY <1>2 DEF ProgramsNext
  <2> QED
    BY <2>1, CnvStays, ProStays, FilStays, CnvStep, ProStep, FilStep
<1> QED
  BY <1>1, <1>2

\* The programs that have a result have the right one, of every text, file, size
\* of a buffer and table of processes, however the files grow and whichever
\* processes end, are adopted or start while the programs are running.
THEOREM ResultsHold == ProgramsSpec => []ResultsAreRight
<1>1. ProgramsInit => ResultsInv
  BY CnvInit, ProInit, FilInit DEF ProgramsInit, ResultsInv
<1>2. ResultsInv /\ [ProgramsNext]_programsVars => ResultsInv'
  BY ResultsStep
<1>3. ResultsInv => ResultsAreRight
  BY CnvSafe, ProSafe, FilSafe DEF ResultsInv, ResultsAreRight
<1> QED
  BY <1>1, <1>2, <1>3, PTL DEF ProgramsSpec

=============================================================================

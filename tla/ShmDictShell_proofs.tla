------------------------ MODULE ShmDictShell_proofs ------------------------
(***************************************************************************)
(* Proofs about two programs.  ShmDict, for every set of clients, every    *)
(* dictionary, every semaphore limit and every choice of exits, kills and  *)
(* restarts: semaphore 0 is a mutex, the text a client finds when it       *)
(* passed the wait for zero is its answer, and what it reads after the     *)
(* release is too, unless it was overtaken - all until an exit changes     *)
(* semaphore 1 or a server is started under a running request.             *)
(* Shell, for every script, every set of commands and files, every size of *)
(* the block and every number of processes: lines are obeyed.              *)
(***************************************************************************)
EXTENDS ShmDict, Shell, SequenceTheorems, FiniteSetTheorems,
        WellFoundedInduction, TLAPS

(***************************************************************************)
(* ShmDict.                                                                *)
(***************************************************************************)

\* The server is between its two waits.
Busy == spc \in {"search", "store", "notify"}

\* Semaphore 0 and the adjustments for it.
MutexInv ==
  "restart" \notin harm =>
    /\ adj[Server][0] = 0
    /\ \A c \in Client : adj[c][0] = IF Inside(c) THEN 1 ELSE 0
    /\ \A c, d \in Client : Inside(c) /\ Inside(d) => c = d
    /\ sem[0] \in {0, 1}
    /\ sem[0] = 0 <=> \E c \in Client : Inside(c)

\* Semaphore 1 tells how far the request of the waiting client has come.
RequestInv ==
  harm = {} =>
    /\ adj[Server][1] >= 0
    /\ \A c \in Client : adj[c][1] <= 0
    /\ Busy => /\ sem[1] = 1
               /\ adj[Server][1] > 0
               /\ \E c \in Client : pc[c] = "await"
    /\ ~Busy => /\ sem[1] \in {0, 2}
                /\ sem[1] = 2 => \E c \in Client : pc[c] = "await"
    /\ \A c \in Client :
         /\ pc[c] = "alert" => word = query[c]
         /\ pc[c] = "await" =>
              /\ adj[c][1] < 0
              /\ word = query[c]
              /\ spc \in {"store", "notify"} => sought = query[c]
              /\ spc = "notify" => shmtext = Answer(query[c])
              /\ ~Busy /\ sem[1] = 0 => shmtext = Answer(query[c])
         /\ pc[c] = "release" => shmtext = Answer(query[c])

\* What a client still reads after the release.
FreshInv ==
  harm = {} =>
    \A c \in Client : fresh[c] =>
      /\ \A d \in Client : pc[d] \in {"alert", "await", "release"} => d = c
      /\ Reading(c) => shmtext = Answer(query[c])

IInv == TypeOK /\ MutexInv /\ RequestInv /\ FreshInv

-----------------------------------------------------------------------------
(* The kernel's operations.                                                *)

LEMMA SemFacts == /\ Sem = {0, 1} /\ 0 \in Sem /\ 1 \in Sem
                  /\ SemMax \in Nat /\ SemMax >= 2
                  /\ 0 \in AdjVal /\ AdjVal \subseteq Int
                  /\ NoAdj \in [Sem -> AdjVal]
BY ShmDictAssumption DEF Sem, AdjVal, NoAdj

\* semop keeps the types and changes one semaphore and one adjustment.
LEMMA SemopFacts ==
  ASSUME TypeOK, NEW p \in Proc, NEW s \in Sem, NEW n \in Int, Semop(p, s, n)
  PROVE  /\ sem' \in [Sem -> 0..SemMax]
         /\ adj' \in [Proc -> [Sem -> AdjVal]]
         /\ sem[s] + n >= 0
         /\ sem'[s] = sem[s] + n
         /\ \A t \in Sem \ {s} : sem'[t] = sem[t]
         /\ adj'[p][s] = adj[p][s] - n
         /\ \A q \in Proc, t \in Sem : (q # p \/ t # s) => adj'[q][t] = adj[q][t]
BY SemFacts DEF TypeOK, Semop, Ready, InRange

\* exit_sem keeps the types and either leaves semaphore 1 alone or is harm.
LEMMA ExitSemFacts ==
  ASSUME TypeOK, NEW p \in Proc, ExitSem(p)
  PROVE  /\ sem' \in [Sem -> 0..SemMax]
         /\ adj' \in [Proc -> [Sem -> AdjVal]]
         /\ harm' \in SUBSET {"undo", "restart"}
         /\ harm \subseteq harm'
         /\ "restart" \in harm' => "restart" \in harm
         /\ sem'[0] = Clamp(sem[0] + adj[p][0])
         /\ harm' = {} => /\ sem'[1] = sem[1]
                          /\ adj[p][1] < 0 => sem[1] = 0
                          /\ adj[p][1] > 0 => sem[1] = SemMax
         /\ adj'[p][0] = 0 /\ adj'[p][1] = 0
         /\ \A q \in Proc : q # p => adj'[q] = adj[q]
<1>1. sem[0] \in 0..SemMax /\ sem[1] \in 0..SemMax
  BY SemFacts DEF TypeOK
<1>2. adj[p][0] \in Int /\ adj[p][1] \in Int
  <2>1. adj[p] \in [Sem -> AdjVal] BY DEF TypeOK
  <2>2. adj[p][0] \in AdjVal /\ adj[p][1] \in AdjVal BY <2>1, SemFacts
  <2> QED BY <2>2, SemFacts
<1>3. \A n \in Int : Clamp(n) \in 0..SemMax
  BY SemFacts DEF Clamp
<1>4. sem' \in [Sem -> 0..SemMax] /\ sem'[0] = Clamp(sem[0] + adj[p][0])
      /\ sem'[1] = Clamp(sem[1] + adj[p][1])
  BY <1>1, <1>2, <1>3, SemFacts DEF ExitSem
<1>5. /\ adj' \in [Proc -> [Sem -> AdjVal]]
      /\ adj'[p][0] = 0 /\ adj'[p][1] = 0
      /\ \A q \in Proc : q # p => adj'[q] = adj[q]
  BY SemFacts DEF ExitSem, TypeOK, NoAdj
<1>6. /\ harm' \in SUBSET {"undo", "restart"}
      /\ harm \subseteq harm'
      /\ "restart" \in harm' => "restart" \in harm
      /\ harm' = {} => Clamp(sem[1] + adj[p][1]) = sem[1]
  BY DEF ExitSem, TypeOK
<1>7. Clamp(sem[1] + adj[p][1]) = sem[1] =>
        /\ adj[p][1] < 0 => sem[1] = 0
        /\ adj[p][1] > 0 => sem[1] = SemMax
  BY <1>1, <1>2, SemFacts DEF Clamp
<1> QED BY <1>4, <1>5, <1>6, <1>7

-----------------------------------------------------------------------------
LEMMA InitType == Init => TypeOK
BY ShmDictAssumption, SemFacts
   DEF Init, TypeOK, ClientPC, ServerPC, Text, NoAdj

LEMMA NextType == TypeOK /\ [Next]_vars => TypeOK'
<1> SUFFICES ASSUME TypeOK, [Next]_vars PROVE TypeOK'
  OBVIOUS
<1> USE DEF ClientPC, ServerPC, kernel, shm, bounds, ghosts
<1>p. \A c \in Client : c \in Proc
  BY DEF Proc
<1>s. /\ Server \in Proc /\ 0 \in Sem /\ 1 \in Sem
      /\ -1 \in Int /\ 1 \in Int /\ 2 \in Int
  BY SemFacts DEF Proc
<1>1. ASSUME NEW c \in Client, ClientNext(c) PROVE TypeOK'
  <2>1. CASE Ask(c)
    BY <2>1 DEF Ask, Step, TypeOK, Text
  <2>2. CASE Grab(c)
    <3>1. Semop(c, 0, -1) BY <2>2 DEF Grab
    <3>2. sem' \in [Sem -> 0..SemMax] /\ adj' \in [Proc -> [Sem -> AdjVal]]
      BY <3>1, <1>p, <1>s, SemopFacts
    <3> QED BY <2>2, <3>2 DEF Grab, Step, TypeOK
  <2>3. CASE PutWord(c)
    BY <2>3 DEF PutWord, Step, TypeOK
  <2>4. CASE Alert(c)
    <3>1. Semop(c, 1, 2) BY <2>4 DEF Alert
    <3>2. sem' \in [Sem -> 0..SemMax] /\ adj' \in [Proc -> [Sem -> AdjVal]]
      BY <3>1, <1>p, <1>s, SemopFacts
    <3> QED BY <2>4, <3>2 DEF Alert, Step, TypeOK
  <2>5. CASE Await(c)
    BY <2>5 DEF Await, Step, TypeOK
  <2>6. CASE Release(c)
    <3>1. Semop(c, 0, 1) BY <2>6 DEF Release
    <3>2. sem' \in [Sem -> 0..SemMax] /\ adj' \in [Proc -> [Sem -> AdjVal]]
      BY <3>1, <1>p, <1>s, SemopFacts
    <3> QED BY <2>6, <3>2 DEF Release, Step, TypeOK
  <2>7. CASE Compare(c)
    BY <2>7 DEF Compare, TypeOK, Text
  <2>8. CASE Copy(c)
    BY <2>8 DEF Copy, Step, TypeOK
  <2>9. CASE Exit(c)
    <3>1. ExitSem(c) BY <2>9 DEF Exit
    <3>2. /\ sem' \in [Sem -> 0..SemMax] /\ adj' \in [Proc -> [Sem -> AdjVal]]
          /\ harm' \in SUBSET {"undo", "restart"}
      BY <3>1, <1>p, ExitSemFacts
    <3> QED BY <2>9, <3>2 DEF Exit, TypeOK
  <2>10. CASE ClientDies(c)
    <3>1. ExitSem(c) BY <2>10 DEF ClientDies
    <3>2. /\ sem' \in [Sem -> 0..SemMax] /\ adj' \in [Proc -> [Sem -> AdjVal]]
          /\ harm' \in SUBSET {"undo", "restart"}
      BY <3>1, <1>p, ExitSemFacts
    <3> QED BY <2>10, <3>2 DEF ClientDies, TypeOK
  <2> QED BY <1>1, <2>1, <2>2, <2>3, <2>4, <2>5, <2>6, <2>7, <2>8, <2>9, <2>10
          DEF ClientNext
<1>2. CASE Take
  <2>1. Semop(Server, 1, -1) BY <1>2 DEF Take
  <2>2. sem' \in [Sem -> 0..SemMax] /\ adj' \in [Proc -> [Sem -> AdjVal]]
    BY <2>1, <1>s, SemopFacts
  <2> QED BY <1>2, <2>2 DEF Take, ServerStep, TypeOK
<1>3. CASE Search
  BY <1>3 DEF Search, ServerStep, TypeOK
<1>4. CASE Store
  BY <1>4, ShmDictAssumption DEF Store, ServerStep, TypeOK, Answer, Text
<1>5. CASE Notify
  <2>1. Semop(Server, 1, -1) BY <1>5 DEF Notify
  <2>2. sem' \in [Sem -> 0..SemMax] /\ adj' \in [Proc -> [Sem -> AdjVal]]
    BY <2>1, <1>s, SemopFacts
  <2> QED BY <1>5, <2>2 DEF Notify, ServerStep, TypeOK
<1>6. CASE ServerDies
  <2>1. ExitSem(Server) BY <1>6 DEF ServerDies
  <2>2. /\ sem' \in [Sem -> 0..SemMax] /\ adj' \in [Proc -> [Sem -> AdjVal]]
        /\ harm' \in SUBSET {"undo", "restart"}
    BY <2>1, <1>s, ExitSemFacts
  <2> QED BY <1>6, <2>2 DEF ServerDies, TypeOK
<1>7. CASE Kill
  <2>1. ExitSem(Server) BY <1>7 DEF Kill
  <2>2. /\ sem' \in [Sem -> 0..SemMax] /\ adj' \in [Proc -> [Sem -> AdjVal]]
        /\ harm' \in SUBSET {"undo", "restart"}
    BY <2>1, <1>s, ExitSemFacts
  <2> QED BY <1>7, <2>2, ShmDictAssumption DEF Kill, TypeOK
<1>8. CASE Restart
  <2>1. sem' \in [Sem -> 0..SemMax] /\ adj' \in [Proc -> [Sem -> AdjVal]]
    BY <1>8, SemFacts DEF Restart
  <2>2. harm' \in SUBSET {"undo", "restart"}
    BY <1>8 DEF Restart, TypeOK
  <2> QED BY <1>8, <2>1, <2>2, ShmDictAssumption DEF Restart, TypeOK
<1>9. CASE UNCHANGED vars
  BY <1>9 DEF vars, TypeOK
<1> QED BY <1>1, <1>2, <1>3, <1>4, <1>5, <1>6, <1>7, <1>8, <1>9
        DEF Next, ServerNext

\* Every variable keeps its type, whatever exits, dies or is restarted.
THEOREM TypeCorrect == Spec => []TypeOK
BY InitType, NextType, PTL DEF Spec

-----------------------------------------------------------------------------
(* Semaphore 0 is a mutex.                                                 *)

LEMMA MutexStep == TypeOK /\ MutexInv /\ [Next]_vars => MutexInv'
<1> SUFFICES ASSUME TypeOK, MutexInv, [Next]_vars, "restart" \notin harm'
             PROVE  MutexInv'
  BY DEF MutexInv
<1> USE DEF Inside, kernel, shm, bounds, ghosts
<1>p. /\ \A c \in Client : c \in Proc /\ c # Server
      /\ Server \in Proc /\ 0 \in Sem /\ 1 \in Sem
      /\ -1 \in Int /\ 1 \in Int /\ 2 \in Int
  BY SemFacts, ShmDictAssumption DEF Proc
<1>1. ASSUME NEW c \in Client, ClientNext(c) PROVE MutexInv'
  <2>1. CASE Ask(c) \/ PutWord(c) \/ Await(c) \/ Compare(c) \/ Copy(c)
    BY <2>1, <1>p DEF Ask, PutWord, Await, Compare, Copy, Step, TypeOK, MutexInv
  <2>2. CASE Grab(c)
    <3>1. Semop(c, 0, -1) BY <2>2 DEF Grab
    <3> QED BY <3>1, <2>2, <1>p, SemopFacts DEF Grab, Step, TypeOK, MutexInv
  <2>3. CASE Alert(c)
    <3>1. Semop(c, 1, 2) BY <2>3 DEF Alert
    <3> QED BY <3>1, <2>3, <1>p, SemopFacts DEF Alert, Step, TypeOK, MutexInv
  <2>4. CASE Release(c)
    <3>1. Semop(c, 0, 1) BY <2>4 DEF Release
    <3> QED BY <3>1, <2>4, <1>p, SemopFacts DEF Release, Step, TypeOK, MutexInv
  <2>5. CASE Exit(c) \/ ClientDies(c)
    <3>1. ExitSem(c) /\ pc' = [pc EXCEPT ![c] = "gone"]
      BY <2>5 DEF Exit, ClientDies
    <3>2. /\ sem'[0] = Clamp(sem[0] + adj[c][0]) /\ adj'[c][0] = 0
          /\ \A q \in Proc : q # c => adj'[q] = adj[q]
          /\ "restart" \notin harm
      BY <3>1, <1>p, ExitSemFacts
    <3>3. sem'[0] = sem[0] + adj[c][0]
      BY <3>2, <1>p, SemFacts DEF MutexInv, Clamp
    <3> QED BY <3>1, <3>2, <3>3, <1>p DEF TypeOK, MutexInv
  <2> QED BY <1>1, <2>1, <2>2, <2>3, <2>4, <2>5 DEF ClientNext
<1>2. CASE Take \/ Notify
  <2>1. Semop(Server, 1, -1) BY <1>2 DEF Take, Notify
  <2> QED BY <2>1, <1>2, <1>p, SemopFacts DEF Take, Notify, TypeOK, MutexInv
<1>3. CASE Search \/ Store
  BY <1>3 DEF Search, Store, MutexInv
<1>4. CASE ServerDies \/ Kill
  <2>1. ExitSem(Server) /\ UNCHANGED pc BY <1>4 DEF ServerDies, Kill
  <2>2. /\ sem'[0] = Clamp(sem[0] + adj[Server][0]) /\ adj'[Server][0] = 0
        /\ \A q \in Proc : q # Server => adj'[q] = adj[q]
        /\ "restart" \notin harm
    BY <2>1, <1>p, ExitSemFacts
  <2>3. sem'[0] = sem[0]
    BY <2>2, SemFacts DEF MutexInv, Clamp
  <2> QED BY <2>1, <2>2, <2>3, <1>p DEF MutexInv
<1>5. CASE Restart
  <2>1. /\ \A c \in Client : ~Inside(c)
        /\ UNCHANGED pc
    BY <1>5 DEF Restart
  <2>2. sem'[0] = 1 /\ \A q \in Proc : adj'[q][0] = 0
    BY <1>5, SemFacts DEF Restart, NoAdj
  <2> QED BY <2>1, <2>2, <1>p DEF MutexInv
<1>6. CASE UNCHANGED vars
  BY <1>6 DEF vars, MutexInv
<1> QED BY <1>1, <1>2, <1>3, <1>4, <1>5, <1>6 DEF Next, ServerNext

LEMMA InitMutex == Init => MutexInv
BY SemFacts DEF Init, MutexInv, Inside, NoAdj, Proc

LEMMA TypeAndMutex == Spec => [](TypeOK /\ MutexInv)
BY InitType, NextType, InitMutex, MutexStep, PTL DEF Spec

\* Semaphore 0 is a mutex that every end of a client gives back, for every
\* number of clients; only a restart under a running request breaks it.
THEOREM Mutex == Spec => []MutualExclusion
<1>1. TypeOK /\ MutexInv => MutualExclusion
  BY DEF MutexInv, MutualExclusion
<1> QED BY <1>1, TypeAndMutex, PTL

-----------------------------------------------------------------------------
(* Semaphore 1 and the shared record.                                      *)

\* What an exit of process p leaves behind while no harm is done.
LEMMA ExitKeepsGate ==
  ASSUME TypeOK, NEW p \in Proc, ExitSem(p), harm' = {}
  PROVE  /\ harm = {}
         /\ sem'[1] = sem[1]
         /\ adj[p][1] < 0 => sem[1] = 0
         /\ adj[p][1] > 0 => sem[1] = SemMax
         /\ adj'[p][1] = 0
         /\ \A q \in Proc : q # p => adj'[q] = adj[q]
BY ExitSemFacts

LEMMA RequestStep ==
  TypeOK /\ MutexInv /\ RequestInv /\ [Next]_vars => RequestInv'
<1> SUFFICES ASSUME TypeOK, MutexInv, RequestInv, [Next]_vars, harm' = {}
             PROVE  RequestInv'
  BY DEF RequestInv
<1> USE DEF Inside, Busy, kernel, shm, bounds, ghosts
<1>p. /\ \A c \in Client : c \in Proc /\ c # Server
      /\ Server \in Proc /\ 0 \in Sem /\ 1 \in Sem /\ 0 # 1
      /\ -1 \in Int /\ 1 \in Int /\ 2 \in Int
  BY SemFacts, ShmDictAssumption DEF Proc
<1>t. /\ sem[1] \in 0..SemMax /\ SemMax \in Nat /\ SemMax >= 2
      /\ \A p \in Proc : adj[p][1] \in Int
  <2>1. \A p \in Proc : adj[p] \in [Sem -> AdjVal] BY DEF TypeOK
  <2> QED BY <2>1, SemFacts DEF TypeOK
<1>1. ASSUME NEW c \in Client, ClientNext(c) PROVE RequestInv'
  <2>1. CASE Ask(c)
    BY <2>1 DEF Ask, Step, TypeOK, RequestInv
  <2>2. CASE Grab(c)
    <3>1. Semop(c, 0, -1) /\ harm = {} BY <2>2 DEF Grab
    <3>2. /\ sem'[1] = sem[1]
          /\ \A q \in Proc : adj'[q][1] = adj[q][1]
      BY <3>1, <1>p, SemopFacts
    <3> QED BY <3>1, <3>2, <2>2, <1>p DEF Grab, Step, TypeOK, RequestInv
  <2>3. CASE PutWord(c)
    <3>1. harm = {} /\ pc[c] = "word" BY <2>3 DEF PutWord, Step
    <3>2. \A d \in Client : d # c => ~Inside(d)
      BY <3>1 DEF MutexInv
    <3> QED BY <3>1, <3>2, <2>3 DEF PutWord, Step, TypeOK, RequestInv
  <2>4. CASE Alert(c)
    <3>1. Semop(c, 1, 2) /\ harm = {} /\ pc[c] = "alert"
      BY <2>4 DEF Alert, Step
    <3>2. /\ sem'[1] = sem[1] + 2
          /\ adj'[c][1] = adj[c][1] - 2
          /\ \A q \in Proc : q # c => adj'[q][1] = adj[q][1]
      BY <3>1, <1>p, SemopFacts
    <3>3. \A d \in Client : d # c => ~Inside(d)
      BY <3>1 DEF MutexInv
    <3>4. ~Busy /\ sem[1] = 0
      BY <3>1, <3>3 DEF RequestInv
    <3>5. /\ pc' = [pc EXCEPT ![c] = "await"]
          /\ UNCHANGED <<query, word, sought, shmtext, spc>>
      BY <2>4 DEF Alert, Step
    <3>6. /\ sem'[1] = 2 /\ ~Busy' /\ pc'[c] = "await" /\ adj'[c][1] < 0
          /\ adj'[c][1] <= 0 /\ adj'[Server][1] >= 0
          /\ word' = query'[c]
      BY <3>1, <3>2, <3>4, <3>5, <1>p, <1>t DEF TypeOK, RequestInv
    <3>7. \A d \in Client : d # c => /\ ~Inside(d)'
                                     /\ adj'[d][1] <= 0
      BY <3>1, <3>2, <3>3, <3>5, <1>p DEF TypeOK, RequestInv
    <3> QED BY <3>6, <3>7 DEF RequestInv
  <2>5. CASE Await(c)
    <3>1. harm = {} /\ pc[c] = "await" /\ sem[1] = 0
      BY <2>5 DEF Await, Step
    <3>2. \A d \in Client : d # c => ~Inside(d)
      BY <3>1 DEF MutexInv
    <3>3. ~Busy /\ shmtext = Answer(query[c])
      BY <3>1 DEF RequestInv
    <3> QED BY <3>1, <3>2, <3>3, <2>5 DEF Await, Step, TypeOK, RequestInv
  <2>6. CASE Release(c)
    <3>1. Semop(c, 0, 1) /\ harm = {} BY <2>6 DEF Release
    <3>2. /\ sem'[1] = sem[1]
          /\ \A q \in Proc : adj'[q][1] = adj[q][1]
      BY <3>1, <1>p, SemopFacts
    <3> QED BY <3>1, <3>2, <2>6, <1>p DEF Release, Step, TypeOK, RequestInv
  <2>7. CASE Compare(c) \/ Copy(c)
    BY <2>7 DEF Compare, Copy, Step, TypeOK, RequestInv
  <2>8. CASE Exit(c) \/ ClientDies(c)
    <3>1. /\ ExitSem(c)
          /\ pc' = [pc EXCEPT ![c] = "gone"]
          /\ UNCHANGED <<query, word, sought, shmtext, spc>>
      BY <2>8 DEF Exit, ClientDies, shm
    <3>2. /\ harm = {}
          /\ sem'[1] = sem[1]
          /\ adj[c][1] < 0 => sem[1] = 0
          /\ adj'[c][1] = 0
          /\ \A q \in Proc : q # c => adj'[q] = adj[q]
      BY <3>1, <1>p, ExitKeepsGate
    <3>3. pc[c] = "await" => sem[1] = 0
      BY <3>2 DEF RequestInv
    <3>4. \A d \in Client : /\ d # c => pc'[d] = pc[d]
                            /\ adj'[d][1] <= 0
                            /\ d # c => adj'[d][1] = adj[d][1]
          /\ adj'[Server][1] >= 0
      BY <3>1, <3>2, <1>p DEF TypeOK, RequestInv
    <3>5. pc'[c] = "gone" BY <3>1 DEF TypeOK
    <3>6. sem[1] # 0 => \A d \in Client : pc[d] = "await" => pc'[d] = "await"
      BY <3>3, <3>4
    <3>7. /\ Busy' => /\ sem'[1] = 1
                      /\ adj'[Server][1] > 0
                      /\ \E d \in Client : pc'[d] = "await"
          /\ ~Busy' => /\ sem'[1] \in {0, 2}
                       /\ sem'[1] = 2 => \E d \in Client : pc'[d] = "await"
      BY <3>1, <3>2, <3>6, <1>p DEF RequestInv
    <3> QED BY <3>1, <3>2, <3>4, <3>5, <3>7 DEF RequestInv
  <2> QED BY <1>1, <2>1, <2>2, <2>3, <2>4, <2>5, <2>6, <2>7, <2>8
          DEF ClientNext
<1>2. CASE Take
  <2>1. Semop(Server, 1, -1) /\ harm = {} /\ spc = "take" /\ spc' = "search"
    BY <1>2 DEF Take, ServerStep
  <2>2. /\ sem[1] - 1 >= 0 /\ sem'[1] = sem[1] - 1
        /\ adj'[Server][1] = adj[Server][1] + 1
        /\ \A q \in Proc : q # Server => adj'[q][1] = adj[q][1]
    BY <2>1, <1>p, <1>t, SemopFacts
  <2>3. sem[1] = 2 /\ \E c \in Client : pc[c] = "await"
    BY <2>1, <2>2, <1>t DEF RequestInv
  <2>4. /\ sem'[1] = 1 /\ \A c \in Client : adj'[c][1] = adj[c][1]
        /\ UNCHANGED <<pc, query, sought, word, shmtext>>
    BY <2>2, <2>3, <1>2, <1>p DEF Take
  <2>5. adj'[Server][1] > 0 /\ adj'[Server][1] >= 0
    BY <2>1, <2>2, <1>p, <1>t DEF RequestInv
  <2> QED BY <2>1, <2>3, <2>4, <2>5 DEF RequestInv
<1>3. CASE Search
  BY <1>3 DEF Search, ServerStep, RequestInv
<1>4. CASE Store
  BY <1>4 DEF Store, ServerStep, RequestInv, MutexInv
<1>5. CASE Notify
  <2>1. /\ Semop(Server, 1, -1) /\ harm = {}
        /\ spc = "notify" /\ spc' = "take"
    BY <1>5 DEF Notify, ServerStep
  <2>2. /\ sem'[1] = sem[1] - 1
        /\ adj'[Server][1] = adj[Server][1] + 1
        /\ \A q \in Proc : q # Server => adj'[q][1] = adj[q][1]
    BY <2>1, <1>p, <1>t, SemopFacts
  <2>3. sem'[1] = 0 /\ adj'[Server][1] >= 0
    BY <2>1, <2>2, <1>p, <1>t DEF RequestInv
  <2> QED BY <2>1, <2>2, <2>3, <1>5, <1>p DEF Notify, RequestInv
<1>6. CASE ServerDies \/ Kill
  <2>1. /\ ExitSem(Server)
        /\ spc' = "down"
        /\ UNCHANGED <<pc, query, word, sought, shmtext>>
    BY <1>6 DEF ServerDies, Kill
  <2>2. /\ harm = {}
        /\ sem'[1] = sem[1]
        /\ adj[Server][1] > 0 => sem[1] = SemMax
        /\ adj'[Server][1] = 0
        /\ \A q \in Proc : q # Server => adj'[q] = adj[q]
    BY <2>1, <1>p, ExitKeepsGate
  <2>3. ~Busy
    BY <2>2, <1>t DEF RequestInv
  <2> QED BY <2>1, <2>2, <2>3, <1>p DEF RequestInv
<1>7. CASE Restart
  <2>1. /\ sem'[1] = 0 /\ \A q \in Proc : adj'[q][1] = 0
        /\ spc' = "take"
    BY <1>7, SemFacts DEF Restart, NoAdj
  <2>2. (\A c \in Client : ~Inside(c)) /\ UNCHANGED pc
    BY <1>7 DEF Restart
  <2> QED BY <2>1, <2>2, <1>p DEF RequestInv
<1>8. CASE UNCHANGED vars
  BY <1>8 DEF vars, RequestInv
<1> QED BY <1>1, <1>2, <1>3, <1>4, <1>5, <1>6, <1>7, <1>8 DEF Next, ServerNext

LEMMA InitRequest == Init => RequestInv
BY SemFacts DEF Init, RequestInv, NoAdj, Proc, Busy

LEMMA TypeMutexRequest == Spec => [](TypeOK /\ MutexInv /\ RequestInv)
BY InitType, NextType, InitMutex, MutexStep, InitRequest, RequestStep, PTL
   DEF Spec

\* Past the wait for zero a client finds its own answer in the record, for
\* every number of clients, until an exit changes semaphore 1.
THEOREM AnswerInPlace == Spec => []AnswerAtRelease
<1>1. RequestInv => AnswerAtRelease
  BY DEF RequestInv, AnswerAtRelease
<1> QED BY <1>1, TypeMutexRequest, PTL

\* A server at work has a client that waits, and works on that client's word.
THEOREM ServerHasAClient == Spec => []ServerWorksForAClient
<1>1. RequestInv => ServerWorksForAClient
  BY DEF RequestInv, ServerWorksForAClient, Busy
<1> QED BY <1>1, TypeMutexRequest, PTL

-----------------------------------------------------------------------------
(* The reads after the release.                                            *)

LEMMA FreshStep == IInv /\ [Next]_vars => FreshInv'
<1> SUFFICES ASSUME IInv, [Next]_vars, harm' = {} PROVE FreshInv'
  BY DEF FreshInv
<1> USE DEF Inside, Reading, Busy, kernel, shm, bounds, ghosts
<1>1. ASSUME NEW c \in Client, ClientNext(c) PROVE FreshInv'
  <2>1. CASE Ask(c) \/ Grab(c) \/ Compare(c) \/ Copy(c)
    BY <2>1 DEF Ask, Grab, Compare, Copy, Step, IInv, TypeOK, FreshInv
  <2>2. CASE PutWord(c)
    <3>1. harm = {} /\ pc[c] = "word" BY <2>2 DEF PutWord, Step
    <3>2. \A d \in Client : d # c => ~Inside(d)
      BY <3>1 DEF IInv, MutexInv
    <3> QED BY <3>2, <2>2 DEF PutWord, Step, IInv, TypeOK, FreshInv
  <2>3. CASE Alert(c) \/ Await(c)
    BY <2>3 DEF Alert, Await, Step, IInv, TypeOK, FreshInv
  <2>4. CASE Release(c)
    <3>1. harm = {} /\ pc[c] = "release" BY <2>4 DEF Release, Step
    <3>2. shmtext = Answer(query[c])
      BY <3>1 DEF IInv, RequestInv
    <3> QED BY <3>2, <2>4 DEF Release, Step, IInv, TypeOK, FreshInv
  <2>5. CASE Exit(c) \/ ClientDies(c)
    <3>1. /\ ExitSem(c)
          /\ pc' = [pc EXCEPT ![c] = "gone"]
          /\ UNCHANGED <<query, shmtext, fresh>>
      BY <2>5 DEF Exit, ClientDies
    <3>2. harm = {}
      BY <3>1, ExitKeepsGate DEF IInv, Proc
    <3> QED BY <3>1, <3>2 DEF IInv, TypeOK, FreshInv
  <2> QED BY <1>1, <2>1, <2>2, <2>3, <2>4, <2>5 DEF ClientNext
<1>2. CASE Take \/ Search \/ Notify
  BY <1>2 DEF Take, Search, Notify, IInv, FreshInv
<1>3. CASE Store
  <2>1. harm = {} /\ spc = "store" BY <1>3 DEF Store, ServerStep
  <2>2. PICK d \in Client : pc[d] = "await"
    BY <2>1 DEF IInv, RequestInv
  <2>3. \A c \in Client : fresh[c] => ~Reading(c)
    BY <2>1, <2>2 DEF IInv, FreshInv
  <2> QED BY <2>1, <2>3, <1>3 DEF Store, IInv, FreshInv
<1>4. CASE ServerDies \/ Kill
  <2>1. ExitSem(Server) /\ UNCHANGED <<pc, query, shmtext, fresh>>
    BY <1>4 DEF ServerDies, Kill
  <2>2. harm = {}
    BY <2>1, ExitKeepsGate DEF IInv, Proc
  <2> QED BY <2>1, <2>2 DEF IInv, FreshInv
<1>5. CASE Restart
  <2>1. \A c \in Client : ~Inside(c)
    BY <1>5 DEF Restart
  <2>2. CASE \E c \in Client : Reading(c)
    BY <1>5, <2>1, <2>2 DEF Restart, IInv, FreshInv
  <2>3. CASE ~ \E c \in Client : Reading(c)
    BY <1>5, <2>1, <2>3 DEF Restart, FreshInv
  <2> QED BY <2>2, <2>3
<1>6. CASE UNCHANGED vars
  BY <1>6 DEF vars, IInv, FreshInv
<1> QED BY <1>1, <1>2, <1>3, <1>4, <1>5, <1>6 DEF Next, ServerNext

LEMMA InductiveInvariant == Spec => []IInv
<1>1. Init => IInv
  BY InitType, InitMutex, InitRequest DEF Init, IInv, FreshInv
<1>2. IInv /\ [Next]_vars => IInv'
  BY NextType, MutexStep, RequestStep, FreshStep DEF IInv
<1> QED BY <1>1, <1>2, PTL DEF Spec

\* A lookup returns the answer to its word, unless another client put its own
\* word in the record after this one, or an exit or a restart did harm.
THEOREM RightUnlessOvertaken == Spec => LookupIsRightUnlessOvertaken
<1> DEFINE Right ==
      \A c \in Client :
        /\ Reading(c)
        /\ pc'[c] = "idle"
        /\ harm = {}
        /\ fresh[c]
        => text'[c] = Answer(query[c])
<1>1. IInv /\ [Next]_vars => [Right]_vars
  <2> SUFFICES ASSUME IInv, [Next]_vars,
                      NEW c \in Client,
                      Reading(c), pc'[c] = "idle", harm = {}, fresh[c]
               PROVE  text'[c] = Answer(query[c])
    OBVIOUS
  <2>1. shmtext = Answer(query[c])
    BY DEF IInv, FreshInv
  <2>2. Compare(c) \/ Copy(c)
    <3>1. \A d \in Client : ClientNext(d) /\ d # c => pc'[c] = pc[c]
      BY DEF ClientNext, Ask, Grab, PutWord, Alert, Await, Release, Compare,
             Copy, Exit, ClientDies, Step, IInv, TypeOK
    <3>2. ClientNext(c) => Compare(c) \/ Copy(c)
      BY DEF ClientNext, Ask, Grab, PutWord, Alert, Await, Release,
             Exit, ClientDies, Step, Reading, ClientOp, IInv, TypeOK
    <3>3. ServerNext \/ Kill \/ Restart \/ UNCHANGED vars => pc' = pc
      BY DEF ServerNext, Take, Search, Store, Notify, ServerDies, Kill,
             Restart, vars
    <3> QED BY <3>1, <3>2, <3>3 DEF Next, Reading
  <2> QED BY <2>1, <2>2 DEF Compare, Copy, Step, IInv, TypeOK
<1>2. LookupIsRightUnlessOvertaken <=> [][Right]_vars
  BY PTL DEF LookupIsRightUnlessOvertaken
<1> QED BY <1>1, <1>2, InductiveInvariant, PTL DEF Spec

\* A server that ends because its adjustment is full ends with a request
\* taken or pending, and leaves semaphore 1 above 0: that client sleeps on.
THEOREM OwnDeathStrands == Spec => OwnDeathStrandsAClient
<1> DEFINE Strands == spc # "down" /\ spc' = "down" /\ kills' = kills /\ harm = {}
                        => \E c \in Client : pc[c] = "await" /\ sem'[1] > 0
<1>1. IInv /\ [Next]_vars => [Strands]_vars
  <2> SUFFICES ASSUME IInv, [Next]_vars, spc # "down", spc' = "down",
                      kills' = kills, harm = {}
               PROVE  \E c \in Client : pc[c] = "await" /\ sem'[1] > 0
    OBVIOUS
  <2>1. ServerDies
    <3>1. \A c \in Client : ClientNext(c) => spc' = spc
      BY DEF ClientNext, Ask, Grab, PutWord, Alert, Await, Release, Compare,
             Copy, Exit, ClientDies
    <3>2. Kill => kills' # kills
      BY ShmDictAssumption DEF Kill, IInv, TypeOK
    <3>3. Take \/ Search \/ Store \/ Notify \/ Restart => spc' # "down"
      BY DEF Take, Search, Store, Notify, Restart, ServerStep
    <3> QED BY <3>1, <3>2, <3>3 DEF Next, ServerNext, vars
  <2>2. /\ sem[1] \in 0..SemMax /\ adj[Server][1] \in Int
        /\ SemMax \in Nat /\ SemMax >= 2
    <3>1. adj[Server] \in [Sem -> AdjVal] BY DEF IInv, TypeOK, Proc
    <3> QED BY <3>1, SemFacts DEF IInv, TypeOK
  <2>3. sem[1] >= 1
    BY <2>1, <2>2 DEF ServerDies, Ready
  <2>4. \E c \in Client : pc[c] = "await"
    BY <2>2, <2>3 DEF IInv, RequestInv, Busy
  <2>5. sem'[1] > 0
    <3>1. sem'[1] = Clamp(sem[1] + adj[Server][1])
      BY <2>1, SemFacts DEF ServerDies, ExitSem
    <3>2. adj[Server][1] >= 0 BY DEF IInv, RequestInv
    <3> QED BY <3>1, <3>2, <2>2, <2>3 DEF Clamp
  <2> QED BY <2>4, <2>5
<1>2. OwnDeathStrandsAClient <=> [][Strands]_vars
  BY PTL DEF OwnDeathStrandsAClient
<1> QED BY <1>1, <1>2, InductiveInvariant, PTL DEF Spec


(***************************************************************************)
(* Shell.                                                                  *)
(***************************************************************************)

\* What a vector consists of, and what a process may have as input or output.
LineWord == UNION {{Parse(l)[i] : i \in DOMAIN Parse(l)} : l \in Seq(STRING)}
Ends == {<<>>, <<"input">>, <<"screen">>} \cup {<<"file", w>> : w \in LineWord}
          \cup {<<"pipe", q>> : q \in Pids}
Phases == {"none", "in", "out", "pipe", "exec", "run", "ended"}
Process == [argv : Seq(LineWord), next : Phases, in : Ends, out : Ends,
            holds : SUBSET ({"r", "w"} \X Pids), unread : Nat,
            line : Seq(LineWord), stage : Nat]

ShellTypeOK ==
  /\ version \in {"HW3", "HW5"} /\ input \in Seq(Seq(STRING))
  /\ offset \in Nat /\ at \in Nat /\ top \in Nat
  /\ proc \in [Pids -> Process]

\* The shell reads on in its buffer, and its buffer ends where input stands,
\* unless the offset has been moved back.
ReadsOn ==
  /\ at <= top
  /\ rewound => media = "file"
  /\ ~rewound => top <= offset /\ started \subseteq 1..at /\ again = {}

\* The words of a vector come from its line; the process that is waited for
\* is there, and all others have lines with "&" or "|".
HasWord(line, t) == \E j \in DOMAIN line : line[j] = t
Waited ==
  /\ \A p \in Pids : \A i \in DOMAIN proc[p].argv :
       HasWord(proc[p].line, proc[p].argv[i])
  /\ sh = "wait" => child \in Running
  /\ \A p \in Running : \/ HasWord(proc[p].line, "&") \/ HasWord(proc[p].line, "|")
                        \/ sh = "wait" /\ child = p

\* A pipe that a command writes to leads to the next command, and the shell
\* waits for none that reads from a pipe.
PipesLead ==
  \A p, q \in Pids : proc[p].out = <<"pipe", q>> =>
    /\ proc[p].next \in {"exec", "run"}
    /\ q \in Running => proc[q].stage = proc[p].stage + 1
    /\ sh = "wait" => child # q

\* A vector v that is still to be split is what a bar leaves of the commands.
FromBar(line, k, v) ==
  \E m \in 0..Len(Commands(line)) :
    /\ v = SubSeq(line, m + 1, Len(Commands(line)))
    /\ Bars(line, m + 1) = k - 1
    /\ \/ m = 0
       \/ m < Len(Commands(line)) /\ line[m] = "|"

InputOf(p, line, k) == IF k = 1 THEN FileAfter(line, "<", <<"input">>)
                                ELSE <<"pipe", p>>
OutputOf(line)      == FileAfter(line, ">", <<"screen">>)

\* What process p is at each pass over its vector.
ReadyFor(p, r) ==
  CASE r.next = "in"   -> /\ r.argv = r.line /\ r.stage = 1
                          /\ r.in = <<"input">> /\ r.out = <<"screen">>
    [] r.next = "out"  -> /\ r.argv = Before(r.line, "<") /\ r.stage = 1
                          /\ r.in = InputOf(p, r.line, 1) /\ r.out = <<"screen">>
    [] r.next = "pipe" -> /\ FromBar(r.line, r.stage, r.argv)
                          /\ r.in = InputOf(p, r.line, r.stage)
                          /\ r.out = OutputOf(r.line)
    [] r.next \in {"exec", "run"} ->
         /\ r.argv # <<>> => r.argv = StageOf(r.line, r.stage)
         /\ r.in = InputOf(p, r.line, r.stage)
         /\ IF r.stage = Stages(r.line)
              THEN r.out = OutputOf(r.line)
              ELSE \E q \in Pids : r.out = <<"pipe", q>>
    [] OTHER -> TRUE

Written == version = "HW5" =>
  \A p \in Pids : /\ Regular(proc[p].line) => ReadyFor(p, proc[p])
                  /\ proc[p].next = "run" => proc[p].argv # <<>>

ShellInv == ShellTypeOK /\ ReadsOn /\ Waited /\ PipesLead /\ Written

-----------------------------------------------------------------------------
(* Tokens and positions.                                                   *)

\* A set of positions has a first one.
LEMMA FirstIsLeast ==
  ASSUME NEW S \in SUBSET Nat, S # {}
  PROVE  First(S) \in S /\ \A j \in S : First(S) <= j
<1> DEFINE R == OpToRel(<, Nat)
<1>1. IsWellFoundedOn(R, Nat)
  BY NatLessThanWellFounded
<1>2. \A x, y \in Nat : y < x => <<y, x>> \in R
  BY DEF OpToRel
<1> HIDE DEF R
<1>3. PICK x \in S : \A y \in S : ~ (<<y, x>> \in R)
  BY <1>1, WFMin
<1>4. \A j \in S : x <= j
  <2> TAKE j \in S
  <2>1. ~ (j < x)
    BY <1>2, <1>3
  <2> QED
    BY <2>1
<1>5. \E i \in S : \A j \in S : i <= j
  BY <1>4
<1> QED
  BY <1>5 DEF First

\* What the first position is, when it is known.
LEMMA FirstIs ==
  ASSUME NEW S \in SUBSET Nat, NEW i \in S, \A j \in S : i <= j
  PROVE  First(S) = i
<1>1. First(S) \in S /\ First(S) <= i
  BY FirstIsLeast
<1>2. i <= First(S) /\ i \in Nat /\ First(S) \in Nat
  BY <1>1
<1> QED
  BY <1>1, <1>2

\* Positions of a line are finitely many.
LEMMA Positions ==
  ASSUME NEW T, NEW v \in Seq(T), NEW S, S \subseteq DOMAIN v
  PROVE  IsFiniteSet(S) /\ Cardinality(S) \in Nat /\ S \subseteq Nat
<1>1. IsFiniteSet(1..Len(v)) /\ DOMAIN v = 1..Len(v)
  BY FS_Interval
<1> QED
  BY <1>1, FS_Subset, FS_CardinalityType

LEMMA ParseType ==
  ASSUME NEW line \in Seq(STRING)
  PROVE  Parse(line) \in Seq(LineWord)
<1> DEFINE words == DOMAIN line \ Where(line, " ")
           n == Cardinality(words)
<1>1. n \in Nat
  BY Positions
<1>2. Parse(line) = [k \in 1..n |-> Parse(line)[k]] /\ DOMAIN Parse(line) = 1..n
  BY DEF Parse
<1>3. {Parse(line)[i] : i \in DOMAIN Parse(line)} \subseteq LineWord
  BY Zenon DEF LineWord
<1>4. \A k \in 1..n : Parse(line)[k] \in LineWord
  BY <1>2, <1>3
<1> HIDE DEF n
<1> QED
  BY <1>1, <1>2, <1>4

LEMMA SubSeqOf ==
  ASSUME NEW T, NEW v \in Seq(T), NEW m \in 1..Len(v) + 1,
         NEW n \in m - 1..Len(v)
  PROVE  /\ SubSeq(v, m, n) \in Seq(T)
         /\ Len(SubSeq(v, m, n)) = n - m + 1
         /\ DOMAIN SubSeq(v, m, n) = 1..n - m + 1
         /\ \A i \in 1..n - m + 1 : SubSeq(v, m, n)[i] = v[m + i - 1]
<1>1. \A i \in m..n : v[i] \in T
  BY ElementOfSeq
<1>2. m \in Int /\ n \in Int /\ m <= n + 1
  OBVIOUS
<1>3. /\ SubSeq(v, m, n) \in Seq(T)
      /\ Len(SubSeq(v, m, n)) = IF m <= n THEN n - m + 1 ELSE 0
      /\ \A i \in 1..n - m + 1 : SubSeq(v, m, n)[i] = v[m + i - 1]
  BY <1>1, <1>2, SubSeqProperties
<1>4. Len(SubSeq(v, m, n)) = n - m + 1
  BY <1>2, <1>3
<1> QED
  BY <1>3, <1>4, LenProperties

\* A part of a part.
LEMMA PartOfPart ==
  ASSUME NEW T, NEW v \in Seq(T), NEW m \in 0..Len(v), NEW n \in m..Len(v),
         NEW a \in 1..n - m + 1, NEW b \in a - 1..n - m
  PROVE  SubSeq(SubSeq(v, m + 1, n), a, b) = SubSeq(v, m + a, m + b)
<1> DEFINE w == SubSeq(v, m + 1, n)
<1>1. w \in Seq(T) /\ Len(w) = n - m /\ \A i \in 1..n - m : w[i] = v[m + i]
  <2>1. m + 1 \in 1..Len(v) + 1 /\ n \in (m + 1) - 1..Len(v)
    OBVIOUS
  <2>2. /\ w \in Seq(T) /\ Len(w) = n - (m + 1) + 1
        /\ \A i \in 1..n - (m + 1) + 1 : w[i] = v[(m + 1) + i - 1]
    BY <2>1, SubSeqOf
  <2> QED
    BY <2>2
<1> HIDE DEF w
<1>2. /\ SubSeq(w, a, b) \in Seq(T) /\ Len(SubSeq(w, a, b)) = b - a + 1
      /\ \A i \in 1..b - a + 1 : SubSeq(w, a, b)[i] = w[a + i - 1]
  <2>1. a \in 1..Len(w) + 1 /\ b \in a - 1..Len(w)
    BY <1>1
  <2> QED
    BY <1>1, <2>1, SubSeqOf
<1>3. /\ SubSeq(v, m + a, m + b) \in Seq(T)
      /\ Len(SubSeq(v, m + a, m + b)) = b - a + 1
      /\ \A i \in 1..b - a + 1 : SubSeq(v, m + a, m + b)[i] = v[m + a + i - 1]
  <2>1. /\ m + a \in 1..Len(v) + 1 /\ m + b \in (m + a) - 1..Len(v)
        /\ (m + b) - (m + a) + 1 = b - a + 1
    OBVIOUS
  <2> QED
    BY <2>1, SubSeqOf
<1>4. \A i \in 1..b - a + 1 : SubSeq(w, a, b)[i] = SubSeq(v, m + a, m + b)[i]
  <2> TAKE i \in 1..b - a + 1
  <2>1. a + i - 1 \in 1..n - m /\ m + (a + i - 1) = m + a + i - 1
    OBVIOUS
  <2> QED
    BY <1>1, <1>2, <1>3, <2>1
<1>5. SubSeq(w, a, b) = SubSeq(v, m + a, m + b)
  BY <1>2, <1>3, <1>4, SeqEqual
<1> QED
  BY <1>5 DEF w

\* The vector before and after the first t.
LEMMA Cut ==
  ASSUME NEW T, NEW v \in Seq(T), NEW t, Where(v, t) # {}
  PROVE  LET f == First(Where(v, t)) IN
         /\ f \in 1..Len(v) /\ v[f] = t /\ \A j \in 1..f - 1 : v[j] # t
         /\ Before(v, t) = SubSeq(v, 1, f - 1) /\ Before(v, t) \in Seq(T)
         /\ Len(Before(v, t)) = f - 1 /\ \A i \in 1..f - 1 : Before(v, t)[i] = v[i]
         /\ After(v, t) \in Seq(T) /\ Len(After(v, t)) = Len(v) - f
         /\ \A i \in 1..Len(v) - f : After(v, t)[i] = v[f + i]
<1> DEFINE f == First(Where(v, t))
<1>1. Where(v, t) \subseteq Nat /\ Where(v, t) \subseteq 1..Len(v)
  BY DEF Where
<1>2. f \in Where(v, t) /\ \A j \in Where(v, t) : f <= j
  BY <1>1, FirstIsLeast
<1>3. f \in 1..Len(v) /\ v[f] = t /\ \A j \in 1..f - 1 : v[j] # t
  <2> HIDE DEF f
  <2> QED
    BY <1>2 DEF Where
<1>4. Before(v, t) = SubSeq(v, 1, f - 1) /\ After(v, t) = SubSeq(v, f + 1, Len(v))
  BY DEF Before, After
<1> HIDE DEF f
<1>5. 1 \in 1..Len(v) + 1 /\ f - 1 \in 1 - 1..Len(v) /\ (f - 1) - 1 + 1 = f - 1
  BY <1>3
<1>6. /\ SubSeq(v, 1, f - 1) \in Seq(T) /\ Len(SubSeq(v, 1, f - 1)) = f - 1
      /\ \A i \in 1..f - 1 : SubSeq(v, 1, f - 1)[i] = v[i]
  <2>1. \A i \in 1..(f - 1) - 1 + 1 :
          SubSeq(v, 1, f - 1)[i] = v[1 + i - 1] /\ 1 + i - 1 = i
    BY <1>5, SubSeqOf
  <2>2. SubSeq(v, 1, f - 1) \in Seq(T) /\ Len(SubSeq(v, 1, f - 1)) = (f - 1) - 1 + 1
    BY <1>5, SubSeqOf
  <2> QED
    BY <1>5, <2>1, <2>2
<1>7. /\ f + 1 \in 1..Len(v) + 1 /\ Len(v) \in (f + 1) - 1..Len(v)
      /\ Len(v) - (f + 1) + 1 = Len(v) - f
  BY <1>3
<1>8. /\ SubSeq(v, f + 1, Len(v)) \in Seq(T)
      /\ Len(SubSeq(v, f + 1, Len(v))) = Len(v) - f
      /\ \A i \in 1..Len(v) - f : SubSeq(v, f + 1, Len(v))[i] = v[(f + 1) + i - 1]
  BY <1>7, SubSeqOf
<1>9. \A i \in 1..Len(v) - f : (f + 1) + i - 1 = f + i
  BY <1>3
<1> QED
  BY <1>3, <1>4, <1>6, <1>8, <1>9 DEF f

\* Without t nothing is cut.
LEMMA NoCut ==
  ASSUME NEW v, NEW t, Where(v, t) = {}
  PROVE  Before(v, t) = v
BY DEF Before

-----------------------------------------------------------------------------
(* The shape of a regular line: commands, "> file", "< file".              *)

File(t) == t \notin {"<", ">", "|"}
Shape(line, n) ==
  /\ n \in 0..Len(line) /\ Commands(line) = SubSeq(line, 1, n)
  /\ \A i \in 1..n : line[i] \notin {"<", ">"}
  /\ \/ Len(line) = n
     \/ Len(line) = n + 2 /\ line[n + 1] \in {"<", ">"} /\ File(line[n + 2])
     \/ /\ Len(line) = n + 4 /\ line[n + 1] = ">" /\ line[n + 3] = "<"
        /\ File(line[n + 2]) /\ File(line[n + 4])

\* A set of at most one element.
LEMMA AtMostOne ==
  ASSUME NEW S, IsFiniteSet(S), Cardinality(S) <= 1, NEW x \in S
  PROVE  S = {x}
<1>1. IsFiniteSet({x}) /\ Cardinality({x}) = 1 /\ Cardinality(S) \in Nat
  BY FS_Singleton, FS_CardinalityType
<1>2. Cardinality({x}) <= Cardinality(S)
  BY FS_Subset
<1>3. Cardinality(S) = Cardinality({x})
  BY <1>1, <1>2
<1> QED
  BY <1>3, FS_Subset

LEMMA RegularShape ==
  ASSUME NEW T, NEW line \in Seq(T), Regular(line)
  PROVE  Shape(line, Len(Commands(line)))
<1> DEFINE in  == Where(line, "<")
           out == Where(line, ">")
           red == Redirected(line)
           f   == First(red)
           n   == Len(Commands(line))
<1>1. /\ in \subseteq 1..Len(line) /\ out \subseteq 1..Len(line)
      /\ red = in \cup out /\ red \subseteq Nat
      /\ \A i \in in : line[i] = "<"
      /\ \A i \in out : line[i] = ">"
      /\ \A i \in 1..Len(line) : i \notin red => line[i] \notin {"<", ">"}
  BY DEF Where, Redirected
<1>2. /\ IsFiniteSet(in) /\ IsFiniteSet(out)
      /\ Cardinality(in) <= 1 /\ Cardinality(out) <= 1
      /\ \A i \in red : i < Len(line) /\ File(line[i + 1])
      /\ \A i \in in, j \in out : j < i
      /\ Len(line) = n + 2 * Cardinality(red)
  <2>1. IsFiniteSet(in) /\ IsFiniteSet(out)
    BY Positions DEF Where
  <2> QED
    BY <2>1 DEF Regular, File
<1>3. CASE red = {}
  <2>1. Commands(line) = line /\ SubSeq(line, 1, Len(line)) = line
    BY <1>3, SubSeqFull DEF Commands
  <2>2. \A i \in 1..Len(line) : line[i] \notin {"<", ">"}
    BY <1>1, <1>3
  <2> QED
    BY <2>1, <2>2 DEF Shape
<1>4. CASE red # {}
  <2>1. f \in red /\ \A j \in red : f <= j
    BY <1>1, <1>4, FirstIsLeast
  <2>2. f \in 1..Len(line) /\ f \in Nat
    BY <2>1, <1>1
  <2>3. Commands(line) = SubSeq(line, 1, f - 1)
    BY <1>4 DEF Commands
  <2>4. n = f - 1
    <3> HIDE DEF f
    <3>1. 1 \in 1..Len(line) + 1 /\ f - 1 \in 1 - 1..Len(line) /\ (f - 1) - 1 + 1 = f - 1
      BY <2>2
    <3> QED
      BY <2>3, <3>1, SubSeqOf
  <2>5. n \in 0..Len(line) /\ \A i \in 1..n : line[i] \notin {"<", ">"}
    <3> HIDE DEF f, n, red
    <3>1. n \in 0..Len(line)
      BY <2>2, <2>4
    <3>2. \A i \in 1..n : i \in 1..Len(line) /\ i \in Nat /\ ~ (f <= i)
      BY <2>2, <2>4
    <3>3. \A i \in 1..n : i \notin red
      BY <3>2, <2>1
    <3> QED
      BY <1>1, <3>1, <3>2, <3>3
  <2>6. ASSUME NEW i, red = {i}
        PROVE  Shape(line, n)
    <3>1. i = f /\ Cardinality(red) = 1
      BY <2>6, <2>1, FS_Singleton
    <3>2. line[f] \in {"<", ">"} /\ File(line[f + 1])
      BY <2>1, <1>1, <1>2
    <3> HIDE DEF f, n, red, in, out
    <3>3. Len(line) = n + 2 /\ n + 1 = f /\ n + 2 = f + 1
      BY <3>1, <1>2, <2>2, <2>4
    <3>4. Commands(line) = SubSeq(line, 1, n)
      BY <2>3, <2>4
    <3> QED
      BY <3>2, <3>3, <3>4, <2>5 DEF Shape
  <2>7. ASSUME NEW i \in in, NEW j \in out
        PROVE  Shape(line, n)
    <3>1. in = {i} /\ out = {j}
      BY <1>2, AtMostOne
    <3>2. j < i /\ j \in Nat /\ i \in Nat
      BY <1>1, <1>2
    <3>3. red = {j, i} /\ Cardinality(red) = 2
      <4>1. red = {j} \cup {i}
        BY <1>1, <3>1
      <4>2. IsFiniteSet({j}) /\ Cardinality({j}) = 1
        BY FS_Singleton
      <4>3. i \notin {j}
        BY <3>2
      <4>4. Cardinality({j} \cup {i}) = 1 + 1
        BY <4>2, <4>3, FS_AddElement
      <4>5. Cardinality(red) = 1 + 1
        BY <4>1, <4>4, Zenon
      <4> QED
        BY <4>1, <4>5
    <3>4. f = j
      BY <2>1, <3>2, <3>3
    <3> HIDE DEF f, n, red
    <3>5. Len(line) = n + 4 /\ n = j - 1 /\ n \in Nat
      BY <1>2, <2>5, <2>4, <3>3, <3>4
    <3>6. i < Len(line) /\ line[i] = "<" /\ line[j] = ">"
      BY <1>1, <1>2, <3>3
    <3>7. File(line[j + 1]) /\ File(line[i + 1]) /\ ~ File("<")
      BY <1>2, <3>3 DEF File
    <3>8. i # j + 1
      BY <3>6, <3>7
    <3>9. i = n + 3 /\ i + 1 = n + 4 /\ j = n + 1 /\ j + 1 = n + 2
      BY <3>2, <3>5, <3>6, <3>8
    <3>10. Commands(line) = SubSeq(line, 1, n)
      BY <2>3, <2>4
    <3> QED
      BY <3>5, <3>6, <3>7, <3>9, <3>10, <2>5 DEF Shape
  <2>8. CASE in = {} \/ out = {}
    <3>1. PICK i : i \in red
      BY <1>4
    <3>2. red = {i}
      BY <2>8, <3>1, <1>1, <1>2, AtMostOne
    <3> QED
      BY <3>2, <2>6
  <2> QED
    BY <2>7, <2>8
<1> QED
  BY <1>3, <1>4

-----------------------------------------------------------------------------
(* Bars and stages.                                                        *)

\* No bar from i on, a bar between, and the next one.
LEMMA CountingBars ==
  ASSUME NEW T, NEW line \in Seq(T), NEW i \in Nat, NEW j \in Nat, i <= j
  PROVE  /\ Bars(line, i) \in Nat
         /\ (\A b \in i..j - 1 : b \notin Where(line, "|")) =>
              Bars(line, j) = Bars(line, i)
         /\ (\E b \in i..j - 1 : b \in Where(line, "|")) =>
              Bars(line, i) < Bars(line, j)
         /\ i \in Where(line, "|") => Bars(line, i + 1) = Bars(line, i) + 1
<1> DEFINE W == Where(line, "|")
           Low(n) == {b \in W : b < n}
<1>1. \A n : Bars(line, n) = Cardinality(Low(n))
  BY DEF Bars
<1>2. /\ W \subseteq Nat
      /\ \A n : IsFiniteSet(Low(n)) /\ Cardinality(Low(n)) \in Nat
  <2>1. W \subseteq DOMAIN line
    BY DEF Where
  <2> HIDE DEF W
  <2>2. \A n : Low(n) \subseteq DOMAIN line
    BY <2>1
  <2> QED
    BY <2>1, <2>2, Positions
<1> HIDE DEF W
<1>3. ASSUME \A b \in i..j - 1 : b \notin W
      PROVE  Cardinality(Low(j)) = Cardinality(Low(i))
  <2>1. \A x \in W : x < j <=> x < i
    BY <1>2, <1>3
  <2>2. Low(j) = Low(i)
    BY <2>1
  <2> QED
    BY <2>2
<1>4. ASSUME NEW b \in i..j - 1, b \in W
      PROVE  Cardinality(Low(i)) < Cardinality(Low(j))
  <2>1. b < j /\ ~ (b < i) /\ \A x \in W : x < i => x < j
    BY <1>2, <1>4
  <2>2. Low(i) \subseteq Low(j) /\ b \in Low(j) /\ b \notin Low(i)
    BY <1>4, <2>1
  <2> HIDE DEF Low
  <2>3. Cardinality(Low(i)) <= Cardinality(Low(j)) /\ Low(i) # Low(j)
    BY <2>2, <1>2, FS_Subset
  <2>4. Cardinality(Low(i)) # Cardinality(Low(j))
    BY <2>2, <2>3, <1>2, FS_Subset
  <2> QED
    BY <2>3, <2>4, <1>2
<1>5. ASSUME i \in W
      PROVE  Cardinality(Low(i + 1)) = Cardinality(Low(i)) + 1
  <2>1. ~ (i < i) /\ \A x \in W : x < i + 1 <=> x < i \/ x = i
    BY <1>2
  <2>2. Low(i + 1) = Low(i) \cup {i} /\ i \notin Low(i)
    BY <1>5, <2>1
  <2> HIDE DEF Low
  <2> QED
    BY <2>2, <1>2, FS_AddElement
<1> HIDE DEF Low
<1> QED
  BY <1>1, <1>2, <1>3, <1>4, <1>5 DEF W

\* Bars lie among the commands.
LEMMA BarsAmongCommands ==
  ASSUME NEW T, NEW line \in Seq(T), NEW n, Shape(line, n)
  PROVE  \A b \in Where(line, "|") : b \in 1..n /\ line[b] = "|"
<1>1. \A b \in Where(line, "|") : b \in 1..Len(line) /\ line[b] = "|"
  BY DEF Where
<1> SUFFICES ASSUME NEW b \in 1..Len(line), line[b] = "|"
             PROVE  b \in 1..n
  BY <1>1
<1>2. n \in Nat
  BY DEF Shape
<1>3. CASE Len(line) = n
  BY <1>3
<1>4. CASE Len(line) = n + 2 /\ line[n + 1] \in {"<", ">"} /\ File(line[n + 2])
  <2>1. b # n + 1 /\ b # n + 2
    BY <1>4 DEF File
  <2> QED
    BY <1>2, <1>4, <2>1
<1>5. CASE /\ Len(line) = n + 4 /\ line[n + 1] = ">" /\ line[n + 3] = "<"
           /\ File(line[n + 2]) /\ File(line[n + 4])
  <2>1. b # n + 1 /\ b # n + 2 /\ b # n + 3 /\ b # n + 4
    BY <1>5 DEF File
  <2> QED
    BY <1>2, <1>5, <2>1
<1> QED
  BY <1>3, <1>4, <1>5 DEF Shape

\* What lies between two bars is a stage.
LEMMA BetweenBars ==
  ASSUME NEW T, NEW line \in Seq(T), NEW n \in Nat, Shape(line, n),
         NEW m \in 0..n, m = 0 \/ line[m] = "|",
         NEW e \in m + 1..n, e = n \/ line[e + 1] = "|",
         \A i \in m + 1..e : line[i] # "|"
  PROVE  StageOf(line, Bars(line, m + 1) + 1) = SubSeq(line, m + 1, e)
<1> DEFINE W == Where(line, "|")
           k == Bars(line, m + 1)
           S == {i \in DOMAIN Commands(line) :
                   line[i] # "|" /\ Bars(line, i) = (k + 1) - 1}
<1>1. /\ n \in 0..Len(line) /\ DOMAIN Commands(line) = 1..n
      /\ \A b \in 1..n : b \in W <=> line[b] = "|"
  <2>1. n \in 0..Len(line) /\ Commands(line) = SubSeq(line, 1, n)
    BY DEF Shape
  <2>2. 1 \in 1..Len(line) + 1 /\ n \in 1 - 1..Len(line) /\ n - 1 + 1 = n
    BY <2>1
  <2>3. DOMAIN Commands(line) = 1..n
    BY <2>1, <2>2, SubSeqOf
  <2> QED
    BY <2>1, <2>3 DEF Where
<1> HIDE DEF W
<1>2. k \in Nat
  BY CountingBars
<1>3. ASSUME NEW i \in m + 1..e
      PROVE  i \in 1..n /\ line[i] # "|" /\ Bars(line, i) = k
  <2>1. m + 1 \in Nat /\ i \in Nat /\ m + 1 <= i
    OBVIOUS
  <2>2. \A b \in m + 1..i - 1 : b \in m + 1..e /\ b \in 1..n
    BY <1>1
  <2>3. \A b \in m + 1..i - 1 : b \notin W
    BY <2>2, <1>1
  <2> QED
    BY <2>1, <2>3, <1>1, CountingBars DEF W
<1>4. ASSUME NEW i \in 1..n, line[i] # "|", i <= m
      PROVE  Bars(line, i) < k
  <2>1. m \in i..(m + 1) - 1 /\ i \in Nat /\ m + 1 \in Nat /\ i <= m + 1 /\ m \in 1..n
    BY <1>1, <1>4
  <2>2. m \in W
    BY <1>1, <1>4, <2>1
  <2> QED
    BY <2>1, <2>2, CountingBars DEF W
<1>5. ASSUME NEW i \in 1..n, line[i] # "|", e < i
      PROVE  k < Bars(line, i)
  <2>1. /\ e + 1 \in m + 1..i - 1 /\ m + 1 \in Nat /\ i \in Nat /\ m + 1 <= i
        /\ e + 1 \in 1..n
    <3>1. e + 1 # i
      BY <1>1, <1>5
    <3> QED
      BY <1>1, <1>5, <3>1
  <2>2. e + 1 \in W
    BY <1>1, <1>5, <2>1
  <2> QED
    BY <2>1, <2>2, CountingBars DEF W
<1>6. S = m + 1..e
  <2>1. ASSUME NEW i \in m + 1..e
        PROVE  i \in S
    BY <1>1, <1>2, <1>3
  <2>2. ASSUME NEW i \in S
        PROVE  i \in m + 1..e
    <3>1. i \in 1..n /\ line[i] # "|" /\ Bars(line, i) = k
      BY <1>1, <1>2
    <3> HIDE DEF S, k
    <3>2. ~ (i <= m) /\ ~ (e < i)
      BY <3>1, <1>2, <1>4, <1>5
    <3> QED
      BY <3>1, <3>2, <1>1
  <2> QED
    BY <2>1, <2>2
<1>7. First(S) = m + 1 /\ Cardinality(S) = e - m
  <2>1. m + 1 \in S /\ S \subseteq Nat /\ \A j \in S : m + 1 <= j
    BY <1>6
  <2>2. Cardinality(m + 1..e) = e - (m + 1) + 1
    BY FS_Interval
  <2> HIDE DEF S
  <2> QED
    BY <1>6, <2>1, <2>2, FirstIs
<1>8. StageOf(line, k + 1) = SubSeq(line, First(S), First(S) + Cardinality(S) - 1)
  BY DEF StageOf
<1> HIDE DEF S
<1>9. (m + 1) + (e - m) - 1 = e
  OBVIOUS
<1> QED
  BY <1>7, <1>8, <1>9 DEF k

-----------------------------------------------------------------------------
(* The passes over the vector of a regular line.                           *)

\* After the two redirections the commands are left, and ">" has had its file.
LEMMA Redirections ==
  ASSUME NEW T, NEW line \in Seq(T), NEW n \in Nat, Shape(line, n),
         NEW v, v = Before(line, "<")
  PROVE  /\ Where(v, ">") = {} =>
              v = Commands(line) /\ Where(line, ">") = {}
         /\ Where(v, ">") # {} =>
              /\ Before(v, ">") = Commands(line)
              /\ Where(line, ">") # {} /\ After(v, ">")[1] = After(line, ">")[1]
<1>1. /\ n \in 0..Len(line) /\ Commands(line) = SubSeq(line, 1, n)
      /\ \A i \in 1..n : line[i] \notin {"<", ">"}
  BY DEF Shape
<1>2. /\ \A t : \A i \in Where(line, t) : i \in 1..Len(line) /\ line[i] = t
      /\ \A i \in 1..Len(line) : i \in Where(line, line[i])
  BY DEF Where
<1>3. CASE Len(line) = n
  <2>1. Where(line, "<") = {} /\ Where(line, ">") = {}
    BY <1>1, <1>2, <1>3
  <2>2. v = line /\ Commands(line) = line
    BY <2>1, <1>1, <1>3, NoCut, SubSeqFull
  <2> QED
    BY <2>1, <2>2
<1>4. CASE Len(line) = n + 2 /\ line[n + 1] = "<" /\ File(line[n + 2])
  <2>1. n + 1 \in Where(line, "<")
    BY <1>2, <1>4
  <2>2. First(Where(line, "<")) = n + 1
    <3>1. Where(line, "<") \in SUBSET Nat /\ \A j \in Where(line, "<") : n + 1 <= j
      BY <1>1, <1>2
    <3> QED
      BY <2>1, <3>1, FirstIs
  <2>3. v = SubSeq(line, 1, n)
    BY <2>1, <2>2 DEF Before
  <2>4. Where(line, ">") = {}
    <3>1. \A i \in 1..Len(line) : i \in 1..n \/ i = n + 1 \/ i = n + 2
      BY <1>4
    <3> QED
      BY <1>1, <1>2, <1>4, <3>1 DEF File
  <2>5. Where(v, ">") = {}
    <3>1. 1 \in 1..Len(line) + 1 /\ n \in 1 - 1..Len(line) /\ n - 1 + 1 = n
      BY <1>1
    <3>2. DOMAIN v = 1..n /\ \A i \in 1..n : v[i] = line[1 + i - 1] /\ 1 + i - 1 = i
      BY <2>3, <3>1, SubSeqOf
    <3> QED
      BY <1>1, <3>2 DEF Where
  <2> QED
    BY <1>1, <2>3, <2>4, <2>5
<1>5. ASSUME n + 1 \in Where(line, ">")
      PROVE  First(Where(line, ">")) = n + 1
  <2>1. Where(line, ">") \in SUBSET Nat /\ \A j \in Where(line, ">") : n + 1 <= j
    BY <1>1, <1>2
  <2> QED
    BY <1>5, <2>1, FirstIs
<1>6. CASE Len(line) = n + 2 /\ line[n + 1] = ">" /\ File(line[n + 2])
  <2>1. n + 1 \in Where(line, ">")
    BY <1>2, <1>6
  <2>2. Where(line, "<") = {}
    <3>1. \A i \in 1..Len(line) : i \in 1..n \/ i = n + 1 \/ i = n + 2
      BY <1>6
    <3> QED
      BY <1>1, <1>2, <1>6, <3>1 DEF File
  <2>3. v = line
    BY <2>2, NoCut
  <2>4. Before(v, ">") = SubSeq(line, 1, (n + 1) - 1)
    BY <1>5, <2>1, <2>3 DEF Before
  <2> QED
    BY <1>1, <2>1, <2>3, <2>4
<1>7. CASE /\ Len(line) = n + 4 /\ line[n + 1] = ">" /\ line[n + 3] = "<"
           /\ File(line[n + 2]) /\ File(line[n + 4])
  <2>1. n + 1 \in Where(line, ">") /\ n + 3 \in Where(line, "<")
    BY <1>2, <1>7
  <2>2. First(Where(line, "<")) = n + 3
    <3>1. \A i \in 1..Len(line) : \/ i \in 1..n \/ i = n + 1 \/ i = n + 2
                                  \/ n + 3 <= i
      BY <1>7
    <3>2. \A j \in Where(line, "<") : n + 3 <= j
      BY <1>1, <1>2, <1>7, <3>1 DEF File
    <3>3. Where(line, "<") \in SUBSET Nat
      BY <1>2
    <3> QED
      BY <2>1, <3>2, <3>3, FirstIs
  <2>3. v = SubSeq(line, 0 + 1, n + 2)
    BY <2>1, <2>2 DEF Before
  <2>4. /\ v \in Seq(T) /\ Len(v) = n + 2 /\ DOMAIN v = 1..n + 2
        /\ \A i \in 1..n + 2 : v[i] = line[i]
    <3>1. /\ 0 + 1 \in 1..Len(line) + 1 /\ n + 2 \in (0 + 1) - 1..Len(line)
          /\ (n + 2) - (0 + 1) + 1 = n + 2
          /\ \A i \in 1..n + 2 : (0 + 1) + i - 1 = i
      BY <1>7
    <3>2. /\ v \in Seq(T) /\ Len(v) = (n + 2) - (0 + 1) + 1
          /\ DOMAIN v = 1..(n + 2) - (0 + 1) + 1
          /\ \A i \in 1..(n + 2) - (0 + 1) + 1 : v[i] = line[(0 + 1) + i - 1]
      BY <2>3, <3>1, SubSeqOf
    <3> QED
      BY <3>1, <3>2
  <2>5. n + 1 \in Where(v, ">") /\ First(Where(v, ">")) = n + 1
    <3>1. n + 1 \in Where(v, ">")
      BY <2>4, <1>7 DEF Where
    <3>2. Where(v, ">") \in SUBSET Nat /\ \A j \in Where(v, ">") : n + 1 <= j
      <4>1. \A j \in Where(v, ">") : j \in 1..n + 2 /\ line[j] = ">"
        BY <2>4 DEF Where
      <4> QED
        BY <1>1, <4>1
    <3> QED
      BY <3>1, <3>2, FirstIs
  <2>6. Before(v, ">") = SubSeq(line, 1, n)
    <3>1. Before(v, ">") = SubSeq(SubSeq(line, 0 + 1, n + 2), 1, (n + 1) - 1)
      BY <2>3, <2>5 DEF Before
    <3>2. /\ 0 \in 0..Len(line) /\ n + 2 \in 0..Len(line)
          /\ 1 \in 1..(n + 2) - 0 + 1 /\ (n + 1) - 1 \in 1 - 1..(n + 2) - 0
          /\ 0 + 1 = 1 /\ 0 + ((n + 1) - 1) = n
      BY <1>7
    <3>3. SubSeq(SubSeq(line, 0 + 1, n + 2), 1, (n + 1) - 1)
            = SubSeq(line, 0 + 1, 0 + ((n + 1) - 1))
      BY <3>2, PartOfPart
    <3> QED
      BY <3>1, <3>2, <3>3
  <2>7. After(v, ">")[1] = v[n + 1 + 1]
    <3>1. 1 \in 1..Len(v) - (n + 1)
      BY <2>4
    <3>2. \A i \in 1..Len(v) - First(Where(v, ">")) :
            After(v, ">")[i] = v[First(Where(v, ">")) + i]
      <4>1. Where(v, ">") # {} /\ v \in Seq(T)
        BY <2>4, <2>5
      <4> QED
        BY <4>1, Cut
    <3>3. First(Where(v, ">")) = n + 1
      BY <2>4, <2>5
    <3> QED
      BY <3>1, <3>2, <3>3
  <2>8. After(line, ">")[1] = line[n + 1 + 1]
    <3>1. 1 \in 1..Len(line) - (n + 1)
      BY <1>7
    <3>2. \A i \in 1..Len(line) - First(Where(line, ">")) :
            After(line, ">")[i] = line[First(Where(line, ">")) + i]
      <4>1. Where(line, ">") # {} /\ line \in Seq(T)
        BY <2>1
      <4> QED
        BY <4>1, Cut
    <3>3. First(Where(line, ">")) = n + 1
      BY <2>1, <1>5
    <3> QED
      BY <3>1, <3>2, <3>3
  <2>9. v[n + 1 + 1] = line[n + 1 + 1]
    BY <2>4
  <2> QED
    BY <1>1, <2>1, <2>5, <2>6, <2>7, <2>8, <2>9
<1> QED
  BY <1>3, <1>4, <1>6, <1>7 DEF Shape

\* All commands are what is left at the first stage.
LEMMA FirstStage ==
  ASSUME NEW T, NEW line \in Seq(T), Shape(line, Len(Commands(line)))
  PROVE  FromBar(line, 1, Commands(line))
<1>1. /\ Len(Commands(line)) \in Nat
      /\ Commands(line) = SubSeq(line, 0 + 1, Len(Commands(line)))
  BY DEF Shape
<1>2. Bars(line, 0 + 1) = 1 - 1
  <2> DEFINE none == {j \in Where(line, "|") : j < 0 + 1}
  <2>1. none = {}
    BY DEF Where
  <2>2. Bars(line, 0 + 1) = Cardinality(none)
    BY DEF Bars
  <2> QED
    BY <2>1, <2>2, FS_EmptySet
<1>3. 0 \in 0..Len(Commands(line))
  BY <1>1
<1> QED
  BY <1>1, <1>2, <1>3 DEF FromBar


\* One more stage than bars.
LEMMA StagesAndBars ==
  ASSUME NEW T, NEW line \in Seq(T), NEW n \in Nat, Shape(line, n)
  PROVE  Stages(line) = Bars(line, n + 1) + 1
<1>1. \A b \in Where(line, "|") : b < n + 1
  BY BarsAmongCommands
<1>2. {j \in Where(line, "|") : j < n + 1} = Where(line, "|")
  BY <1>1
<1> QED
  BY <1>2 DEF Stages, Bars

\* What a vector after a bar is, word by word.
LEMMA AfterBar ==
  ASSUME NEW T, NEW line \in Seq(T), NEW n \in Nat, Shape(line, n),
         NEW m \in 0..n, NEW v, v = SubSeq(line, m + 1, n)
  PROVE  /\ v \in Seq(T) /\ Len(v) = n - m /\ DOMAIN v = 1..n - m
         /\ \A i \in 1..n - m : v[i] = line[m + i]
         /\ \A i \in m + 1..n : i - m \in 1..n - m /\ line[i] = v[i - m]
<1>1. n \in 0..Len(line)
  BY DEF Shape
<1>2. /\ m + 1 \in 1..Len(line) + 1 /\ n \in (m + 1) - 1..Len(line)
      /\ n - (m + 1) + 1 = n - m
  BY <1>1
<1>3. /\ v \in Seq(T) /\ Len(v) = n - (m + 1) + 1
      /\ DOMAIN v = 1..n - (m + 1) + 1
      /\ \A i \in 1..n - (m + 1) + 1 : v[i] = line[(m + 1) + i - 1]
  <2>1. PICK a : a = m + 1
    OBVIOUS
  <2>2. a \in 1..Len(line) + 1 /\ n \in a - 1..Len(line) /\ v = SubSeq(line, a, n)
    BY <1>2, <2>1
  <2>3. /\ v \in Seq(T) /\ Len(v) = n - a + 1 /\ DOMAIN v = 1..n - a + 1
        /\ \A i \in 1..n - a + 1 : v[i] = line[a + i - 1]
    BY <2>2, SubSeqOf
  <2> QED
    BY <2>1, <2>3
<1>4. \A i \in 1..n - m : (m + 1) + i - 1 = m + i
  OBVIOUS
<1>5. \A i \in m + 1..n : i - m \in 1..n - m /\ m + (i - m) = i
  OBVIOUS
<1>6. \A i \in 1..n - m : v[i] = line[m + i]
  BY <1>2, <1>3, <1>4
<1>7. \A i \in m + 1..n : line[i] = v[i - m]
  BY <1>5, <1>6
<1> QED
  BY <1>2, <1>3, <1>5, <1>6, <1>7

\* Without a bar the vector is the last stage.
LEMMA LastStage ==
  ASSUME NEW T, NEW line \in Seq(T), Shape(line, Len(Commands(line))),
         NEW k \in Nat, NEW v, FromBar(line, k, v), Where(v, "|") = {}
  PROVE  k = Stages(line) /\ (v # <<>> => v = StageOf(line, k))
<1>1. PICK n : n = Len(Commands(line))
  OBVIOUS
<1>2. n \in Nat /\ Shape(line, n)
  BY <1>1 DEF Shape
<1>3. PICK m \in 0..n : /\ v = SubSeq(line, m + 1, n)
                        /\ Bars(line, m + 1) = k - 1
                        /\ m = 0 \/ line[m] = "|"
  BY <1>1 DEF FromBar
<1>4. /\ Len(v) = n - m /\ DOMAIN v = 1..n - m /\ v \in Seq(T)
      /\ \A i \in m + 1..n : i - m \in 1..n - m /\ line[i] = v[i - m]
  BY <1>2, <1>3, AfterBar
<1>5. \A i \in m + 1..n : line[i] # "|"
  BY <1>4 DEF Where
<1>6. k = Stages(line)
  <2>1. /\ m + 1 \in Nat /\ n + 1 \in Nat /\ m + 1 <= n + 1
        /\ \A b \in m + 1..(n + 1) - 1 : b \in m + 1..n
    BY <1>2
  <2>2. \A b \in m + 1..(n + 1) - 1 : b \notin Where(line, "|")
    BY <2>1, <1>5 DEF Where
  <2>3. Bars(line, n + 1) = Bars(line, m + 1)
    BY <2>1, <2>2, CountingBars
  <2>4. Stages(line) = (k - 1) + 1
    BY <1>2, <1>3, <2>3, StagesAndBars
  <2> QED
    BY <2>4
<1>7. ASSUME v # <<>>
      PROVE  v = StageOf(line, k)
  <2>1. m + 1 <= n
    BY <1>2, <1>4, <1>7, EmptySeq
  <2>2. n \in m + 1..n
    BY <2>1, <1>2
  <2>3. StageOf(line, Bars(line, m + 1) + 1) = SubSeq(line, m + 1, n)
    BY <1>2, <1>3, <1>5, <2>2, BetweenBars
  <2>4. Bars(line, m + 1) + 1 = k
    BY <1>3
  <2> QED
    BY <1>3, <2>3, <2>4
<1> QED
  BY <1>6, <1>7

\* At its first bar the vector is split into its first stage and the rest.
LEMMA SplitStage ==
  ASSUME NEW T, NEW line \in Seq(T), Shape(line, Len(Commands(line))),
         NEW k \in Nat, NEW v, FromBar(line, k, v), PipePresent(v) > 0
  PROVE  /\ Before(v, "|") = StageOf(line, k)
         /\ k # Stages(line)
         /\ FromBar(line, k + 1, After(v, "|"))
<1>1. PICK n : n = Len(Commands(line))
  OBVIOUS
<1>2. n \in Nat /\ Shape(line, n) /\ n \in 0..Len(line)
  BY <1>1 DEF Shape
<1>3. PICK m \in 0..n : /\ v = SubSeq(line, m + 1, n)
                        /\ Bars(line, m + 1) = k - 1
                        /\ m = 0 \/ line[m] = "|"
  BY <1>1 DEF FromBar
<1>4. /\ Len(v) = n - m /\ DOMAIN v = 1..n - m /\ v \in Seq(T)
      /\ \A i \in 1..n - m : v[i] = line[m + i]
      /\ \A i \in m + 1..n : i - m \in 1..n - m /\ line[i] = v[i - m]
  BY <1>2, <1>3, AfterBar
<1>5. PICK b : b = First(Where(v, "|"))
  OBVIOUS
<1>6. Where(v, "|") # {} /\ b # 1 /\ b # Len(v)
  BY <1>5 DEF PipePresent
<1>7. /\ b \in 1..Len(v) /\ v[b] = "|" /\ \A j \in 1..b - 1 : v[j] # "|"
      /\ Before(v, "|") = SubSeq(v, 1, b - 1)
  <2>1. Where(v, "|") # {} /\ v \in Seq(T)
    BY <1>4, <1>6
  <2>2. /\ First(Where(v, "|")) \in 1..Len(v) /\ v[First(Where(v, "|"))] = "|"
        /\ \A j \in 1..First(Where(v, "|")) - 1 : v[j] # "|"
        /\ Before(v, "|") = SubSeq(v, 1, First(Where(v, "|")) - 1)
    BY <2>1, Cut
  <2> QED
    BY <1>5, <2>2
<1>8. /\ b \in 2..n - m - 1 /\ m + b \in Nat /\ m + b - 1 \in m + 1..n
      /\ m + b \in 1..n /\ m + b < n /\ line[m + b] = "|"
  <2>1. b \in 2..n - m - 1 /\ b \in 1..n - m
    BY <1>4, <1>6, <1>7
  <2> QED
    BY <1>2, <1>4, <1>7, <2>1
<1>9. ASSUME NEW i \in m + 1..m + b - 1
      PROVE  line[i] # "|"
  <2>1. i \in m + 1..n /\ i - m \in 1..b - 1
    BY <1>2, <1>8
  <2> QED
    BY <1>4, <1>7, <2>1
<1>10. m + b \in Where(line, "|")
  BY <1>2, <1>8 DEF Where
<1>11. Bars(line, m + b) = k - 1 /\ Bars(line, m + b + 1) = k
  <2>1. m + 1 \in Nat /\ m + 1 <= m + b
    BY <1>8
  <2>2. \A i \in m + 1..(m + b) - 1 : i \notin Where(line, "|")
    <3> TAKE i \in m + 1..(m + b) - 1
    <3>1. i \in m + 1..m + b - 1
      BY <1>8
    <3> QED
      BY <3>1, <1>9 DEF Where
  <2>3. Bars(line, m + b) = Bars(line, m + 1)
    BY <2>1, <2>2, <1>8, CountingBars
  <2>4. m + b <= m + b
    BY <1>8
  <2>5. Bars(line, m + b + 1) = Bars(line, m + b) + 1
    BY <2>4, <1>8, <1>10, CountingBars
  <2> QED
    BY <2>3, <2>5, <1>3
<1>12. Before(v, "|") = StageOf(line, k)
  <2>1. /\ 1 \in 1..n - m + 1 /\ b - 1 \in 1 - 1..n - m
        /\ m \in 0..Len(line) /\ n \in m..Len(line)
    BY <1>2, <1>8
  <2>2. SubSeq(SubSeq(line, m + 1, n), 1, b - 1) = SubSeq(line, m + 1, m + (b - 1))
    <3>1. PICK e : e = b - 1
      OBVIOUS
    <3>2. SubSeq(SubSeq(line, m + 1, n), 1, e) = SubSeq(line, m + 1, m + e)
      BY <2>1, <3>1, PartOfPart
    <3> QED
      BY <3>1, <3>2
  <2>3. m + (b - 1) = m + b - 1 /\ (m + b - 1) + 1 = m + b
    BY <1>8
  <2>4. StageOf(line, Bars(line, m + 1) + 1) = SubSeq(line, m + 1, m + b - 1)
    BY <1>2, <1>3, <1>8, <1>9, <2>3, BetweenBars
  <2>5. Bars(line, m + 1) + 1 = k
    BY <1>3
  <2> QED
    BY <1>3, <1>7, <2>2, <2>3, <2>4, <2>5
<1>13. k # Stages(line)
  <2>1. m + b + 1 \in Nat /\ n + 1 \in Nat /\ m + b + 1 <= n + 1
    BY <1>2, <1>8
  <2>2. Bars(line, m + b + 1) <= Bars(line, n + 1)
    <3>1. PICK i, j : i = m + b + 1 /\ j = n + 1
      OBVIOUS
    <3>2. i \in Nat /\ j \in Nat /\ i <= j /\ i <= i /\ j <= j
      BY <2>1, <3>1
    <3>3. Bars(line, i) \in Nat /\ Bars(line, j) \in Nat
      BY <3>2, CountingBars
    <3>4. CASE \A c \in i..j - 1 : c \notin Where(line, "|")
      <4>1. Bars(line, j) = Bars(line, i)
        BY <3>2, <3>4, CountingBars
      <4> QED
        BY <3>1, <3>3, <4>1
    <3>5. CASE \E c \in i..j - 1 : c \in Where(line, "|")
      <4>1. Bars(line, i) < Bars(line, j)
        BY <3>2, <3>5, CountingBars
      <4> QED
        BY <3>1, <3>3, <4>1
    <3> QED
      BY <3>4, <3>5
  <2>3. Bars(line, n + 1) \in Nat
    BY <2>1, CountingBars
  <2> QED
    BY <2>2, <2>3, <1>2, <1>11, StagesAndBars
<1>14. FromBar(line, k + 1, After(v, "|"))
  <2>1. After(v, "|") = SubSeq(v, b + 1, Len(v))
    BY <1>5 DEF After
  <2>2. /\ b + 1 \in 1..n - m + 1 /\ n - m \in (b + 1) - 1..n - m
        /\ m \in 0..Len(line) /\ n \in m..Len(line)
    BY <1>2, <1>8
  <2>3. SubSeq(SubSeq(line, m + 1, n), b + 1, n - m)
          = SubSeq(line, m + (b + 1), m + (n - m))
    <3>1. PICK a, e : a = b + 1 /\ e = n - m
      OBVIOUS
    <3>2. a \in 1..n - m + 1 /\ e \in a - 1..n - m
      BY <2>2, <3>1
    <3>3. SubSeq(SubSeq(line, m + 1, n), a, e) = SubSeq(line, m + a, m + e)
      BY <2>2, <3>2, PartOfPart
    <3> QED
      BY <3>1, <3>3
  <2>4. m + (b + 1) = (m + b) + 1 /\ m + (n - m) = n /\ (k + 1) - 1 = k
    BY <1>2, <1>8
  <2>5. After(v, "|") = SubSeq(line, (m + b) + 1, n)
    BY <2>1, <2>3, <2>4, <1>3, <1>4
  <2>6. m + b \in 0..n
    BY <1>8
  <2> QED
    BY <2>4, <2>5, <2>6, <1>1, <1>8, <1>11 DEF FromBar
<1> QED
  BY <1>12, <1>13, <1>14


-----------------------------------------------------------------------------
(* What each pass makes of a process whose line is regular.                *)

LEMMA PassIn ==
  ASSUME NEW p \in Pids, NEW r \in Process, r.next = "in", Regular(r.line),
         ReadyFor(p, r), NEW s,
         \/ Where(r.argv, "<") = {} /\ s = [r EXCEPT !.next = "out"]
         \/ /\ Where(r.argv, "<") # {}
            /\ s = [r EXCEPT !.next = "out", !.argv = Before(r.argv, "<"),
                             !.in = <<"file", After(r.argv, "<")[1]>>]
  PROVE  ReadyFor(p, s)
<1>1. /\ r.argv = r.line /\ r.stage = 1
      /\ r.in = <<"input">> /\ r.out = <<"screen">>
  BY DEF ReadyFor
<1>2. s.next = "out" /\ s.line = r.line /\ s.stage = 1 /\ s.out = <<"screen">>
  BY <1>1 DEF Process
<1>3. s.argv = Before(r.line, "<")
  <2>1. CASE Where(r.argv, "<") = {}
    <3>1. s.argv = r.argv /\ Before(r.line, "<") = r.line
      BY <1>1, <2>1, NoCut DEF Process
    <3> QED
      BY <1>1, <3>1
  <2>2. CASE Where(r.argv, "<") # {}
    <3>1. s.argv = Before(r.argv, "<")
      BY <2>2 DEF Process
    <3> QED
      BY <1>1, <3>1
  <2> QED
    BY <2>1, <2>2
<1>4. s.in = InputOf(p, r.line, 1)
  <2>1. s.in = IF Where(r.argv, "<") = {} THEN r.in
                                          ELSE <<"file", After(r.argv, "<")[1]>>
    BY DEF Process
  <2> QED
    BY <1>1, <2>1 DEF InputOf, FileAfter
<1> QED
  BY <1>2, <1>3, <1>4 DEF ReadyFor

LEMMA PassOut ==
  ASSUME NEW p \in Pids, NEW r \in Process, r.next = "out", Regular(r.line),
         ReadyFor(p, r), NEW s,
         \/ Where(r.argv, ">") = {} /\ s = [r EXCEPT !.next = "pipe"]
         \/ /\ Where(r.argv, ">") # {}
            /\ s = [r EXCEPT !.next = "pipe", !.argv = Before(r.argv, ">"),
                             !.out = <<"file", After(r.argv, ">")[1]>>]
  PROVE  ReadyFor(p, s)
<1>1. /\ r.argv = Before(r.line, "<") /\ r.stage = 1
      /\ r.in = InputOf(p, r.line, 1) /\ r.out = <<"screen">>
  BY DEF ReadyFor
<1>2. s.next = "pipe" /\ s.line = r.line /\ s.stage = 1 /\ s.in = r.in
  BY <1>1 DEF Process
<1>3. r.line \in Seq(LineWord) /\ Shape(r.line, Len(Commands(r.line)))
  BY RegularShape DEF Process
<1>4. Len(Commands(r.line)) \in Nat
  BY <1>3 DEF Shape
<1>5. CASE Where(r.argv, ">") = {}
  <2>1. r.argv = Commands(r.line) /\ Where(r.line, ">") = {}
    BY <1>1, <1>3, <1>4, <1>5, Redirections
  <2>2. s.argv = Commands(r.line) /\ s.out = OutputOf(r.line)
    BY <1>1, <1>5, <2>1 DEF Process, OutputOf, FileAfter
  <2> QED
    BY <1>1, <1>2, <1>3, <2>2, FirstStage DEF ReadyFor
<1>6. CASE Where(r.argv, ">") # {}
  <2>1. /\ Before(r.argv, ">") = Commands(r.line) /\ Where(r.line, ">") # {}
        /\ After(r.argv, ">")[1] = After(r.line, ">")[1]
    BY <1>1, <1>3, <1>4, <1>6, Redirections
  <2>2. s.argv = Before(r.argv, ">") /\ s.out = <<"file", After(r.argv, ">")[1]>>
    BY <1>6 DEF Process
  <2>3. s.argv = Commands(r.line) /\ s.out = OutputOf(r.line)
    BY <2>1, <2>2 DEF OutputOf, FileAfter
  <2> QED
    BY <1>1, <1>2, <1>3, <2>3, FirstStage DEF ReadyFor
<1> QED
  BY <1>5, <1>6

LEMMA PassPipe ==
  ASSUME NEW p \in Pids, NEW r \in Process, r.next = "pipe", Regular(r.line),
         ReadyFor(p, r)
  PROVE  /\ PipePresent(r.argv) = 0 => ReadyFor(p, [r EXCEPT !.next = "exec"])
         /\ PipePresent(r.argv) > 0 => \A q \in Pids : \A h, g :
              /\ ReadyFor(p, [r EXCEPT !.argv = Before(@, "|"), !.next = "exec",
                                       !.out = <<"pipe", q>>, !.holds = h])
              /\ ReadyFor(q, [r EXCEPT !.argv = After(@, "|"), !.in = <<"pipe", q>>,
                                       !.holds = g, !.stage = @ + 1])
<1>1. /\ FromBar(r.line, r.stage, r.argv) /\ r.in = InputOf(p, r.line, r.stage)
      /\ r.out = OutputOf(r.line)
  BY DEF ReadyFor
<1>2. /\ r.line \in Seq(LineWord) /\ r.stage \in Nat /\ r.argv \in Seq(LineWord)
      /\ Shape(r.line, Len(Commands(r.line)))
  BY RegularShape DEF Process
<1>3. ASSUME PipePresent(r.argv) = 0
      PROVE  ReadyFor(p, [r EXCEPT !.next = "exec"])
  <2>1. Where(r.argv, "|") = {}
    <3>1. ASSUME Where(r.argv, "|") # {}
          PROVE  First(Where(r.argv, "|")) \in 1..Len(r.argv)
      BY <1>2, <3>1, Cut
    <3> QED
      BY <1>3, <3>1 DEF PipePresent
  <2>2. /\ r.stage = Stages(r.line)
        /\ r.argv # <<>> => r.argv = StageOf(r.line, r.stage)
    BY <1>1, <1>2, <2>1, LastStage
  <2> DEFINE s == [r EXCEPT !.next = "exec"]
  <2>3. /\ s.next = "exec" /\ s.argv = r.argv /\ s.line = r.line
        /\ s.stage = r.stage /\ s.in = r.in /\ s.out = r.out
    BY DEF Process
  <2> HIDE DEF s
  <2>4. ReadyFor(p, s)
    BY <1>1, <2>2, <2>3 DEF ReadyFor
  <2> QED
    BY <2>4 DEF s
<1>4. ASSUME PipePresent(r.argv) > 0, NEW q \in Pids, NEW h, NEW g
      PROVE  /\ ReadyFor(p, [r EXCEPT !.argv = Before(@, "|"), !.next = "exec",
                                      !.out = <<"pipe", q>>, !.holds = h])
             /\ ReadyFor(q, [r EXCEPT !.argv = After(@, "|"), !.in = <<"pipe", q>>,
                                      !.holds = g, !.stage = @ + 1])
  <2>1. /\ Before(r.argv, "|") = StageOf(r.line, r.stage)
        /\ r.stage # Stages(r.line)
        /\ FromBar(r.line, r.stage + 1, After(r.argv, "|"))
    BY <1>1, <1>2, <1>4, SplitStage
  <2>2. r.stage # 0
    <3>1. PICK m \in 0..Len(Commands(r.line)) : Bars(r.line, m + 1) = r.stage - 1
      BY <1>1 DEF FromBar
    <3>2. Len(Commands(r.line)) \in Nat
      BY <1>2 DEF Shape
    <3>3. m + 1 \in Nat /\ m + 1 <= m + 1
      BY <3>2
    <3>4. Bars(r.line, m + 1) \in Nat
      BY <3>3, <1>2, CountingBars
    <3> QED
      BY <3>1, <3>4, <1>2
  <2> DEFINE s == [r EXCEPT !.argv = Before(@, "|"), !.next = "exec",
                            !.out = <<"pipe", q>>, !.holds = h]
             u == [r EXCEPT !.argv = After(@, "|"), !.in = <<"pipe", q>>,
                            !.holds = g, !.stage = @ + 1]
  <2>3. /\ s.next = "exec" /\ s.argv = Before(r.argv, "|") /\ s.line = r.line
        /\ s.stage = r.stage /\ s.in = r.in /\ s.out = <<"pipe", q>>
    BY DEF Process
  <2>4. /\ u.next = "pipe" /\ u.argv = After(r.argv, "|") /\ u.line = r.line
        /\ u.stage = r.stage + 1 /\ u.in = <<"pipe", q>> /\ u.out = r.out
    BY DEF Process
  <2> HIDE DEF s, u
  <2>5. ReadyFor(p, s)
    BY <1>1, <2>1, <2>3 DEF ReadyFor
  <2>6. u.in = InputOf(q, u.line, u.stage)
    BY <1>2, <2>2, <2>4 DEF InputOf
  <2>7. ReadyFor(q, u)
    BY <1>1, <2>1, <2>4, <2>6 DEF ReadyFor
  <2> QED
    BY <2>5, <2>7 DEF s, u
<1> QED
  BY <1>3, <1>4

LEMMA PassExec ==
  ASSUME NEW p \in Pids, NEW r \in Process, r.next = "exec", ReadyFor(p, r)
  PROVE  ReadyFor(p, [r EXCEPT !.next = "run"])
<1> DEFINE s == [r EXCEPT !.next = "run"]
<1>1. /\ s.next = "run" /\ s.argv = r.argv /\ s.line = r.line
      /\ s.stage = r.stage /\ s.in = r.in /\ s.out = r.out
  BY DEF Process
<1> HIDE DEF s
<1>2. ReadyFor(p, s)
  BY <1>1 DEF ReadyFor
<1> QED
  BY <1>2 DEF s


-----------------------------------------------------------------------------
(* Changes of one process.                                                 *)

LEMMA NobodyIs ==
  /\ Nobody \in Process /\ [Nobody EXCEPT !.next = "ended"] \in Process
  /\ [Nobody EXCEPT !.next = "ended"] # Nobody
  /\ \A r \in {Nobody, [Nobody EXCEPT !.next = "ended"]} :
       r.argv = <<>> /\ r.line = <<>> /\ r.out = <<>> /\ r.next \in {"none", "ended"}
<1> DEFINE e == [Nobody EXCEPT !.next = "ended"]
<1>1. Nobody \in Process
  <2>1. <<>> \in Seq(LineWord)
    BY EmptySeq
  <2>2. <<>> \in Ends
    BY DEF Ends
  <2>3. "none" \in Phases /\ {} \in SUBSET ({"r", "w"} \X Pids) /\ 0 \in Nat
    BY DEF Phases
  <2> QED
    BY <2>1, <2>2, <2>3, Zenon DEF Nobody, Process
<1>2. e \in Process /\ e.next = "ended" /\ Nobody.next = "none"
  <2>1. Nobody.next = "none" /\ e.next = "ended"
    BY DEF Nobody
  <2>2. "ended" \in Phases
    BY DEF Phases
  <2>3. e \in Process
    BY <1>1, <2>2 DEF Process
  <2> QED
    BY <2>1, <2>3
<1>3. /\ e.argv = <<>> /\ e.line = <<>> /\ e.out = <<>>
      /\ Nobody.argv = <<>> /\ Nobody.line = <<>> /\ Nobody.out = <<>>
  BY DEF Nobody
<1> HIDE DEF e
<1>4. \A r \in {Nobody, e} :
        r.argv = <<>> /\ r.line = <<>> /\ r.out = <<>> /\ r.next \in {"none", "ended"}
  BY <1>2, <1>3
<1> QED
  BY <1>1, <1>2, <1>4 DEF e

LEMMA NoPipe ==
  \A q, w : /\ <<"pipe", q>> # <<>> /\ <<"pipe", q>> # <<"screen">>
            /\ <<"pipe", q>> # <<"file", w>>
OBVIOUS

\* Process p becomes r, which goes on where p was, or is gone.
GoesOn(p, r) ==
  /\ r.next \in {"out", "pipe", "exec", "run"}
  /\ r.line = proc[p].line /\ r.stage = proc[p].stage
  /\ \A i \in DOMAIN r.argv : HasWord(r.line, r.argv[i])
  /\ \A q \in Pids : r.out = <<"pipe", q>> =>
       r.out = proc[p].out /\ r.next \in {"exec", "run"}
  /\ version = "HW5" => /\ Regular(r.line) => ReadyFor(p, r)
                        /\ r.next = "run" => r.argv # <<>>

LEMMA OneChanges ==
  ASSUME ShellInv, NEW p \in Running, NEW r \in Process,
         proc' = [proc EXCEPT ![p] = r], UNCHANGED <<version, sh, child>>,
         GoesOn(p, r) \/ r = Gone(p)
  PROVE  (Waited /\ PipesLead /\ Written)'
<1>1. /\ p \in Pids /\ proc[p] # Nobody /\ proc \in [Pids -> Process]
      /\ proc'[p] = r
      /\ \A q \in Pids : q # p => proc'[q] = proc[q]
  BY DEF Running, ShellInv, ShellTypeOK
<1>2. \A q \in Pids : q \in Running <=> proc[q] # Nobody
  BY DEF Running
<1>3. \A q \in Pids : q \in Running' <=> proc'[q] # Nobody
  BY DEF Running, Pids
<1>4. GoesOn(p, r) => r # Nobody
  BY NobodyIs DEF GoesOn
<1>5. r = Gone(p) => /\ r.argv = <<>> /\ r.line = <<>> /\ r.out = <<>>
                     /\ r.next \in {"none", "ended"}
                     /\ IF sh = "wait" /\ child = p THEN r # Nobody ELSE r = Nobody
  BY NobodyIs DEF Gone
<1>6. Waited'
  <2>1. ASSUME NEW q \in Pids, NEW i \in DOMAIN proc'[q].argv
        PROVE  HasWord(proc'[q].line, proc'[q].argv[i])
    <3>1. CASE q # p
      BY <2>1, <3>1, <1>1 DEF ShellInv, Waited
    <3>2. CASE q = p /\ GoesOn(p, r)
      BY <2>1, <3>2, <1>1 DEF GoesOn
    <3>3. CASE q = p /\ r = Gone(p)
      BY <2>1, <3>3, <1>1, <1>5
    <3> QED
      BY <3>1, <3>2, <3>3
  <2>2. sh' = "wait" => child' \in Running'
    <3> SUFFICES ASSUME sh = "wait"
                 PROVE  child \in Running'
      OBVIOUS
    <3>1. child \in Pids /\ proc[child] # Nobody
      BY <1>2 DEF ShellInv, Waited, Running
    <3>2. proc'[child] # Nobody
      BY <3>1, <1>1, <1>4, <1>5
    <3> QED
      BY <3>1, <3>2, <1>3
  <2>3. ASSUME NEW q \in Running'
        PROVE  \/ HasWord(proc'[q].line, "&") \/ HasWord(proc'[q].line, "|")
               \/ sh = "wait" /\ child = q
    <3>1. q \in Pids /\ proc'[q] # Nobody
      BY <2>3 DEF Running, Pids
    <3>2. CASE q # p
      <4>1. q \in Running
        BY <3>1, <3>2, <1>1, <1>2
      <4> QED
        BY <4>1, <3>1, <3>2, <1>1 DEF ShellInv, Waited
    <3>3. CASE q = p /\ GoesOn(p, r)
      BY <3>3, <1>1 DEF GoesOn, ShellInv, Waited
    <3>4. CASE q = p /\ r = Gone(p)
      BY <3>1, <3>4, <1>1, <1>5
    <3> QED
      BY <3>2, <3>3, <3>4
  <2> QED
    BY <2>1, <2>2, <2>3 DEF Waited, HasWord, Pids
<1>7. PipesLead'
  <2> SUFFICES ASSUME NEW a \in Pids, NEW b \in Pids, proc'[a].out = <<"pipe", b>>
               PROVE  /\ proc'[a].next \in {"exec", "run"}
                      /\ b \in Running' => proc'[b].stage = proc'[a].stage + 1
                      /\ sh = "wait" => child # b
    BY DEF PipesLead, Pids
  <2>1. ~ (a = p /\ r = Gone(p))
    BY <1>1, <1>5, NoPipe
  <2>2. /\ proc[a].out = <<"pipe", b>> /\ proc'[a].stage = proc[a].stage
        /\ proc'[a].next \in {"exec", "run"}
    <3>1. CASE a # p
      BY <3>1, <1>1 DEF ShellInv, PipesLead
    <3>2. CASE a = p
      <4>1. GoesOn(p, r)
        BY <2>1, <3>2
      <4> QED
        BY <4>1, <3>2, <1>1 DEF GoesOn
    <3> QED
      BY <3>1, <3>2
  <2>3. /\ b \in Running => proc[b].stage = proc[a].stage + 1
        /\ sh = "wait" => child # b
    BY <2>2 DEF ShellInv, PipesLead
  <2>4. ASSUME b \in Running'
        PROVE  b \in Running /\ proc'[b].stage = proc[b].stage
    <3>1. CASE b # p
      BY <2>4, <3>1, <1>1, <1>2, <1>3
    <3>2. CASE b = p
      <4>1. GoesOn(p, r)
        BY <2>3, <2>4, <3>2, <1>1, <1>3, <1>5
      <4> QED
        BY <4>1, <3>2, <1>1 DEF GoesOn
    <3> QED
      BY <3>1, <3>2
  <2> QED
    BY <2>2, <2>3, <2>4
<1>8. Written'
  <2> SUFFICES ASSUME version = "HW5", NEW q \in Pids
               PROVE  /\ Regular(proc'[q].line) => ReadyFor(q, proc'[q])
                      /\ proc'[q].next = "run" => proc'[q].argv # <<>>
    BY DEF Written, Pids, Regular, ReadyFor
  <2>1. CASE q # p
    BY <2>1, <1>1 DEF ShellInv, Written
  <2>2. CASE q = p /\ GoesOn(p, r)
    BY <2>2, <1>1 DEF GoesOn
  <2>3. CASE q = p /\ r = Gone(p)
    <3>1. r.next \notin {"in", "out", "pipe", "exec", "run"}
      BY <2>3, <1>5
    <3>2. ReadyFor(p, r)
      BY <3>1 DEF ReadyFor
    <3> QED
      BY <2>3, <3>1, <3>2, <1>1
  <2> QED
    BY <2>1, <2>2, <2>3
<1> QED
  BY <1>6, <1>7, <1>8


\* The parts of a vector have words of its line only.
LEMMA WordsOfParts ==
  ASSUME NEW v \in Seq(LineWord), NEW line, \A i \in DOMAIN v : HasWord(line, v[i]),
         NEW t, Where(v, t) # {}
  PROVE  /\ HasWord(line, t)
         /\ \A i \in DOMAIN Before(v, t) : HasWord(line, Before(v, t)[i])
         /\ \A i \in DOMAIN After(v, t) : HasWord(line, After(v, t)[i])
         /\ After(v, t) # <<>> => After(v, t)[1] \in LineWord
<1>1. PICK f : f = First(Where(v, t))
  OBVIOUS
<1>2. /\ f \in 1..Len(v) /\ v[f] = t
      /\ Before(v, t) \in Seq(LineWord) /\ Len(Before(v, t)) = f - 1
      /\ \A i \in 1..f - 1 : Before(v, t)[i] = v[i]
      /\ After(v, t) \in Seq(LineWord) /\ Len(After(v, t)) = Len(v) - f
      /\ \A i \in 1..Len(v) - f : After(v, t)[i] = v[f + i]
  BY <1>1, Cut
<1>3. DOMAIN v = 1..Len(v)
  OBVIOUS
<1>4. HasWord(line, t)
  BY <1>2, <1>3
<1>5. \A i \in DOMAIN Before(v, t) : HasWord(line, Before(v, t)[i])
  <2>1. \A i \in DOMAIN Before(v, t) : i \in 1..f - 1 /\ i \in 1..Len(v)
    BY <1>2
  <2> QED
    BY <2>1, <1>2, <1>3
<1>6. \A i \in DOMAIN After(v, t) : HasWord(line, After(v, t)[i])
  <2>1. \A i \in DOMAIN After(v, t) : i \in 1..Len(v) - f /\ f + i \in 1..Len(v)
    BY <1>2
  <2> QED
    BY <2>1, <1>2, <1>3
<1>7. After(v, t) # <<>> => After(v, t)[1] \in LineWord
  <2> SUFFICES ASSUME After(v, t) # <<>>
               PROVE  After(v, t)[1] \in LineWord
    OBVIOUS
  <2>1. 1 \in 1..Len(After(v, t))
    BY <1>2, EmptySeq
  <2> QED
    BY <1>2, <2>1, ElementOfSeq
<1> QED
  BY <1>4, <1>5, <1>6, <1>7

-----------------------------------------------------------------------------
(* The steps of a child.                                                   *)

LEMMA BecomeKeeps ==
  ASSUME ShellInv, NEW p \in Running, NEW r \in Process, Become(p, r),
         GoesOn(p, r) \/ r = Gone(p)
  PROVE  ShellInv'
<1>1. (Waited /\ PipesLead /\ Written)'
  BY OneChanges DEF Become, fixed, shell
<1>2. ShellTypeOK'
  BY DEF ShellInv, ShellTypeOK, Become, fixed, shell, Process, Pids
<1>3. ReadsOn'
  BY DEF ShellInv, ReadsOn, Become, fixed, shell
<1> QED
  BY <1>1, <1>2, <1>3 DEF ShellInv

LEMMA ExitFailingKeeps ==
  ASSUME ShellInv, NEW p \in Running, ExitFailing(p)
  PROVE  ShellInv'
<1>1. Gone(p) \in Process
  BY NobodyIs DEF Gone
<1>2. (Waited /\ PipesLead /\ Written)'
  BY <1>1, OneChanges DEF ExitFailing, fixed, shell
<1>3. /\ proc[p].unread \in Nat /\ offset \in Nat
      /\ proc' = [proc EXCEPT ![p] = Gone(p)] /\ proc \in [Pids -> Process]
      /\ \/ /\ media = "file" /\ offset - proc[p].unread >= 0
            /\ offset' = offset - proc[p].unread
            /\ rewound' = (rewound \/ offset - proc[p].unread < offset)
         \/ UNCHANGED <<offset, rewound>>
      /\ UNCHANGED <<version, input, media, at, top, started, again>>
  BY DEF ExitFailing, ShellInv, ShellTypeOK, Running, Process, fixed, shell
<1>4. offset' \in Nat
  BY <1>3
<1>5. ShellTypeOK'
  BY <1>1, <1>3, <1>4 DEF ShellInv, ShellTypeOK, Process, Pids
<1>6. ReadsOn'
  <2>1. ~rewound' => ~rewound /\ offset' = offset
    <3>1. CASE UNCHANGED <<offset, rewound>>
      BY <3>1, Zenon
    <3>2. CASE /\ offset' = offset - proc[p].unread
               /\ rewound' = (rewound \/ offset - proc[p].unread < offset)
      <4>1. ~rewound' => ~rewound /\ ~ (offset - proc[p].unread < offset)
        BY <3>2, Zenon
      <4>2. ~ (offset - proc[p].unread < offset) => offset' = offset
        BY <3>2, <1>3
      <4> QED
        BY <4>1, <4>2, Zenon
    <3> QED
      BY <3>1, <3>2, <1>3
  <2>2. rewound' => media = "file"
    BY <1>3 DEF ShellInv, ReadsOn
  <2> QED
    BY <1>3, <2>1, <2>2 DEF ShellInv, ReadsOn
<1> QED
  BY <1>2, <1>5, <1>6 DEF ShellInv


\* What is known of a running process.
LEMMA ProcessFacts ==
  ASSUME ShellInv, NEW p \in Running
  PROVE  /\ p \in Pids /\ proc[p] \in Process /\ proc[p].argv \in Seq(LineWord)
         /\ \A i \in DOMAIN proc[p].argv : HasWord(proc[p].line, proc[p].argv[i])
         /\ version = "HW5" => /\ Regular(proc[p].line) => ReadyFor(p, proc[p])
                               /\ proc[p].next = "run" => proc[p].argv # <<>>
         /\ \A q \in Pids : proc[p].out = <<"pipe", q>> =>
              proc[p].next \in {"exec", "run"}
<1>1. p \in Pids /\ proc[p] \in Process
  BY DEF ShellInv, ShellTypeOK, Running
<1>2. proc[p].argv \in Seq(LineWord)
  BY <1>1 DEF Process
<1> QED
  BY <1>1, <1>2 DEF ShellInv, Waited, Written, PipesLead

LEMMA RedirectInKeeps ==
  ASSUME ShellInv, NEW p \in Running, RedirectIn(p)
  PROVE  ShellInv'
<1> DEFINE v == proc[p].argv
<1>1. /\ p \in Pids /\ proc[p] \in Process /\ v \in Seq(LineWord)
      /\ \A i \in DOMAIN v : HasWord(proc[p].line, v[i])
      /\ version = "HW5" => (Regular(proc[p].line) => ReadyFor(p, proc[p]))
      /\ \A q \in Pids : proc[p].out # <<"pipe", q>>
      /\ proc[p].next = "in"
  BY ProcessFacts DEF RedirectIn
<1>2. ASSUME Where(v, "<") = {}, Become(p, [proc[p] EXCEPT !.next = "out"])
      PROVE  ShellInv'
  <2> DEFINE r == [proc[p] EXCEPT !.next = "out"]
  <2>1. /\ r.next = "out" /\ r.argv = v /\ r.line = proc[p].line
        /\ r.stage = proc[p].stage /\ r.out = proc[p].out
    BY <1>1 DEF Process
  <2>2. r \in Process
    BY <1>1 DEF Process, Phases
  <2>3. version = "HW5" => (Regular(r.line) => ReadyFor(p, r))
    BY <1>1, <1>2, <2>1, PassIn
  <2> HIDE DEF r
  <2>4. GoesOn(p, r)
    BY <1>1, <2>1, <2>3 DEF GoesOn
  <2>5. Become(p, r)
    BY <1>2 DEF r
  <2> QED
    BY <2>2, <2>4, <2>5, BecomeKeeps
<1>3. ASSUME Where(v, "<") # {}, After(v, "<") # <<>>,
             Become(p, [proc[p] EXCEPT !.next = "out",
                          !.in = <<"file", After(v, "<")[1]>>, !.argv = Before(v, "<")])
      PROVE  ShellInv'
  <2> DEFINE r == [proc[p] EXCEPT !.next = "out",
                     !.in = <<"file", After(v, "<")[1]>>, !.argv = Before(v, "<")]
  <2>1. /\ r.next = "out" /\ r.argv = Before(v, "<") /\ r.line = proc[p].line
        /\ r.stage = proc[p].stage /\ r.out = proc[p].out
    BY <1>1 DEF Process
  <2>2. /\ After(v, "<")[1] \in LineWord /\ Before(v, "<") \in Seq(LineWord)
        /\ \A i \in DOMAIN Before(v, "<") : HasWord(proc[p].line, Before(v, "<")[i])
    BY <1>1, <1>3, WordsOfParts, Cut
  <2>3. r \in Process
    <3>1. <<"file", After(v, "<")[1]>> \in Ends
      BY <2>2 DEF Ends
    <3> QED
      BY <1>1, <2>2, <3>1 DEF Process, Phases
  <2>4. version = "HW5" => (Regular(r.line) => ReadyFor(p, r))
    <3>1. r = [proc[p] EXCEPT !.next = "out", !.argv = Before(v, "<"),
                              !.in = <<"file", After(v, "<")[1]>>]
      OBVIOUS
    <3> QED
      BY <1>1, <1>3, <2>1, <3>1, PassIn
  <2> HIDE DEF r
  <2>5. GoesOn(p, r)
    BY <1>1, <2>1, <2>2, <2>4 DEF GoesOn
  <2>6. Become(p, r)
    BY <1>3 DEF r
  <2> QED
    BY <2>3, <2>5, <2>6, BecomeKeeps
<1> QED
  BY <1>2, <1>3, ExitFailingKeeps DEF RedirectIn

LEMMA RedirectOutKeeps ==
  ASSUME ShellInv, NEW p \in Running, RedirectOut(p)
  PROVE  ShellInv'
<1> DEFINE v == proc[p].argv
<1>1. /\ p \in Pids /\ proc[p] \in Process /\ v \in Seq(LineWord)
      /\ \A i \in DOMAIN v : HasWord(proc[p].line, v[i])
      /\ version = "HW5" => (Regular(proc[p].line) => ReadyFor(p, proc[p]))
      /\ \A q \in Pids : proc[p].out # <<"pipe", q>>
      /\ proc[p].next = "out"
  BY ProcessFacts DEF RedirectOut
<1>2. ASSUME Where(v, ">") = {}, Become(p, [proc[p] EXCEPT !.next = "pipe"])
      PROVE  ShellInv'
  <2> DEFINE r == [proc[p] EXCEPT !.next = "pipe"]
  <2>1. /\ r.next = "pipe" /\ r.argv = v /\ r.line = proc[p].line
        /\ r.stage = proc[p].stage /\ r.out = proc[p].out
    BY <1>1 DEF Process
  <2>2. r \in Process
    BY <1>1 DEF Process, Phases
  <2>3. version = "HW5" => (Regular(r.line) => ReadyFor(p, r))
    BY <1>1, <1>2, <2>1, PassOut
  <2> HIDE DEF r
  <2>4. GoesOn(p, r)
    BY <1>1, <2>1, <2>3 DEF GoesOn
  <2>5. Become(p, r)
    BY <1>2 DEF r
  <2> QED
    BY <2>2, <2>4, <2>5, BecomeKeeps
<1>3. ASSUME Where(v, ">") # {}, After(v, ">") # <<>>,
             Become(p, [proc[p] EXCEPT !.next = "pipe",
                          !.out = <<"file", After(v, ">")[1]>>, !.argv = Before(v, ">")])
      PROVE  ShellInv'
  <2> DEFINE r == [proc[p] EXCEPT !.next = "pipe",
                     !.out = <<"file", After(v, ">")[1]>>, !.argv = Before(v, ">")]
  <2>1. /\ r.next = "pipe" /\ r.argv = Before(v, ">") /\ r.line = proc[p].line
        /\ r.stage = proc[p].stage /\ r.out = <<"file", After(v, ">")[1]>>
    BY <1>1 DEF Process
  <2>2. /\ After(v, ">")[1] \in LineWord /\ Before(v, ">") \in Seq(LineWord)
        /\ \A i \in DOMAIN Before(v, ">") : HasWord(proc[p].line, Before(v, ">")[i])
    BY <1>1, <1>3, WordsOfParts, Cut
  <2>3. r \in Process
    <3>1. <<"file", After(v, ">")[1]>> \in Ends
      BY <2>2 DEF Ends
    <3> QED
      BY <1>1, <2>2, <3>1 DEF Process, Phases
  <2>4. version = "HW5" => (Regular(r.line) => ReadyFor(p, r))
    <3>1. r = [proc[p] EXCEPT !.next = "pipe", !.argv = Before(v, ">"),
                              !.out = <<"file", After(v, ">")[1]>>]
      OBVIOUS
    <3> QED
      BY <1>1, <1>3, <2>1, <3>1, PassOut
  <2> HIDE DEF r
  <2>5. GoesOn(p, r)
    BY <1>1, <2>1, <2>2, <2>4, NoPipe DEF GoesOn
  <2>6. Become(p, r)
    BY <1>3 DEF r
  <2> QED
    BY <2>3, <2>5, <2>6, BecomeKeeps
<1> QED
  BY <1>2, <1>3, ExitFailingKeeps DEF RedirectOut

LEMMA ExecKeeps ==
  ASSUME ShellInv, NEW p \in Running, Exec(p)
  PROVE  ShellInv'
<1> DEFINE v == ExecArgv(p)
           r == [proc[p] EXCEPT !.next = "run", !.argv = v]
<1>1. /\ p \in Pids /\ proc[p] \in Process /\ proc[p].argv \in Seq(LineWord)
      /\ \A i \in DOMAIN proc[p].argv : HasWord(proc[p].line, proc[p].argv[i])
      /\ version = "HW5" => (Regular(proc[p].line) => ReadyFor(p, proc[p]))
      /\ proc[p].next = "exec"
  BY ProcessFacts DEF Exec
<1>2. v \in Seq(LineWord) /\ \A i \in DOMAIN v : HasWord(proc[p].line, v[i])
  <2>1. CASE version = "HW3" /\ Where(proc[p].argv, "&") # {}
    BY <1>1, <2>1, Cut, WordsOfParts DEF ExecArgv
  <2>2. CASE version # "HW3" \/ Where(proc[p].argv, "&") = {}
    <3>1. v = proc[p].argv
      BY <2>2 DEF ExecArgv, Before
    <3> QED
      BY <1>1, <3>1
  <2> QED
    BY <2>1, <2>2
<1>3. version = "HW5" => r = [proc[p] EXCEPT !.next = "run"]
  BY <1>1 DEF ExecArgv, Process
<1>4. ASSUME v # <<>>, Become(p, r)
      PROVE  ShellInv'
  <2>1. /\ r.next = "run" /\ r.argv = v /\ r.line = proc[p].line
        /\ r.stage = proc[p].stage /\ r.out = proc[p].out
    BY <1>1 DEF Process
  <2>2. r \in Process
    BY <1>1, <1>2 DEF Process, Phases
  <2>3. version = "HW5" => (Regular(r.line) => ReadyFor(p, r))
    BY <1>1, <1>3, <2>1, PassExec
  <2> HIDE DEF r, v
  <2>4. GoesOn(p, r)
    BY <1>2, <1>4, <2>1, <2>3 DEF GoesOn
  <2> QED
    BY <1>4, <2>2, <2>4, BecomeKeeps
<1>5. ASSUME Become(p, Gone(p))
      PROVE  ShellInv'
  BY <1>5, NobodyIs, BecomeKeeps DEF Gone
<1> QED
  BY <1>4, <1>5, ExitFailingKeeps DEF Exec

LEMMA CommandKeeps ==
  ASSUME ShellInv, ShellAssumption, NEW p \in Running,
         CommandReads(p) \/ CommandEnds(p)
  PROVE  ShellInv'
<1>1. CASE CommandReads(p)
  <2>1. /\ offset' \in Nat /\ offset <= offset'
    BY <1>1 DEF CommandReads, NextBlock, ShellInv, ShellTypeOK, ShellAssumption
  <2>2. UNCHANGED <<version, input, media, at, top, started, again, rewound,
                    sh, child, proc>>
    BY <1>1 DEF CommandReads, fixed, shell
  <2>3. ShellTypeOK' /\ ReadsOn'
    <3>1. ShellTypeOK'
      BY <2>1, <2>2 DEF ShellInv, ShellTypeOK
    <3>2. ReadsOn'
      BY <2>1, <2>2 DEF ShellInv, ShellTypeOK, ReadsOn
    <3> QED
      BY <3>1, <3>2
  <2>4. Waited'
    BY <2>2 DEF ShellInv, Waited, HasWord, Running, Pids
  <2>5. PipesLead' /\ Written'
    BY <2>2 DEF ShellInv, PipesLead, Written, ReadyFor, Running, Pids
  <2> QED
    BY <2>3, <2>4, <2>5 DEF ShellInv
<1>2. CASE CommandEnds(p)
  <2>1. Gone(p) \in Process /\ Become(p, Gone(p))
    BY <1>2, NobodyIs DEF CommandEnds, Gone
  <2> QED
    BY <2>1, BecomeKeeps
<1> QED
  BY <1>1, <1>2


\* A free number is nobody's, and no command writes to a pipe of that number.
LEMMA FreePid ==
  ASSUME ShellInv, ShellAssumption, Free # {}
  PROVE  /\ First(Free) \in Pids /\ proc[First(Free)] = Nobody
         /\ \A p \in Pids : proc[p].out # <<"pipe", First(Free)>>
<1>1. Free \in SUBSET Nat
  BY DEF Free, Pids, ShellAssumption
<1>2. PICK q : q = First(Free)
  OBVIOUS
<1>3. q \in Free
  BY <1>1, <1>2, FirstIsLeast
<1>4. q \in Pids /\ proc[q] = Nobody
  BY <1>3 DEF Free, Running
<1>5. ASSUME NEW p \in Pids
      PROVE  proc[p].out # <<"pipe", q>>
  <2>1. CASE p \in Running
    BY <1>3, <2>1 DEF Free
  <2>2. CASE p \notin Running
    <3>1. proc[p] = Nobody
      BY <2>2 DEF Running
    <3> QED
      BY <3>1, NobodyIs, NoPipe
  <2> QED
    BY <2>1, <2>2
<1> QED
  BY <1>2, <1>4, <1>5

\* A process is created; its parent goes on with its output to the new one.
LEMMA SplitKeeps ==
  ASSUME ShellInv, ShellAssumption, NEW p \in Running, proc[p].next = "pipe",
         PipePresent(proc[p].argv) > 0, Free # {}, NEW q, q = First(Free),
         proc' = [proc EXCEPT ![p] = LeftOf(p, q), ![q] = RightOf(p, q)],
         UNCHANGED <<fixed, offset, shell, rewound>>
  PROVE  ShellInv'
<1> DEFINE v == proc[p].argv
           r == LeftOf(p, q)
           u == RightOf(p, q)
<1>1. /\ p \in Pids /\ proc[p] \in Process /\ v \in Seq(LineWord)
      /\ \A i \in DOMAIN v : HasWord(proc[p].line, v[i])
      /\ version = "HW5" => (Regular(proc[p].line) => ReadyFor(p, proc[p]))
      /\ \A a \in Pids : proc[p].out # <<"pipe", a>>
  BY ProcessFacts
<1>2. /\ q \in Pids /\ proc[q] = Nobody /\ q # p
      /\ \A a \in Pids : proc[a].out # <<"pipe", q>>
  BY FreePid DEF Running
<1>3. Where(v, "|") # {}
  BY DEF PipePresent
<1>4. /\ Before(v, "|") \in Seq(LineWord) /\ After(v, "|") \in Seq(LineWord)
      /\ HasWord(proc[p].line, "|")
      /\ \A i \in DOMAIN Before(v, "|") : HasWord(proc[p].line, Before(v, "|")[i])
      /\ \A i \in DOMAIN After(v, "|") : HasWord(proc[p].line, After(v, "|")[i])
  BY <1>1, <1>3, Cut, WordsOfParts
<1>5. /\ r.next = "exec" /\ r.argv = Before(v, "|") /\ r.line = proc[p].line
      /\ r.stage = proc[p].stage /\ r.out = <<"pipe", q>>
  BY <1>1 DEF LeftOf, Process
<1>6. /\ u.next = "pipe" /\ u.argv = After(v, "|") /\ u.line = proc[p].line
      /\ u.stage = proc[p].stage + 1 /\ u.out = proc[p].out
  BY <1>1 DEF RightOf, Process
<1>7. r \in Process /\ u \in Process
  <2>1. <<"pipe", q>> \in Ends
    BY <1>2 DEF Ends
  <2>2. /\ proc[p].holds \in SUBSET ({"r", "w"} \X Pids) /\ proc[p].stage + 1 \in Nat
    BY <1>1 DEF Process
  <2>3. /\ proc[p].holds \cup {<<"w", q>>} \in SUBSET ({"r", "w"} \X Pids)
        /\ proc[p].holds \cup {<<"r", q>>} \in SUBSET ({"r", "w"} \X Pids)
    BY <1>2, <2>2
  <2>4. r \in Process
    BY <1>1, <1>4, <2>1, <2>3 DEF LeftOf, Process, Phases
  <2>5. u \in Process
    BY <1>1, <1>4, <2>1, <2>2, <2>3 DEF RightOf, Process
  <2> QED
    BY <2>4, <2>5
<1>8. /\ proc \in [Pids -> Process] /\ proc' \in [Pids -> Process]
      /\ proc'[p] = r /\ proc'[q] = u
      /\ \A a \in Pids : a # p /\ a # q => proc'[a] = proc[a]
  <2> HIDE DEF r, u
  <2>1. proc \in [Pids -> Process] /\ proc' = [proc EXCEPT ![p] = r, ![q] = u]
    BY DEF ShellInv, ShellTypeOK, r, u
  <2> QED
    BY <2>1, <1>1, <1>2, <1>7
<1>9. version = "HW5" => /\ Regular(r.line) => ReadyFor(p, r)
                         /\ Regular(u.line) => ReadyFor(q, u)
  <2> SUFFICES ASSUME version = "HW5", Regular(proc[p].line)
               PROVE  ReadyFor(p, r) /\ ReadyFor(q, u)
    BY <1>5, <1>6
  <2>1. \A h, g :
          /\ ReadyFor(p, [proc[p] EXCEPT !.argv = Before(@, "|"), !.next = "exec",
                                         !.out = <<"pipe", q>>, !.holds = h])
          /\ ReadyFor(q, [proc[p] EXCEPT !.argv = After(@, "|"), !.in = <<"pipe", q>>,
                                         !.holds = g, !.stage = @ + 1])
    BY <1>1, <1>2, PassPipe
  <2>2. PICK h, g : /\ h = proc[p].holds \cup {<<"w", q>>}
                    /\ g = proc[p].holds \cup {<<"r", q>>}
    OBVIOUS
  <2>3. r = [proc[p] EXCEPT !.argv = Before(@, "|"), !.next = "exec",
                            !.out = <<"pipe", q>>, !.holds = h]
    BY <1>1, <2>2 DEF LeftOf, Process
  <2>4. u = [proc[p] EXCEPT !.argv = After(@, "|"), !.in = <<"pipe", q>>,
                            !.holds = g, !.stage = @ + 1]
    BY <1>1, <2>2 DEF RightOf, Process
  <2>5. /\ ReadyFor(p, [proc[p] EXCEPT !.argv = Before(@, "|"), !.next = "exec",
                                       !.out = <<"pipe", q>>, !.holds = h])
        /\ ReadyFor(q, [proc[p] EXCEPT !.argv = After(@, "|"), !.in = <<"pipe", q>>,
                                       !.holds = g, !.stage = @ + 1])
    BY <2>1, Zenon
  <2> HIDE DEF r, u
  <2> QED
    BY <2>3, <2>4, <2>5, Zenon
<1> HIDE DEF r, u, v
<1>10. /\ version' = version /\ sh' = sh /\ child' = child
       /\ UNCHANGED <<input, media, offset, at, top, started, again, rewound>>
  BY DEF fixed, shell
<1>11. r # Nobody /\ u # Nobody
  BY <1>5, <1>6, NobodyIs
<1>12. /\ \A a \in Pids : a \in Running <=> proc[a] # Nobody
       /\ \A a \in Pids : a \in Running' <=> proc'[a] # Nobody
  BY DEF Running, Pids
<1>13. Waited'
  <2>1. ASSUME NEW a \in Pids, NEW i \in DOMAIN proc'[a].argv
        PROVE  HasWord(proc'[a].line, proc'[a].argv[i])
    <3>1. CASE a = p
      BY <2>1, <3>1, <1>4, <1>5, <1>8
    <3>2. CASE a = q
      BY <2>1, <3>2, <1>4, <1>6, <1>8
    <3>3. CASE a # p /\ a # q
      BY <2>1, <3>3, <1>8 DEF ShellInv, Waited
    <3> QED
      BY <3>1, <3>2, <3>3
  <2>2. sh' = "wait" => child' \in Running'
    <3> SUFFICES ASSUME sh = "wait"
                 PROVE  child \in Running'
      BY <1>10
    <3>1. child \in Running /\ child \in Pids
      BY DEF ShellInv, Waited, Running
    <3> QED
      BY <3>1, <1>2, <1>8, <1>11, <1>12
  <2>3. ASSUME NEW a \in Running'
        PROVE  \/ HasWord(proc'[a].line, "&") \/ HasWord(proc'[a].line, "|")
               \/ sh' = "wait" /\ child' = a
    <3>1. a \in Pids
      BY <2>3 DEF Running, Pids
    <3>2. CASE a = p \/ a = q
      BY <3>2, <1>4, <1>5, <1>6, <1>8
    <3>3. CASE a # p /\ a # q
      BY <2>3, <3>1, <3>3, <1>8, <1>10, <1>12 DEF ShellInv, Waited
    <3> QED
      BY <3>2, <3>3
  <2> QED
    BY <2>1, <2>2, <2>3 DEF Waited, HasWord, Pids
<1>14. PipesLead'
  <2> SUFFICES ASSUME NEW a \in Pids, NEW b \in Pids, proc'[a].out = <<"pipe", b>>
               PROVE  /\ proc'[a].next \in {"exec", "run"}
                      /\ b \in Running' => proc'[b].stage = proc'[a].stage + 1
                      /\ sh = "wait" => child # b
    BY <1>10 DEF PipesLead, Pids
  <2>1. a # q
    BY <1>1, <1>6, <1>8
  <2>2. CASE a = p
    <3>1. b = q
      BY <2>2, <1>5, <1>8
    <3>2. sh = "wait" => child # q
      BY <1>2 DEF ShellInv, Waited, Running
    <3> QED
      BY <2>2, <3>1, <3>2, <1>5, <1>6, <1>8
  <2>3. CASE a # p
    <3>1. proc'[a] = proc[a] /\ b # q
      BY <2>1, <2>3, <1>2, <1>8
    <3>2. /\ proc[a].next \in {"exec", "run"}
          /\ b \in Running => proc[b].stage = proc[a].stage + 1
          /\ sh = "wait" => child # b
      BY <3>1 DEF ShellInv, PipesLead
    <3>3. b \in Running' => b \in Running /\ proc'[b].stage = proc[b].stage
      BY <3>1, <1>5, <1>8, <1>12
    <3> QED
      BY <3>1, <3>2, <3>3
  <2> QED
    BY <2>2, <2>3
<1>15. Written'
  <2> SUFFICES ASSUME version = "HW5", NEW a \in Pids
               PROVE  /\ Regular(proc'[a].line) => ReadyFor(a, proc'[a])
                      /\ proc'[a].next = "run" => proc'[a].argv # <<>>
    BY <1>10 DEF Written, Pids, Regular, ReadyFor
  <2>1. CASE a = p \/ a = q
    BY <2>1, <1>5, <1>6, <1>8, <1>9
  <2>2. CASE a # p /\ a # q
    BY <2>2, <1>8 DEF ShellInv, Written
  <2> QED
    BY <2>1, <2>2
<1>16. ShellTypeOK'
  BY <1>8, <1>10 DEF ShellInv, ShellTypeOK, Process, Pids
<1>17. ReadsOn'
  BY <1>10 DEF ShellInv, ReadsOn
<1> QED
  BY <1>13, <1>14, <1>15, <1>16, <1>17 DEF ShellInv

LEMMA PipeAndExecKeeps ==
  ASSUME ShellInv, ShellAssumption, NEW p \in Running, PipeAndExec(p)
  PROVE  ShellInv'
<1>1. /\ p \in Pids /\ proc[p] \in Process /\ proc[p].argv \in Seq(LineWord)
      /\ \A i \in DOMAIN proc[p].argv : HasWord(proc[p].line, proc[p].argv[i])
      /\ version = "HW5" => (Regular(proc[p].line) => ReadyFor(p, proc[p]))
      /\ proc[p].next = "pipe"
      /\ \A a \in Pids : proc[p].out # <<"pipe", a>>
  BY ProcessFacts DEF PipeAndExec
<1>2. ASSUME PipePresent(proc[p].argv) = 0,
             Become(p, [proc[p] EXCEPT !.next = "exec"])
      PROVE  ShellInv'
  <2> DEFINE r == [proc[p] EXCEPT !.next = "exec"]
  <2>1. /\ r.next = "exec" /\ r.argv = proc[p].argv /\ r.line = proc[p].line
        /\ r.stage = proc[p].stage /\ r.out = proc[p].out
    BY <1>1 DEF Process
  <2>2. r \in Process
    BY <1>1 DEF Process, Phases
  <2>3. version = "HW5" => (Regular(r.line) => ReadyFor(p, r))
    BY <1>1, <1>2, <2>1, PassPipe
  <2>4. Become(p, r)
    BY <1>2
  <2> HIDE DEF r
  <2>5. GoesOn(p, r)
    BY <1>1, <2>1, <2>3 DEF GoesOn
  <2> QED
    BY <2>2, <2>4, <2>5, BecomeKeeps
<1>3. ASSUME PipePresent(proc[p].argv) > 0, Free # {},
             proc' = [proc EXCEPT ![p] = LeftOf(p, First(Free)),
                                  ![First(Free)] = RightOf(p, First(Free))],
             UNCHANGED <<fixed, offset, shell, rewound>>
      PROVE  ShellInv'
  BY <1>1, <1>3, SplitKeeps
<1> QED
  BY <1>2, <1>3, ExitFailingKeeps DEF PipeAndExec


-----------------------------------------------------------------------------
(* The steps of the shell.                                                 *)

LEMMA RunCommandKeeps ==
  ASSUME ShellInv, ShellAssumption, NEW argv \in Seq(LineWord), RunCommand(argv),
         sh = "prompt", version' = version, top' - at' \in Nat
  PROVE  (Waited /\ PipesLead /\ Written)' /\ proc' \in [Pids -> Process]
<1>1. PICK q, r : q = First(Free) /\ r = NewProcess(argv)
  OBVIOUS
<1>2. /\ q \in Pids /\ proc[q] = Nobody
      /\ \A a \in Pids : proc[a].out # <<"pipe", q>>
  BY <1>1, FreePid DEF RunCommand
<1>3. /\ r.argv = argv /\ r.line = argv /\ r.stage = 1
      /\ r.next = IF version = "HW5" THEN "in" ELSE "exec"
      /\ r.in = <<"input">> /\ r.out = <<"screen">>
  BY <1>1 DEF NewProcess
<1>4. r \in Process
  <2>1. <<"input">> \in Ends /\ <<"screen">> \in Ends
    BY DEF Ends
  <2>2. /\ {} \in SUBSET ({"r", "w"} \X Pids) /\ 1 \in Nat
        /\ (IF version = "HW5" THEN "in" ELSE "exec") \in Phases
    BY DEF Phases
  <2> QED
    BY <1>1, <2>1, <2>2 DEF NewProcess, Process
<1>5. /\ proc \in [Pids -> Process] /\ proc' \in [Pids -> Process] /\ proc'[q] = r
      /\ \A a \in Pids : a # q => proc'[a] = proc[a]
  <2>1. proc \in [Pids -> Process] /\ proc' = [proc EXCEPT ![q] = r]
    BY <1>1 DEF ShellInv, ShellTypeOK, RunCommand
  <2> QED
    BY <2>1, <1>2, <1>4
<1>6. r # Nobody
  BY <1>3, NobodyIs
<1>7. \/ HasWord(argv, "&") /\ sh' = "prompt" /\ child' = child
      \/ sh' = "wait" /\ child' = q
  BY <1>1 DEF RunCommand, IsBackground, Where, HasWord
<1>8. /\ \A a \in Pids : a \in Running <=> proc[a] # Nobody
      /\ \A a \in Pids : a \in Running' <=> proc'[a] # Nobody
  BY DEF Running, Pids
<1>9. Waited'
  <2>1. ASSUME NEW a \in Pids, NEW i \in DOMAIN proc'[a].argv
        PROVE  HasWord(proc'[a].line, proc'[a].argv[i])
    <3>1. CASE a = q
      BY <2>1, <3>1, <1>3, <1>5 DEF HasWord
    <3>2. CASE a # q
      BY <2>1, <3>2, <1>5 DEF ShellInv, Waited
    <3> QED
      BY <3>1, <3>2
  <2>2. sh' = "wait" => child' \in Running'
    BY <1>2, <1>5, <1>6, <1>7, <1>8
  <2>3. ASSUME NEW a \in Running'
        PROVE  \/ HasWord(proc'[a].line, "&") \/ HasWord(proc'[a].line, "|")
               \/ sh' = "wait" /\ child' = a
    <3>1. a \in Pids
      BY <2>3 DEF Running, Pids
    <3>2. CASE a = q
      BY <3>2, <1>3, <1>5, <1>7
    <3>3. CASE a # q
      BY <2>3, <3>1, <3>3, <1>5, <1>8 DEF ShellInv, Waited
    <3> QED
      BY <3>2, <3>3
  <2> QED
    BY <2>1, <2>2, <2>3 DEF Waited, HasWord, Pids
<1>10. PipesLead'
  <2> SUFFICES ASSUME NEW a \in Pids, NEW b \in Pids, proc'[a].out = <<"pipe", b>>
               PROVE  /\ proc'[a].next \in {"exec", "run"}
                      /\ b \in Running' => proc'[b].stage = proc'[a].stage + 1
                      /\ sh' = "wait" => child' # b
    BY DEF PipesLead, Pids
  <2>1. a # q
    BY <1>3, <1>5, NoPipe
  <2>2. proc'[a] = proc[a] /\ b # q
    BY <2>1, <1>2, <1>5
  <2>3. /\ proc[a].next \in {"exec", "run"}
        /\ b \in Running => proc[b].stage = proc[a].stage + 1
    BY <2>2 DEF ShellInv, PipesLead
  <2>4. b \in Running' => b \in Running /\ proc'[b].stage = proc[b].stage
    BY <2>2, <1>5, <1>8
  <2> QED
    BY <2>2, <2>3, <2>4, <1>7
<1>11. Written'
  <2> SUFFICES ASSUME version = "HW5", NEW a \in Pids
               PROVE  /\ Regular(proc'[a].line) => ReadyFor(a, proc'[a])
                      /\ proc'[a].next = "run" => proc'[a].argv # <<>>
    BY DEF Written, Pids, Regular, ReadyFor
  <2>1. CASE a = q
    BY <2>1, <1>3, <1>5 DEF ReadyFor
  <2>2. CASE a # q
    BY <2>2, <1>5 DEF ShellInv, Written
  <2> QED
    BY <2>1, <2>2
<1> QED
  BY <1>5, <1>9, <1>10, <1>11

LEMMA ReadLineKeeps ==
  ASSUME ShellInv, ShellAssumption, ReadLine
  PROVE  ShellInv'
<1> DEFINE i == IF at = top THEN offset + 1 ELSE at + 1
           argv == Parse(input[i])
<1>1. /\ sh = "prompt" /\ i <= Len(input) /\ at' = i
      /\ offset' = (IF at = top THEN NextBlock ELSE offset)
      /\ top' = (IF at = top THEN offset' ELSE top)
      /\ started' = started \cup {i}
      /\ again' = (IF i \in started THEN again \cup {i} ELSE again)
      /\ UNCHANGED <<version, input, media, rewound>>
      /\ \/ UNCHANGED <<child, proc>> /\ sh' \in {"prompt", "exited"}
         \/ RunCommand(argv)
  BY DEF ReadLine, fixed
<1>2. /\ offset \in Nat /\ at \in Nat /\ top \in Nat /\ at <= top
      /\ input \in Seq(Seq(STRING)) /\ Len(input) \in Nat
  BY DEF ShellInv, ShellTypeOK, ReadsOn
<1>3. i \in 1..Len(input)
  BY <1>1, <1>2
<1>4. argv \in Seq(LineWord)
  BY <1>2, <1>3, ElementOfSeq, ParseType
<1>5. NextBlock \in Nat /\ (at = top => i <= NextBlock) /\ (at # top => i <= top)
  BY <1>1, <1>2 DEF NextBlock, ShellAssumption
<1> HIDE DEF argv
<1>6. /\ offset' \in Nat /\ at' \in Nat /\ top' \in Nat /\ at' <= top'
      /\ top' - at' \in Nat
  BY <1>1, <1>2, <1>5
<1>7. (Waited /\ PipesLead /\ Written)' /\ proc' \in [Pids -> Process]
  <2>1. CASE UNCHANGED <<child, proc>> /\ sh' \in {"prompt", "exited"}
    <3>1. Waited'
      BY <1>1, <2>1 DEF ShellInv, Waited, HasWord, Running, Pids
    <3>2. PipesLead' /\ Written'
      BY <1>1, <2>1 DEF ShellInv, PipesLead, Written, ReadyFor, Running, Pids
    <3> QED
      BY <2>1, <3>1, <3>2 DEF ShellInv, ShellTypeOK
  <2>2. CASE RunCommand(argv)
    BY <1>1, <1>4, <1>6, <2>2, RunCommandKeeps
  <2> QED
    BY <1>1, <2>1, <2>2
<1>8. ShellTypeOK'
  BY <1>1, <1>6, <1>7 DEF ShellInv, ShellTypeOK, Process, Pids
<1>9. ReadsOn'
  <2>1. rewound' => media' = "file"
    BY <1>1 DEF ShellInv, ReadsOn
  <2>2. ASSUME ~rewound
        PROVE  top' <= offset' /\ started' \subseteq 1..at' /\ again' = {}
    <3>1. top <= offset /\ started \subseteq 1..at /\ again = {}
      BY <2>2 DEF ShellInv, ReadsOn
    <3>2. i \notin started /\ at <= at' /\ at' \in Nat
      BY <3>1, <1>1, <1>2, <1>3
    <3>3. top' <= offset'
      BY <3>1, <1>1, <1>2, <1>5
    <3>4. started' \subseteq 1..at'
      BY <3>1, <3>2, <1>1, <1>2, <1>3
    <3> QED
      BY <3>1, <3>2, <3>3, <3>4, <1>1
  <2> QED
    BY <2>1, <2>2, <1>1, <1>6 DEF ReadsOn
<1> QED
  BY <1>7, <1>8, <1>9 DEF ShellInv

LEMMA EndOfInputKeeps ==
  ASSUME ShellInv, EndOfInput
  PROVE  ShellInv'
<1>1. /\ sh' = "exited" /\ sh = "prompt"
      /\ UNCHANGED <<version, input, media, offset, at, top, started, again,
                     rewound, child, proc>>
  BY DEF EndOfInput, fixed
<1>2. ShellTypeOK' /\ ReadsOn'
  BY <1>1 DEF ShellInv, ShellTypeOK, ReadsOn, Process, Pids
<1>3. Waited'
  BY <1>1 DEF ShellInv, Waited, HasWord, Running, Pids
<1>4. PipesLead' /\ Written'
  BY <1>1 DEF ShellInv, PipesLead, Written, ReadyFor, Running, Pids
<1> QED
  BY <1>2, <1>3, <1>4 DEF ShellInv

LEMMA WaitForChildKeeps ==
  ASSUME ShellInv, WaitForChild
  PROVE  ShellInv'
<1>1. /\ sh = "wait" /\ sh' = "prompt"
      /\ proc' = [proc EXCEPT ![child] = Nobody] /\ proc \in [Pids -> Process]
      /\ UNCHANGED <<version, input, media, offset, at, top, started, again,
                     rewound>>
  BY DEF WaitForChild, fixed, ShellInv, ShellTypeOK
<1>2. child \in Pids
  BY <1>1 DEF ShellInv, Waited, Running
<1>3. /\ proc'[child] = Nobody /\ proc' \in [Pids -> Process]
      /\ \A a \in Pids : a # child => proc'[a] = proc[a]
  BY <1>1, <1>2, NobodyIs
<1>4. /\ \A a \in Pids : a \in Running <=> proc[a] # Nobody
      /\ \A a \in Pids : a \in Running' <=> proc'[a] # Nobody
  BY DEF Running, Pids
<1>5. /\ Nobody.argv = <<>> /\ Nobody.out = <<>>
      /\ Nobody.next \notin {"in", "out", "pipe", "exec", "run"}
  BY NobodyIs
<1>6. Waited'
  <2>1. ASSUME NEW a \in Pids, NEW i \in DOMAIN proc'[a].argv
        PROVE  HasWord(proc'[a].line, proc'[a].argv[i])
    BY <2>1, <1>3, <1>5 DEF ShellInv, Waited
  <2>2. ASSUME NEW a \in Running'
        PROVE  \/ HasWord(proc'[a].line, "&") \/ HasWord(proc'[a].line, "|")
    <3>1. a \in Pids /\ proc'[a] # Nobody
      BY <2>2 DEF Running, Pids
    <3>2. a # child /\ a \in Running
      BY <3>1, <1>3, <1>4
    <3> QED
      BY <3>1, <3>2, <1>3 DEF ShellInv, Waited
  <2> QED
    BY <2>1, <2>2, <1>1 DEF Waited, HasWord, Pids
<1>7. PipesLead'
  <2> SUFFICES ASSUME NEW a \in Pids, NEW b \in Pids, proc'[a].out = <<"pipe", b>>
               PROVE  /\ proc'[a].next \in {"exec", "run"}
                      /\ b \in Running' => proc'[b].stage = proc'[a].stage + 1
    BY <1>1 DEF PipesLead, Pids
  <2>1. a # child
    BY <1>3, <1>5, NoPipe
  <2>2. b \in Running' => b \in Running /\ proc'[b] = proc[b]
    BY <1>3, <1>4
  <2> QED
    BY <2>1, <2>2, <1>3 DEF ShellInv, PipesLead
<1>8. Written'
  <2> SUFFICES ASSUME version = "HW5", NEW a \in Pids
               PROVE  /\ Regular(proc'[a].line) => ReadyFor(a, proc'[a])
                      /\ proc'[a].next = "run" => proc'[a].argv # <<>>
    BY <1>1 DEF Written, Pids, Regular, ReadyFor
  <2>1. CASE a = child
    BY <2>1, <1>3, <1>5 DEF ReadyFor
  <2>2. CASE a # child
    BY <2>2, <1>3 DEF ShellInv, Written
  <2> QED
    BY <2>1, <2>2
<1>9. ShellTypeOK'
  BY <1>1, <1>3 DEF ShellInv, ShellTypeOK, Process, Pids
<1>10. ReadsOn'
  BY <1>1 DEF ShellInv, ReadsOn
<1> QED
  BY <1>6, <1>7, <1>8, <1>9, <1>10 DEF ShellInv

LEMMA InitShellInv ==
  ASSUME ShellInit, ShellAssumption
  PROVE  ShellInv
<1>1. \A p \in Pids : proc[p] = Nobody
  BY DEF ShellInit
<1>2. ShellTypeOK
  <2>1. proc \in [Pids -> Process]
    BY NobodyIs DEF ShellInit
  <2> QED
    BY <2>1 DEF ShellInit, ShellTypeOK, ShellAssumption
<1>3. ReadsOn
  BY DEF ShellInit, ReadsOn
<1>4. Waited
  BY <1>1, NobodyIs DEF ShellInit, Waited, Running
<1>5. PipesLead
  BY <1>1, NobodyIs, NoPipe DEF PipesLead
<1>6. Written
  <2> SUFFICES ASSUME NEW p \in Pids
               PROVE  ReadyFor(p, proc[p]) /\ proc[p].next # "run"
    BY DEF Written
  <2>1. proc[p].next \notin {"in", "out", "pipe", "exec", "run"}
    BY <1>1, NobodyIs
  <2> QED
    BY <2>1 DEF ReadyFor
<1> QED
  BY <1>2, <1>3, <1>4, <1>5, <1>6 DEF ShellInv

LEMMA StepShellInv ==
  ASSUME ShellInv, ShellAssumption, [AnyNext]_shellVars
  PROVE  ShellInv'
<1>1. CASE ShellNext
  BY <1>1, ReadLineKeeps, EndOfInputKeeps, WaitForChildKeeps DEF ShellNext
<1>2. ASSUME NEW p \in Pids, ChildNext(p)
      PROVE  ShellInv'
  BY <1>2, RedirectInKeeps, RedirectOutKeeps, PipeAndExecKeeps, ExecKeeps,
     CommandKeeps DEF ChildNext
<1>3. CASE UNCHANGED shellVars
  <2>1. UNCHANGED <<version, input, media, offset, at, top, started, again,
                    rewound, sh, child, proc>>
    BY <1>3 DEF shellVars, fixed, shell
  <2>2. ShellTypeOK' /\ ReadsOn'
    BY <2>1 DEF ShellInv, ShellTypeOK, ReadsOn, Process, Pids
  <2>3. Waited'
    BY <2>1 DEF ShellInv, Waited, HasWord, Running, Pids
  <2>4. PipesLead' /\ Written'
    BY <2>1 DEF ShellInv, PipesLead, Written, ReadyFor, Running, Pids
  <2> QED
    BY <2>2, <2>3, <2>4 DEF ShellInv
<1> QED
  BY <1>1, <1>2, <1>3 DEF AnyNext

\* What the invariant says of a process that runs the command of a regular line.
LEMMA RunningAsWritten ==
  ASSUME ShellInv, NEW p \in Running, proc[p].next = "run", version = "HW5",
         Regular(proc[p].line)
  PROVE  RunsAsWritten(p)
<1>1. p \in Pids /\ ReadyFor(p, proc[p]) /\ proc[p].argv # <<>>
  BY ProcessFacts
<1>2. /\ proc[p].argv = StageOf(proc[p].line, proc[p].stage)
      /\ proc[p].in = InputOf(p, proc[p].line, proc[p].stage)
      /\ IF proc[p].stage = Stages(proc[p].line)
           THEN proc[p].out = OutputOf(proc[p].line)
           ELSE \E q \in Pids : proc[p].out = <<"pipe", q>>
  BY <1>1 DEF ReadyFor
<1>3. ASSUME NEW q \in Pids, proc[p].out = <<"pipe", q>>
      PROVE  q \in Running => proc[q].stage = proc[p].stage + 1
  BY <1>1, <1>3 DEF ShellInv, PipesLead
<1> QED
  BY <1>2, <1>3 DEF RunsAsWritten, InputOf, OutputOf

\* SP_HW5/part2 run_command.c, pipe_command.c, redirect_in.c, redirect_out.c,
\* SP_HW3/shell.c: whatever the script, the commands, the files and the size of
\* the block, commands of regular lines run as written, the shell waits for what
\* is in the foreground, and no line is read twice unless the offset went back.
THEOREM Obeyed == ShellSpec => []LinesAreObeyed
<1>1. ShellInit => ShellInv
  BY InitShellInv, ShellAssumption
<1>2. ShellInv /\ [AnyNext]_shellVars => ShellInv'
  BY StepShellInv, ShellAssumption
<1>3. ShellInv => LinesAreObeyed
  <2> SUFFICES ASSUME ShellInv
               PROVE  LinesAreObeyed
    OBVIOUS
  <2>1. sh = "prompt" =>
          \A p \in Running : \E t \in {"&", "|"} : Where(proc[p].line, t) # {}
    BY DEF ShellInv, Waited, HasWord, Where
  <2>2. again # {} => media = "file" /\ rewound
    BY DEF ShellInv, ReadsOn
  <2> QED
    BY <2>1, <2>2, RunningAsWritten DEF LinesAreObeyed
<1> QED
  BY <1>1, <1>2, <1>3, PTL DEF ShellSpec


=============================================================================

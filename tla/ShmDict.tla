------------------------------ MODULE ShmDict ------------------------------
(***************************************************************************)
(* The shared-memory dictionary of SP_HW12: any number of client processes *)
(* (main.c and lookup6.c) and one server process (shm_server.c with the    *)
(* local lookup5.c) that share one Dictrec and two System V semaphores.    *)
(*                                                                         *)
(*   semaphore 0   1 when no client is talking to the server               *)
(*   semaphore 1   raised by 2 by a client, lowered by 1 by the server     *)
(*                 before and after the lookup; the client waits for 0     *)
(*                                                                         *)
(* Every operation on them but the wait for zero carries SEM_UNDO, so the  *)
(* kernel keeps an adjustment per process and semaphore and applies it     *)
(* when the process ends.  The semaphores, the adjustments and what exit   *)
(* does with them are the kernel's (external); who issues which operation  *)
(* and when is the program's.                                              *)
(***************************************************************************)
EXTENDS Integers, FiniteSetsExt

CONSTANTS
  Client,      \* client processes, each one run of main.c
  Server,      \* the server process
  Word,        \* the words a client may ask for
  Dict,        \* the words that have a record in the dictionary file
  XXXX,        \* the text the server stores when it finds nothing
  NoText,      \* what the text field holds before the first lookup
  SemMax,      \* the kernel's SEMVMX and SEMAEM (32767 for both in Linux)
  ExitAt,      \* the labels at which a client may end (EOF or a signal)
  MaxKill,     \* bound: how often the server is killed
  MaxRestart   \* bound: how often the server is started again

ClientPC == {"idle", "grab", "word", "alert", "await", "release",
             "compare", "copy", "gone"}
ServerPC == {"take", "search", "store", "notify", "down"}

ASSUME ShmDictAssumption ==
  /\ Server \notin Client
  /\ Dict \subseteq Word
  /\ XXXX \notin Word
  /\ NoText \notin Word \cup {XXXX}
  /\ SemMax \in Nat /\ SemMax >= 2
  /\ ExitAt \subseteq ClientPC \ {"gone"}
  /\ MaxKill \in Nat
  /\ MaxRestart \in Nat

Proc == Client \cup {Server}
Sem  == {0, 1}

\* The definition stored for a word is represented by the word itself.
Text == Word \cup {XXXX, NoText}

\* What the server stores for a word: its definition, or XXXX.
Answer(w) == IF w \in Dict THEN w ELSE XXXX

VARIABLES
  pc,       \* pc[c]: the next statement of client c
  query,    \* query[c]: sought->word of client c
  text,     \* text[c]: what its lookup returned, XXXX for NOTFOUND; NoText
            \* while the lookup runs
  spc,      \* the next statement of the server
  sought,   \* the word the server's search compares with
  sem,      \* the two semaphore values
  adj,      \* adj[p][s]: the undo adjustment of process p for semaphore s
  word,     \* shm->word
  shmtext,  \* shm->text
  kills,    \* bound counter: servers killed
  restarts, \* bound counter: servers restarted
  harm,     \* history: "undo" after an exit changed semaphore 1,
            \* "restart" after a restart in the middle of a request;
            \* empty again when the server starts and no lookup is running
  fresh     \* history: fresh[c] until another client's word follows c's
            \* into the shared record

kernel == <<sem, adj>>
shm    == <<word, shmtext>>
bounds == <<kills, restarts>>
ghosts == <<harm, fresh>>
vars   == <<pc, query, text, spc, sought, sem, adj, word, shmtext,
            kills, restarts, harm, fresh>>

-----------------------------------------------------------------------------
(* The kernel's semop, with SEM_UNDO, and exit_sem.                        *)

NoAdj   == [s \in Sem |-> 0]
AdjVal  == -(SemMax + 1) .. SemMax

\* An operation by n on semaphore s would not sleep.
Ready(s, n) == sem[s] + n >= 0

\* Mutant: the adjustment has no limit.
InRange_NoUndoLimit(p, s, n) == sem[s] + n <= SemMax

\* It is within the limits: otherwise semop fails with ERANGE.
InRange(p, s, n) == /\ sem[s] + n <= SemMax
                    /\ adj[p][s] - n \in AdjVal

Semop(p, s, n) == /\ Ready(s, n)
                  /\ InRange(p, s, n)
                  /\ sem' = [sem EXCEPT ![s] = @ + n]
                  /\ adj' = [adj EXCEPT ![p][s] = @ - n]

\* exit_sem adds the adjustments of a dying process, within 0..SemMax.
Clamp(n) == IF n < 0 THEN 0 ELSE IF n > SemMax THEN SemMax ELSE n

ExitSem(p) == /\ sem' = [s \in Sem |-> Clamp(sem[s] + adj[p][s])]
              /\ adj' = [adj EXCEPT ![p] = NoAdj]
              /\ harm' = IF Clamp(sem[1] + adj[p][1]) = sem[1]
                         THEN harm ELSE harm \cup {"undo"}

-----------------------------------------------------------------------------
(* The client: main's loop around lookup6's lookup.                        *)

\* Between grab and release: c is the client that talks to the server.
Inside(c) == pc[c] \in {"word", "alert", "await", "release"}

\* After release, c still reads the shared text.
Reading(c) == pc[c] \in {"compare", "copy"}

Step(c, from, to) == /\ pc[c] = from
                     /\ pc' = [pc EXCEPT ![c] = to]

\* main reads the next word and calls lookup.
Ask(c) == /\ Step(c, "idle", "grab")
          /\ \E w \in Word : query' = [query EXCEPT ![c] = w]
          /\ text' = [text EXCEPT ![c] = NoText]
          /\ UNCHANGED <<spc, sought, kernel, shm, bounds, ghosts>>

\* Mutant: the mutex is taken without SEM_UNDO.
Grab_NoUndo(c) == /\ Step(c, "grab", "word")
                  /\ Ready(0, -1)
                  /\ sem' = [sem EXCEPT ![0] = @ - 1]
                  /\ UNCHANGED <<adj, query, text, spc, sought, shm, bounds,
                                 ghosts>>

Grab(c) == /\ Step(c, "grab", "word")
           /\ Semop(c, 0, -1)
           /\ UNCHANGED <<query, text, spc, sought, shm, bounds, ghosts>>

\* strcpy(shm->word, sought->word).
PutWord(c) == /\ Step(c, "word", "alert")
              /\ word' = query[c]
              /\ fresh' = [d \in Client |-> d = c]
              /\ UNCHANGED <<query, text, spc, sought, kernel, shmtext, bounds,
                             harm>>

\* Mutant: the server is alerted by 1, so its first wait reaches 0.
Alert_ByOne(c) == /\ Step(c, "alert", "await")
                  /\ Semop(c, 1, 1)
                  /\ UNCHANGED <<query, text, spc, sought, shm, bounds, ghosts>>

Alert(c) == /\ Step(c, "alert", "await")
            /\ Semop(c, 1, 2)
            /\ UNCHANGED <<query, text, spc, sought, shm, bounds, ghosts>>

\* The wait for zero: no SEM_UNDO, nothing to adjust.
Await(c) == /\ Step(c, "await", "release")
            /\ sem[1] = 0
            /\ UNCHANGED <<query, text, spc, sought, kernel, shm, bounds,
                           ghosts>>

Release(c) == /\ Step(c, "release", "compare")
              /\ Semop(c, 0, 1)
              /\ UNCHANGED <<query, text, spc, sought, shm, bounds, ghosts>>

\* strcmp(shm->text, "XXXX"): the first read of the text, after release.
Compare(c) ==
  /\ pc[c] = "compare"
  /\ \/ /\ shmtext = XXXX
        /\ pc' = [pc EXCEPT ![c] = "idle"]
        /\ text' = [text EXCEPT ![c] = XXXX]
     \/ /\ shmtext # XXXX
        /\ pc' = [pc EXCEPT ![c] = "copy"]
        /\ UNCHANGED text
  /\ UNCHANGED <<query, spc, sought, kernel, shm, bounds, ghosts>>

\* strcpy(sought->text, shm->text): the second read.
Copy(c) == /\ Step(c, "copy", "idle")
           /\ text' = [text EXCEPT ![c] = shmtext]
           /\ UNCHANGED <<query, spc, sought, kernel, shm, bounds, ghosts>>

\* The process ends: EOF on its input, or a signal anywhere else.
Exit(c) == /\ pc[c] \in ExitAt
           /\ pc' = [pc EXCEPT ![c] = "gone"]
           /\ ExitSem(c)
           /\ UNCHANGED <<query, text, spc, sought, shm, bounds, fresh>>

\* The semaphore operation a client is about to issue: <<semaphore, change>>.
ClientOp == [grab |-> <<0, -1>>, alert |-> <<1, 2>>, release |-> <<0, 1>>]

\* semop fails with ERANGE and DIE ends the client.
ClientDies(c) ==
  /\ pc[c] \in DOMAIN ClientOp
  /\ Ready(ClientOp[pc[c]][1], ClientOp[pc[c]][2])
  /\ ~InRange(c, ClientOp[pc[c]][1], ClientOp[pc[c]][2])
  /\ pc' = [pc EXCEPT ![c] = "gone"]
  /\ ExitSem(c)
  /\ UNCHANGED <<query, text, spc, sought, shm, bounds, fresh>>

-----------------------------------------------------------------------------
(* The server: the loop of shm_server.c.                                   *)

ServerStep(from, to) == /\ spc = from
                        /\ spc' = to

\* The first wait: sleeps until a client has alerted.
Take == /\ ServerStep("take", "search")
        /\ Semop(Server, 1, -1)
        /\ UNCHANGED <<pc, query, text, sought, shm, bounds, ghosts>>

\* The binary search reads shm->word while it compares.
Search == /\ ServerStep("search", "store")
          /\ sought' = word
          /\ UNCHANGED <<pc, query, text, kernel, shm, bounds, ghosts>>

\* Mutant: the NOTFOUND case forgets to store XXXX.
Store_NoXXXX == /\ ServerStep("store", "notify")
                /\ shmtext' = IF sought \in Dict THEN sought ELSE shmtext
                /\ UNCHANGED <<pc, query, text, sought, kernel, word, bounds,
                               ghosts>>

\* The definition, or XXXX, is copied into shm->text.
Store == /\ ServerStep("store", "notify")
         /\ shmtext' = Answer(sought)
         /\ UNCHANGED <<pc, query, text, sought, kernel, word, bounds, ghosts>>

\* Mutant: the second wait lowers by 2 (as much as the client raised).
Notify_ByTwo == /\ ServerStep("notify", "take")
                /\ Semop(Server, 1, -2)
                /\ UNCHANGED <<pc, query, text, sought, shm, bounds, ghosts>>

\* The second wait: the semaphore reaches 0 and the client may go on.
Notify == /\ ServerStep("notify", "take")
          /\ Semop(Server, 1, -1)
          /\ UNCHANGED <<pc, query, text, sought, shm, bounds, ghosts>>

\* Mutant: before it dies the server sets semaphore 1 to 0.
ServerDies_Resets == /\ spc \in {"take", "notify"}
                     /\ Ready(1, -1)
                     /\ ~InRange(Server, 1, -1)
                     /\ spc' = "down"
                     /\ sem' = [sem EXCEPT ![1] = 0]
                     /\ UNCHANGED <<pc, adj, query, text, sought, shm, bounds,
                                    ghosts>>

\* A wait fails with ERANGE (the adjustment is at its limit): DIE.
ServerDies == /\ spc \in {"take", "notify"}
              /\ Ready(1, -1)
              /\ ~InRange(Server, 1, -1)
              /\ spc' = "down"
              /\ ExitSem(Server)
              /\ UNCHANGED <<pc, query, text, sought, shm, bounds, fresh>>

\* The server runs until a signal ends it; nothing is removed (no IPC_RMID).
Kill == /\ spc # "down"
        /\ kills < MaxKill
        /\ kills' = kills + 1
        /\ spc' = "down"
        /\ ExitSem(Server)
        /\ UNCHANGED <<pc, query, text, sought, shm, restarts, fresh>>

\* Started again: the same segment and set are found, SETALL writes {1, 0}
\* and clears every process's adjustments.
Restart == /\ spc = "down"
           /\ restarts < MaxRestart
           /\ restarts' = restarts + 1
           /\ spc' = "take"
           /\ sem' = [s \in Sem |-> 1 - s]
           /\ adj' = [p \in Proc |-> NoAdj]
           /\ harm' = IF \E c \in Client : Inside(c)
                        THEN harm \cup {"restart"}
                      ELSE IF \E c \in Client : Reading(c)
                        THEN harm
                      ELSE {}
           /\ UNCHANGED <<pc, query, text, sought, shm, kills, fresh>>

-----------------------------------------------------------------------------
\* The state after the server's SETALL, with clients attached and idle.
Init == /\ pc = [c \in Client |-> "idle"]
        /\ query \in [Client -> Word]
        /\ text = [c \in Client |-> NoText]
        /\ spc = "take"
        /\ sought \in Word
        /\ sem = [s \in Sem |-> 1 - s]
        /\ adj = [p \in Proc |-> NoAdj]
        /\ word \in Word
        /\ shmtext = NoText
        /\ kills = 0
        /\ restarts = 0
        /\ harm = {}
        /\ fresh = [c \in Client |-> FALSE]

ClientNext(c) == \/ Ask(c)
                 \/ Grab(c)
                 \/ PutWord(c)
                 \/ Alert(c)
                 \/ Await(c)
                 \/ Release(c)
                 \/ Compare(c)
                 \/ Copy(c)
                 \/ Exit(c)
                 \/ ClientDies(c)

ServerNext == \/ Take
              \/ Search
              \/ Store
              \/ Notify
              \/ ServerDies

Next == \/ \E c \in Client : ClientNext(c)
        \/ ServerNext
        \/ Kill
        \/ Restart

Spec == Init /\ [][Next]_vars

-----------------------------------------------------------------------------
(* Fairness: the scheduler runs every process that can run, and the kernel  *)
(* hands the mutex to sleepers in the order they came (a strong fairness on *)
(* Grab).  Nobody has to ask for another word or to exit.                   *)

ClientFairness(c) == /\ WF_vars(PutWord(c))
                     /\ WF_vars(Alert(c))
                     /\ WF_vars(Await(c))
                     /\ WF_vars(Release(c))
                     /\ WF_vars(Compare(c))
                     /\ WF_vars(Copy(c))
                     /\ WF_vars(ClientDies(c))
                     /\ SF_vars(Grab(c))

FairSpec == /\ Spec
            /\ \A c \in Client : ClientFairness(c)
            /\ WF_vars(ServerNext)

-----------------------------------------------------------------------------
(* Properties.                                                             *)

\* Type correctness of every variable.
TypeOK == /\ pc \in [Client -> ClientPC]
          /\ query \in [Client -> Word]
          /\ text \in [Client -> Text]
          /\ spc \in ServerPC
          /\ sought \in Word
          /\ sem \in [Sem -> 0..SemMax]
          /\ adj \in [Proc -> [Sem -> AdjVal]]
          /\ word \in Word
          /\ shmtext \in Text
          /\ kills \in 0..MaxKill
          /\ restarts \in 0..MaxRestart
          /\ harm \in SUBSET {"undo", "restart"}
          /\ fresh \in [Client -> BOOLEAN]

\* Semaphore 0 (lookup6.c:56-74) admits one client at a time, and it is free
\* whenever no client is inside: a client killed inside gives it back through
\* SEM_UNDO.  Only a server started again under a running request breaks it.
MutualExclusion ==
  "restart" \notin harm =>
    /\ \A c, d \in Client : Inside(c) /\ Inside(d) => c = d
    /\ sem[0] = 0 <=> \E c \in Client : Inside(c)

\* lookup6.c:66-69: a client that passed the wait for zero finds its own
\* answer in the shared record.  It may rely on this as long as no exit
\* changed semaphore 1 and no server was started in the middle of a request.
AnswerAtRelease ==
  \A c \in Client : pc[c] = "release" /\ harm = {} => shmtext = Answer(query[c])

\* shm_server.c:89-106: while the server works on a request its client waits
\* for it: the record is the server's, nobody else writes the word.
ServerWorksForAClient ==
  harm = {} /\ spc \in {"search", "store", "notify"} =>
    \E c \in Client : /\ pc[c] = "await"
                      /\ word = query[c]
                      /\ spc # "search" => sought = query[c]

\* lookup6.c:76-81: what lookup returns, read after the mutex was released,
\* is the answer to the word asked, or another client has meanwhile put its
\* word in the record.  Both reads count: a text compared as a definition may
\* be copied as XXXX, but only by an overtaken client.
LookupIsRightUnlessOvertaken ==
  [][\A c \in Client :
       /\ Reading(c)
       /\ pc'[c] = "idle"
       /\ harm = {}
       /\ fresh[c]
       => text'[c] = Answer(query[c])]_vars

\* A server that ends by itself (semop fails with ERANGE at the SEMAEM limit)
\* ends in the middle of a request and leaves its client asleep.
OwnDeathStrandsAClient ==
  [][spc # "down" /\ spc' = "down" /\ kills' = kills /\ harm = {}
       => \E c \in Client : pc[c] = "await" /\ sem'[1] > 0]_vars

\* lookup6.c:54-69: every client that alerted the server gets on, and none waits
\* for the mutex for ever, or the server is down.
ClientsGetOn ==
  /\ \A c \in Client : pc[c] = "await" ~> (pc[c] # "await" \/ spc = "down")
  /\ \A c \in Client : pc[c] = "grab" ~> (pc[c] # "grab" \/ spc = "down")

-----------------------------------------------------------------------------
(* What the comments of the code say, and the code does not do.            *)

\* lookup6.c:66, "Wait for server to finish.  Server will have set sem 1 to
\* zero": the wait ends only after the server stored this client's answer.
AwaitMeansServed ==
  \A c \in Client : pc[c] = "release" => shmtext = Answer(query[c])

\* lookup6.c:6 and 71, "One excludes other clients while we talk to server",
\* "Done using the server": the result of a lookup is the answer to its word.
LookupReturnsTheAnswer ==
  [][\A c \in Client :
       Reading(c) /\ pc'[c] = "idle"
         => text'[c] = Answer(query[c])]_vars

=============================================================================

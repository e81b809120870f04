------------------------------ MODULE ProcTools ------------------------------
(***************************************************************************)
(* SP_HW4: programs that walk /proc while processes end, are adopted by    *)
(* init and give their numbers to others: the processes of a user (12-1,   *)
(* program "user"), the tree of all (12-2, "tree") and those that have a   *)
(* file open (12-3, "opened").  A directory is opened, then read; errno    *)
(* keeps what the last call that failed has left.                          *)
(*                                                                         *)
(* External: /proc is listed in the order of the numbers, from the state   *)
(* it has at each entry; the owner of a number is a record.                *)
(***************************************************************************)
EXTENDS Integers, Sequences, FiniteSets

CONSTANTS Pids,       \* numbers: 1 is init and does not end
          MaxChanges  \* bound

VARIABLES
  program,
  proc,     \* the process that each number has, or None
  pc,
  entry,    \* the number readdir has given last
  failed,   \* errno # 0
  checked,  \* the process that was at entry when it was looked at
  gone,     \* the process whose file or directory is open has ended
  found,    \* what is printed, or kept for the tree
  stable,   \* history: numbers whose process has not changed
  changes
vars == <<program, proc, pc, entry, failed, checked, gone, found, stable, changes>>

Walk == program \in {"user", "tree", "opened"}
Walks(p, l) == program = p /\ pc = l
Env == UNCHANGED <<program, proc, stable, changes>>

\* The processes of the user who asks are "mine".  Each program sees only what
\* it looks for.
None   == [ppid |-> 0, owner |-> "none", opens |-> FALSE]
Owners == IF program = "tree" THEN {"mine"} ELSE {"mine", "other"}
Opens  == IF program = "opened" THEN BOOLEAN ELSE {FALSE}
Exists(p) == proc[p] # None

-----------------------------------------------------------------------------
\* readdir of /proc: the next number there is, or the end, where errno tells
\* whether readdir has failed.
NextEntry ==
  /\ Walk /\ pc = "readdir"
  /\ LET rest == {p \in Pids : p > entry /\ Exists(p)} IN
       IF rest = {}
         THEN /\ pc' = IF failed THEN "error"
                       ELSE IF program = "tree" THEN "print" ELSE "ended"
              /\ UNCHANGED entry
         ELSE /\ entry' = CHOOSE p \in rest : \A q \in rest : p <= q
              /\ pc' = "open"
  /\ Env /\ UNCHANGED <<failed, checked, gone, found>>

\* 12-1: the status file is opened once for the owner ...
get_process_uid ==
  /\ Walks("user", "open")
  /\ failed' = (failed \/ ~Exists(entry))
  /\ checked' = proc[entry]
  /\ pc' = IF proc[entry].owner = "mine" THEN "name" ELSE "readdir"
  /\ Env /\ UNCHANGED <<entry, gone, found>>

\* A line: the number, whose owner was asked for, whose name is printed.
PrintLine(name, isRead) ==
  /\ found' = Append(found, [pid |-> entry, was |-> checked, name |-> name,
                            read |-> isRead])
  /\ pc' = "readdir"

\* cmdname is not initialised, and at the same place of the stack in every round.
Garbage == [None EXCEPT !.owner = "garbage"]
Left    == IF found = <<>> THEN Garbage ELSE found[Len(found)].name

\* ... and again for the name; a process that has ended is "[Unknown]" ...
get_process_cmdname ==
  /\ Walks("user", "name")
  /\ failed' = (failed \/ ~Exists(entry))
  /\ IF Exists(entry) THEN pc' = "fgets" /\ gone' = FALSE /\ UNCHANGED found
                      ELSE PrintLine(None, FALSE) /\ UNCHANGED gone
  /\ Env /\ UNCHANGED <<entry, checked>>

\* ... unless it ends once the file is open: then nothing is read, and cmdname
\* is what it was.
NameIsRead ==
  /\ Walks("user", "fgets")
  /\ failed' = (failed \/ gone)
  /\ PrintLine(IF gone THEN Left ELSE proc[entry], ~gone)
  /\ Env /\ UNCHANGED <<entry, checked, gone>>

\* 12-2: the entry is kept, or errno is left set.  (A process that ends between
\* fopen and fgets leaves errno set too; its entry is kept as [Unknown], and never
\* printed: the program then fails.)
get_process_info ==
  /\ Walks("tree", "open")
  /\ failed' = (failed \/ ~Exists(entry))
  /\ found' = IF Exists(entry)
                THEN Append(found, [pid |-> entry, proc |-> proc[entry]]) ELSE found
  /\ pc' = "readdir"
  /\ Env /\ UNCHANGED <<entry, checked, gone>>

\* 12-2: from 1 down, as deep as there are generations.
Printed ==
  LET below[n \in 0..Len(found)] ==
        IF n = 0 THEN {1}
        ELSE {found[k].pid : k \in {k \in DOMAIN found :
                                      found[k].proc.ppid \in below[n - 1]}}
  IN UNION {below[n] : n \in 0..Len(found)}

print_tree == /\ pc = "print"
              /\ pc' = "ended"
              /\ Env /\ UNCHANGED <<entry, failed, checked, gone, found>>

\* 12-3: the directory of the descriptors of a process that has ended, or of
\* another user, is not opened and that is the end.
OpenFds ==
  /\ Walks("opened", "open")
  /\ pc' = IF proc[entry].owner = "mine" THEN "fds" ELSE "error"
  /\ checked' = proc[entry] /\ gone' = FALSE
  /\ Env /\ UNCHANGED <<entry, failed, found>>

\* The descriptors of a process that has ended meanwhile are none.
ListFds ==
  /\ Walks("opened", "fds")
  /\ failed' = FALSE
  /\ pc' = IF gone THEN "readdir" ELSE "readlink"
  /\ Env /\ UNCHANGED <<entry, checked, gone, found>>

\* The links are read by their names: a link that is gone is passed over.
ReadLinks ==
  /\ Walks("opened", "readlink")
  /\ pc' = IF proc[entry].owner = "other" THEN "error" ELSE "readdir"
  /\ found' = IF proc[entry].opens
                THEN Append(found, [pid |-> entry, proc |-> proc[entry]]) ELSE found
  /\ Env /\ UNCHANGED <<entry, failed, checked, gone>>

-----------------------------------------------------------------------------
(* What goes on in the system meanwhile.                                   *)

Change == /\ Walk /\ pc \notin {"ended", "error"}
          /\ changes < MaxChanges /\ changes' = changes + 1
          /\ stable' = {p \in stable : proc'[p] = proc[p]}
          /\ UNCHANGED <<program, pc, entry, failed, checked, found>>

\* The children of a process that ends are adopted by init.
Exit(p) ==
  /\ p # 1 /\ Exists(p)
  /\ proc' = [q \in Pids |-> IF q = p THEN None
                            ELSE IF proc[q].ppid = p THEN [proc[q] EXCEPT !.ppid = 1]
                            ELSE proc[q]]
  /\ gone' = (gone \/ p = entry)
  /\ Change

\* A number that is free, perhaps one that was used before.
Start(p) ==
  /\ ~Exists(p)
  /\ \E parent \in {q \in Pids : Exists(q)}, owner \in Owners, opens \in Opens :
       proc' = [proc EXCEPT ![p] =
                  [ppid |-> parent, owner |-> owner, opens |-> opens]]
  /\ Change /\ UNCHANGED gone

-----------------------------------------------------------------------------
\* Each process but init is the child of one with a lower number, as at boot.
Init ==
  /\ IF Walk
       THEN proc \in {f \in [Pids -> [ppid : {0} \cup Pids, owner : Owners,
                                      opens : Opens] \cup {None}] :
              /\ f[1] # None /\ f[1].ppid = 0 /\ ~f[1].opens
              /\ \A p \in Pids \ {1} : f[p] = None \/
                   (f[p].ppid \in 1..(p - 1) /\ f[f[p].ppid] # None)}
       ELSE proc = [p \in Pids |-> None]
  /\ pc = "readdir" /\ entry = 0 /\ failed = FALSE /\ checked = None /\ gone = FALSE
  /\ found = <<>> /\ stable = {p \in Pids : Exists(p)} /\ changes = 0

ToolNext == \/ NextEntry \/ get_process_uid \/ get_process_cmdname \/ NameIsRead
            \/ get_process_info \/ print_tree \/ OpenFds \/ ListFds \/ ReadLinks
Next == ToolNext \/ \E p \in Pids : Exit(p) \/ Start(p)

Fairness == WF_vars(ToolNext)

-----------------------------------------------------------------------------
Stopped == pc \in {"ended", "error"}
Ancestors(p) ==
  LET up[n \in 0..Cardinality(Pids)] ==
        IF n = 0 THEN {p} ELSE {proc[q].ppid : q \in up[n - 1] \ {0}}
  IN (UNION {up[n] : n \in 0..Cardinality(Pids)}) \ {0}

\* 12-1.c:104-127, 12-2.c:87-111, 12-3.c:36-97: the processes of the user that
\* are there all the time are printed, each with its own name, whatever else
\* happens and even if the program says at its end that it has failed; it says so
\* only if a process has ended.  A line whose name was not read, but left over
\* from the line before, has that failure after it; and of the names that were
\* read, one is another user's only if a number was given away.  The tree
\* has every process that is there with its ancestors all the time, and only
\* one of each number.  The third comes to its end only where every process
\* may be looked into, and then has printed those with the file.
StableProcessesAreSeen ==
  /\ program = "user" /\ Stopped =>
       \A p \in stable :
         proc[p].owner = "mine" <=> \E k \in DOMAIN found :
                                      found[k].pid = p /\ found[k].name = proc[p]
  /\ program = "user" /\ pc = "error" => changes > 0
  /\ program = "user" /\ pc = "ended" => \A k \in DOMAIN found : found[k].read
  /\ program = "user" =>
       \A k \in DOMAIN found : found[k].name.owner = "other" => changes >= 2
  /\ program = "tree" /\ pc = "ended" =>
       /\ \A p \in Pids : Exists(p) /\ Ancestors(p) \subseteq stable => p \in Printed
       /\ \A j, k \in DOMAIN found : found[j].pid = found[k].pid => j = k
       /\ \A k \in DOMAIN found : found[k].pid = 1 => found[k].proc.ppid \notin Printed
  /\ program = "tree" /\ pc = "error" => changes > 0
  /\ program = "opened" /\ pc = "ended" =>
       \A p \in stable : /\ proc[p].owner = "mine"
                         /\ proc[p].opens => \E k \in DOMAIN found : found[k].pid = p

\* The walk comes to an end.
WalksEnd == Walk ~> Stopped

=============================================================================

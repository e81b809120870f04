-------------------------------- MODULE Shell --------------------------------
(***************************************************************************)
(* The shells of SP_HW3 and SP_HW5/part2 (version).  A line is a sequence  *)
(* of tokens and blanks.  HW5's child makes the redirections, splits its   *)
(* argument vector at "|" and becomes the leftmost command, the rest goes  *)
(* to a child of its own, and so on; HW3's just executes.                  *)
(*                                                                         *)
(* External: commands are of three kinds.  "filter" reads to end of file,  *)
(* "gen" writes to its pipe as long as somebody has it open for reading,   *)
(* "plain" ends by itself.  stdio reads input in blocks, and exit() moves  *)
(* the offset, which all processes share, back over the block's unread     *)
(* part when input is a file.  Processes are numbered, a pipe has the      *)
(* number of the process that reads it.                                    *)
(***************************************************************************)
EXTENDS Integers, Sequences, FiniteSets

CONSTANTS
  Scripts,   \* inputs: sequences of lines
  Kind,      \* the commands that exist, with their kinds
  Files,     \* files that can be opened for reading
  Dirs,      \* directories
  Block,     \* lines per block
  MaxProc    \* bound: processes at a time

ASSUME ShellAssumption == /\ Scripts \subseteq Seq(Seq(STRING))
                          /\ Block \in Nat \ {0} /\ MaxProc \in Nat

VARIABLES
  version,  \* "HW3" or "HW5"
  input,    \* the lines
  media,    \* "file" or "tty"
  offset,   \* the offset of input: lines read by anybody
  at, top,  \* the shell's buffer: the lines after at, up to top
  sh,       \* the shell: "prompt", "wait", "exited"
  child,    \* the process it waits for
  proc,     \* the processes
  started,  \* history: lines read by the shell
  again,    \* history: lines it has read more than once
  rewound   \* history: a failing child has moved the offset back
shell == <<sh, child, at, top, started, again>>
fixed == <<version, input, media>>
shellVars == <<fixed, offset, shell, proc, rewound>>

Pids    == 1..MaxProc
Nobody  == [argv |-> <<>>, next |-> "none", in |-> <<>>, out |-> <<>>,
            holds |-> {}, unread |-> 0, line |-> <<>>, stage |-> 0]
Running == {p \in Pids : proc[p] # Nobody}

\* Tokens of a line, and positions in it.
Where(v, t) == {i \in DOMAIN v : v[i] = t}
First(S)    == CHOOSE i \in S : \A j \in S : i <= j
Before(v, t) == IF Where(v, t) = {} THEN v ELSE SubSeq(v, 1, First(Where(v, t)) - 1)
After(v, t)  == SubSeq(v, First(Where(v, t)) + 1, Len(v))

\* strtok drops the blanks; a line without tokens gives no vector.
Parse(line) ==
  LET words == DOMAIN line \ Where(line, " ")
  IN [k \in 1..Cardinality(words) |->
        line[CHOOSE i \in words : Cardinality({j \in words : j <= i}) = k]]

IsBackground(argv) == Where(argv, "&") # {}

-----------------------------------------------------------------------------
(* Builtins: all that matters is whether the shell survives.               *)

Builtins3 == {"echo", "quit", "exit", "bye", "logout"}
Builtins5 == Builtins3 \cup {"builtin", "cd", "pwd", "id", "hostname"}
IsBuiltin(cmd) == cmd \in IF version = "HW5" THEN Builtins5 ELSE Builtins3

Atoi(t) == CASE t = "1" -> 1 [] t = "2" -> 2 [] OTHER -> 0

\* Without a string the shell exits; -n without a number is a null pointer;
\* HW5 exits also when there is no N-th string.
EchoEnds3(argv) == Len(argv) = 1 \/ (argv[2] = "-n" /\ Len(argv) = 2)
EchoEnds5(argv) ==
  \/ EchoEnds3(argv)
  \/ argv[2] = "-n" /\ Atoi(argv[3]) > Len(argv) - 3
EchoEnds(argv) == IF version = "HW5" THEN EchoEnds5(argv) ELSE EchoEnds3(argv)

\* "builtin" without a word is a null pointer; cd exits when it fails.
BuiltinEnds(argv) ==
  CASE argv[1] \in {"quit", "exit", "bye", "logout"} -> TRUE
    [] argv[1] = "echo" -> EchoEnds(argv)
    [] argv[1] = "builtin" -> Len(argv) = 1
    [] argv[1] = "cd" -> Len(argv) = 1 \/ argv[2] \notin Dirs
    [] OTHER -> FALSE

-----------------------------------------------------------------------------
(* The shell.                                                              *)

\* Numbers that are not in use, of a process or of a pipe.
Free == {q \in Pids \ Running :
           \A p \in Running :
             {<<"r", q>>, <<"w", q>>, <<"pipe", q>>}
               \cap (proc[p].holds \cup {proc[p].in, proc[p].out}) = {}}

NewProcess(argv) ==
  [argv |-> argv, next |-> IF version = "HW5" THEN "in" ELSE "exec",
   in |-> <<"input">>, out |-> <<"screen">>, holds |-> {}, unread |-> top' - at',
   line |-> argv, stage |-> 1]

\* fork; a line with "&" is not waited for.
RunCommand(argv) ==
  /\ Free # {}
  /\ proc' = [proc EXCEPT ![First(Free)] = NewProcess(argv)]
  /\ IF IsBackground(argv) THEN UNCHANGED <<sh, child>>
                           ELSE sh' = "wait" /\ child' = First(Free)

NextBlock == LET n == IF media = "tty" THEN 1 ELSE Block
             IN IF offset + n > Len(input) THEN Len(input) ELSE offset + n

\* fgets, from the buffer or, when it is used up, from the next block.
ReadLine ==
  LET fill == at = top
      i    == IF fill THEN offset + 1 ELSE at + 1
      argv == Parse(input[i])
  IN /\ sh = "prompt"
     /\ i <= Len(input)
     /\ at' = i
     /\ IF fill
          THEN offset' = NextBlock
          ELSE UNCHANGED offset
     /\ top' = IF fill THEN offset' ELSE top
     /\ started' = started \cup {i}
     /\ again' = IF i \in started THEN again \cup {i} ELSE again
     /\ CASE argv = <<>> -> UNCHANGED <<sh, child, proc>>
          [] argv # <<>> /\ IsBuiltin(argv[1]) ->
               /\ sh' = IF BuiltinEnds(argv) THEN "exited" ELSE sh
               /\ UNCHANGED <<child, proc>>
          [] OTHER -> RunCommand(argv)
     /\ UNCHANGED <<fixed, rewound>>

EndOfInput == /\ sh = "prompt" /\ at = top /\ offset = Len(input)
              /\ sh' = "exited"
              /\ UNCHANGED <<fixed, offset, child, at, top, started, again,
                             proc, rewound>>

\* waitpid for the one process the shell has forked.
WaitForChild ==
  /\ sh = "wait"
  /\ proc[child].next = "ended"
  /\ sh' = "prompt" /\ child' = 0
  /\ proc' = [proc EXCEPT ![child] = Nobody]
  /\ UNCHANGED <<fixed, offset, at, top, started, again, rewound>>

-----------------------------------------------------------------------------
(* A child.                                                                *)

\* One that nobody waits for is gone at once.
Gone(p) == IF sh = "wait" /\ child = p THEN [Nobody EXCEPT !.next = "ended"]
                                       ELSE Nobody

\* exit() of a process that is still the shell's program.
ExitFailing(p) ==
  /\ proc' = [proc EXCEPT ![p] = Gone(p)]
  /\ LET back == offset - proc[p].unread
     IN IF media = "file" /\ proc[p].in = <<"input">> /\ back >= 0
          THEN offset' = back /\ rewound' = (rewound \/ back < offset)
          ELSE UNCHANGED <<offset, rewound>>
  /\ UNCHANGED <<fixed, shell>>

Become(p, r) == /\ proc' = [proc EXCEPT ![p] = r]
                /\ UNCHANGED <<fixed, offset, shell, rewound>>

\* The vector is cut at "<"; a file that cannot be opened ends the child.
RedirectIn(p) ==
  /\ proc[p].next = "in"
  /\ LET v == proc[p].argv IN
       \/ /\ Where(v, "<") = {}
          /\ Become(p, [proc[p] EXCEPT !.next = "out"])
       \/ /\ Where(v, "<") # {}
          /\ LET rest == After(v, "<") IN
               IF rest # <<>> /\ rest[1] \in Files
                 THEN Become(p, [proc[p] EXCEPT !.next = "out", !.in = <<"file", rest[1]>>,
                                                !.argv = Before(v, "<")])
                 ELSE ExitFailing(p)

\* The same at ">".
RedirectOut(p) ==
  /\ proc[p].next = "out"
  /\ LET v == proc[p].argv IN
       \/ /\ Where(v, ">") = {}
          /\ Become(p, [proc[p] EXCEPT !.next = "pipe"])
       \/ /\ Where(v, ">") # {}
          /\ LET rest == After(v, ">") IN
               IF rest # <<>>
                 THEN Become(p, [proc[p] EXCEPT !.next = "pipe",
                       !.out = <<"file", rest[1]>>, !.argv = Before(v, ">")])
                 ELSE ExitFailing(p)

\* Index of the first "|", 0 for none, -1 at either end.
PipePresent(v) ==
  LET bars == Where(v, "|")
  IN IF bars = {} THEN 0
     ELSE IF First(bars) = 1 \/ First(bars) = Len(v) THEN -1
     ELSE First(bars)

\* Mutant: the reader keeps the write side of its pipe.
RightOf_KeepsWriteSide(p, q) ==
  [proc[p] EXCEPT !.argv = After(@, "|"), !.in = <<"pipe", q>>,
                  !.holds = @ \cup {<<"r", q>>, <<"w", q>>}, !.stage = @ + 1]

\* The listening child: everything the parent had open stays open in it.
RightOf(p, q) ==
  [proc[p] EXCEPT !.argv = After(@, "|"), !.in = <<"pipe", q>>,
                  !.holds = @ \cup {<<"r", q>>}, !.stage = @ + 1]

\* Mutant: the vector is not terminated where it is split.
LeftOf_WholeVector(p, q) ==
  [proc[p] EXCEPT !.out = <<"pipe", q>>, !.holds = @ \cup {<<"w", q>>},
                  !.next = "exec"]

\* The talking parent, which then executes the left command.
LeftOf(p, q) ==
  [proc[p] EXCEPT !.argv = Before(@, "|"), !.out = <<"pipe", q>>,
                  !.holds = @ \cup {<<"w", q>>}, !.next = "exec"]

\* pipe, fork, and the descriptors each side closes before it goes on.
PipeAndExec(p) ==
  /\ proc[p].next = "pipe"
  /\ LET index == PipePresent(proc[p].argv) IN
       \/ index = -1 /\ ExitFailing(p)
       \/ index = 0 /\ Become(p, [proc[p] EXCEPT !.next = "exec"])
       \/ /\ index > 0
          /\ Free # {}
          /\ LET q == First(Free)
             IN proc' = [proc EXCEPT ![p] = LeftOf(p, q), ![q] = RightOf(p, q)]
          /\ UNCHANGED <<fixed, offset, shell, rewound>>

\* What execvp gets: only HW3 has removed the "&".
ExecArgv(p) == IF version = "HW3" THEN Before(proc[p].argv, "&")
                                  ELSE proc[p].argv

\* An empty vector is a null pointer, which ends the child without exit().
Exec(p) ==
  /\ proc[p].next = "exec"
  /\ LET v == ExecArgv(p) IN
       \/ v = <<>> /\ Become(p, Gone(p))
       \/ v # <<>> /\ v[1] \notin DOMAIN Kind /\ ExitFailing(p)
       \/ /\ v # <<>> /\ v[1] \in DOMAIN Kind
          /\ Become(p, [proc[p] EXCEPT !.next = "run", !.argv = v])

HasWriter(q) == \E p \in Running : \/ proc[p].out = <<"pipe", q>>
                                   \/ <<"w", q>> \in proc[p].holds
HasReader(q) == \E p \in Running : \/ proc[p].in = <<"pipe", q>>
                                   \/ <<"r", q>> \in proc[p].holds
Runs(p, kind) == proc[p].next = "run" /\ Kind[proc[p].argv[1]] = kind

\* A filter competes with the shell for its input.
CommandReads(p) ==
  /\ Runs(p, "filter") /\ proc[p].in = <<"input">> /\ offset < Len(input)
  /\ offset' = NextBlock
  /\ UNCHANGED <<fixed, shell, proc, rewound>>

CommandEnds(p) ==
  /\ \/ Runs(p, "plain")
     \/ /\ Runs(p, "filter")
        /\ proc[p].in = <<"input">> => offset = Len(input)
        /\ \A q \in Pids : proc[p].in = <<"pipe", q>> => ~HasWriter(q)
     \/ /\ Runs(p, "gen")
        /\ \A q \in Pids : proc[p].out = <<"pipe", q>> => ~HasReader(q)
  /\ Become(p, Gone(p))

-----------------------------------------------------------------------------
ShellInit ==
  /\ version \in {"HW3", "HW5"}
  /\ input \in Scripts
  /\ media \in {"file", "tty"}
  /\ offset = 0 /\ at = 0 /\ top = 0
  /\ sh = "prompt" /\ child = 0
  /\ proc = [p \in Pids |-> Nobody]
  /\ started = {} /\ again = {} /\ rewound = FALSE

ShellNext == ReadLine \/ EndOfInput \/ WaitForChild

ChildNext(p) == /\ p \in Running
                /\ \/ RedirectIn(p)
                   \/ RedirectOut(p)
                   \/ PipeAndExec(p)
                   \/ Exec(p)
                   \/ CommandReads(p)
                   \/ CommandEnds(p)

AnyNext == ShellNext \/ \E p \in Pids : ChildNext(p)

ShellSpec == ShellInit /\ [][AnyNext]_shellVars

\* The shell reads on, and a child goes on when its system call can return.
FairShellSpec ==
  /\ ShellSpec
  /\ WF_shellVars(ShellNext)
  /\ \A p \in Pids : WF_shellVars(ChildNext(p))

-----------------------------------------------------------------------------
(* What a line asks for.                                                   *)

Redirected(line) == Where(line, "<") \cup Where(line, ">")
Commands(line)   == IF Redirected(line) = {} THEN line
                    ELSE SubSeq(line, 1, First(Redirected(line)) - 1)
FileAfter(line, t, none) ==
  IF Where(line, t) = {} THEN none ELSE <<"file", After(line, t)[1]>>

\* The lines the passes over the vector take apart as they are meant:
\* commands with pipes between them, then ">", then "<" unless there is a
\* pipe, for the file would go to the first command.
Regular(line) ==
  /\ \A i \in Redirected(line) : i < Len(line) /\ line[i + 1] \notin {"<", ">", "|"}
  /\ Len(line) = Len(Commands(line)) + 2 * Cardinality(Redirected(line))
  /\ Cardinality(Where(line, "<")) <= 1 /\ Cardinality(Where(line, ">")) <= 1
  /\ \A i \in Where(line, "<"), j \in Where(line, ">") : j < i
  /\ Where(line, "<") # {} => Where(line, "|") = {}

Stages(line) == Cardinality(Where(line, "|")) + 1
Bars(line, i) == Cardinality({j \in Where(line, "|") : j < i})
StageOf(line, k) ==
  LET S == {i \in DOMAIN Commands(line) : line[i] # "|" /\ Bars(line, i) = k - 1}
  IN SubSeq(line, First(S), First(S) + Cardinality(S) - 1)

NoAmpersand(v) == SelectSeq(v, LAMBDA t : t # "&")

\* SP_HW5/part2 run_command.c:48-57, pipe_command.c, redirect_*.c: a command
\* that runs has the words, the input and the output its line gives it: the
\* files, or the pipes to the commands beside it ("&" counts as a word in HW5).
RunsAsWritten(p) ==
  LET line == proc[p].line
      k    == proc[p].stage
  IN /\ NoAmpersand(proc[p].argv) = NoAmpersand(StageOf(line, k))
     /\ proc[p].in = IF k = 1 THEN FileAfter(line, "<", <<"input">>)
                              ELSE <<"pipe", p>>
     /\ IF k = Stages(line)
          THEN proc[p].out = FileAfter(line, ">", <<"screen">>)
          ELSE \E q \in Pids : /\ proc[p].out = <<"pipe", q>>
                               /\ q \in Running => proc[q].stage = k + 1

\* Regular lines run as written; while the shell prompts, only processes of
\* lines with "&" or "|" are left; and no line is read twice, unless input is
\* a file and a child that could not execute has moved its offset back.
LinesAreObeyed ==
  /\ \A p \in Running :
       proc[p].next = "run" /\ version = "HW5" /\ Regular(proc[p].line)
         => RunsAsWritten(p)
  /\ sh = "prompt" =>
       \A p \in Running : \E t \in {"&", "|"} : Where(proc[p].line, t) # {}
  /\ again # {} => media = "file" /\ rewound

\* A command that writes for ever to one that reads for ever.
Endless(line) ==
  \E i, j \in {n \in DOMAIN line : line[n] \in DOMAIN Kind} :
    /\ Kind[line[i]] = "gen" /\ Kind[line[j]] = "filter"
    /\ Bars(line, j) = Bars(line, i) + 1

\* SP_HW5/part2 pipe_command.c:100-124, run_command.c:35: a process that runs
\* a command ends, whatever ends of pipes the others have inherited, and the
\* shell gets to the end of its input, or reads lines again for ever.
EverythingEnds ==
  /\ \A p \in Pids :
       (p \in Running /\ proc[p].next # "ended") ~>
         \/ p \notin Running \/ proc[p].next = "ended"
         \/ proc[p].next = "run" /\ Endless(proc[p].line)
         \/ proc[p].in = <<"input">> /\ again # {}
  /\ <>(sh = "exited" \/ again # {} \/ \E p \in Running : Endless(proc[p].line))

=============================================================================

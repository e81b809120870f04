-------------------------------- MODULE Pipes --------------------------------
(***************************************************************************)
(* A parent and its child with pipes between them: the upper-caser of      *)
(* SP_HW6 44_1 ("upper"), my_popen and my_pclose of 44_2 ("popen r",       *)
(* "popen w"), SP_HW5/part1 pipe_ls ("pipe_ls") and quiz_1 myrpc ("rpc").  *)
(*                                                                         *)
(* A line is "short", "long" (over 14 bytes), "kill" (kill yourself) or    *)
(* "upper".  A buffer is not cleared: after "kill" its next byte, the rest *)
(* of an earlier long line or of what was on the stack, may not be NUL.    *)
(***************************************************************************)
EXTENDS Integers, Sequences

CONSTANTS
  Inputs,   \* what is typed: sequences of lines, then end of file
  Lines,    \* lines a command writes or is sent
  Room,     \* lines a pipe holds
  MaxFds    \* descriptors a process may have

Proc == {"parent", "child"}

VARIABLES
  program,
  pc,
  input,     \* lines still to be typed
  eof,       \* end of file has been read
  down, up,  \* the pipes to the child and to the parent
  buf,       \* of each process: [text, rest]
  rd, wr,    \* processes with an end of the (one) pipe open
  done,      \* lines the parent and the child have dealt with
  status,    \* of the child, as the parent knows it
  fds        \* descriptors the parent has open
pipe == <<down, up>>
ends == <<rd, wr>>
vars == <<program, pc, input, eof, pipe, buf, ends, done, status, fds>>

Goto(p, l) == pc' = [pc EXCEPT ![p] = l]
Did(p)     == done' = [done EXCEPT ![p] = @ + 1]

-----------------------------------------------------------------------------
(* 44_1.                                                                   *)

Upper == program = "upper"
URest == UNCHANGED <<program, ends, status, fds>>

Into(b, line) == [text |-> line, rest |-> b.rest \/ line = "long"]
IsKill(b)     == b.text = "kill" /\ ~b.rest

UpperFork == /\ Upper /\ pc["parent"] = "start"
             /\ pc' = [parent |-> "prompt", child |-> "read"]
             /\ URest /\ UNCHANGED <<input, eof, pipe, buf, done>>

\* At end of file nothing is read into the buffer, and nothing is written.
UpperSends ==
  /\ Upper /\ pc["parent"] = "prompt"
  /\ \/ /\ input = <<>>
        /\ eof' = TRUE
        /\ UNCHANGED <<input, buf, down>>
     \/ /\ input # <<>>
        /\ buf' = [buf EXCEPT !["parent"] = Into(@, Head(input))]
        /\ down' = Append(down, Head(input))
        /\ input' = Tail(input)
        /\ UNCHANGED eof
  /\ Goto("parent", IF pc["child"] = "ended" THEN "SIGPIPE" ELSE "compare")
  /\ URest /\ UNCHANGED <<up, done>>

UpperCompares ==
  /\ pc["parent"] = "compare"
  /\ Goto("parent", IF IsKill(buf["parent"]) THEN "ended" ELSE "reply")
  /\ URest /\ UNCHANGED <<input, eof, pipe, buf, done>>

UpperGets ==
  /\ pc["parent"] = "reply" /\ up # <<>>
  /\ buf' = [buf EXCEPT !["parent"] = Into(@, Head(up))]
  /\ up' = Tail(up)
  /\ Goto("parent", "prompt") /\ Did("parent")
  /\ URest /\ UNCHANGED <<input, eof, down>>

\* Mutant: the child upper-cases before it compares.
UpperChild_Late ==
  /\ Upper /\ pc["child"] = "read" /\ down # <<>>
  /\ down' = Tail(down)
  /\ buf' = [buf EXCEPT !["child"] = Into(Into(@, Head(down)), "upper")]
  /\ up' = Append(up, "upper") /\ UNCHANGED pc
  /\ Did("child")
  /\ URest /\ UNCHANGED <<input, eof>>

\* The child compares, or answers.  At end of file it would go round for ever.
UpperChild ==
  /\ Upper /\ pc["child"] = "read" /\ down # <<>>
  /\ down' = Tail(down)
  /\ LET b == Into(buf["child"], Head(down)) IN
       IF IsKill(b)
         THEN /\ Goto("child", "ended")
              /\ buf' = [buf EXCEPT !["child"] = b] /\ UNCHANGED up
         ELSE /\ buf' = [buf EXCEPT !["child"] = Into(b, "upper")]
              /\ up' = Append(up, "upper") /\ UNCHANGED pc
  /\ Did("child")
  /\ URest /\ UNCHANGED <<input, eof>>

-----------------------------------------------------------------------------
(* 44_2 and pipe_ls: one pipe, the command is the child.                   *)

Popen  == program \in {"popen r", "popen w", "pipe_ls"}
Reader == IF program = "popen w" THEN "child" ELSE "parent"
Writer == IF program = "popen w" THEN "parent" ELSE "child"
PRest  == UNCHANGED <<program, input, eof, up, buf, fds>>

PopenFork == /\ Popen /\ pc["parent"] = "start"
             /\ pc' = [p \in Proc |-> "close"]
             /\ rd' = Proc /\ wr' = Proc
             /\ PRest /\ UNCHANGED <<down, done, status>>

\* Each side closes the end it does not use.
CloseUnused(p) ==
  /\ Popen /\ pc[p] = "close"
  /\ IF p = Reader THEN wr' = wr \ {p} /\ UNCHANGED rd
                   ELSE rd' = rd \ {p} /\ UNCHANGED wr
  /\ Goto(p, "use")
  /\ PRest /\ UNCHANGED <<down, done, status>>
ParentCloses == CloseUnused("parent")
ChildCloses  == CloseUnused("child")

\* A command that has no more to say, or reads end of file, ends: its end of the
\* pipe is closed before it can be waited for.
ChildEnds == /\ pc' = [pc EXCEPT !["child"] = "exiting"]
             /\ rd' = rd \ {"child"} /\ wr' = wr \ {"child"}

ChildHasEnded == /\ Popen /\ pc["child"] = "exiting"
                 /\ Goto("child", "ended")
                 /\ PRest /\ UNCHANGED <<down, ends, done, status>>

Writes ==
  /\ Popen /\ pc[Writer] = "use"
  /\ \/ /\ done[Writer] < Lines /\ Len(down) < Room
        /\ down' = Append(down, done[Writer] + 1)
        /\ Did(Writer)
        /\ UNCHANGED <<pc, ends>>
     \/ /\ done[Writer] = Lines
        /\ IF Writer = "child" THEN ChildEnds
                               ELSE Goto("parent", "fclose") /\ UNCHANGED ends
        /\ UNCHANGED <<down, done>>
  /\ PRest /\ UNCHANGED status

Reads ==
  /\ Popen /\ pc[Reader] = "use"
  /\ \/ /\ down # <<>>
        /\ down' = Tail(down)
        /\ Did(Reader)
        /\ UNCHANGED <<pc, ends>>
     \/ /\ down = <<>> /\ wr = {}
        /\ IF Reader = "child" THEN ChildEnds
                               ELSE Goto("parent", "fclose") /\ UNCHANGED ends
        /\ UNCHANGED <<down, done>>
  /\ PRest /\ UNCHANGED status

\* my_pclose closes the stream (pipe_ls only stops to read) ...
Fclose == /\ pc["parent"] = "fclose" /\ Goto("parent", "wait")
          /\ rd' = rd \ {"parent"} /\ wr' = wr \ {"parent"}
          /\ PRest /\ UNCHANGED <<down, done, status>>

\* ... and waits with option 1, which is WNOHANG: the status of a child that
\* has not ended is whatever the stack holds.
Pclose ==
  /\ pc["parent"] = "wait" /\ program \in {"popen r", "popen w"}
  /\ status' = IF pc["child"] = "ended" THEN "child's" ELSE "unset"
  /\ Goto("parent", "ended")
  /\ PRest /\ UNCHANGED <<down, ends, done>>

LsWaits ==
  /\ pc["parent"] = "wait" /\ program = "pipe_ls" /\ pc["child"] = "ended"
  /\ status' = "child's"
  /\ Goto("parent", "ended")
  /\ PRest /\ UNCHANGED <<down, ends, done>>

-----------------------------------------------------------------------------
(* myrpc.  done counts the commands typed and the commands executed.       *)

Rpc == program = "rpc"
RRest == UNCHANGED <<program, up, ends, status>>

\* A pipe for every command; its write end is never closed.
RpcFork ==
  /\ Rpc /\ pc["parent"] \in {"start", "again"}
  /\ IF fds + 2 > MaxFds
       THEN Goto("parent", "EMFILE") /\ UNCHANGED fds
       ELSE pc' = [parent |-> "fgets", child |-> "read"] /\ fds' = fds + 2
  /\ RRest /\ UNCHANGED <<input, eof, down, buf, done>>

\* At end of file the buffer still has the command before, or at first what was
\* on the stack: that may be nothing.
RpcSends ==
  /\ Rpc /\ pc["parent"] = "fgets"
  /\ \/ /\ input = <<>>
        /\ eof' = TRUE
        /\ UNCHANGED <<input, buf, done>>
     \/ /\ input # <<>>
        /\ buf' = [buf EXCEPT !["parent"].text = Head(input)]
        /\ input' = Tail(input) /\ Did("parent")
        /\ UNCHANGED eof
  /\ down' = IF buf'["parent"].text = "nothing" THEN <<>>
                                                 ELSE <<buf'["parent"].text>>
  /\ fds' = fds - 1
  /\ Goto("parent", "wait")
  /\ RRest

\* The command is executed, or not found: its buffer ends where the stack has
\* a NUL byte.
RpcChild ==
  /\ Rpc /\ pc["child"] = "read" /\ down # <<>>
  /\ down' = <<>>
  /\ Goto("child", "ended")
  /\ done' \in {done, [done EXCEPT !["child"] = @ + 1]}
  /\ RRest /\ UNCHANGED <<input, eof, buf, fds>>

RpcWaits == /\ Rpc /\ pc["parent"] = "wait" /\ pc["child"] = "ended"
            /\ Goto("parent", "again")
            /\ RRest /\ UNCHANGED <<input, eof, down, buf, done, fds>>

-----------------------------------------------------------------------------
Init == /\ pc = [parent |-> "start", child |-> "none"]
        /\ input \in IF program \in {"upper", "rpc"} THEN Inputs ELSE {<<>>}
        /\ \E text \in IF program = "rpc" THEN {"nothing", "garbage"} ELSE {"none"},
              rest \in IF program = "upper" THEN BOOLEAN ELSE {FALSE} :
             buf = [p \in Proc |-> [text |-> text, rest |-> rest]]
        /\ eof = FALSE /\ down = <<>> /\ up = <<>>
        /\ rd = {} /\ wr = {} /\ done = [p \in Proc |-> 0]
        /\ status = "none" /\ fds = 3

ParentNext == \/ UpperFork \/ UpperSends \/ UpperCompares \/ UpperGets
              \/ PopenFork \/ ParentCloses \/ Fclose \/ Pclose \/ LsWaits
              \/ RpcFork \/ RpcSends \/ RpcWaits
Next == \/ ParentNext \/ UpperChild \/ ChildCloses \/ ChildHasEnded \/ RpcChild
        \/ Writes \/ Reads

Fairness == /\ WF_vars(ParentNext)
            /\ WF_vars(UpperChild) /\ WF_vars(ChildCloses) /\ WF_vars(RpcChild)
            /\ WF_vars(ChildHasEnded) /\ WF_vars(Writes) /\ WF_vars(Reads)

-----------------------------------------------------------------------------
\* 44_1.c:46 and 79, 44_2.c:100-113, myrpc.c:70-76: the two compare the same
\* bytes, so neither leaves the other behind, even where they do not recognise
\* the line that is to end them; whoever has read to the end of the pipe has got
\* all that was written; no command is executed that was not typed, or typed last
\* before the end of input.  (Whether that line ends them, and the status my_pclose
\* gives, are the subject of Claims.)
PipesAgree ==
  /\ pc["parent"] # "SIGPIPE"
  /\ Upper /\ pc["parent"] = "ended" => pc["child"] = "ended" \/ down = <<"kill">>
  /\ Upper /\ pc["child"] = "ended" => IsKill(buf["parent"])
  /\ Popen /\ pc["parent"] \in {"fclose", "wait", "ended"} /\ Reader = "parent"
       => done["parent"] = Lines
  /\ Popen /\ pc["child"] \in {"exiting", "ended"} => done["child"] = Lines
  /\ Rpc /\ ~eof => done["child"] <= done["parent"]

\* The upper-caser ends on "kill yourself", unless a longer line or the stack
\* hid it, or waits for an answer to the end of its input; popen and its command
\* end; myrpc ends when it has no descriptors left, or waits for a command that
\* never came.
PipesEnd ==
  /\ Upper ~> \/ \A p \in Proc : pc[p] = "ended"
              \/ pc["parent"] = "reply" /\ eof
  /\ Popen ~> \A p \in Proc : pc[p] = "ended"
  /\ Rpc ~> \/ pc["parent"] = "EMFILE"
            \/ buf["parent"].text = "nothing" /\ eof

=============================================================================

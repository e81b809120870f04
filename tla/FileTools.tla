------------------------------ MODULE FileTools ------------------------------
(***************************************************************************)
(* Programs that copy bytes: cp and tee of SP_HW1, tail of SP_HW2, mycat   *)
(* of SP_HW5 and the copy by mmap of SP_HW9/49_1, each while another       *)
(* process may append to the file the program works on.                    *)
(*                                                                         *)
(* A byte is Zero, Letter, Newline or Other: the one that is appended.     *)
(***************************************************************************)
EXTENDS Integers, Sequences, FiniteSets

CONSTANTS Contents,   \* of the source, or what is typed to tee
          Old,        \* of a destination that exists
          BUF_SIZE,
          MaxAppends, \* bound
          Zero, Letter, Newline, Other

VARIABLES
  program,  \* "cp", "tee", "tee -a", "mycat", "tail", "49_1"
  pc,
  file,     \* content of "source" and "dest"
  to,       \* where the destination's name leads
  pos, off, \* offsets of the two descriptors
  buf,
  out,      \* standard output
  need,     \* lines that tail is asked for
  counted,  \* newlines it has counted
  size,     \* of the source, as 49_1 and tail have found it
  appends
files == <<file, to>>
tail  == <<need, counted>>
vars  == <<program, pc, files, pos, off, buf, out, tail, size, appends>>

Copies == {"cp", "49_1"}
Tees   == {"tee", "tee -a"}
Fixed  == UNCHANGED <<program, to, appends>>
At(p, l) == program \in p /\ pc = l

\* Bytes written at an offset; a gap before it reads as zeros.
Overwrite(content, at, bytes) ==
  [k \in 1..(IF at + Len(bytes) > Len(content) THEN at + Len(bytes)
                                               ELSE Len(content)) |->
     CASE k > at /\ k <= at + Len(bytes) -> bytes[k - at]
       [] k <= Len(content) /\ (k <= at \/ k > at + Len(bytes)) -> content[k]
       [] OTHER -> Zero]

Resize(content, n) ==
  [k \in 1..n |-> IF k <= Len(content) THEN content[k] ELSE Zero]

-----------------------------------------------------------------------------
(* The loop of read and write that cp, tee, mycat and tail have.           *)

\* The destination is opened after the source, which may be the same file.
OpenToCopy ==
  /\ At({"cp", "tee", "tee -a", "mycat"}, "start")
  /\ file' = IF program \in {"cp", "tee"} THEN [file EXCEPT ![to] = <<>>] ELSE file
  /\ pc' = "read"
  /\ Fixed /\ UNCHANGED <<pos, off, buf, out, tail, size>>

\* A terminal or a pipe may give less than was asked for, a file may not.
Read ==
  /\ pc = "read"
  /\ LET rest == Len(file["source"]) - pos
         most == IF rest < BUF_SIZE THEN rest ELSE BUF_SIZE
     IN \E n \in IF program \in Tees /\ most > 0 THEN 1..most ELSE {most} :
          /\ buf' = SubSeq(file["source"], pos + 1, pos + n)
          /\ pos' = pos + n
          /\ pc' = IF n = 0 THEN "ended" ELSE "write"
  /\ Fixed /\ UNCHANGED <<file, off, out, tail, size>>

all_zeros == \A k \in DOMAIN buf : buf[k] = Zero

\* Mutant: a buffer that begins with a zero is taken for a hole.
CpWrites_FirstByte ==
  /\ At({"cp"}, "write")
  /\ off' = off + Len(buf)
  /\ file' = IF buf[1] = Zero THEN file
                              ELSE [file EXCEPT ![to] = Overwrite(@, off, buf)]
  /\ pc' = "read"
  /\ Fixed /\ UNCHANGED <<pos, buf, out, tail, size>>

\* A buffer of zeros is passed over: it becomes a hole, if anything follows.
CpWrites ==
  /\ At({"cp"}, "write")
  /\ off' = off + Len(buf)
  /\ file' = IF all_zeros THEN file
                          ELSE [file EXCEPT ![to] = Overwrite(@, off, buf)]
  /\ pc' = "read"
  /\ Fixed /\ UNCHANGED <<pos, buf, out, tail, size>>

\* To the file, at the descriptor's offset or at the end, then to the output.
TeeWrites ==
  /\ At(Tees, "write")
  /\ file' = [file EXCEPT ![to] = IF program = "tee -a" THEN @ \o buf
                                                        ELSE Overwrite(@, off, buf)]
  /\ off' = off + Len(buf)
  /\ pc' = "print"
  /\ Fixed /\ UNCHANGED <<pos, buf, out, tail, size>>

Prints ==
  /\ At(Tees, "print") \/ At({"mycat", "tail"}, "write")
  /\ out' = out \o buf
  /\ pc' = "read"
  /\ Fixed /\ UNCHANGED <<file, pos, off, buf, tail, size>>

-----------------------------------------------------------------------------
(* tail.                                                                   *)

TailOpens ==
  /\ At({"tail"}, "start")
  /\ size' = Len(file["source"]) /\ pos' = Len(file["source"])
  /\ pc' = "back"
  /\ Fixed /\ UNCHANGED <<file, off, buf, out, tail>>

NewlinesIn(content, lo, hi) == {k \in lo..hi : content[k] = Newline}

\* One chunk further back: left where one newline more than need was counted,
\* or at the beginning.
TailGoesBack ==
  /\ At({"tail"}, "back")
  /\ LET lo == IF pos < BUF_SIZE THEN 0 ELSE pos - BUF_SIZE
         newlines == NewlinesIn(file["source"], lo + 1, pos)
         enough == {k \in newlines :
           counted + Cardinality({l \in newlines : l >= k}) = need + 1}
     IN /\ pos' \in IF enough = {} THEN {lo} ELSE enough
        /\ counted' = counted + Cardinality(newlines)
        /\ pc' = IF enough # {} \/ lo = 0 THEN "read" ELSE "back"
  /\ Fixed /\ UNCHANGED <<file, off, buf, out, need, size>>

-----------------------------------------------------------------------------
(* 49_1.                                                                   *)

\* An empty file cannot be mapped: that is before the destination is opened.
MapSource ==
  /\ At({"49_1"}, "start")
  /\ size' = Len(file["source"])
  /\ pc' = IF size' = 0 THEN "EINVAL" ELSE "truncate"
  /\ Fixed /\ UNCHANGED <<file, pos, off, buf, out, tail>>

MapDest ==
  /\ At({"49_1"}, "truncate")
  /\ file' = [file EXCEPT ![to] = Resize(@, size)]
  /\ pc' = "memcpy"
  /\ Fixed /\ UNCHANGED <<pos, off, buf, out, tail, size>>

Memcpy ==
  /\ At({"49_1"}, "memcpy")
  /\ file' = [file EXCEPT ![to] =
                Overwrite(@, 0, SubSeq(file["source"], 1, size))]
  /\ pc' = "ended"
  /\ Fixed /\ UNCHANGED <<pos, off, buf, out, tail, size>>

-----------------------------------------------------------------------------
\* Another process appends to the source, or to tee's file.
AppendOther ==
  /\ program \in Copies \cup Tees \cup {"mycat", "tail"} /\ pc \notin {"ended", "EINVAL"}
  /\ appends < MaxAppends /\ appends' = appends + 1
  /\ LET f == IF program \in Tees THEN to ELSE "source" IN
       file' = [file EXCEPT ![f] = Append(@, Other)]
  /\ UNCHANGED <<program, pc, to, pos, off, buf, out, tail, size>>

Init ==
  /\ IF program \in Copies \cup Tees \cup {"mycat", "tail"}
       THEN /\ \E c \in Contents : file = [source |-> c, dest |-> Old]
            /\ to \in IF program \in Copies THEN {"source", "dest"} ELSE {"dest"}
            /\ need \in IF program = "tail" THEN 0..2 ELSE {0}
       ELSE file = [source |-> <<>>, dest |-> <<>>] /\ to = "dest" /\ need = 0
  /\ pc = "start" /\ pos = 0 /\ off = 0 /\ size = 0 /\ appends = 0 /\ counted = 0
  /\ buf = <<>> /\ out = <<>>

ToolNext == \/ OpenToCopy \/ Read \/ CpWrites \/ TeeWrites \/ Prints
            \/ TailOpens \/ TailGoesBack
            \/ MapSource \/ MapDest \/ Memcpy
Next == ToolNext \/ AppendOther

Fairness == WF_vars(ToolNext)

-----------------------------------------------------------------------------
Ended(p) == program \in p /\ pc = "ended"
IsZeros(s) == \A k \in DOMAIN s : s[k] = Zero

\* cp.c:43-55, 49_1.c:28-55: cp's copy of a file that does not end in a zero is
\* the file, holes and what was appended included; of one that does, every byte of
\* the copy is right and no byte but zeros is missing at its end.  (That none were
\* missing is what the README of SP_HW1 says: see Claims.)  The copy by mmap is as
\* long as the source was at first.
CopiesAreRight ==
  /\ Ended({"cp"}) /\ to = "dest" =>
       LET source == file["source"]  n == Len(file["dest"]) IN
         /\ source = <<>> \/ source[Len(source)] # Zero => file["dest"] = source
         /\ n <= Len(source) /\ file["dest"] = SubSeq(source, 1, n)
         /\ IsZeros(SubSeq(source, n + 1, Len(source)))
  /\ Ended({"49_1"}) =>
       /\ SubSeq(file[to], 1, size) = SubSeq(file["source"], 1, size)
       /\ to = "dest" => Len(file["dest"]) = size
  /\ pc = "EINVAL" => file["dest"] = Old

\* tee.c:48-56, mycat.c:25-31: the output is what was read and the file begins
\* with it; with -a what was there is kept, and after it come, each in its order,
\* the output and what another appends.
OutputsAreRight ==
  /\ Ended(Tees \cup {"mycat"}) => out = file["source"]
  /\ program = "tee" /\ pc = "read" => SubSeq(file["dest"], 1, off) = out
  /\ program = "tee -a" /\ pc = "read" =>
       LET new == (Len(Old) + 1)..Len(file["dest"]) IN
         /\ SubSeq(file["dest"], 1, Len(Old)) = Old
         /\ Len(file["dest"]) = Len(Old) + Len(out) + appends
         /\ \E at \in [1..Len(out) -> new] :
              /\ \A j, k \in 1..Len(out) : j < k => at[j] < at[k]
              /\ \A k \in 1..Len(out) : file["dest"][at[k]] = out[k]
              /\ \A n \in new :
                   (\A k \in 1..Len(out) : at[k] # n) => file["dest"][n] = Other

\* tail.c:57-95: what is printed begins a line and goes to the end of the file;
\* of the file as it was when tail opened it, it has as many newlines as were
\* asked for, or fewer if all of it is printed.
TailIsRight ==
  Ended({"tail"}) =>
    LET start    == Len(file["source"]) - Len(out)
        newlines == Cardinality(NewlinesIn(file["source"], start + 1, size))
    IN /\ out = SubSeq(file["source"], start + 1, Len(file["source"]))
       /\ IF start = 0 THEN newlines <= need
                       ELSE newlines = need /\ file["source"][start] = Newline

\* The programs end: nobody appends for ever.
ToolsEnd == (program \in Copies \cup Tees \cup {"mycat", "tail"}) ~>
              pc \in {"ended", "EINVAL"}

=============================================================================

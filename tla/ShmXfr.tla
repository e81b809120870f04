-------------------------------- MODULE ShmXfr --------------------------------
(***************************************************************************)
(* SP_HW9/54_1: a writer passes the lines of its input to a reader through *)
(* one shared-memory segment and two named semaphores that hand the turn   *)
(* back and forth; an empty string ends the transfer.  The writer creates  *)
(* the three names, exclusively, and removes them at the end; a reader     *)
(* opens them.                                                             *)
(*                                                                         *)
(* Any number of writers and readers may be started at any time.  Every    *)
(* writer creates its own objects, so an object is named by its writer:    *)
(* wsem[w], rsem[w] and shmem[w] exist independently of who holds the      *)
(* names.  A process may be killed anywhere (external).                    *)
(***************************************************************************)
EXTENDS Integers, Sequences

CONSTANTS
  Writer, Reader,   \* processes
  Line,             \* what fgets may return
  Blank,            \* the lines whose first byte is NUL
  Empty,            \* the empty string
  None,             \* no object
  MaxLines,         \* bound: lines of a writer's input
  MaxCrash          \* bound: how many processes are killed

ASSUME ShmXfrAssumption ==
  /\ Writer \cap Reader = {}
  /\ Blank \subseteq Line
  /\ Empty \notin Line
  /\ None \notin Writer
  /\ MaxLines \in Nat
  /\ MaxCrash \in Nat

\* What a string function sees of a line.
AsString(l) == IF l \in Blank THEN Empty ELSE l

Text == Line \ Blank

WriterPC == {"writer_sem", "reader_sem", "shm", "wait", "input", "post",
             "post_end", "final", "unlink_shm", "unlink_writer",
             "unlink_reader", "done", "failed", "crashed"}
ReaderPC == {"open_writer", "open_reader", "open_shm", "wait", "read", "post",
             "post_end", "done", "failed", "crashed"}
Ended == {"done", "failed", "crashed"}

VARIABLES
  wpc, rpc,             \* the next statement of every writer and reader
  wname, rname, mname,  \* whose object has the name of the writer semaphore,
                        \* the reader semaphore and the segment
  wsem, rsem, shmem,    \* the objects
  openW, openR, openM,           \* openW[r], openR[r], openM[r]: whose objects reader r opened
  lines,                \* lines[w]: how many lines writer w has read
  sent, got,            \* history: texts put into w's segment and printed
                        \* from it
  closed,               \* history: closed[w] after the writer's final wait
  stopped,              \* history: stopped[w] after a blank line was put in
  crashes               \* bound counter

names   == <<wname, rname, mname>>
opened  == <<openW, openR, openM>>
history == <<lines, sent, got, closed, stopped, crashes>>
vars == <<wpc, rpc, wname, rname, mname, wsem, rsem, shmem, openW, openR, openM,
          lines, sent, got, closed, stopped, crashes>>

-----------------------------------------------------------------------------
(* The writer.                                                             *)

WGoto(w, from, to) == /\ wpc[w] = from
                      /\ wpc' = [wpc EXCEPT ![w] = to]

\* sem_open(O_CREAT|O_EXCL) with value 1; an existing name ends the process.
CreateWriterSem(w) ==
  /\ \/ /\ wname = None
        /\ WGoto(w, "writer_sem", "reader_sem")
        /\ wname' = w
        /\ wsem' = [wsem EXCEPT ![w] = 1]
     \/ /\ wname # None
        /\ WGoto(w, "writer_sem", "failed")
        /\ UNCHANGED <<wname, wsem>>
  /\ UNCHANGED <<rpc, rname, mname, rsem, shmem, opened, history>>

\* With value 0; the names created before are not removed when it fails.
CreateReaderSem(w) ==
  /\ \/ /\ rname = None
        /\ WGoto(w, "reader_sem", "shm")
        /\ rname' = w
     \/ /\ rname # None
        /\ WGoto(w, "reader_sem", "failed")
        /\ UNCHANGED rname
  /\ UNCHANGED <<rpc, wname, mname, wsem, rsem, shmem, opened, history>>

CreateShm(w) ==
  /\ \/ /\ mname = None
        /\ WGoto(w, "shm", "wait")
        /\ mname' = w
     \/ /\ mname # None
        /\ WGoto(w, "shm", "failed")
        /\ UNCHANGED mname
  /\ UNCHANGED <<rpc, wname, rname, wsem, rsem, shmem, opened, history>>

WaitWriter(w) ==
  /\ WGoto(w, "wait", "input")
  /\ wsem[w] > 0
  /\ wsem' = [wsem EXCEPT ![w] = @ - 1]
  /\ UNCHANGED <<rpc, names, rsem, shmem, opened, history>>

\* fgets gives a line, strncpy puts it into the segment.
PutLine(w) ==
  /\ WGoto(w, "input", "post")
  /\ lines[w] < MaxLines
  /\ lines' = [lines EXCEPT ![w] = @ + 1]
  /\ \E l \in Line :
       /\ shmem' = [shmem EXCEPT ![w] = AsString(l)]
       /\ sent' = IF l \in Blank THEN sent
                                 ELSE [sent EXCEPT ![w] = Append(@, l)]
       /\ stopped' = IF l \in Blank THEN [stopped EXCEPT ![w] = TRUE]
                                    ELSE stopped
  /\ UNCHANGED <<rpc, names, wsem, rsem, opened, got, closed, crashes>>

\* End of input: the empty string.
PutEnd(w) ==
  /\ WGoto(w, "input", "post_end")
  /\ shmem' = [shmem EXCEPT ![w] = Empty]
  /\ UNCHANGED <<rpc, names, wsem, rsem, opened, history>>

\* Mutant: the writer keeps the turn as well.
PostReader_KeepsTurn(w) ==
  /\ \/ WGoto(w, "post", "wait")
     \/ WGoto(w, "post_end", "final")
  /\ rsem' = [rsem EXCEPT ![w] = @ + 1]
  /\ wsem' = [wsem EXCEPT ![w] = @ + 1]
  /\ UNCHANGED <<rpc, names, shmem, opened, history>>

\* sem_post(reader_sem), in the loop or after the end of input.
PostReader(w) ==
  /\ \/ WGoto(w, "post", "wait")
     \/ WGoto(w, "post_end", "final")
  /\ rsem' = [rsem EXCEPT ![w] = @ + 1]
  /\ UNCHANGED <<rpc, names, wsem, shmem, opened, history>>

\* Mutant: the writer does not wait for the reader to finish.
FinalWait_Skipped(w) ==
  /\ WGoto(w, "final", "unlink_shm")
  /\ closed' = [closed EXCEPT ![w] = TRUE]
  /\ UNCHANGED <<rpc, names, wsem, rsem, shmem, opened, lines, sent, got,
                 stopped, crashes>>

\* The last turn: the reader has seen the end.
FinalWait(w) ==
  /\ WGoto(w, "final", "unlink_shm")
  /\ wsem[w] > 0
  /\ wsem' = [wsem EXCEPT ![w] = @ - 1]
  /\ closed' = [closed EXCEPT ![w] = TRUE]
  /\ UNCHANGED <<rpc, names, rsem, shmem, opened, lines, sent, got, stopped,
                 crashes>>

UnlinkShm(w) ==
  /\ WGoto(w, "unlink_shm", IF mname = None THEN "failed" ELSE "unlink_writer")
  /\ mname' = None
  /\ UNCHANGED <<rpc, wname, rname, wsem, rsem, shmem, opened, history>>

UnlinkWriterSem(w) ==
  /\ WGoto(w, "unlink_writer",
           IF wname = None THEN "failed" ELSE "unlink_reader")
  /\ wname' = None
  /\ UNCHANGED <<rpc, rname, mname, wsem, rsem, shmem, opened, history>>

\* Mutant: the reader semaphore's name is not removed.
UnlinkReaderSem_Forgotten(w) ==
  /\ WGoto(w, "unlink_reader", "done")
  /\ UNCHANGED <<rpc, names, wsem, rsem, shmem, opened, history>>

UnlinkReaderSem(w) ==
  /\ WGoto(w, "unlink_reader", IF rname = None THEN "failed" ELSE "done")
  /\ rname' = None
  /\ UNCHANGED <<rpc, wname, mname, wsem, rsem, shmem, opened, history>>

-----------------------------------------------------------------------------
(* The reader.                                                             *)

RGoto(r, from, to) == /\ rpc[r] = from
                      /\ rpc' = [rpc EXCEPT ![r] = to]

\* Both semaphores are opened before either result is looked at.
OpenWriterSem(r) ==
  /\ RGoto(r, "open_writer", "open_reader")
  /\ openW' = [openW EXCEPT ![r] = wname]
  /\ UNCHANGED <<wpc, names, wsem, rsem, shmem, openR, openM, history>>

OpenReaderSem(r) ==
  /\ RGoto(r, "open_reader",
           IF openW[r] = None \/ rname = None THEN "failed" ELSE "open_shm")
  /\ openR' = [openR EXCEPT ![r] = rname]
  /\ UNCHANGED <<wpc, names, wsem, rsem, shmem, openW, openM, history>>

OpenShm(r) ==
  /\ RGoto(r, "open_shm", IF mname = None THEN "failed" ELSE "wait")
  /\ openM' = [openM EXCEPT ![r] = mname]
  /\ UNCHANGED <<wpc, names, wsem, rsem, shmem, openW, openR, history>>

WaitReader(r) ==
  /\ RGoto(r, "wait", "read")
  /\ rsem[openR[r]] > 0
  /\ rsem' = [rsem EXCEPT ![openR[r]] = @ - 1]
  /\ UNCHANGED <<wpc, names, wsem, shmem, opened, history>>

\* Mutant: the end marker is printed like a line.
Read_NoEnd(r) ==
  /\ RGoto(r, "read", "post")
  /\ got' = [got EXCEPT ![openM[r]] = Append(@, shmem[openM[r]])]
  /\ UNCHANGED <<wpc, names, wsem, rsem, shmem, opened, lines, sent, closed,
                 stopped, crashes>>

\* strlen is 0: the end.  Otherwise the text is printed.
Read(r) ==
  /\ \/ /\ RGoto(r, "read", "post_end")
        /\ shmem[openM[r]] = Empty
        /\ UNCHANGED got
     \/ /\ RGoto(r, "read", "post")
        /\ shmem[openM[r]] # Empty
        /\ got' = [got EXCEPT ![openM[r]] = Append(@, shmem[openM[r]])]
  /\ UNCHANGED <<wpc, names, wsem, rsem, shmem, opened, lines, sent, closed,
                 stopped, crashes>>

\* Mutant: the reader that saw the end does not post.
PostWriter_NotAtTheEnd(r) ==
  /\ \/ /\ RGoto(r, "post", "wait")
        /\ wsem' = [wsem EXCEPT ![openW[r]] = @ + 1]
     \/ /\ RGoto(r, "post_end", "done")
        /\ UNCHANGED wsem
  /\ UNCHANGED <<wpc, names, rsem, shmem, opened, history>>

\* sem_post(writer_sem), in the loop or at the end.
PostWriter(r) ==
  /\ \/ RGoto(r, "post", "wait")
     \/ RGoto(r, "post_end", "done")
  /\ wsem' = [wsem EXCEPT ![openW[r]] = @ + 1]
  /\ UNCHANGED <<wpc, names, rsem, shmem, opened, history>>

-----------------------------------------------------------------------------
\* A process is killed: nothing it created or took comes back.
Crash ==
  /\ crashes < MaxCrash
  /\ crashes' = crashes + 1
  /\ \/ \E w \in Writer : /\ wpc[w] \notin Ended
                          /\ wpc' = [wpc EXCEPT ![w] = "crashed"]
                          /\ UNCHANGED rpc
     \/ \E r \in Reader : /\ rpc[r] \notin Ended
                          /\ rpc' = [rpc EXCEPT ![r] = "crashed"]
                          /\ UNCHANGED wpc
  /\ UNCHANGED <<names, wsem, rsem, shmem, opened, lines, sent, got, closed,
                 stopped>>

\* Nothing exists, nothing was started.
Init == /\ wpc = [w \in Writer |-> "writer_sem"]
        /\ rpc = [r \in Reader |-> "open_writer"]
        /\ wname = None /\ rname = None /\ mname = None
        /\ wsem = [w \in Writer |-> 0]
        /\ rsem = [w \in Writer |-> 0]
        /\ shmem = [w \in Writer |-> Empty]
        /\ openW = [r \in Reader |-> None]
        /\ openR = [r \in Reader |-> None]
        /\ openM = [r \in Reader |-> None]
        /\ lines = [w \in Writer |-> 0]
        /\ sent = [w \in Writer |-> <<>>]
        /\ got = [w \in Writer |-> <<>>]
        /\ closed = [w \in Writer |-> FALSE]
        /\ stopped = [w \in Writer |-> FALSE]
        /\ crashes = 0

\* What a started writer does next.
WriterGoesOn(w) == \/ CreateReaderSem(w)
                   \/ CreateShm(w)
                   \/ WaitWriter(w)
                   \/ PutLine(w)
                   \/ PutEnd(w)
                   \/ PostReader(w)
                   \/ FinalWait(w)
                   \/ UnlinkShm(w)
                   \/ UnlinkWriterSem(w)
                   \/ UnlinkReaderSem(w)

ReaderGoesOn(r) == \/ OpenReaderSem(r)
                   \/ OpenShm(r)
                   \/ WaitReader(r)
                   \/ Read(r)
                   \/ PostWriter(r)

Next == \/ \E w \in Writer : CreateWriterSem(w) \/ WriterGoesOn(w)
        \/ \E r \in Reader : OpenWriterSem(r) \/ ReaderGoesOn(r)
        \/ Crash

Spec == Init /\ [][Next]_vars

\* A started process that can go on does.  Nobody has to be started, and
\* nothing is assumed about the order in which a semaphore wakes its waiters.
FairSpec == /\ Spec
            /\ \A w \in Writer : WF_vars(WriterGoesOn(w))
            /\ \A r \in Reader : WF_vars(ReaderGoesOn(r))

-----------------------------------------------------------------------------
(* Properties.                                                             *)

\* Type correctness of every variable.
TypeOK ==
  /\ wpc \in [Writer -> WriterPC]
  /\ rpc \in [Reader -> ReaderPC]
  /\ wname \in Writer \cup {None}
  /\ rname \in Writer \cup {None}
  /\ mname \in Writer \cup {None}
  /\ wsem \in [Writer -> Nat]
  /\ rsem \in [Writer -> 0..1]
  /\ shmem \in [Writer -> Text \cup {Empty}]
  /\ openW \in [Reader -> Writer \cup {None}]
  /\ openR \in [Reader -> Writer \cup {None}]
  /\ openM \in [Reader -> Writer \cup {None}]
  /\ lines \in [Writer -> 0..MaxLines]
  /\ sent \in [Writer -> Seq(Text)]
  /\ got \in [Writer -> Seq(Text)]
  /\ closed \in [Writer -> BOOLEAN]
  /\ stopped \in [Writer -> BOOLEAN]
  /\ crashes \in 0..MaxCrash

WriterHasTurn(w) == wpc[w] \in {"input", "post", "post_end"}
ReaderHasTurn(r) == rpc[r] \in {"read", "post", "post_end"}

\* shm_xfr_writer.c:5: the turn on a segment is at one place: a semaphore, its
\* writer or one of the readers, so nobody reads a line while it is written,
\* even if readers opened objects of different writers.
OneTurn ==
  /\ \A w \in Writer : WriterHasTurn(w) => wsem[w] = 0 /\ rsem[w] = 0
  /\ \A w \in Writer : wsem[w] = 0 \/ rsem[w] = 0
  /\ \A r \in Reader : ReaderHasTurn(r) =>
       /\ rsem[openR[r]] = 0
       /\ wsem[openR[r]] = 0
       /\ ~WriterHasTurn(openR[r])
       /\ openM[r] = openR[r]
       /\ \A q \in Reader : ReaderHasTurn(q) /\ openR[q] = openR[r] => q = r

\* shm_xfr_writer.c:49-63, shm_xfr_reader.c:43-53: every line is printed once and in order, before the next one is put in,
\* and all of them before the writer cleans up.
LC == INSTANCE LineChannel WITH Channel <- Writer, Line <- Text

ImplementsLineChannel == LC!ChannelSpec

\* shm_xfr_writer.c:65-85: when every writer has ended by itself, only the
\* name of a writer semaphore can be left: that of a writer that started
\* while another one was removing its names.
OnlyACollisionLeaks ==
  (\A w \in Writer : wpc[w] \in {"writer_sem", "done", "failed"}) =>
    /\ rname = None
    /\ mname = None
    /\ wname # None => wpc[wname] = "failed"

\* A reader all of whose objects are writer w's.
Serves(r, w) == /\ rpc[r] \in {"wait", "read", "post", "post_end"}
                /\ openW[r] = w /\ openR[r] = w /\ openM[r] = w

\* It reads and posts elsewhere.
Misled(r, w) == openW[r] # w /\ openR[r] = w

\* The transfer of a writer with a reader comes to its end, unless a process
\* is killed, a blank line ends it early, or a reader that opened the names
\* across a change of writers takes the turn away.
TransferEnds ==
  \A w \in Writer :
    (\E r \in Reader : Serves(r, w)) ~>
      \/ wpc[w] = "done"
      \/ crashes > 0
      \/ stopped[w]
      \/ \E r \in Reader : Misled(r, w)

=============================================================================

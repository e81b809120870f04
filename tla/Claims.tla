-------------------------------- MODULE Claims --------------------------------
(***************************************************************************)
(* What comments, messages and READMEs say of eight of the small programs, *)
(* each said sentence by sentence of the program's module.  The programs   *)
(* run one after the other, each on the smallest instance that is of use,  *)
(* until its sentence is broken: so a behaviour in which no sentence holds *)
(* any more has broken every one of them.                                  *)
(***************************************************************************)
EXTENDS Integers, Sequences

VARIABLES
  \* SP_HW7/22-4, and quiz_1/detector.c
  cPc, mask, pending, disp, scnt, calls, asked, owed, interrupts, timer, cnt,
  unsaid, told, lost,
  dPc, dMask, dPending, dDisp, dScnt, dCalls, dAsked, dOwed, dInterrupts, dTimer,
  dCnt, dUnsaid, dTold, dLost,
  \* SP_HW6/44_1 and 44_2
  uPc, input, eof, down, up, buf, rd, wr, done, status, fds,
  pPc, pInput, pEof, pDown, pUp, pBuf, pRd, pWr, pDone, pStatus, pFds,
  \* SP_HW8/44-7
  serverMode, clientMode, fifo, serverPc, clientPc, reading, writing, met, data,
  says, wrote,
  \* SP_HW1/cp, SP_HW5/part3, SP_HW4/12-1
  copyPc, file, to, pos, off, copyBuf, out, need, counted, size, appends,
  dictPc, text, terminated, line, word, records, sought, at, answer,
  walkPc, proc, entry, failed, checked, gone, found, stable, changes

-----------------------------------------------------------------------------
Cal == INSTANCE Signals WITH
         program <- "calls", pc <- cPc,
         NumSigs <- 1, Callers <- {<<"sigset handler", "sigset DFL">>}, MaxInterrupts <- 0
Det == INSTANCE Signals WITH
         program <- "detector", pc <- dPc, mask <- dMask, pending <- dPending,
         disp <- dDisp, scnt <- dScnt, calls <- dCalls, asked <- dAsked, owed <- dOwed,
         interrupts <- dInterrupts, timer <- dTimer, cnt <- dCnt, unsaid <- dUnsaid,
         told <- dTold, lost <- dLost,
         NumSigs <- 1, Callers <- {}, MaxInterrupts <- 2
Upp == INSTANCE Pipes WITH
         program <- "upper", pc <- uPc,
         Inputs <- {<<"long", "kill">>}, Lines <- 0, Room <- 1, MaxFds <- 0
Pop == INSTANCE Pipes WITH
         program <- "popen r", pc <- pPc, input <- pInput, eof <- pEof, down <- pDown,
         up <- pUp, buf <- pBuf, rd <- pRd, wr <- pWr, done <- pDone,
         status <- pStatus, fds <- pFds,
         Inputs <- {}, Lines <- 1, Room <- 1, MaxFds <- 0
Fif == INSTANCE FifoModes WITH program <- "fifo", sPc <- serverPc, cPc <- clientPc
Cop == INSTANCE FileTools WITH
         program <- "cp", pc <- copyPc, buf <- copyBuf,
         Contents <- {<<1, 0>>}, Old <- <<>>, BUF_SIZE <- 1, MaxAppends <- 0,
         Zero <- 0, Letter <- 1, Newline <- 2, Other <- 3
Cnv == INSTANCE Convert WITH
         program <- "convert", pc <- dictPc,
         Texts <- {<<1, 2, 3, 4>>}, Blank <- 0, Words <- {3}
Usr == INSTANCE ProcTools WITH
         program <- "user", pc <- walkPc, Pids <- {1, 2}, MaxChanges <- 1

-----------------------------------------------------------------------------
(* The sentences.                                                          *)

\* 22-4.c:71, "reset the disposition of the signal to its default": when the calls
\* return, the disposition is the one that was asked for last.
DefaultIsReset == cPc["parent"] = "start" => disp["parent"]["INT"] = asked

\* detector.c:21-23, "you are good" if the count is 0: no error was cleared
\* without a mail.
GoodMeansNoError == ~dLost

\* 44_1.c:66, "type "kill yourself" to exit": who typed it gets no answer.
KillYourselfExits == uPc["parent"] = "reply" => buf["parent"].text # "kill"

\* 44_2.c:135, "Command exited with status": the status is the command's.
StatusIsTheCommands == pPc["parent"] = "ended" => pStatus = "child's"

\* server.c:51 and 82, "No writer on the other end.", and README:14 of 44-7, "read
\* fail because the write end is not opened": then nobody has it open.
NoWriterMeansNone == serverPc = "close" /\ says = "No writer" => ~writing

\* README:3 of SP_HW1, "copy the content of file1 to file2".
ContentIsCopied == copyPc = "ended" /\ to = "dest" => file["dest"] = file["source"]

\* convert.c:3-7, a word, its "definition ... stretching over several lines", a blank
\* line: what is found as a word stands where a word stands.
WordsAreWords == answer = "found" => \E n \in DOMAIN text : Cnv!Entry(n) /\ text[n] = sought

\* 12-1.c:115 and 119, "Get the command name of the process", "Print the process
\* ID and command name": a line has the name that was read for it, or none.
NamesAreTheirs == \A k \in DOMAIN found : found[k].read \/ found[k].name = Usr!None

Sentences == <<DefaultIsReset, GoodMeansNoError, KillYourselfExits, StatusIsTheCommands,
               NoWriterMeansNone, ContentIsCopied, WordsAreWords, NamesAreTheirs>>

-----------------------------------------------------------------------------
\* The first sentence that holds is that of the program whose turn it is.
Turn(k) == Sentences[k] /\ \A j \in 1..(k - 1) : ~Sentences[j]

calVars == <<cPc, mask, pending, disp, scnt, calls, asked, owed, interrupts, timer,
             cnt, unsaid, told, lost>>
detVars == <<dPc, dMask, dPending, dDisp, dScnt, dCalls, dAsked, dOwed, dInterrupts,
             dTimer, dCnt, dUnsaid, dTold, dLost>>
uppVars == <<uPc, input, eof, down, up, buf, rd, wr, done, status, fds>>
popVars == <<pPc, pInput, pEof, pDown, pUp, pBuf, pRd, pWr, pDone, pStatus, pFds>>
fifVars == <<serverMode, clientMode, fifo, serverPc, clientPc, reading, writing, met,
             data, says, wrote>>
copVars == <<copyPc, file, to, pos, off, copyBuf, out, need, counted, size, appends>>
cnvVars == <<dictPc, text, terminated, line, word, records, sought, at, answer>>
usrVars == <<walkPc, proc, entry, failed, checked, gone, found, stable, changes>>

\* The FIFO's server does not block, its client does; cp copies to another file.
ClaimsInit ==
  /\ Cal!Init /\ Det!Init /\ Upp!Init /\ Pop!Init
  /\ Fif!Init /\ serverMode = 3 /\ clientMode = 1
  /\ Cop!Init /\ to = "dest"
  /\ Cnv!Init /\ Usr!Init

ClaimsNext ==
  \/ /\ Turn(1) /\ Cal!Next
     /\ UNCHANGED <<detVars, uppVars, popVars, fifVars, copVars, cnvVars, usrVars>>
  \/ /\ Turn(2) /\ Det!Next
     /\ UNCHANGED <<calVars, uppVars, popVars, fifVars, copVars, cnvVars, usrVars>>
  \/ /\ Turn(3) /\ Upp!Next
     /\ UNCHANGED <<calVars, detVars, popVars, fifVars, copVars, cnvVars, usrVars>>
  \/ /\ Turn(4) /\ Pop!Next
     /\ UNCHANGED <<calVars, detVars, uppVars, fifVars, copVars, cnvVars, usrVars>>
  \/ /\ Turn(5) /\ Fif!Next
     /\ UNCHANGED <<calVars, detVars, uppVars, popVars, copVars, cnvVars, usrVars>>
  \/ /\ Turn(6) /\ Cop!Next
     /\ UNCHANGED <<calVars, detVars, uppVars, popVars, fifVars, cnvVars, usrVars>>
  \/ /\ Turn(7) /\ Cnv!Next
     /\ UNCHANGED <<calVars, detVars, uppVars, popVars, fifVars, copVars, usrVars>>
  \/ /\ Turn(8) /\ Usr!Next
     /\ UNCHANGED <<calVars, detVars, uppVars, popVars, fifVars, copVars, cnvVars>>

claimsVars == <<calVars, detVars, uppVars, popVars, fifVars, copVars, cnvVars, usrVars>>

ClaimsSpec == ClaimsInit /\ [][ClaimsNext]_claimsVars

-----------------------------------------------------------------------------
\* The eight sentences: one of them, at least, is true of its program.  It takes a
\* behaviour that breaks them all to violate this.
SomeSentenceHolds == \E k \in DOMAIN Sentences : Sentences[k]

=============================================================================

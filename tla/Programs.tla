------------------------------ MODULE Programs ------------------------------
(***************************************************************************)
(* The small programs: a behaviour is that of one program, chosen at       *)
(* first.  Each family of programs has a module and variables of its own,  *)
(* which the other families leave alone.                                   *)
(***************************************************************************)
EXTENDS Lookup5, FiniteSets

CONSTANTS
  NumSigs, Callers, MaxInterrupts,         \* of Signals
  Inputs, Lines, Room, MaxFds,             \* of Pipes
  Consumer, NumData, MaxSpurious, Free,    \* of CondVar
  Node, Receiver, MaxKill,                 \* of Router
  Contents, Old, BUF_SIZE, MaxAppends,     \* of FileTools
  Zero, Letter, Newline, Other,
  Texts, Blank, Words,                     \* of Convert
  Pids, MaxChanges                         \* of ProcTools

VARIABLES
  program,
  sgPc, mask, pending, disp, scnt, calls, asked, owed, interrupts, timer, cntErr, unsaid,
  told, lost,
  ppPc, input, eof, toChild, toParent, buf, rd, wr, done, status, fds,
  serverMode, clientMode, fifo, sPc, cPc, reading, writing, met, data, says, wrote,
  threads, prodPc, written, buffer, created, mtx, consPc, got, broadcasts, spurious,
  order, nodePc, sent, inbox, received, router, turn,
  ftPc, file, to, pos, off, ftBuf, out, need, counted, size, appends,
  cvPc, lines, terminated, line, entryWord, records, wanted, looked, answer,
  ptPc, proc, entry, failed, checked, gone, listed, stable, changes

-----------------------------------------------------------------------------
Sig == INSTANCE Signals WITH pc <- sgPc, cnt <- cntErr
Pip == INSTANCE Pipes WITH pc <- ppPc, down <- toChild, up <- toParent
Fif == INSTANCE FifoModes
Con == INSTANCE CondVar WITH ppc <- prodPc, cpc <- consPc, i <- written
Rou == INSTANCE Router WITH npc <- nodePc, i <- turn
Fil == INSTANCE FileTools WITH pc <- ftPc, buf <- ftBuf
Cnv == INSTANCE Convert WITH
         text <- lines, pc <- cvPc, word <- entryWord, sought <- wanted, at <- looked
Pro == INSTANCE ProcTools WITH pc <- ptPc, found <- listed

\* The number of signals is a positive one; no thread is called like nobody; a
\* node sends to a number of a node or to all; init is a process.
ASSUME ProgramsAssumption ==
  /\ NumSigs \in Nat \ {0} /\ Callers \subseteq Seq(STRING)
  /\ Inputs \subseteq Seq(STRING) /\ Lines \in Nat
  /\ NumData \in Nat /\ Free \notin Consumer
  /\ Receiver \in [Node -> 0..3]
  /\ Contents \subseteq Seq({Zero, Letter, Newline, Other})
  /\ Old \in Seq({Zero, Letter, Newline, Other}) /\ BUF_SIZE \in Nat \ {0}
  /\ Texts \subseteq Seq(Int)
  /\ Pids \subseteq Nat \ {0} /\ 1 \in Pids /\ IsFiniteSet(Pids)

Programs ==
  {"lookup5", "suspend", "waitinfo", "calls", "detector",
   "upper", "popen r", "popen w", "pipe_ls", "rpc", "fifo", "condvar", "router",
   "cp", "tee", "tee -a", "mycat", "tail", "49_1", "convert",
   "user", "tree", "opened"}

ProgramsInit ==
  /\ program \in Programs
  /\ IF program = "lookup5"
       THEN SearchInit
       ELSE numrec = 0 /\ sought = 0 /\ start = 0 /\ end = 0 /\ cnt = 0 /\ found = 0
  /\ Sig!Init /\ Pip!Init /\ Fif!Init /\ Con!Init /\ Rou!Init
  /\ Fil!Init /\ Cnv!Init /\ Pro!Init

Search == program = "lookup5" /\ SearchNext

\* What the families leave alone.
LooSame == UNCHANGED searchVars
SigSame == UNCHANGED <<sgPc, mask, pending, disp, scnt, calls, asked, owed,
                       interrupts, timer, cntErr, unsaid, told, lost>>
PipSame == UNCHANGED <<ppPc, input, eof, toChild, toParent, buf, rd, wr, done,
                       status, fds>>
FifSame == UNCHANGED <<serverMode, clientMode, fifo, sPc, cPc, reading, writing,
                       met, data, says, wrote>>
ConSame == UNCHANGED <<threads, prodPc, written, buffer, created, mtx, consPc, got,
                       broadcasts, spurious>>
RouSame == UNCHANGED <<order, nodePc, sent, inbox, received, router, turn>>
FilSame == UNCHANGED <<ftPc, file, to, pos, off, ftBuf, out, need, counted, size,
                       appends>>
CnvSame == UNCHANGED <<cvPc, lines, terminated, line, entryWord, records, wanted,
                       looked, answer>>
ProSame == UNCHANGED <<ptPc, proc, entry, failed, checked, gone, listed, stable,
                       changes>>

ProgramsNext ==
  /\ UNCHANGED program
  /\ \/ /\ Search
        /\ SigSame /\ PipSame /\ FifSame /\ ConSame /\ RouSame /\ FilSame /\ CnvSame /\ ProSame
     \/ /\ Sig!Next
        /\ LooSame /\ PipSame /\ FifSame /\ ConSame /\ RouSame /\ FilSame /\ CnvSame /\ ProSame
     \/ /\ Pip!Next
        /\ LooSame /\ SigSame /\ FifSame /\ ConSame /\ RouSame /\ FilSame /\ CnvSame /\ ProSame
     \/ /\ Fif!Next
        /\ LooSame /\ SigSame /\ PipSame /\ ConSame /\ RouSame /\ FilSame /\ CnvSame /\ ProSame
     \/ /\ Con!Next
        /\ LooSame /\ SigSame /\ PipSame /\ FifSame /\ RouSame /\ FilSame /\ CnvSame /\ ProSame
     \/ /\ Rou!Next
        /\ LooSame /\ SigSame /\ PipSame /\ FifSame /\ ConSame /\ FilSame /\ CnvSame /\ ProSame
     \/ /\ Fil!Next
        /\ LooSame /\ SigSame /\ PipSame /\ FifSame /\ ConSame /\ RouSame /\ CnvSame /\ ProSame
     \/ /\ Cnv!Next
        /\ LooSame /\ SigSame /\ PipSame /\ FifSame /\ ConSame /\ RouSame /\ FilSame /\ ProSame
     \/ /\ Pro!Next
        /\ LooSame /\ SigSame /\ PipSame /\ FifSame /\ ConSame /\ RouSame /\ FilSame /\ CnvSame

programsVars == <<program, searchVars, Sig!vars, Pip!vars, Fif!vars, Con!vars,
                  Rou!vars, Fil!vars, Cnv!vars, Pro!vars>>

ProgramsSpec == ProgramsInit /\ [][ProgramsNext]_programsVars

FairProgramsSpec ==
  /\ ProgramsSpec
  /\ WF_searchVars(Search)
  /\ Sig!Fairness /\ Pip!Fairness /\ Fif!Fairness /\ Con!Fairness /\ Rou!Fairness
  /\ Fil!Fairness /\ Cnv!Fairness /\ Pro!Fairness

-----------------------------------------------------------------------------
\* The programs that have partners: no signal, line, value or message is lost,
\* made up or taken for another, beyond what the programs do lose; the modules
\* say of each program what that is.
NothingIsLost ==
  /\ Sig!SignalsAreKept
  /\ Pip!PipesAgree
  /\ Fif!ModesShowWhatTheyDo
  /\ Con!OneValuePerCall
  /\ Rou!OnlyTheFirstIsServed

\* The programs that have a result: the copy, the output, the records and the
\* listing are what they are to be, while another process changes what they are
\* made from.
ResultsAreRight ==
  /\ Fil!CopiesAreRight /\ Fil!OutputsAreRight /\ Fil!TailIsRight
  /\ Cnv!DictionaryIsKept
  /\ Pro!StableProcessesAreSeen

\* Every program comes to its end, or to the wait that the code has no way out of.
ProgramsEnd ==
  /\ (program = "lookup5") ~> ~Searching
  /\ Sig!SignalsArrive
  /\ Pip!PipesEnd
  /\ Fif!BothEnd
  /\ Con!JoinIsReached
  /\ Rou!FirstIsServed
  /\ Fil!ToolsEnd
  /\ Cnv!Answers
  /\ Pro!WalksEnd

=============================================================================

-------------------- MODULE ShmXfrProducerConsumer_proofs --------------------
(***************************************************************************)
(* Proofs about two programs that pass data through shared memory.         *)
(*                                                                         *)
(* ShmXfr, for any number of writers and readers, any lines and any        *)
(* crashes: the turn on a segment is at one place, the lines go through    *)
(* every segment as LineChannel promises, and writers that end by          *)
(* themselves leave no name but a writer semaphore's.                      *)
(*                                                                         *)
(* ProducerConsumer, for every number of data, consumers and slots: the    *)
(* semaphore is a mutex even when its holder is killed, cnt is the number  *)
(* of announcements counted, none is counted twice, and what a consumer    *)
(* rejects was overwritten.                                                *)
(***************************************************************************)
EXTENDS ShmXfr, ProducerConsumer, FiniteSetTheorems, TLAPS

\* Writer w has not got to its loop.
Early == {"writer_sem", "reader_sem", "shm"}

\* Reader r waits or reads.
Attached(r) == rpc[r] \in {"wait", "read", "post", "post_end"}

\* A writer holds the names it created until it removes them, and they are
\* created and removed in the opposite order.
NamesInv ==
  /\ \A w \in Writer :
       /\ wpc[w] \in {"reader_sem", "shm", "wait", "input", "post", "post_end",
                      "final", "unlink_shm", "unlink_writer"} => wname = w
       /\ wpc[w] \in {"shm", "wait", "input", "post", "post_end", "final",
                      "unlink_shm", "unlink_writer", "unlink_reader"} => rname = w
       /\ wpc[w] \in {"wait", "input", "post", "post_end", "final",
                      "unlink_shm"} => mname = w
       /\ wpc[w] \in {"unlink_writer", "unlink_reader"} => mname # w
       /\ wpc[w] \in {"unlink_shm", "unlink_writer", "unlink_reader"} => closed[w]
       /\ closed[w] => wpc[w] \in {"unlink_shm", "unlink_writer",
                                   "unlink_reader"} \cup Ended
       /\ rname = w => wpc[w] \notin {"writer_sem", "reader_sem"}
       /\ rname = w => wname = w \/ closed[w]
       /\ mname = w => rname = w
       /\ mname = w => wpc[w] # "shm"

\* What a reader has opened is one writer's, or that writer is gone.
OpenedInv ==
  \A r \in Reader :
    /\ rpc[r] = "open_reader" /\ openW[r] # None =>
         wname = openW[r] \/ closed[openW[r]]
    /\ rpc[r] = "open_shm" \/ Attached(r) =>
         /\ openW[r] # None /\ openR[r] # None
         /\ wpc[openR[r]] \notin {"writer_sem", "reader_sem"}
         /\ openW[r] = openR[r] \/ closed[openW[r]] \/ closed[openR[r]]
    /\ rpc[r] = "open_shm" => rname = openR[r] \/ closed[openR[r]]
    /\ Attached(r) => openM[r] # None /\ (openM[r] = openR[r] \/ closed[openR[r]])

\* Nobody can take the turn on a segment before its writer's loop or after it.
TurnInv ==
  /\ OneTurn
  /\ \A w \in Writer :
       wpc[w] \in Early \/ closed[w] =>
         /\ rsem[w] = 0
         /\ \A r \in Reader : ReaderHasTurn(r) => openR[r] # w
  /\ \A w \in Writer : /\ wpc[w] = "writer_sem" => wsem[w] = 0
                       /\ ~closed[w] => wsem[w] <= 1

\* Everything put into w's segment was printed.
Drained(w) == got[w] = sent[w]

\* The segment holds the end marker, or the one line not yet printed.
Loaded(w) == /\ shmem[w] = Empty => Drained(w)
             /\ shmem[w] # Empty => sent[w] = Append(got[w], shmem[w])

ChannelInv ==
  /\ \A w \in Writer :
       /\ \/ wsem[w] > 0
          \/ closed[w]
          \/ wpc[w] \in Early \cup {"input", "post_end"}
          => Drained(w)
       /\ wpc[w] = "post_end" => shmem[w] = Empty
       /\ wpc[w] = "post" \/ rsem[w] > 0 => Loaded(w)
  /\ \A r \in Reader :
       /\ rpc[r] = "read" => Loaded(openR[r])
       /\ rpc[r] \in {"post", "post_end"} => Drained(openR[r])

IInv == TypeOK /\ NamesInv /\ OpenedInv /\ TurnInv /\ ChannelInv

\* A writer that has ended by itself holds no name, but that of its own writer
\* semaphore when it found the reader semaphore's taken.
LeftInv ==
  \A w \in Writer :
    /\ wname = w => wpc[w] \notin {"writer_sem", "unlink_reader", "done"}
    /\ rname = w => wpc[w] \notin {"done", "failed"}

-----------------------------------------------------------------------------
LEMMA InitInv == Init => IInv
<1> SUFFICES ASSUME Init PROVE IInv
  OBVIOUS
<1>1. TypeOK
  BY ShmXfrAssumption DEF Init, TypeOK, WriterPC, ReaderPC, Text
<1>2. NamesInv /\ OpenedInv
  BY ShmXfrAssumption DEF Init, NamesInv, OpenedInv, Attached, Ended
<1>3. TurnInv /\ ChannelInv
  BY DEF Init, TurnInv, OneTurn, WriterHasTurn, ReaderHasTurn, ChannelInv,
         Drained, Loaded, Early
<1> QED BY <1>1, <1>2, <1>3 DEF IInv

-----------------------------------------------------------------------------
(* Types.                                                                  *)

LEMMA TypeStep == ASSUME IInv, [Next]_vars PROVE TypeOK'
<1> USE DEF names, opened, history, WGoto, RGoto
<1>t. TypeOK /\ OpenedInv /\ TurnInv
  BY DEF IInv
<1>1. ASSUME NEW w \in Writer, CreateWriterSem(w) \/ WriterGoesOn(w)
      PROVE  TypeOK'
  <2> USE DEF WriterPC
  <2>1. CASE CreateWriterSem(w)
    <3>1. wpc' \in [Writer -> WriterPC] /\ wname' \in Writer \cup {None}
      BY <1>t, <2>1 DEF CreateWriterSem, TypeOK
    <3>2. wsem' \in [Writer -> Nat]
      <4>1. wsem' = wsem \/ wsem' = [wsem EXCEPT ![w] = 1]
        BY <2>1 DEF CreateWriterSem
      <4>2. wsem \in [Writer -> Nat] /\ 1 \in Nat
        BY <1>t DEF TypeOK
      <4> QED BY <4>1, <4>2
    <3> QED BY <1>t, <2>1, <3>1, <3>2 DEF CreateWriterSem, TypeOK
  <2>2. CASE CreateReaderSem(w)
    <3>1. wpc' \in [Writer -> WriterPC] /\ rname' \in Writer \cup {None}
      BY <1>t, <2>2 DEF CreateReaderSem, TypeOK
    <3> QED BY <1>t, <2>2, <3>1 DEF CreateReaderSem, TypeOK
  <2>3. CASE CreateShm(w)
    <3>1. wpc' \in [Writer -> WriterPC] /\ mname' \in Writer \cup {None}
      BY <1>t, <2>3 DEF CreateShm, TypeOK
    <3> QED BY <1>t, <2>3, <3>1 DEF CreateShm, TypeOK
  <2>4. CASE WaitWriter(w)
    <3>1. wsem[w] - 1 \in Nat
      <4>1. wsem[w] > 0
        BY <2>4 DEF WaitWriter
      <4>2. wsem[w] \in Nat
        BY <1>t DEF TypeOK
      <4> QED BY <4>1, <4>2
    <3> QED BY <1>t, <2>4, <3>1 DEF WaitWriter, TypeOK
  <2>5. CASE PutLine(w)
    <3>1. PICK l \in Line :
            /\ shmem' = [shmem EXCEPT ![w] = AsString(l)]
            /\ sent' = IF l \in Blank THEN sent
                                      ELSE [sent EXCEPT ![w] = Append(@, l)]
            /\ stopped' = IF l \in Blank THEN [stopped EXCEPT ![w] = TRUE]
                                         ELSE stopped
      BY <2>5 DEF PutLine
    <3>2. AsString(l) \in Text \cup {Empty}
      BY DEF AsString, Text
    <3>3. /\ shmem' \in [Writer -> Text \cup {Empty}]
          /\ stopped' \in [Writer -> BOOLEAN]
      BY <1>t, <3>1, <3>2 DEF TypeOK
    <3>4. sent' \in [Writer -> Seq(Text)]
      <4>1. CASE l \in Blank
        BY <1>t, <3>1, <4>1 DEF TypeOK
      <4>2. CASE l \notin Blank
        <5>1. Append(sent[w], l) \in Seq(Text)
          BY <1>t, <4>2 DEF TypeOK, Text
        <5> QED BY <1>t, <3>1, <4>2, <5>1 DEF TypeOK
      <4> QED BY <4>1, <4>2
    <3>5. lines[w] + 1 \in 0..MaxLines
      <4>1. lines[w] \in 0..MaxLines /\ lines[w] < MaxLines
        BY <1>t, <2>5 DEF PutLine, TypeOK
      <4> QED BY <4>1, ShmXfrAssumption
    <3>6. wpc' \in [Writer -> WriterPC] /\ lines' \in [Writer -> 0..MaxLines]
      BY <1>t, <2>5, <3>5 DEF PutLine, TypeOK
    <3> QED BY <1>t, <2>5, <3>3, <3>4, <3>6 DEF PutLine, TypeOK
  <2>6. CASE PutEnd(w)
    BY <1>t, <2>6 DEF PutEnd, TypeOK
  <2>7. CASE PostReader(w)
    <3>1. rsem[w] = 0
      BY <1>t, <2>7 DEF PostReader, TurnInv, OneTurn, WriterHasTurn
    <3>2. rsem[w] + 1 \in 0..1
      BY <3>1
    <3>3. wpc' \in [Writer -> WriterPC] /\ rsem' \in [Writer -> 0..1]
      BY <1>t, <2>7, <3>2 DEF PostReader, TypeOK
    <3> QED BY <1>t, <2>7, <3>3 DEF PostReader, TypeOK
  <2>8. CASE FinalWait(w)
    <3>1. wsem[w] - 1 \in Nat
      <4>1. wsem[w] > 0
        BY <2>8 DEF FinalWait
      <4>2. wsem[w] \in Nat
        BY <1>t DEF TypeOK
      <4> QED BY <4>1, <4>2
    <3> QED BY <1>t, <2>8, <3>1 DEF FinalWait, TypeOK
  <2>9. CASE UnlinkShm(w)
    BY <1>t, <2>9 DEF UnlinkShm, TypeOK
  <2>10. CASE UnlinkWriterSem(w)
    BY <1>t, <2>10 DEF UnlinkWriterSem, TypeOK
  <2>11. CASE UnlinkReaderSem(w)
    BY <1>t, <2>11 DEF UnlinkReaderSem, TypeOK
  <2> QED BY <1>1, <2>1, <2>2, <2>3, <2>4, <2>5, <2>6, <2>7, <2>8, <2>9, <2>10,
           <2>11
          DEF WriterGoesOn
<1>2. ASSUME NEW r \in Reader, OpenWriterSem(r) \/ ReaderGoesOn(r)
      PROVE  TypeOK'
  <2> USE DEF ReaderPC
  <2>0. Attached(r) => openR[r] \in Writer /\ openM[r] \in Writer /\ openW[r] \in Writer
    BY <1>t DEF OpenedInv, TypeOK
  <2>1. CASE OpenWriterSem(r)
    BY <1>t, <2>0, <2>1 DEF OpenWriterSem, TypeOK, Attached
  <2>2. CASE OpenReaderSem(r)
    BY <1>t, <2>0, <2>2 DEF OpenReaderSem, TypeOK, Attached
  <2>3. CASE OpenShm(r)
    BY <1>t, <2>0, <2>3 DEF OpenShm, TypeOK, Attached
  <2>4. CASE WaitReader(r)
    <3>1. openR[r] \in Writer /\ rsem[openR[r]] - 1 \in 0..1
      BY <1>t, <2>0, <2>4 DEF WaitReader, TypeOK, Attached
    <3> QED BY <1>t, <2>4, <3>1 DEF WaitReader, TypeOK
  <2>5. CASE Read(r)
    <3>1. openM[r] \in Writer /\ shmem[openM[r]] \in Text \cup {Empty}
      BY <1>t, <2>0, <2>5 DEF Read, Attached, TypeOK
    <3>2. got' \in [Writer -> Seq(Text)]
      <4>1. CASE shmem[openM[r]] = Empty
        BY <1>t, <2>5, <4>1 DEF Read, TypeOK
      <4>2. CASE shmem[openM[r]] # Empty
        <5>1. Append(got[openM[r]], shmem[openM[r]]) \in Seq(Text)
          BY <1>t, <3>1, <4>2 DEF TypeOK
        <5> QED BY <1>t, <2>5, <4>2, <5>1 DEF Read, TypeOK
      <4> QED BY <4>1, <4>2
    <3> QED BY <1>t, <2>5, <3>2 DEF Read, TypeOK
  <2>6. CASE PostWriter(r)
    <3>1. openW[r] \in Writer /\ wsem[openW[r]] + 1 \in Nat
      <4>1. openW[r] \in Writer
        BY <2>0, <2>6 DEF PostWriter, Attached
      <4>2. wsem[openW[r]] \in Nat
        BY <1>t, <4>1 DEF TypeOK
      <4> QED BY <4>1, <4>2
    <3>2. rpc' \in [Reader -> ReaderPC] /\ wsem' \in [Writer -> Nat]
      BY <1>t, <2>6, <3>1 DEF PostWriter, TypeOK
    <3> QED BY <1>t, <2>6, <3>2 DEF PostWriter, TypeOK
  <2> QED BY <1>2, <2>1, <2>2, <2>3, <2>4, <2>5, <2>6 DEF ReaderGoesOn
<1>3. CASE Crash
  <2>1. crashes' \in 0..MaxCrash
    BY <1>t, <1>3, ShmXfrAssumption DEF Crash, TypeOK
  <2>2. wpc' \in [Writer -> WriterPC] /\ rpc' \in [Reader -> ReaderPC]
    BY <1>t, <1>3 DEF Crash, TypeOK, WriterPC, ReaderPC
  <2> QED BY <1>t, <1>3, <2>1, <2>2 DEF Crash, TypeOK
<1>4. CASE UNCHANGED vars
  BY <1>t, <1>4 DEF vars, TypeOK
<1> QED BY <1>1, <1>2, <1>3, <1>4 DEF Next

-----------------------------------------------------------------------------
(* The names.                                                              *)

LEMMA NamesStep == ASSUME IInv, [Next]_vars PROVE NamesInv'
<1> USE ShmXfrAssumption DEF names, opened, history, WGoto, RGoto, Ended
<1>t. TypeOK /\ NamesInv
  BY DEF IInv
<1>1. ASSUME NEW w \in Writer, CreateWriterSem(w) \/ WriterGoesOn(w)
      PROVE  NamesInv'
  <2>1. CASE CreateWriterSem(w)
    <3>1. /\ \A v \in Writer : v # w => wpc'[v] = wpc[v]
          /\ UNCHANGED <<rname, mname, closed>> /\ wpc[w] = "writer_sem"
          /\ \/ wname = None /\ wname' = w /\ wpc'[w] = "reader_sem"
             \/ wname # None /\ wname' = wname /\ wpc'[w] = "failed"
      BY <1>t, <2>1 DEF CreateWriterSem, TypeOK
    <3> QED BY <1>t, <3>1 DEF NamesInv
  <2>2. CASE CreateReaderSem(w)
    <3>1. /\ \A v \in Writer : v # w => wpc'[v] = wpc[v]
          /\ UNCHANGED <<wname, mname, closed>> /\ wpc[w] = "reader_sem"
          /\ \/ rname = None /\ rname' = w /\ wpc'[w] = "shm"
             \/ rname # None /\ rname' = rname /\ wpc'[w] = "failed"
      BY <1>t, <2>2 DEF CreateReaderSem, TypeOK
    <3> QED BY <1>t, <3>1 DEF NamesInv
  <2>3. CASE CreateShm(w)
    BY <1>t, <2>3 DEF CreateShm, TypeOK, NamesInv
  <2>4. CASE WaitWriter(w)
    BY <1>t, <2>4 DEF WaitWriter, TypeOK, NamesInv
  <2>5. CASE PutLine(w)
    BY <1>t, <2>5 DEF PutLine, TypeOK, NamesInv
  <2>6. CASE PutEnd(w)
    BY <1>t, <2>6 DEF PutEnd, TypeOK, NamesInv
  <2>7. CASE PostReader(w)
    BY <1>t, <2>7 DEF PostReader, TypeOK, NamesInv
  <2>8. CASE FinalWait(w)
    BY <1>t, <2>8 DEF FinalWait, TypeOK, NamesInv
  <2>9. CASE UnlinkShm(w)
    BY <1>t, <2>9 DEF UnlinkShm, TypeOK, NamesInv
  <2>10. CASE UnlinkWriterSem(w)
    BY <1>t, <2>10 DEF UnlinkWriterSem, TypeOK, NamesInv
  <2>11. CASE UnlinkReaderSem(w)
    BY <1>t, <2>11 DEF UnlinkReaderSem, TypeOK, NamesInv
  <2> QED BY <1>1, <2>1, <2>2, <2>3, <2>4, <2>5, <2>6, <2>7, <2>8, <2>9, <2>10,
           <2>11
          DEF WriterGoesOn
<1>2. CASE \/ \E r \in Reader : OpenWriterSem(r) \/ ReaderGoesOn(r)
           \/ UNCHANGED vars
  <2>1. UNCHANGED <<wpc, wname, rname, mname, closed>>
    BY <1>2 DEF ReaderGoesOn, OpenWriterSem, OpenReaderSem, OpenShm,
                WaitReader, Read, PostWriter, vars
  <2> QED BY <1>t, <2>1 DEF NamesInv
<1>3. CASE Crash
  <2>1. /\ \A v \in Writer : wpc'[v] = wpc[v] \/ wpc'[v] = "crashed"
        /\ UNCHANGED <<wname, rname, mname, closed>>
    BY <1>t, <1>3 DEF Crash, TypeOK
  <2> QED BY <1>t, <2>1 DEF NamesInv
<1> QED BY <1>1, <1>2, <1>3 DEF Next

LEMMA LeftStep == ASSUME IInv, LeftInv, [Next]_vars PROVE LeftInv'
<1> USE ShmXfrAssumption DEF names, opened, history, WGoto, RGoto
<1>t. TypeOK /\ NamesInv /\ LeftInv
  BY DEF IInv
<1>1. ASSUME NEW w \in Writer, CreateWriterSem(w) \/ WriterGoesOn(w)
      PROVE  LeftInv'
  <2>1. CASE CreateWriterSem(w)
    BY <1>t, <2>1 DEF CreateWriterSem, TypeOK, NamesInv, LeftInv
  <2>2. CASE CreateReaderSem(w)
    BY <1>t, <2>2 DEF CreateReaderSem, TypeOK, NamesInv, LeftInv
  <2>3. CASE CreateShm(w)
    <3>1. mname # None => rname # w
      BY <1>t, <2>3 DEF CreateShm, TypeOK, NamesInv
    <3> QED BY <1>t, <2>3, <3>1 DEF CreateShm, TypeOK, LeftInv
  <2>4. CASE UnlinkShm(w)
    BY <1>t, <2>4 DEF UnlinkShm, TypeOK, NamesInv, LeftInv
  <2>5. CASE UnlinkWriterSem(w)
    BY <1>t, <2>5 DEF UnlinkWriterSem, TypeOK, NamesInv, LeftInv
  <2>6. CASE UnlinkReaderSem(w)
    BY <1>t, <2>6 DEF UnlinkReaderSem, TypeOK, NamesInv, LeftInv
  <2>7. CASE \/ WaitWriter(w) \/ PutLine(w) \/ PutEnd(w) \/ PostReader(w)
             \/ FinalWait(w)
    <3>1. /\ UNCHANGED <<wname, rname>>
          /\ \A v \in Writer : v # w => wpc'[v] = wpc[v]
          /\ wpc'[w] \in {"input", "post", "post_end", "wait", "final",
                          "unlink_shm"}
      BY <1>t, <2>7 DEF WaitWriter, PutLine, PutEnd, PostReader, FinalWait,
                        TypeOK
    <3> QED BY <1>t, <3>1 DEF LeftInv
  <2> QED BY <1>1, <2>1, <2>2, <2>3, <2>4, <2>5, <2>6, <2>7 DEF WriterGoesOn
<1>2. CASE \/ \E r \in Reader : OpenWriterSem(r) \/ ReaderGoesOn(r)
           \/ UNCHANGED vars
  <2>1. UNCHANGED <<wpc, wname, rname>>
    BY <1>2 DEF ReaderGoesOn, OpenWriterSem, OpenReaderSem, OpenShm,
                WaitReader, Read, PostWriter, vars
  <2> QED BY <1>t, <2>1 DEF LeftInv
<1>3. CASE Crash
  <2>1. /\ \A v \in Writer : wpc'[v] = wpc[v] \/ wpc'[v] = "crashed"
        /\ UNCHANGED <<wname, rname>>
    BY <1>t, <1>3 DEF Crash, TypeOK
  <2> QED BY <1>t, <2>1 DEF LeftInv
<1> QED BY <1>1, <1>2, <1>3 DEF Next

-----------------------------------------------------------------------------
(* What the readers have opened.                                           *)

LEMMA OpenedStep == ASSUME IInv, [Next]_vars PROVE OpenedInv'
<1> USE ShmXfrAssumption DEF names, opened, history, WGoto, RGoto, Attached
<1>t. TypeOK /\ NamesInv /\ OpenedInv
  BY DEF IInv
<1>o. \A r \in Reader : /\ openW[r] # None => openW[r] \in Writer
                        /\ openR[r] # None => openR[r] \in Writer
  BY <1>t DEF TypeOK
<1>1. ASSUME NEW w \in Writer, CreateWriterSem(w) \/ WriterGoesOn(w)
      PROVE  OpenedInv'
  <2>1. CASE CreateWriterSem(w)
    <3>1. /\ \A v \in Writer : v # w => wpc'[v] = wpc[v]
          /\ wpc[w] = "writer_sem"
          /\ wname # None => wname' = wname
          /\ UNCHANGED <<rpc, rname, openW, openR, openM, closed>>
      BY <1>t, <2>1 DEF CreateWriterSem, TypeOK
    <3> QED BY <1>t, <1>o, <3>1 DEF OpenedInv
  <2>2. CASE CreateReaderSem(w)
    <3>1. /\ \A v \in Writer : v # w => wpc'[v] = wpc[v]
          /\ wpc[w] = "reader_sem"
          /\ rname # None => rname' = rname
          /\ UNCHANGED <<rpc, wname, openW, openR, openM, closed>>
      BY <1>t, <2>2 DEF CreateReaderSem, TypeOK
    <3> QED BY <1>t, <1>o, <3>1 DEF OpenedInv
  <2>3. CASE \/ CreateShm(w) \/ WaitWriter(w) \/ PutLine(w) \/ PutEnd(w)
             \/ PostReader(w) \/ FinalWait(w) \/ UnlinkShm(w)
    <3>1. /\ \A v \in Writer : v # w => wpc'[v] = wpc[v]
          /\ wpc'[w] \notin {"writer_sem", "reader_sem"}
          /\ UNCHANGED <<rpc, wname, rname, openW, openR, openM>>
      BY <1>t, <2>3
         DEF CreateShm, WaitWriter, PutLine, PutEnd, PostReader, FinalWait,
             UnlinkShm, TypeOK
    <3>2. \A v \in Writer : closed[v] => closed'[v]
      BY <1>t, <2>3
         DEF CreateShm, WaitWriter, PutLine, PutEnd, PostReader, FinalWait,
             UnlinkShm, TypeOK
    <3> QED BY <1>t, <1>o, <3>1, <3>2 DEF OpenedInv
  <2>4. CASE UnlinkWriterSem(w)
    <3>1. /\ \A v \in Writer : v # w => wpc'[v] = wpc[v]
          /\ wpc'[w] \notin {"writer_sem", "reader_sem"}
          /\ wpc[w] = "unlink_writer"
          /\ UNCHANGED <<rpc, rname, openW, openR, openM, closed>>
      BY <1>t, <2>4 DEF UnlinkWriterSem, TypeOK
    <3>2. closed[w] /\ wname = w
      BY <1>t, <3>1 DEF NamesInv
    <3> QED BY <1>t, <1>o, <3>1, <3>2 DEF OpenedInv
  <2>5. CASE UnlinkReaderSem(w)
    <3>1. /\ \A v \in Writer : v # w => wpc'[v] = wpc[v]
          /\ wpc'[w] \notin {"writer_sem", "reader_sem"}
          /\ wpc[w] = "unlink_reader"
          /\ UNCHANGED <<rpc, wname, openW, openR, openM, closed>>
      BY <1>t, <2>5 DEF UnlinkReaderSem, TypeOK
    <3>2. closed[w] /\ rname = w
      BY <1>t, <3>1 DEF NamesInv
    <3> QED BY <1>t, <1>o, <3>1, <3>2 DEF OpenedInv
  <2> QED BY <1>1, <2>1, <2>2, <2>3, <2>4, <2>5 DEF WriterGoesOn
<1>2. ASSUME NEW r \in Reader, OpenWriterSem(r) \/ ReaderGoesOn(r)
      PROVE  OpenedInv'
  <2>w. UNCHANGED <<wpc, wname, rname, closed>>
    BY <1>2 DEF ReaderGoesOn, OpenWriterSem, OpenReaderSem, OpenShm,
                WaitReader, Read, PostWriter
  <2>1. CASE OpenWriterSem(r)
    <3>1. /\ \A q \in Reader : q # r => rpc'[q] = rpc[q] /\ openW'[q] = openW[q]
          /\ rpc'[r] = "open_reader" /\ openW'[r] = wname
          /\ UNCHANGED <<openR, openM>>
      BY <1>t, <2>1 DEF OpenWriterSem, TypeOK
    <3> QED BY <1>t, <2>w, <3>1 DEF OpenedInv
  <2>2. CASE OpenReaderSem(r)
    <3>1. /\ \A q \in Reader : q # r => rpc'[q] = rpc[q] /\ openR'[q] = openR[q]
          /\ rpc[r] = "open_reader"
          /\ \/ rpc'[r] = "failed"
             \/ rpc'[r] = "open_shm" /\ openW[r] # None /\ rname # None
          /\ openR'[r] = rname
          /\ UNCHANGED <<openW, openM>>
      BY <1>t, <2>2 DEF OpenReaderSem, TypeOK
    <3>2. rname # None => /\ wpc[rname] \notin {"writer_sem", "reader_sem"}
                          /\ wname = rname \/ closed[rname]
      BY <1>t DEF NamesInv, TypeOK
    <3>3. openW[r] # None => wname = openW[r] \/ closed[openW[r]]
      BY <1>t, <3>1 DEF OpenedInv
    <3> QED BY <1>t, <2>w, <3>1, <3>2, <3>3 DEF OpenedInv
  <2>3. CASE OpenShm(r)
    <3>1. /\ \A q \in Reader : q # r => rpc'[q] = rpc[q] /\ openM'[q] = openM[q]
          /\ rpc[r] = "open_shm"
          /\ \/ rpc'[r] = "failed"
             \/ rpc'[r] = "wait" /\ mname # None
          /\ openM'[r] = mname
          /\ UNCHANGED <<openW, openR>>
      BY <1>t, <2>3 DEF OpenShm, TypeOK
    <3>2. mname # None => mname = rname
      BY <1>t DEF NamesInv, TypeOK
    <3> QED BY <1>t, <2>w, <3>1, <3>2 DEF OpenedInv
  <2>4. CASE WaitReader(r) \/ Read(r) \/ PostWriter(r)
    <3>1. /\ \A q \in Reader : q # r => rpc'[q] = rpc[q]
          /\ Attached(r)
          /\ rpc'[r] \notin {"open_reader", "open_shm"}
          /\ UNCHANGED <<openW, openR, openM>>
      BY <1>t, <2>4 DEF WaitReader, Read, PostWriter, TypeOK
    <3> QED BY <1>t, <2>w, <3>1 DEF OpenedInv
  <2> QED BY <1>2, <2>1, <2>2, <2>3, <2>4 DEF ReaderGoesOn
<1>3. CASE Crash
  <2>1. /\ \A v \in Writer : wpc'[v] = wpc[v] \/ wpc'[v] = "crashed"
        /\ \A q \in Reader : rpc'[q] = rpc[q] \/ rpc'[q] = "crashed"
        /\ UNCHANGED <<wname, rname, openW, openR, openM, closed>>
    BY <1>t, <1>3 DEF Crash, TypeOK
  <2> QED BY <1>t, <1>o, <2>1 DEF OpenedInv
<1>4. CASE UNCHANGED vars
  BY <1>t, <1>4 DEF vars, OpenedInv
<1> QED BY <1>1, <1>2, <1>3, <1>4 DEF Next

-----------------------------------------------------------------------------
(* The turn.                                                               *)

LEMMA TurnStep == ASSUME IInv, [Next]_vars PROVE TurnInv'
<1> USE DEF names, opened, history, WGoto, RGoto, Early
<1>t. TypeOK /\ NamesInv /\ OpenedInv /\ TurnInv
  BY DEF IInv
<1>r. \A r \in Reader : /\ ReaderHasTurn(r) => Attached(r)
                        /\ Attached(r) => openR[r] \in Writer
                        /\ Attached(r) => openW[r] \in Writer
  BY <1>t DEF OpenedInv, TypeOK, ReaderHasTurn, Attached
<1>1. ASSUME NEW w \in Writer, CreateWriterSem(w) \/ WriterGoesOn(w)
      PROVE  TurnInv'
  <2>r. UNCHANGED <<rpc, openW, openR, openM>>
    BY <1>1 DEF WriterGoesOn, CreateWriterSem, CreateReaderSem, CreateShm,
                WaitWriter, PutLine, PutEnd, PostReader, FinalWait, UnlinkShm,
                UnlinkWriterSem, UnlinkReaderSem
  <2>w. /\ \A v \in Writer : v # w => /\ wpc'[v] = wpc[v]
                                      /\ wsem'[v] = wsem[v]
                                      /\ rsem'[v] = rsem[v]
                                      /\ closed'[v] = closed[v]
    <3>1. CASE CreateWriterSem(w) \/ CreateReaderSem(w) \/ CreateShm(w)
      BY <1>t, <3>1 DEF CreateWriterSem, CreateReaderSem, CreateShm, TypeOK
    <3>2. CASE WaitWriter(w) \/ PutLine(w) \/ PutEnd(w) \/ PostReader(w)
      BY <1>t, <3>2 DEF WaitWriter, PutLine, PutEnd, PostReader, TypeOK
    <3>3. CASE \/ FinalWait(w) \/ UnlinkShm(w) \/ UnlinkWriterSem(w)
               \/ UnlinkReaderSem(w)
      BY <1>t, <3>3
         DEF FinalWait, UnlinkShm, UnlinkWriterSem, UnlinkReaderSem, TypeOK
    <3> QED BY <1>1, <3>1, <3>2, <3>3 DEF WriterGoesOn
  <2>s. /\ wsem[w] \in Nat /\ rsem[w] \in 0..1
        /\ wsem'[w] \in Nat /\ rsem'[w] \in 0..1
    BY <1>t, TypeStep DEF TypeOK
  <2> DEFINE Free == \A r \in Reader : ReaderHasTurn(r) => openR[r] # w
  <2>q. ASSUME /\ WriterHasTurn(w)' => wsem'[w] = 0 /\ rsem'[w] = 0 /\ Free
               /\ wsem'[w] = 0 \/ rsem'[w] = 0
               /\ ~Free => wsem'[w] = 0 /\ rsem'[w] = 0
               /\ wpc'[w] \in Early \/ closed'[w] => rsem'[w] = 0 /\ Free
               /\ wpc'[w] = "writer_sem" => wsem'[w] = 0
               /\ ~closed'[w] => wsem'[w] <= 1
        PROVE  TurnInv'
    <3>1. \A v \in Writer : WriterHasTurn(v)' => wsem'[v] = 0 /\ rsem'[v] = 0
      BY <1>t, <2>w, <2>q DEF TurnInv, OneTurn, WriterHasTurn
    <3>2. \A v \in Writer : wsem'[v] = 0 \/ rsem'[v] = 0
      BY <1>t, <2>w, <2>q DEF TurnInv, OneTurn
    <3>3. \A r \in Reader : ReaderHasTurn(r)' =>
            /\ rsem'[openR[r]] = 0
            /\ wsem'[openR[r]] = 0
            /\ ~WriterHasTurn(openR[r])'
            /\ openM[r] = openR[r]
            /\ \A q \in Reader :
                 ReaderHasTurn(q)' /\ openR[q] = openR[r] => q = r
      BY <1>t, <1>r, <2>r, <2>w, <2>q
         DEF TurnInv, OneTurn, WriterHasTurn, ReaderHasTurn
    <3>4. \A v \in Writer : wpc'[v] \in Early \/ closed'[v] =>
            /\ rsem'[v] = 0
            /\ \A r \in Reader : ReaderHasTurn(r)' => openR[r] # v
      BY <1>t, <2>r, <2>w, <2>q DEF TurnInv, ReaderHasTurn
    <3>5. \A v \in Writer : /\ wpc'[v] = "writer_sem" => wsem'[v] = 0
                            /\ ~closed'[v] => wsem'[v] <= 1
      BY <1>t, <2>w, <2>q DEF TurnInv
    <3> QED BY <2>r, <3>1, <3>2, <3>3, <3>4, <3>5 DEF TurnInv, OneTurn
  <2>o. /\ WriterHasTurn(w) => wsem[w] = 0 /\ rsem[w] = 0 /\ Free
        /\ wsem[w] = 0 \/ rsem[w] = 0
        /\ wsem[w] > 0 \/ rsem[w] > 0 => Free
        /\ wpc[w] \in Early \/ closed[w] => rsem[w] = 0 /\ Free
        /\ wpc[w] = "writer_sem" => wsem[w] = 0
        /\ ~closed[w] => wsem[w] <= 1
    BY <1>t DEF TurnInv, OneTurn
  <2> HIDE DEF Free
  <2>1. CASE CreateWriterSem(w)
    <3>1. /\ wpc[w] = "writer_sem" /\ wpc'[w] \in {"reader_sem", "failed"}
          /\ wsem'[w] = wsem[w] \/ wsem'[w] = 1
          /\ UNCHANGED <<rsem, closed>>
      BY <1>t, <2>1 DEF CreateWriterSem, TypeOK
    <3>2. ~closed[w]
      BY <1>t, <3>1 DEF NamesInv, Ended
    <3> QED BY <2>s, <2>o, <2>q, <3>1, <3>2 DEF WriterHasTurn
  <2>2. CASE CreateReaderSem(w) \/ CreateShm(w)
    <3>1. /\ wpc[w] \in {"reader_sem", "shm"}
          /\ wpc'[w] \in {"shm", "wait", "failed"}
          /\ UNCHANGED <<wsem, rsem, closed>>
      BY <1>t, <2>2 DEF CreateReaderSem, CreateShm, TypeOK
    <3> QED BY <2>s, <2>o, <2>q, <3>1 DEF WriterHasTurn
  <2>3. CASE WaitWriter(w)
    <3>1. /\ wsem[w] > 0 /\ wsem'[w] = wsem[w] - 1 /\ rsem'[w] = rsem[w]
          /\ wpc[w] = "wait" /\ wpc'[w] = "input" /\ closed' = closed
      BY <1>t, <2>3 DEF WaitWriter, TypeOK
    <3>2. ~closed[w]
      BY <1>t, <3>1 DEF NamesInv, Ended
    <3> QED BY <2>s, <2>o, <2>q, <3>1, <3>2 DEF WriterHasTurn
  <2>4. CASE PutLine(w) \/ PutEnd(w)
    <3>1. /\ WriterHasTurn(w) /\ wpc'[w] \in {"post", "post_end"}
          /\ UNCHANGED <<wsem, rsem, closed>>
      BY <1>t, <2>4 DEF PutLine, PutEnd, WriterHasTurn, TypeOK
    <3>2. ~closed[w]
      BY <1>t, <3>1 DEF NamesInv, Ended, WriterHasTurn
    <3> QED BY <2>s, <2>o, <2>q, <3>1, <3>2
  <2>5. CASE PostReader(w)
    <3>1. /\ WriterHasTurn(w) /\ wpc'[w] \in {"wait", "final"}
          /\ rsem'[w] = rsem[w] + 1
          /\ UNCHANGED <<wsem, closed>>
      BY <1>t, <2>5 DEF PostReader, WriterHasTurn, TypeOK
    <3>2. ~closed[w]
      BY <1>t, <3>1 DEF NamesInv, Ended, WriterHasTurn
    <3>3. /\ wsem'[w] = 0 /\ rsem'[w] = 1 /\ Free
          /\ ~WriterHasTurn(w)'
      BY <2>o, <3>1 DEF WriterHasTurn
    <3> QED BY <2>q, <3>1, <3>2, <3>3
  <2>6. CASE FinalWait(w)
    <3>1. /\ wsem[w] > 0 /\ wsem'[w] = wsem[w] - 1 /\ rsem'[w] = rsem[w]
          /\ wpc[w] = "final" /\ wpc'[w] = "unlink_shm"
      BY <1>t, <2>6 DEF FinalWait, TypeOK
    <3>2. ~closed[w]
      BY <1>t, <3>1 DEF NamesInv, Ended
    <3> QED BY <2>s, <2>o, <2>q, <3>1, <3>2 DEF WriterHasTurn
  <2>7. CASE UnlinkShm(w) \/ UnlinkWriterSem(w) \/ UnlinkReaderSem(w)
    <3>1. /\ wpc'[w] \in {"unlink_writer", "unlink_reader", "done", "failed"}
          /\ UNCHANGED <<wsem, rsem, closed>>
      BY <1>t, <2>7 DEF UnlinkShm, UnlinkWriterSem, UnlinkReaderSem, TypeOK
    <3> QED BY <2>s, <2>o, <2>q, <3>1 DEF WriterHasTurn
  <2> QED BY <1>1, <2>1, <2>2, <2>3, <2>4, <2>5, <2>6, <2>7 DEF WriterGoesOn
<1>2. ASSUME NEW r \in Reader, OpenWriterSem(r) \/ ReaderGoesOn(r)
      PROVE  TurnInv'
  <2>w. UNCHANGED <<wpc, closed>>
    BY <1>2 DEF ReaderGoesOn, OpenWriterSem, OpenReaderSem, OpenShm,
                WaitReader, Read, PostWriter
  <2>1. CASE OpenWriterSem(r) \/ OpenReaderSem(r) \/ OpenShm(r) \/ Read(r)
    <3>1. /\ UNCHANGED <<wsem, rsem>>
          /\ \A q \in Reader : q # r => /\ rpc'[q] = rpc[q]
                                        /\ openW'[q] = openW[q]
                                        /\ openR'[q] = openR[q]
                                        /\ openM'[q] = openM[q]
          /\ ReaderHasTurn(r)' => ReaderHasTurn(r)
          /\ ReaderHasTurn(r) => UNCHANGED <<openW, openR, openM>>
      BY <1>t, <2>1
         DEF OpenWriterSem, OpenReaderSem, OpenShm, Read, ReaderHasTurn, TypeOK
    <3>2. \A q \in Reader : ReaderHasTurn(q)' =>
            /\ ReaderHasTurn(q)
            /\ openW'[q] = openW[q] /\ openR'[q] = openR[q]
            /\ openM'[q] = openM[q]
      BY <3>1 DEF ReaderHasTurn
    <3> QED BY <1>t, <2>w, <3>1, <3>2 DEF TurnInv, OneTurn, WriterHasTurn
  <2>2. CASE WaitReader(r)
    <3> DEFINE w == openR[r]
    <3>1. /\ w \in Writer /\ rsem[w] \in 0..1 /\ rsem[w] > 0
          /\ rsem'[w] = rsem[w] - 1
          /\ \A v \in Writer : v # w => rsem'[v] = rsem[v]
          /\ UNCHANGED <<wsem, openW, openR, openM>>
          /\ \A q \in Reader : q # r => rpc'[q] = rpc[q]
          /\ rpc[r] = "wait" /\ rpc'[r] = "read"
      BY <1>t, <1>r, <2>2 DEF WaitReader, TypeOK, Attached
    <3>2. /\ ~closed[w] /\ wpc[w] \notin Early
          /\ wsem[w] = 0 /\ rsem'[w] = 0 /\ ~WriterHasTurn(w)
          /\ \A q \in Reader : ReaderHasTurn(q) => openR[q] # w
          /\ openM[r] = w
      BY <1>t, <3>1 DEF TurnInv, OneTurn, OpenedInv, Attached
    <3> HIDE DEF w
    <3>3. \A q \in Reader : ReaderHasTurn(q)' <=> ReaderHasTurn(q) \/ q = r
      BY <3>1 DEF ReaderHasTurn
    <3>w. w = openR[r]
      BY DEF w
    <3>4. \A v \in Writer : rsem[v] = 0 => rsem'[v] = 0
      BY <3>1, <3>2
    <3>5. /\ \A v \in Writer : WriterHasTurn(v)' =>
                                 wsem'[v] = 0 /\ rsem'[v] = 0
          /\ \A v \in Writer : wsem'[v] = 0 \/ rsem'[v] = 0
          /\ \A v \in Writer : /\ wpc'[v] = "writer_sem" => wsem'[v] = 0
                               /\ ~closed'[v] => wsem'[v] <= 1
      BY <1>t, <2>w, <3>1, <3>4 DEF TurnInv, OneTurn, WriterHasTurn
    <3>6. \A v \in Writer : wpc'[v] \in Early \/ closed'[v] =>
            /\ rsem'[v] = 0
            /\ \A q \in Reader : ReaderHasTurn(q)' => openR'[q] # v
      BY <1>t, <2>w, <3>w, <3>1, <3>2, <3>3, <3>4 DEF TurnInv
    <3>7. \A q \in Reader : ReaderHasTurn(q)' =>
            /\ rsem'[openR'[q]] = 0
            /\ wsem'[openR'[q]] = 0
            /\ ~WriterHasTurn(openR[q])'
            /\ openM'[q] = openR'[q]
            /\ \A p \in Reader :
                 ReaderHasTurn(p)' /\ openR'[p] = openR'[q] => p = q
      BY <1>t, <1>r, <2>w, <3>w, <3>1, <3>2, <3>3, <3>4
         DEF TurnInv, OneTurn, WriterHasTurn
    <3> QED BY <3>5, <3>6, <3>7 DEF TurnInv, OneTurn, WriterHasTurn
  <2>3. CASE PostWriter(r)
    <3> DEFINE w == openW[r]
    <3>1. /\ w \in Writer /\ openR[r] \in Writer /\ ReaderHasTurn(r)
          /\ wsem[w] \in Nat /\ wsem'[w] = wsem[w] + 1
          /\ \A v \in Writer : v # w => wsem'[v] = wsem[v]
          /\ UNCHANGED <<rsem, openW, openR, openM>>
          /\ \A q \in Reader : q # r => rpc'[q] = rpc[q]
          /\ ~ReaderHasTurn(r)'
      BY <1>t, <1>r, <2>3 DEF PostWriter, TypeOK, Attached, ReaderHasTurn
    <3>2. /\ ~closed[openR[r]] /\ rsem[openR[r]] = 0 /\ wsem[openR[r]] = 0
          /\ ~WriterHasTurn(openR[r]) /\ wpc[openR[r]] \notin Early
          /\ \A q \in Reader :
               ReaderHasTurn(q) /\ openR[q] = openR[r] => q = r
      BY <1>t, <3>1 DEF TurnInv, OneTurn
    <3>3. w = openR[r] \/ closed[w]
      BY <1>t, <1>r, <3>1, <3>2 DEF OpenedInv
    <3>4. /\ rsem[w] = 0 /\ ~WriterHasTurn(w) /\ wpc[w] \notin Early
          /\ ~closed[w] => wsem[w] = 0
          /\ \A q \in Reader : ReaderHasTurn(q) /\ openR[q] = w => q = r
      <4>1. closed[w] => wpc[w] \notin Early /\ ~WriterHasTurn(w)
        BY <1>t, <3>1 DEF NamesInv, Ended, WriterHasTurn
      <4> QED BY <1>t, <3>1, <3>2, <3>3, <4>1 DEF TurnInv
    <3>w. w = openW[r]
      OBVIOUS
    <3> HIDE DEF w
    <3>5. \A q \in Reader : ReaderHasTurn(q)' <=> ReaderHasTurn(q) /\ q # r
      BY <3>1 DEF ReaderHasTurn
    <3>6. /\ \A v \in Writer : WriterHasTurn(v)' =>
                                 wsem'[v] = 0 /\ rsem'[v] = 0
          /\ \A v \in Writer : wsem'[v] = 0 \/ rsem'[v] = 0
          /\ \A v \in Writer : /\ wpc'[v] = "writer_sem" => wsem'[v] = 0
                               /\ ~closed'[v] => wsem'[v] <= 1
      BY <1>t, <2>w, <3>1, <3>4 DEF TurnInv, OneTurn, WriterHasTurn
    <3>7. \A v \in Writer : wpc'[v] \in Early \/ closed'[v] =>
            /\ rsem'[v] = 0
            /\ \A q \in Reader : ReaderHasTurn(q)' => openR'[q] # v
      BY <1>t, <2>w, <3>1, <3>5 DEF TurnInv
    <3>8. \A q \in Reader : ReaderHasTurn(q)' =>
            /\ rsem'[openR'[q]] = 0
            /\ wsem'[openR'[q]] = 0
            /\ ~WriterHasTurn(openR[q])'
            /\ openM'[q] = openR'[q]
            /\ \A p \in Reader :
                 ReaderHasTurn(p)' /\ openR'[p] = openR'[q] => p = q
      BY <1>t, <1>r, <2>w, <3>1, <3>4, <3>5
         DEF TurnInv, OneTurn, WriterHasTurn
    <3> QED BY <3>6, <3>7, <3>8 DEF TurnInv, OneTurn, WriterHasTurn
  <2> QED BY <1>2, <2>1, <2>2, <2>3 DEF ReaderGoesOn
<1>3. CASE Crash \/ UNCHANGED vars
  <2>1. /\ \A v \in Writer : wpc'[v] = wpc[v] \/ wpc'[v] = "crashed"
        /\ \A q \in Reader : rpc'[q] = rpc[q] \/ rpc'[q] = "crashed"
        /\ UNCHANGED <<wsem, rsem, openW, openR, openM, closed>>
    BY <1>t, <1>3 DEF Crash, vars, TypeOK
  <2>2. /\ \A v \in Writer : WriterHasTurn(v)' => WriterHasTurn(v)
        /\ \A q \in Reader : ReaderHasTurn(q)' => ReaderHasTurn(q)
        /\ \A v \in Writer : wpc'[v] \in Early => wpc[v] \in Early
        /\ \A v \in Writer : wpc'[v] = "writer_sem" => wpc[v] = "writer_sem"
    BY <2>1 DEF WriterHasTurn, ReaderHasTurn
  <2> QED BY <1>t, <1>r, <2>1, <2>2 DEF TurnInv, OneTurn
<1> QED BY <1>1, <1>2, <1>3 DEF Next

-----------------------------------------------------------------------------
(* The lines.                                                              *)

\* What the turn means for the reader that has it.
LEMMA ReaderTurn ==
  ASSUME IInv, NEW r \in Reader, ReaderHasTurn(r)
  PROVE  /\ openR[r] \in Writer /\ openM[r] = openR[r]
         /\ ~closed[openR[r]] /\ ~WriterHasTurn(openR[r])
         /\ wpc[openR[r]] \notin Early
         /\ wsem[openR[r]] = 0 /\ rsem[openR[r]] = 0
         /\ openW[r] = openR[r] \/ closed[openW[r]]
         /\ openW[r] \in Writer
         /\ \A q \in Reader :
              ReaderHasTurn(q) /\ openR[q] = openR[r] => q = r
<1>1. TypeOK /\ OpenedInv /\ TurnInv
  BY DEF IInv
<1>2. Attached(r) /\ openR[r] \in Writer /\ openW[r] \in Writer
  BY <1>1 DEF Attached, ReaderHasTurn, OpenedInv, TypeOK
<1> QED BY <1>1, <1>2 DEF TurnInv, OneTurn, OpenedInv

LEMMA ChannelStep == ASSUME IInv, [Next]_vars PROVE ChannelInv'
<1> USE DEF names, opened, history, WGoto, RGoto, Early
<1>t. TypeOK /\ NamesInv /\ TurnInv /\ ChannelInv
  BY DEF IInv
<1>r. \A r \in Reader : rpc[r] \in {"read", "post", "post_end"} =>
        openR[r] \in Writer /\ ReaderHasTurn(r)
  BY ReaderTurn DEF ReaderHasTurn
<1>1. ASSUME NEW w \in Writer, PutLine(w) \/ PutEnd(w)
      PROVE  ChannelInv'
  <2>1. /\ wpc[w] = "input" /\ wpc'[w] \in {"post", "post_end"}
        /\ \A v \in Writer : v # w => /\ wpc'[v] = wpc[v]
                                      /\ shmem'[v] = shmem[v]
                                      /\ sent'[v] = sent[v]
        /\ UNCHANGED <<rpc, wsem, rsem, openW, openR, openM, got, closed>>
    <3>1. CASE PutLine(w)
      <4>1. PICK l \in Line :
              /\ shmem' = [shmem EXCEPT ![w] = AsString(l)]
              /\ sent' = IF l \in Blank THEN sent
                                        ELSE [sent EXCEPT ![w] = Append(@, l)]
        BY <3>1 DEF PutLine
      <4>2. \A v \in Writer : v # w => /\ shmem'[v] = shmem[v]
                                       /\ sent'[v] = sent[v]
        BY <1>t, <4>1 DEF TypeOK
      <4> QED BY <1>t, <3>1, <4>2 DEF PutLine, TypeOK
    <3>2. CASE PutEnd(w)
      BY <1>t, <3>2 DEF PutEnd, TypeOK
    <3> QED BY <1>1, <3>1, <3>2
  <2>2. /\ WriterHasTurn(w) /\ wsem[w] = 0 /\ rsem[w] = 0 /\ ~closed[w]
        /\ Drained(w)
        /\ \A r \in Reader : ReaderHasTurn(r) => openR[r] # w
    <3>1. WriterHasTurn(w)
      BY <2>1 DEF WriterHasTurn
    <3>2. /\ wsem[w] = 0 /\ rsem[w] = 0
          /\ \A r \in Reader : ReaderHasTurn(r) => openR[r] # w
      BY <1>t, <3>1 DEF TurnInv, OneTurn
    <3>3. ~closed[w]
      BY <1>t, <2>1 DEF NamesInv, Ended
    <3>4. Drained(w)
      BY <1>t, <2>1 DEF ChannelInv
    <3> QED BY <3>1, <3>2, <3>3, <3>4
  <2>3. /\ wpc'[w] = "post" => Loaded(w)'
        /\ wpc'[w] = "post_end" => Drained(w)' /\ shmem'[w] = Empty
    <3>1. CASE PutEnd(w)
      BY <1>t, <2>2, <3>1 DEF PutEnd, Drained, TypeOK
    <3>2. CASE PutLine(w)
      <4>1. PICK l \in Line :
              /\ shmem' = [shmem EXCEPT ![w] = AsString(l)]
              /\ sent' = IF l \in Blank THEN sent
                                        ELSE [sent EXCEPT ![w] = Append(@, l)]
        BY <3>2 DEF PutLine
      <4>2. CASE l \in Blank
        BY <1>t, <2>2, <3>2, <4>1, <4>2
           DEF PutLine, AsString, Loaded, Drained, TypeOK
      <4>3. CASE l \notin Blank
        <5>1. l # Empty /\ shmem'[w] = l /\ sent'[w] = Append(sent[w], l)
          BY <1>t, <4>1, <4>3, ShmXfrAssumption DEF AsString, TypeOK
        <5> QED BY <1>t, <2>1, <2>2, <3>2, <5>1
                DEF PutLine, Loaded, Drained, TypeOK
      <4> QED BY <4>2, <4>3
    <3> QED BY <1>1, <3>1, <3>2
  <2>4. \A v \in Writer : v # w => /\ Drained(v)' <=> Drained(v)
                                   /\ Loaded(v)' <=> Loaded(v)
    BY <2>1 DEF Drained, Loaded
  <2>5. \A v \in Writer :
          /\ \/ wsem'[v] > 0
             \/ closed'[v]
             \/ wpc'[v] \in Early \cup {"input", "post_end"}
             => Drained(v)'
          /\ wpc'[v] = "post_end" => shmem'[v] = Empty
          /\ wpc'[v] = "post" \/ rsem'[v] > 0 => Loaded(v)'
    BY <1>t, <2>1, <2>2, <2>3, <2>4 DEF ChannelInv
  <2>6. \A r \in Reader :
          /\ rpc'[r] = "read" => Loaded(openR[r])'
          /\ rpc'[r] \in {"post", "post_end"} => Drained(openR[r])'
    <3>1. \A r \in Reader : rpc[r] \in {"read", "post", "post_end"} =>
            openR[r] \in Writer /\ openR[r] # w
      BY <1>r, <2>2
    <3>2. \A r \in Reader : rpc[r] \in {"read", "post", "post_end"} =>
            /\ Drained(openR[r])' <=> Drained(openR[r])
            /\ Loaded(openR[r])' <=> Loaded(openR[r])
      BY <2>1, <3>1 DEF Drained, Loaded
    <3> QED BY <1>t, <2>1, <3>2 DEF ChannelInv
  <2> QED BY <2>5, <2>6 DEF ChannelInv
<1>2. ASSUME NEW w \in Writer,
             CreateWriterSem(w) \/ WriterGoesOn(w),
             ~PutLine(w), ~PutEnd(w)
      PROVE  ChannelInv'
  <2>1. /\ UNCHANGED <<rpc, shmem, sent, got, openR>>
        /\ \A v \in Writer : v # w => /\ wpc'[v] = wpc[v]
                                      /\ wsem'[v] = wsem[v]
                                      /\ rsem'[v] = rsem[v]
                                      /\ closed'[v] = closed[v]
    BY <1>2, <1>t
       DEF WriterGoesOn, CreateWriterSem, CreateReaderSem, CreateShm,
           WaitWriter, PostReader, FinalWait, UnlinkShm, UnlinkWriterSem,
           UnlinkReaderSem, TypeOK
  <2>2. /\ \A v : Drained(v)' <=> Drained(v)
        /\ \A v : Loaded(v)' <=> Loaded(v)
    BY <2>1 DEF Drained, Loaded
  <2>s. wsem[w] \in Nat /\ rsem[w] \in 0..1
    BY <1>t DEF TypeOK
  <2>3. /\ \/ wsem'[w] > 0
           \/ closed'[w]
           \/ wpc'[w] \in Early \cup {"input", "post_end"}
           => Drained(w)
        /\ wpc'[w] # "post_end"
        /\ wpc'[w] # "post"
        /\ rsem'[w] > 0 => Loaded(w)
    <3>1. CASE CreateWriterSem(w)
      BY <1>t, <2>s, <3>1 DEF CreateWriterSem, ChannelInv, TypeOK
    <3>2. CASE CreateReaderSem(w) \/ CreateShm(w)
      BY <1>t, <2>s, <3>2 DEF CreateReaderSem, CreateShm, ChannelInv, TypeOK
    <3>3. CASE WaitWriter(w) \/ FinalWait(w)
      <4>1. /\ wsem[w] > 0 /\ wpc'[w] \in {"input", "unlink_shm"}
            /\ UNCHANGED rsem
        BY <1>t, <3>3 DEF WaitWriter, FinalWait, TypeOK
      <4> QED BY <1>t, <4>1 DEF ChannelInv
    <3>4. CASE PostReader(w)
      <4>1. /\ wpc[w] \in {"post", "post_end"}
            /\ wpc'[w] \in {"wait", "final"}
            /\ UNCHANGED <<wsem, closed>>
        BY <1>t, <3>4 DEF PostReader, TypeOK
      <4>2. Loaded(w)
        BY <1>t, <4>1 DEF ChannelInv, Loaded
      <4> QED BY <1>t, <4>1, <4>2 DEF ChannelInv
    <3>5. CASE UnlinkShm(w) \/ UnlinkWriterSem(w) \/ UnlinkReaderSem(w)
      <4>1. /\ wpc'[w] \in {"unlink_writer", "unlink_reader", "done", "failed"}
            /\ UNCHANGED <<wsem, rsem, closed>>
        BY <1>t, <3>5 DEF UnlinkShm, UnlinkWriterSem, UnlinkReaderSem, TypeOK
      <4> QED BY <1>t, <4>1 DEF ChannelInv
    <3> QED BY <1>2, <3>1, <3>2, <3>3, <3>4, <3>5 DEF WriterGoesOn
  <2>4. \A v \in Writer :
          /\ \/ wsem'[v] > 0
             \/ closed'[v]
             \/ wpc'[v] \in Early \cup {"input", "post_end"}
             => Drained(v)
          /\ wpc'[v] = "post_end" => shmem'[v] = Empty
          /\ wpc'[v] = "post" \/ rsem'[v] > 0 => Loaded(v)
    BY <1>t, <2>1, <2>3 DEF ChannelInv
  <2>5. \A r \in Reader :
          /\ rpc'[r] = "read" => Loaded(openR'[r])
          /\ rpc'[r] \in {"post", "post_end"} => Drained(openR'[r])
    BY <1>t, <2>1 DEF ChannelInv
  <2>6. \A r \in Reader : /\ Loaded(openR[r])' <=> Loaded(openR'[r])
                          /\ Drained(openR[r])' <=> Drained(openR'[r])
    BY <2>1 DEF Drained, Loaded
  <2> QED BY <2>2, <2>4, <2>5, <2>6 DEF ChannelInv
<1>3. ASSUME NEW r \in Reader, OpenWriterSem(r) \/ ReaderGoesOn(r), ~Read(r)
      PROVE  ChannelInv'
  <2>1. /\ UNCHANGED <<wpc, shmem, sent, got, closed>>
        /\ \A q \in Reader : q # r => rpc'[q] = rpc[q] /\ openR'[q] = openR[q]
    BY <1>3, <1>t
       DEF ReaderGoesOn, OpenWriterSem, OpenReaderSem, OpenShm, WaitReader,
           PostWriter, TypeOK
  <2>2. \A v : (Drained(v)' <=> Drained(v)) /\ (Loaded(v)' <=> Loaded(v))
    BY <2>1 DEF Drained, Loaded
  <2>3. /\ \A v \in Writer : wsem'[v] > 0 => wsem[v] > 0 \/ Drained(v)
        /\ \A v \in Writer : rsem'[v] > 0 => rsem[v] > 0
        /\ rpc'[r] = "read" => Loaded(openR[r])
        /\ rpc'[r] \notin {"post", "post_end"}
        /\ rpc'[r] = "read" => UNCHANGED openR
    <3>1. CASE OpenWriterSem(r) \/ OpenReaderSem(r) \/ OpenShm(r)
      BY <1>t, <3>1 DEF OpenWriterSem, OpenReaderSem, OpenShm, TypeOK
    <3>2. CASE WaitReader(r)
      <4>1. /\ openR[r] \in Writer /\ rsem[openR[r]] > 0
            /\ \A v \in Writer : v # openR[r] => rsem'[v] = rsem[v]
            /\ UNCHANGED <<wsem, openR>> /\ rpc'[r] = "read"
        BY <1>t, <3>2 DEF WaitReader, TypeOK, IInv, OpenedInv, Attached
      <4> QED BY <1>t, <4>1 DEF ChannelInv
    <3>3. CASE PostWriter(r)
      <4>1. /\ ReaderHasTurn(r) /\ rpc[r] \in {"post", "post_end"}
            /\ rpc'[r] \in {"wait", "done"}
            /\ \A v \in Writer : v # openW[r] => wsem'[v] = wsem[v]
            /\ UNCHANGED rsem
        BY <1>t, <3>3 DEF PostWriter, ReaderHasTurn, TypeOK
      <4>2. Drained(openW[r])
        BY <1>t, <4>1, ReaderTurn DEF ChannelInv
      <4> QED BY <4>1, <4>2
    <3> QED BY <1>3, <3>1, <3>2, <3>3 DEF ReaderGoesOn
  <2>4. \A v \in Writer :
          /\ \/ wsem'[v] > 0
             \/ closed'[v]
             \/ wpc'[v] \in Early \cup {"input", "post_end"}
             => Drained(v)
          /\ wpc'[v] = "post_end" => shmem'[v] = Empty
          /\ wpc'[v] = "post" \/ rsem'[v] > 0 => Loaded(v)
    BY <1>t, <2>1, <2>3 DEF ChannelInv
  <2>5. \A q \in Reader :
          /\ rpc'[q] = "read" => Loaded(openR'[q])
          /\ rpc'[q] \in {"post", "post_end"} => Drained(openR'[q])
    BY <1>t, <2>1, <2>3 DEF ChannelInv
  <2>6. \A q \in Reader : /\ Loaded(openR[q])' <=> Loaded(openR'[q])
                          /\ Drained(openR[q])' <=> Drained(openR'[q])
    BY <2>1 DEF Drained, Loaded
  <2> QED BY <2>2, <2>4, <2>5, <2>6 DEF ChannelInv
<1>4. ASSUME NEW r \in Reader, Read(r)
      PROVE  ChannelInv'
  <2>w. PICK w \in Writer : w = openR[r]
    BY <1>4, <1>r DEF Read
  <2>1. /\ ReaderHasTurn(r) /\ rpc[r] = "read"
        /\ openM[r] = w /\ wsem[w] = 0 /\ rsem[w] = 0 /\ ~closed[w]
        /\ ~WriterHasTurn(w) /\ wpc[w] \notin Early
        /\ \A q \in Reader : ReaderHasTurn(q) /\ openR[q] = w => q = r
    <3>1. rpc[r] = "read" /\ ReaderHasTurn(r)
      BY <1>4 DEF Read, ReaderHasTurn
    <3> QED BY <2>w, <3>1, ReaderTurn
  <2>2. /\ UNCHANGED <<wpc, wsem, rsem, shmem, sent, openR, closed>>
        /\ \A q \in Reader : q # r => rpc'[q] = rpc[q]
        /\ rpc'[r] \in {"post", "post_end"}
    BY <1>4, <1>t DEF Read, TypeOK
  <2>3. got'[w] = sent[w] /\ \A v \in Writer : v # w => got'[v] = got[v]
    <3>1. Loaded(w) /\ got[w] \in Seq(Text)
      BY <1>t, <2>w, <2>1 DEF ChannelInv, TypeOK
    <3>2. CASE shmem[w] = Empty
      BY <1>4, <2>1, <3>1, <3>2 DEF Read, Loaded, Drained
    <3>3. CASE shmem[w] # Empty
      BY <1>4, <1>t, <2>1, <3>1, <3>3 DEF Read, Loaded, TypeOK
    <3> QED BY <3>2, <3>3
  <2>4. /\ Drained(w)'
        /\ \A v \in Writer : v # w => /\ Drained(v)' <=> Drained(v)
                                      /\ Loaded(v)' <=> Loaded(v)
    BY <2>2, <2>3 DEF Drained, Loaded
  <2>5. \A v \in Writer :
          /\ \/ wsem'[v] > 0
             \/ closed'[v]
             \/ wpc'[v] \in Early \cup {"input", "post_end"}
             => Drained(v)'
          /\ wpc'[v] = "post_end" => shmem'[v] = Empty
          /\ wpc'[v] = "post" \/ rsem'[v] > 0 => Loaded(v)'
    BY <1>t, <2>1, <2>2, <2>4 DEF ChannelInv, WriterHasTurn
  <2>6. \A q \in Reader :
          /\ rpc'[q] = "read" => Loaded(openR[q])'
          /\ rpc'[q] \in {"post", "post_end"} => Drained(openR[q])'
    <3> SUFFICES ASSUME NEW q \in Reader,
                        rpc'[q] \in {"read", "post", "post_end"}
                 PROVE  /\ rpc'[q] = "read" => Loaded(openR[q])'
                        /\ rpc'[q] \in {"post", "post_end"}
                             => Drained(openR[q])'
      OBVIOUS
    <3>1. CASE q = r
      BY <2>2, <2>3, <2>w, <3>1 DEF Drained
    <3>2. CASE q # r
      <4>1. openR[q] \in Writer /\ openR[q] # w
        BY <1>r, <2>1, <2>2, <3>2
      <4>2. /\ Drained(openR[q])' <=> Drained(openR[q])
            /\ Loaded(openR[q])' <=> Loaded(openR[q])
        BY <2>2, <2>3, <4>1 DEF Drained, Loaded
      <4> QED BY <1>t, <2>2, <3>2, <4>2 DEF ChannelInv
    <3> QED BY <3>1, <3>2
  <2> QED BY <2>5, <2>6 DEF ChannelInv
<1>5. CASE Crash \/ UNCHANGED vars
  <2>1. /\ \A v \in Writer : wpc'[v] = wpc[v] \/ wpc'[v] = "crashed"
        /\ \A q \in Reader : rpc'[q] = rpc[q] \/ rpc'[q] = "crashed"
        /\ UNCHANGED <<wsem, rsem, shmem, sent, got, openR, closed>>
    BY <1>t, <1>5 DEF Crash, vars, TypeOK
  <2> QED BY <1>t, <2>1 DEF ChannelInv, Drained, Loaded
<1> QED BY <1>1, <1>2, <1>3, <1>4, <1>5 DEF Next

-----------------------------------------------------------------------------
(* The theorems.                                                           *)

\* The conjunction of the invariants is inductive.
THEOREM InductiveInvariant == Spec => []IInv
<1>1. Init => IInv
  BY InitInv
<1>2. IInv /\ [Next]_vars => IInv'
  BY TypeStep, NamesStep, OpenedStep, TurnStep, ChannelStep DEF IInv
<1> QED BY <1>1, <1>2, PTL DEF Spec

\* Type correctness, whatever the numbers of writers and readers.
THEOREM TypeCorrect == Spec => []TypeOK
<1>1. IInv => TypeOK
  BY DEF IInv
<1> QED BY <1>1, InductiveInvariant, PTL

\* shm_xfr_writer.c:5: the turn on a segment is at one place at a time.
THEOREM Turns == Spec => []OneTurn
<1>1. IInv => OneTurn
  BY DEF IInv, TurnInv
<1> QED BY <1>1, InductiveInvariant, PTL

\* shm_xfr_writer.c:65-85: writers that end by themselves leave at most the name
\* of a writer semaphore, and that only if its writer met another's names.
THEOREM OnlyCollisionsLeak == Spec => []OnlyACollisionLeaks
<1>1. Init => LeftInv
  BY ShmXfrAssumption DEF Init, LeftInv
<1>2. IInv /\ LeftInv /\ [Next]_vars => LeftInv'
  BY LeftStep
<1>3. IInv /\ LeftInv => OnlyACollisionLeaks
  <2> SUFFICES ASSUME IInv, LeftInv,
                      \A w \in Writer : wpc[w] \in {"writer_sem", "done", "failed"}
               PROVE  /\ rname = None
                      /\ mname = None
                      /\ wname # None => wpc[wname] = "failed"
    BY DEF OnlyACollisionLeaks
  <2>1. /\ wname \in Writer \cup {None}
        /\ rname \in Writer \cup {None}
        /\ mname \in Writer \cup {None}
    BY DEF IInv, TypeOK
  <2>2. rname = None
    BY <2>1 DEF IInv, NamesInv, LeftInv
  <2>3. mname = None
    BY <2>1, <2>2, ShmXfrAssumption DEF IInv, NamesInv
  <2>4. wname # None => wpc[wname] = "failed"
    BY <2>1 DEF LeftInv
  <2> QED BY <2>2, <2>3, <2>4
<1> QED BY <1>1, <1>2, <1>3, InductiveInvariant, PTL DEF Spec

\* shm_xfr_writer.c:49-63, shm_xfr_reader.c:43-53: the program implements
\* LineChannel: a text put into the segment is a Put, a text printed a Get,
\* the writer's last turn the Close, and every other step changes nothing.
THEOREM Refinement == Spec => ImplementsLineChannel
<1>1. Init => LC!ChannelInit
  BY DEF Init, LC!ChannelInit
<1>2. IInv /\ [Next]_vars => [LC!ChannelNext]_<<sent, got, closed>>
  <2> SUFFICES ASSUME IInv, [Next]_vars
               PROVE  \/ LC!ChannelNext
                      \/ UNCHANGED <<sent, got, closed>>
    OBVIOUS
  <2> USE DEF names, opened, history, WGoto, RGoto
  <2>t. TypeOK /\ NamesInv /\ TurnInv /\ ChannelInv
    BY DEF IInv
  <2>1. ASSUME NEW w \in Writer, PutLine(w)
        PROVE  LC!ChannelNext \/ UNCHANGED <<sent, got, closed>>
    <3>1. PICK l \in Line :
            sent' = IF l \in Blank THEN sent
                                   ELSE [sent EXCEPT ![w] = Append(@, l)]
      BY <2>1 DEF PutLine
    <3>2. Drained(w) /\ ~closed[w] /\ UNCHANGED <<got, closed>>
      BY <2>1, <2>t DEF PutLine, ChannelInv, NamesInv, Ended
    <3>3. CASE l \in Blank
      BY <3>1, <3>2, <3>3
    <3>4. CASE l \notin Blank
      <4>1. l \in Text /\ LC!Put(w, l)
        BY <3>1, <3>2, <3>4 DEF Text, LC!Put, Drained
      <4> QED BY <4>1 DEF LC!ChannelNext
    <3> QED BY <3>3, <3>4
  <2>2. ASSUME NEW w \in Writer, FinalWait(w)
        PROVE  LC!ChannelNext
    <3>1. Drained(w)
      BY <2>2, <2>t DEF FinalWait, ChannelInv
    <3>2. LC!Close(w)
      BY <2>2, <3>1 DEF FinalWait, LC!Close, Drained
    <3> QED BY <3>2 DEF LC!ChannelNext
  <2>3. ASSUME NEW r \in Reader, Read(r)
        PROVE  LC!ChannelNext \/ UNCHANGED <<sent, got, closed>>
    <3> DEFINE w == openR[r]
    <3>1. w \in Writer /\ openM[r] = w /\ Loaded(w)
      <4>1. rpc[r] = "read" /\ ReaderHasTurn(r)
        BY <2>3 DEF Read, ReaderHasTurn
      <4> QED BY <2>t, <4>1, ReaderTurn DEF ChannelInv
    <3> HIDE DEF w
    <3>2. CASE shmem[w] = Empty
      BY <2>3, <3>1, <3>2 DEF Read
    <3>3. CASE shmem[w] # Empty
      <4>1. shmem[w] \in Text /\ sent[w] = Append(got[w], shmem[w])
        BY <2>t, <3>1, <3>3 DEF Loaded, TypeOK
      <4>2. LC!Get(w, shmem[w])
        BY <2>3, <3>1, <3>3, <4>1 DEF Read, LC!Get
      <4> QED BY <3>1, <4>1, <4>2 DEF LC!ChannelNext
    <3> QED BY <3>2, <3>3
  <2>4. ASSUME NEW w \in Writer, CreateWriterSem(w) \/ WriterGoesOn(w),
               ~PutLine(w), ~FinalWait(w)
        PROVE  UNCHANGED <<sent, got, closed>>
    BY <2>4 DEF WriterGoesOn, CreateWriterSem, CreateReaderSem, CreateShm,
                WaitWriter, PutEnd, PostReader, UnlinkShm, UnlinkWriterSem,
                UnlinkReaderSem
  <2>5. ASSUME NEW r \in Reader, OpenWriterSem(r) \/ ReaderGoesOn(r), ~Read(r)
        PROVE  UNCHANGED <<sent, got, closed>>
    BY <2>5 DEF ReaderGoesOn, OpenWriterSem, OpenReaderSem, OpenShm,
                WaitReader, PostWriter
  <2>6. CASE Crash \/ UNCHANGED vars
    BY <2>6 DEF Crash, vars
  <2> QED BY <2>1, <2>2, <2>3, <2>4, <2>5, <2>6 DEF Next
<1> QED BY <1>1, <1>2, InductiveInvariant, PTL
        DEF Spec, ImplementsLineChannel, LC!ChannelSpec

-----------------------------------------------------------------------------
(* ProducerConsumer.                                                       *)

\* The outer loop is running.
Sending == ppc \in {"write", "writing", "send"}

LoopInv == /\ Sending => i < DataAmount
           /\ ppc = "send" => buf[Slot(i)] = i
           /\ \A c \in Consumer :
                pc[c] \notin {"start", "ready"} => hand[c] # NoDatum

\* An increment under way has read the counter's present value.
CountInv == /\ \A c \in Consumer : pc[c] = "store" => reg[c] = cnt
            /\ IsFiniteSet(counted)
            /\ CountIsExact

\* Consumer c has not been sent datum i.
NotYet(c) == ppc \in {"write", "writing"} \/ (ppc = "send" /\ j <= c)

\* v is older than everything consumer c can still be sent.
Old(c, v) == v <= i /\ (NotYet(c) => v < i)

OrderInv ==
  /\ InOrder
  /\ \A c \in Consumer :
       /\ pending[c] # NoDatum => Old(c, pending[c])
       /\ hand[c] # NoDatum => Old(c, hand[c])
       /\ \A v \in Datum : <<c, v>> \in counted => Old(c, v)

RingInv == /\ RingTypeOK
           /\ LoopInv
           /\ MutualExclusion
           /\ CountInv
           /\ OrderInv
           /\ AnnouncedUntilLapped

-----------------------------------------------------------------------------
(* Arithmetic of the ring.                                                 *)

LEMMA Constants == /\ DataAmount \in Nat /\ DataAmount > 0
                   /\ ConsumerAmount \in Nat /\ ConsumerAmount > 0
                   /\ BufferRow \in Nat /\ BufferRow > 0
                   /\ NoDatum \notin Int
                   /\ Datum \subseteq Nat
                   /\ Consumer \subseteq Nat
                   /\ 0 \in Consumer
BY ProducerConsumerAssumption DEF Datum, Consumer

LEMMA SlotType == ASSUME NEW v \in Nat PROVE Slot(v) \in Row
BY Constants DEF Slot, Row

\* Two numbers in the same slot are a lap apart.
LEMMA Lap == ASSUME NEW v \in Nat, NEW w \in Nat, v < w, Slot(v) = Slot(w)
             PROVE  w >= v + BufferRow
<1> DEFINE q == w \div BufferRow
           p == v \div BufferRow
<1>0. BufferRow \in Nat \ {0}
  BY Constants
<1>1. /\ w = BufferRow * q + Slot(w) /\ q \in Int
      /\ v = BufferRow * p + Slot(v) /\ p \in Int
      /\ Slot(v) \in Int
  BY <1>0 DEF Slot
<1> HIDE DEF q, p
<1>2. BufferRow * p < BufferRow * q
  BY <1>0, <1>1
<1>3. q >= p + 1
  BY <1>0, <1>1, <1>2
<1>4. BufferRow * q >= BufferRow * (p + 1)
  BY <1>0, <1>1, <1>3
<1>5. BufferRow * (p + 1) = BufferRow * p + BufferRow
  BY <1>0, <1>1
<1> QED BY <1>0, <1>1, <1>4, <1>5

-----------------------------------------------------------------------------
(* The initial state.                                                      *)

LEMMA InitRingInv == RingInit => RingInv
<1> SUFFICES ASSUME RingInit PROVE RingInv
  OBVIOUS
<1>1. RingTypeOK
  BY Constants DEF RingInit, RingTypeOK, ProducerPC, ConsumerPC, Row
<1>2. LoopInv /\ MutualExclusion
  BY Constants
     DEF RingInit, LoopInv, Sending, MutualExclusion, Holds, ProducerHolds
<1>3. CountInv
  BY FS_EmptySet DEF RingInit, CountInv, CountIsExact
<1>4. OrderInv /\ AnnouncedUntilLapped
  BY DEF RingInit, OrderInv, InOrder, AnnouncedUntilLapped
<1> QED BY <1>1, <1>2, <1>3, <1>4 DEF RingInv

-----------------------------------------------------------------------------
(* Every step keeps the types.                                             *)

LEMMA RingTypeStep == ASSUME RingInv, [RingNext]_ringVars PROVE RingTypeOK'
<1> USE Constants DEF producer, consumer, Step
<1>t. RingTypeOK /\ LoopInv /\ MutualExclusion
  BY DEF RingInv
<1>1. CASE ProducerNext
  <2>1. i \in Nat /\ j \in Nat /\ (Sending => i \in Datum /\ Slot(i) \in Row)
    BY <1>t, SlotType DEF RingTypeOK, LoopInv, Datum, Consumer
  <2>2. CASE WriteBegin
    BY <1>t, <2>2 DEF WriteBegin, RingTypeOK, ProducerPC
  <2>3. CASE WriteEnd
    BY <1>t, <2>1, <2>3 DEF WriteEnd, RingTypeOK, ProducerPC, Sending
  <2>4. CASE Send
    <3>1. i \in Datum /\ i < DataAmount
      BY <1>t, <2>1, <2>4 DEF Send, Sending, LoopInv
    <3>2. pending' \in [Consumer -> Datum \cup {NoDatum}]
      BY <1>t, <3>1, <2>4 DEF Send, Signal, RingTypeOK
    <3>3. j' \in Consumer /\ i' \in 0 .. DataAmount /\ ppc' \in ProducerPC
      BY <1>t, <3>1, <2>4 DEF Send, NextDatum, RingTypeOK, ProducerPC, Consumer
    <3> QED BY <1>t, <2>4, <3>2, <3>3 DEF Send, RingTypeOK
  <2>5. CASE Kill
    <3>1. fate' \in [Consumer -> {"alive", "doomed", "dead"}]
      BY <1>t, <2>5 DEF Kill, RingTypeOK
    <3>2. j' \in Consumer /\ ppc' \in ProducerPC
      BY <1>t, <2>5 DEF Kill, RingTypeOK, ProducerPC, Consumer
    <3> QED BY <1>t, <2>5, <3>1, <3>2 DEF Kill, RingTypeOK
  <2>6. CASE Lock
    BY <1>t, <2>6 DEF Lock, RingTypeOK, ProducerPC
  <2>7. CASE Report
    BY <1>t, <2>7 DEF Report, RingTypeOK, ProducerPC
  <2>8. CASE Unlock
    BY <1>t, <2>8
       DEF Unlock, RingTypeOK, ProducerPC, MutualExclusion, ProducerHolds
  <2> QED BY <1>1, <2>2, <2>3, <2>4, <2>5, <2>6, <2>7, <2>8 DEF ProducerNext
<1>2. ASSUME NEW c \in Consumer, ConsumerNext(c) PROVE RingTypeOK'
  <2> USE DEF ConsumerPC
  <2>1. CASE Install(c)
    BY <1>t, <2>1 DEF Install, RingTypeOK
  <2>2. CASE Deliver(c)
    BY <1>t, <2>2 DEF Deliver, RingTypeOK
  <2>3. CASE DieBySignal(c) \/ DieByKill(c)
    BY <1>t, <2>3 DEF DieBySignal, DieByKill, RingTypeOK
  <2>4. CASE Compare(c)
    BY <1>t, <2>4 DEF Compare, RingTypeOK
  <2>5. CASE Wait(c)
    BY <1>t, <2>5 DEF Wait, RingTypeOK
  <2>6. CASE Load(c)
    BY <1>t, <2>6 DEF Load, RingTypeOK
  <2>7. CASE Store(c)
    <3>1. hand[c] \in Datum /\ reg[c] + 1 \in Nat
      BY <1>t, <2>7 DEF Store, RingTypeOK, LoopInv
    <3> QED BY <1>t, <2>7, <3>1 DEF Store, RingTypeOK
  <2>8. CASE Post(c)
    BY <1>t, <2>8 DEF Post, RingTypeOK, MutualExclusion, Holds
  <2> QED BY <1>2, <2>1, <2>2, <2>3, <2>4, <2>5, <2>6, <2>7, <2>8
          DEF ConsumerNext, Handler
<1>3. CASE UNCHANGED ringVars
  BY <1>t, <1>3 DEF ringVars, RingTypeOK
<1> QED BY <1>1, <1>2, <1>3 DEF RingNext

-----------------------------------------------------------------------------
(* The loop, the slot of the datum being sent, the hand of a handler.      *)

LEMMA LoopStep == ASSUME RingInv, [RingNext]_ringVars PROVE LoopInv'
<1> USE Constants DEF producer, consumer, Step, Sending
<1>t. RingTypeOK /\ LoopInv
  BY DEF RingInv
<1>1. CASE ProducerNext
  <2>1. i \in Nat /\ (Sending => Slot(i) \in Row)
    BY <1>t, SlotType DEF RingTypeOK
  <2>2. CASE WriteBegin
    BY <1>t, <2>2 DEF WriteBegin, LoopInv
  <2>3. CASE WriteEnd
    BY <1>t, <2>1, <2>3 DEF WriteEnd, LoopInv, RingTypeOK, Slot
  <2>4. CASE Send
    BY <1>t, <2>1, <2>4 DEF Send, NextDatum, LoopInv, Slot
  <2>5. CASE Kill \/ Lock \/ Report \/ Unlock
    BY <1>t, <2>5 DEF Kill, Lock, Report, Unlock, LoopInv
  <2> QED BY <1>1, <2>2, <2>3, <2>4, <2>5 DEF ProducerNext
<1>2. ASSUME NEW c \in Consumer, ConsumerNext(c) PROVE LoopInv'
  <2>1. UNCHANGED <<ppc, i, buf>>
    BY <1>2 DEF ConsumerNext, Handler, Install, Deliver, DieBySignal,
                DieByKill, Compare, Wait, Load, Store, Post
  <2>2. \A d \in Consumer :
          pc'[d] \notin {"start", "ready"} => hand'[d] # NoDatum
    <3>1. CASE Deliver(c)
      BY <1>t, <3>1 DEF Deliver, LoopInv, RingTypeOK
    <3>2. CASE ~Deliver(c)
      BY <1>t, <1>2, <3>2
         DEF ConsumerNext, Handler, Install, DieBySignal, DieByKill,
             Compare, Wait, Load, Store, Post, LoopInv, RingTypeOK
    <3> QED BY <3>1, <3>2
  <2> QED BY <1>t, <2>1, <2>2 DEF LoopInv, Slot
<1>3. CASE UNCHANGED ringVars
  BY <1>t, <1>3 DEF ringVars, LoopInv, Slot
<1> QED BY <1>1, <1>2, <1>3 DEF RingNext

-----------------------------------------------------------------------------
(* The semaphore.                                                          *)

LEMMA MutexStep == ASSUME RingInv, [RingNext]_ringVars PROVE MutualExclusion'
<1> USE DEF producer, consumer, Step, Holds, ProducerHolds
<1>t. RingTypeOK /\ MutualExclusion
  BY DEF RingInv
<1>1. CASE ProducerNext
  <2>1. UNCHANGED pc
    BY <1>1 DEF ProducerNext, WriteBegin, WriteEnd, Send, Kill, Lock, Report,
                Unlock
  <2>2. CASE Lock
    BY <1>t, <2>1, <2>2 DEF Lock, MutualExclusion, RingTypeOK
  <2>3. CASE Unlock
    BY <1>t, <2>1, <2>3 DEF Unlock, MutualExclusion, RingTypeOK
  <2>4. CASE WriteBegin \/ WriteEnd \/ Send \/ Kill \/ Report
    BY <1>t, <2>1, <2>4
       DEF WriteBegin, WriteEnd, Send, NextDatum, Kill, Report,
           MutualExclusion
  <2> QED BY <1>1, <2>2, <2>3, <2>4 DEF ProducerNext
<1>2. ASSUME NEW c \in Consumer, ConsumerNext(c) PROVE MutualExclusion'
  <2>1. CASE Wait(c)
    BY <1>t, <2>1 DEF Wait, MutualExclusion, RingTypeOK
  <2>2. CASE Post(c)
    BY <1>t, <2>2 DEF Post, MutualExclusion, RingTypeOK
  <2>3. CASE Load(c) \/ Store(c)
    BY <1>t, <2>3 DEF Load, Store, MutualExclusion, RingTypeOK
  <2>4. CASE Compare(c)
    BY <1>t, <2>4 DEF Compare, MutualExclusion, RingTypeOK
  <2>5. CASE Install(c) \/ Deliver(c) \/ DieBySignal(c) \/ DieByKill(c)
    BY <1>t, <2>5
       DEF Install, Deliver, DieBySignal, DieByKill, MutualExclusion, RingTypeOK
  <2> QED BY <1>2, <2>1, <2>2, <2>3, <2>4, <2>5 DEF ConsumerNext, Handler
<1>3. CASE UNCHANGED ringVars
  BY <1>t, <1>3 DEF ringVars, MutualExclusion
<1> QED BY <1>1, <1>2, <1>3 DEF RingNext

-----------------------------------------------------------------------------
(* The counter.                                                            *)

LEMMA CountStep == ASSUME RingInv, [RingNext]_ringVars PROVE CountInv'
<1> USE DEF producer, consumer, Step
<1>t. RingTypeOK /\ LoopInv /\ MutualExclusion /\ CountInv /\ InOrder
  BY DEF RingInv, OrderInv
<1>1. CASE ProducerNext \/ UNCHANGED ringVars
  <2>1. UNCHANGED <<pc, reg, cnt, counted>>
    BY <1>1 DEF ProducerNext, WriteBegin, WriteEnd, Send, Kill, Lock, Report,
                Unlock, ringVars
  <2> QED BY <1>t, <2>1 DEF CountInv, CountIsExact
<1>2. ASSUME NEW c \in Consumer, ConsumerNext(c) PROVE CountInv'
  <2>1. CASE Store(c)
    <3>1. hand[c] \in Datum /\ reg[c] = cnt
      BY <1>t, <2>1 DEF Store, RingTypeOK, LoopInv, CountInv
    <3>2. <<c, hand[c]>> \notin counted
      <4>1. <<c, hand[c]>> \in counted => hand[c] < hand[c]
        BY <1>t, <2>1, <3>1 DEF InOrder, Store
      <4>2. hand[c] \in Nat
        BY <3>1, Constants
      <4> QED BY <4>1, <4>2
    <3>3. /\ IsFiniteSet(counted')
          /\ Cardinality(counted') = Cardinality(counted) + 1
      BY <1>t, <2>1, <3>2, FS_AddElement DEF Store, CountInv
    <3>4. cnt' = Cardinality(counted')
      BY <1>t, <2>1, <3>1, <3>3 DEF Store, CountInv, CountIsExact
    <3>5. \A d \in Consumer : pc'[d] # "store"
      BY <1>t, <2>1 DEF Store, MutualExclusion, Holds, RingTypeOK
    <3> QED BY <3>3, <3>4, <3>5 DEF CountInv, CountIsExact
  <2>2. CASE Load(c)
    BY <1>t, <2>2 DEF Load, CountInv, CountIsExact, RingTypeOK
  <2>3. CASE ~Store(c) /\ ~Load(c)
    <3>1. UNCHANGED <<reg, cnt, counted>>
      BY <1>2, <2>3
         DEF ConsumerNext, Handler, Install, Deliver, DieBySignal, DieByKill,
             Compare, Wait, Post
    <3>2. \A d \in Consumer : pc'[d] = "store" => pc[d] = "store"
      BY <1>t, <1>2, <2>3
         DEF ConsumerNext, Handler, Install, Deliver, DieBySignal, DieByKill,
             Compare, Wait, Post, RingTypeOK
    <3> QED BY <1>t, <3>1, <3>2 DEF CountInv, CountIsExact
  <2> QED BY <2>1, <2>2, <2>3
<1> QED BY <1>1, <1>2 DEF RingNext

-----------------------------------------------------------------------------
(* The order of the data.                                                  *)

\* What the producer's loop does to the bound: nothing gets younger.
LEMMA OldStays ==
  ASSUME RingInv, ProducerNext, NEW c \in Consumer, NEW v \in Nat, Old(c, v)
  PROVE  Old(c, v)'
<1>t. i \in Nat /\ j \in Nat /\ c \in Nat
  BY Constants DEF RingInv, RingTypeOK
<1>1. CASE WriteBegin \/ WriteEnd \/ Kill \/ Lock \/ Report \/ Unlock
  BY <1>t, <1>1
     DEF WriteBegin, WriteEnd, Kill, Lock, Report, Unlock, Old, NotYet
<1>2. CASE Send
  BY <1>t, <1>2 DEF Send, NextDatum, Old, NotYet
<1> QED BY <1>1, <1>2 DEF ProducerNext

LEMMA OrderStep == ASSUME RingInv, [RingNext]_ringVars, RingTypeOK' PROVE OrderInv'
<1> USE DEF producer, consumer, Step
<1>t. RingTypeOK /\ LoopInv /\ OrderInv
  BY DEF RingInv
<1>n. /\ Datum \subseteq Nat /\ Datum \subseteq Int /\ NoDatum \notin Int
      /\ i \in Nat /\ j \in Nat
  BY <1>t, Constants DEF RingTypeOK
<1>1. CASE ProducerNext
  <2>1. UNCHANGED <<pc, hand, counted>>
    BY <1>1 DEF ProducerNext, WriteBegin, WriteEnd, Send, Kill, Lock, Report,
                Unlock
  <2>2. \A c \in Consumer : pending'[c] # NoDatum =>
          \/ pending'[c] = pending[c]
          \/ Send /\ c = j /\ pending[c] = NoDatum /\ pending'[c] = i
    BY <1>t, <1>1
       DEF ProducerNext, WriteBegin, WriteEnd, Send, Signal, Kill, Lock,
           Report, Unlock, RingTypeOK
  <2>3. ASSUME NEW c \in Consumer, Send, c = j,
               NEW v \in Nat, Old(c, v)
        PROVE  v < i
    BY <1>n, <2>3 DEF Old, NotYet, Send
  <2>4. ASSUME NEW c \in Consumer
        PROVE  /\ \A v \in Datum : <<c, v>> \in counted /\ pending'[c] # NoDatum
                    => v < pending'[c]
               /\ pending'[c] # NoDatum /\ hand[c] # NoDatum => hand[c] < pending'[c]
    <3>1. CASE pending'[c] = pending[c] \/ pending'[c] = NoDatum
      BY <1>t, <3>1 DEF OrderInv, InOrder
    <3>2. CASE Send /\ c = j /\ pending'[c] = i
      <4>1. \A v \in Datum : <<c, v>> \in counted => v < i
        BY <1>t, <1>n, <2>3, <3>2 DEF OrderInv
      <4>2. hand[c] # NoDatum => hand[c] \in Nat /\ Old(c, hand[c])
        BY <1>t, <1>n DEF OrderInv, RingTypeOK
      <4>3. hand[c] # NoDatum => hand[c] < i
        BY <2>3, <3>2, <4>2
      <4> QED BY <3>2, <4>1, <4>3
    <3> QED BY <2>2, <3>1, <3>2
  <2>10. InOrder'
    BY <1>t, <2>1, <2>4 DEF OrderInv, InOrder
  <2>5. ASSUME NEW c \in Consumer, pending'[c] # NoDatum
        PROVE  Old(c, pending[c])' \/ (pending'[c] # pending[c] /\ Send /\ c = j)
    <3>1. CASE pending'[c] = pending[c]
      <4>1. pending[c] \in Nat /\ Old(c, pending[c])
        BY <1>t, <1>n, <2>5, <3>1 DEF OrderInv, RingTypeOK
      <4>2. PICK v \in Nat : v = pending[c]
        BY <4>1
      <4>3. Old(c, v)'
        BY <1>1, <4>1, <4>2, OldStays
      <4> QED BY <3>1, <4>2, <4>3 DEF Old, NotYet
    <3> QED BY <2>2, <2>5, <3>1
  <2>6. ASSUME NEW c \in Consumer, Send, c = j
        PROVE  i \in Nat /\ i <= i' /\ (NotYet(c)' => i < i')
    BY <1>n, <2>6 DEF Send, NextDatum, NotYet
  <2>7. \A c \in Consumer : pending'[c] # NoDatum => Old(c, pending[c])'
    BY <2>2, <2>5, <2>6 DEF Old
  <2>8. ASSUME NEW c \in Consumer, hand'[c] # NoDatum
        PROVE  Old(c, hand[c])'
    <3>1. hand[c] \in Nat /\ Old(c, hand[c])
      BY <1>t, <1>n, <2>1, <2>8 DEF OrderInv, RingTypeOK
    <3>2. PICK v \in Nat : v = hand[c]
      BY <3>1
    <3>3. Old(c, v)'
      BY <1>1, <3>1, <3>2, OldStays
    <3> QED BY <2>1, <3>2, <3>3 DEF Old, NotYet
  <2>9. \A c \in Consumer : \A v \in Datum :
          <<c, v>> \in counted' => Old(c, v)'
    BY <1>t, <1>n, <1>1, <2>1, OldStays DEF OrderInv
  <2> QED BY <2>7, <2>8, <2>9, <2>10 DEF OrderInv
<1>2. ASSUME NEW c \in Consumer, ConsumerNext(c) PROVE OrderInv'
  <2>1. /\ UNCHANGED <<ppc, i, j>>
        /\ \A d \in Consumer : \A v : Old(d, v)' <=> Old(d, v)
    BY <1>2 DEF ConsumerNext, Handler, Install, Deliver, DieBySignal,
                DieByKill, Compare, Wait, Load, Store, Post, Old, NotYet
  <2>2. CASE Deliver(c)
    BY <1>t, <1>n, <2>1, <2>2 DEF Deliver, OrderInv, InOrder, RingTypeOK
  <2>3. CASE Store(c)
    BY <1>t, <1>n, <2>1, <2>3
       DEF Store, OrderInv, InOrder, RingTypeOK, LoopInv
  <2>4. CASE ~Deliver(c) /\ ~Store(c)
    <3>1. UNCHANGED <<pending, hand, counted>>
      BY <1>2, <2>4
         DEF ConsumerNext, Handler, Install, DieBySignal, DieByKill, Compare,
             Wait, Load, Post
    <3>2. \A d \in Consumer :
            pc'[d] \in {"compare", "wait", "load", "store"} =>
              pc[d] \in {"compare", "wait", "load", "store"}
      BY <1>t, <1>2, <2>4
         DEF ConsumerNext, Handler, Install, DieBySignal, DieByKill, Compare,
             Wait, Load, Post, RingTypeOK
    <3> QED BY <1>t, <2>1, <3>1, <3>2 DEF OrderInv, InOrder
  <2> QED BY <2>2, <2>3, <2>4
<1>3. CASE UNCHANGED ringVars
  BY <1>t, <1>3 DEF ringVars, OrderInv, InOrder, Old, NotYet
<1> QED BY <1>1, <1>2, <1>3 DEF RingNext

-----------------------------------------------------------------------------
(* The ring.                                                               *)

\* v is in its slot or overwritten.
There(v) == buf[Slot(v)] = v \/ i >= v + BufferRow

\* A datum older than the one being made stays until it is lapped.
LEMMA ThereStays ==
  ASSUME RingInv, ProducerNext, NEW v \in Nat, There(v),
         ppc \in {"write", "writing"} => v < i
  PROVE  There(v)'
<1>t. RingTypeOK /\ i \in Nat
  BY DEF RingInv, RingTypeOK
<1>v. /\ Slot(v) \in Row /\ Slot(i) \in Row
      /\ UNCHANGED Slot(v)
  BY <1>t, SlotType DEF Slot
<1>1. CASE WriteBegin \/ WriteEnd
  <2>1. CASE Slot(v) = Slot(i)
    BY <1>t, <1>1, <2>1, Lap, Constants DEF WriteBegin, WriteEnd, There
  <2>2. CASE Slot(v) # Slot(i)
    BY <1>t, <1>v, <1>1, <2>2 DEF WriteBegin, WriteEnd, There, RingTypeOK
  <2> QED BY <2>1, <2>2
<1>2. CASE Send
  BY <1>t, <1>v, <1>2, Constants DEF Send, NextDatum, There
<1>3. CASE Kill \/ Lock \/ Report \/ Unlock
  BY <1>v, <1>3 DEF Kill, Lock, Report, Unlock, There
<1> QED BY <1>1, <1>2, <1>3 DEF ProducerNext

LEMMA AnnouncedStep ==
  ASSUME RingInv, [RingNext]_ringVars PROVE AnnouncedUntilLapped'
<1> USE DEF producer, consumer, Step
<1>t. RingTypeOK /\ LoopInv /\ OrderInv /\ AnnouncedUntilLapped
  BY DEF RingInv
<1>n. Datum \subseteq Nat /\ NoDatum \notin Int /\ i \in Nat
  BY <1>t, Constants DEF RingTypeOK
<1>1. CASE ProducerNext
  <2>1. UNCHANGED <<pc, hand>>
    BY <1>1 DEF ProducerNext, WriteBegin, WriteEnd, Send, Kill, Lock, Report,
                Unlock
  <2>2. ASSUME NEW c \in Consumer, NEW v \in Datum, There(v), Old(c, v)
        PROVE  There(v)'
    <3>1. v \in Nat /\ (ppc \in {"write", "writing"} => v < i)
      BY <1>n, <2>2 DEF Old, NotYet
    <3> QED BY <1>1, <2>2, <3>1, ThereStays
  <2>3. \A c \in Consumer : pending'[c] # NoDatum =>
          pending'[c] = pending[c] \/ (Send /\ pending'[c] = i)
    BY <1>t, <1>1
       DEF ProducerNext, WriteBegin, WriteEnd, Send, Signal, Kill, Lock,
           Report, Unlock, RingTypeOK
  <2>4. Send => buf' = buf /\ i' >= i /\ i' \in Nat /\ buf[Slot(i)] = i
    BY <1>t, <1>n DEF Send, NextDatum, LoopInv
  <2>5. ASSUME NEW c \in Consumer, pending'[c] # NoDatum
        PROVE  buf'[Slot(pending'[c])] = pending'[c]
               \/ i' >= pending'[c] + BufferRow
    <3>1. CASE pending'[c] = pending[c]
      <4>1. PICK v \in Datum : v = pending[c]
        BY <1>t, <2>5, <3>1 DEF RingTypeOK
      <4>2. There(v) /\ Old(c, v)
        BY <1>t, <1>n, <4>1 DEF AnnouncedUntilLapped, There, OrderInv
      <4>3. There(v)'
        BY <2>2, <4>2
      <4> QED BY <3>1, <4>1, <4>3 DEF There, Slot
    <3>2. CASE Send /\ pending'[c] = i
      BY <2>4, <3>2
    <3> QED BY <2>3, <2>5, <3>1, <3>2
  <2>6. ASSUME NEW c \in Consumer, pc'[c] = "compare", hand'[c] # NoDatum
        PROVE  buf'[Slot(hand'[c])] = hand'[c] \/ i' >= hand'[c] + BufferRow
    <3>1. PICK v \in Datum : v = hand[c]
      BY <1>t, <2>1, <2>6 DEF RingTypeOK
    <3>2. There(v) /\ Old(c, v)
      BY <1>t, <1>n, <2>1, <2>6, <3>1
         DEF AnnouncedUntilLapped, There, OrderInv
    <3>3. There(v)'
      BY <2>2, <3>2
    <3> QED BY <2>1, <3>1, <3>3 DEF There, Slot
  <2> QED BY <2>5, <2>6 DEF AnnouncedUntilLapped, Slot
<1>2. ASSUME NEW c \in Consumer, ConsumerNext(c) PROVE AnnouncedUntilLapped'
  <2>1. UNCHANGED <<i, buf>>
    BY <1>2 DEF ConsumerNext, Handler, Install, Deliver, DieBySignal,
                DieByKill, Compare, Wait, Load, Store, Post
  <2>2. CASE Deliver(c)
    BY <1>t, <2>1, <2>2 DEF Deliver, AnnouncedUntilLapped, Slot, RingTypeOK
  <2>3. CASE ~Deliver(c)
    <3>1. /\ UNCHANGED <<pending, hand>>
          /\ \A d \in Consumer : pc'[d] = "compare" => pc[d] = "compare"
      BY <1>t, <1>2, <2>3
         DEF ConsumerNext, Handler, Install, DieBySignal, DieByKill, Compare,
             Wait, Load, Store, Post, RingTypeOK
    <3> QED BY <1>t, <2>1, <3>1 DEF AnnouncedUntilLapped, Slot
  <2> QED BY <2>2, <2>3
<1>3. CASE UNCHANGED ringVars
  BY <1>t, <1>3 DEF ringVars, AnnouncedUntilLapped, Slot
<1> QED BY <1>1, <1>2, <1>3 DEF RingNext

-----------------------------------------------------------------------------
(* The theorems.                                                           *)

\* The conjunction of the invariants is inductive.
THEOREM RingInvariance == RingSpec => []RingInv
<1>1. RingInit => RingInv
  BY InitRingInv
<1>2. RingInv /\ [RingNext]_ringVars => RingInv'
  <2> SUFFICES ASSUME RingInv, [RingNext]_ringVars PROVE RingInv'
    OBVIOUS
  <2>1. RingTypeOK'
    BY RingTypeStep
  <2>2. LoopInv' /\ MutualExclusion' /\ CountInv' /\ AnnouncedUntilLapped'
    BY LoopStep, MutexStep, CountStep, AnnouncedStep
  <2>3. OrderInv'
    BY <2>1, OrderStep
  <2> QED BY <2>1, <2>2, <2>3 DEF RingInv
<1> QED BY <1>1, <1>2, PTL DEF RingSpec

\* Type correctness, whatever the numbers of data, consumers and slots.
THEOREM RingTypeCorrect == RingSpec => []RingTypeOK
<1>1. RingInv => RingTypeOK
  BY DEF RingInv
<1> QED BY <1>1, RingInvariance, PTL

\* producer_consumer.h:25: the semaphore has one holder at a time, dead or
\* alive, and is 0 exactly while there is one.
THEOREM Mutex == RingSpec => []MutualExclusion
<1>1. RingInv => MutualExclusion
  BY DEF RingInv
<1> QED BY <1>1, RingInvariance, PTL

\* consumer.c:14: no increment of the shared counter is lost.
THEOREM ExactCount == RingSpec => []CountIsExact
<1>1. RingInv => CountIsExact
  BY DEF RingInv, CountInv
<1> QED BY <1>1, RingInvariance, PTL

\* producer.c:72-105: every consumer gets data in order, none twice.
THEOREM Order == RingSpec => []InOrder
<1>1. RingInv => InOrder
  BY DEF RingInv, OrderInv
<1> QED BY <1>1, RingInvariance, PTL

\* producer.c:80, consumer.c:12: only a lapped datum is rejected.
THEOREM Announced == RingSpec => []AnnouncedUntilLapped
<1>1. RingInv => AnnouncedUntilLapped
  BY DEF RingInv
<1> QED BY <1>1, RingInvariance, PTL

\* producer.c:122: the printed loss rate is never negative.
THEOREM LossRate == RingSpec => []LossRateIsARate
<1>1. RingInv => LossRateIsARate
  <2> SUFFICES ASSUME RingInv PROVE LossRateIsARate
    OBVIOUS
  <2>1. counted \subseteq Consumer \X Datum /\ cnt = Cardinality(counted)
    BY DEF RingInv, RingTypeOK, CountInv, CountIsExact
  <2>2. /\ IsFiniteSet(Consumer) /\ Cardinality(Consumer) = ConsumerAmount
        /\ IsFiniteSet(Datum) /\ Cardinality(Datum) = DataAmount
    <3>1. \A n \in Nat : /\ IsFiniteSet(0..(n - 1))
                         /\ Cardinality(0..(n - 1)) = n
      <4> TAKE n \in Nat
      <4>1. 0 \in Int /\ n - 1 \in Int /\ n - 1 - 0 + 1 = n /\ (0 > n - 1 <=> n = 0)
        OBVIOUS
      <4> QED
        BY <4>1, FS_Interval
    <3>2. Consumer = 0..(ConsumerAmount - 1) /\ Datum = 0..(DataAmount - 1)
      BY DEF Consumer, Datum
    <3> QED
      BY <3>1, <3>2, Constants
  <2>3. /\ IsFiniteSet(Consumer \X Datum)
        /\ Cardinality(Consumer \X Datum) = ConsumerAmount * DataAmount
    BY <2>2, FS_Product
  <2>4. Cardinality(counted) <= ConsumerAmount * DataAmount
    BY <2>1, <2>3, FS_Subset
  <2>5. ConsumerAmount * DataAmount = DataAmount * ConsumerAmount
    BY Constants
  <2> QED BY <2>1, <2>4, <2>5 DEF LossRateIsARate
<1> QED BY <1>1, RingInvariance, PTL

=============================================================================

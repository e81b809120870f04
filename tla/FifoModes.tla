------------------------------ MODULE FifoModes ------------------------------
(***************************************************************************)
(* SP_HW8/44-7: a server and a client that open one FIFO for reading and   *)
(* for writing, blocking or not, in the modes their argument selects.      *)
(*                                                                         *)
(* External: a blocking open waits until the other side has it open or, if *)
(* only for a moment, opens it; without a reader a non-blocking open for   *)
(* writing is refused; a non-blocking read gives end of file without a     *)
(* writer and EAGAIN with one.                                             *)
(***************************************************************************)
EXTENDS Integers, FiniteSets

VARIABLES
  program,
  serverMode, clientMode,  \* the arguments: 0 for none
  fifo,                    \* the FIFO exists
  sPc, cPc,
  reading, writing,        \* the sides that have it open
  met,                     \* sides whose blocking open may return
  data,                    \* it holds the client's message
  says,                    \* what the server has printed
  wrote                    \* what came of the client's write
modes == <<program, serverMode, clientMode>>
vars  == <<modes, fifo, sPc, cPc, reading, writing, met, data, says, wrote>>

Fifo == program = "fifo"

\* One side opens: it meets the other if that has it open, or waits in open.
Opens(side, other, otherHasIt) ==
  met' = IF otherHasIt THEN met \cup {side, other} ELSE met

-----------------------------------------------------------------------------
(* The server.                                                             *)

SRest == UNCHANGED <<modes, cPc, writing, wrote>>

Mkfifo == /\ Fifo /\ sPc = "start"
          /\ fifo' = TRUE
          /\ sPc' = IF serverMode = 0 THEN "ended" ELSE "open"
          /\ SRest /\ UNCHANGED <<reading, met, data, says>>

\* A blocking open counts as one from when it is called.
ServerOpens ==
  /\ sPc = "open"
  /\ reading' = TRUE /\ Opens("server", "client", writing)
  /\ sPc' = CASE serverMode = 1 -> "close"   \* not blocking
              [] serverMode = 3 -> "read"
              [] OTHER -> "opening"
  /\ SRest /\ UNCHANGED <<fifo, data, says>>

ServerIsOpen ==
  /\ sPc = "opening" /\ "server" \in met
  /\ sPc' = IF serverMode = 2 THEN "read" ELSE "close"
  /\ SRest /\ UNCHANGED <<fifo, reading, met, data, says>>

\* The read of modes 2 and 3 and the line it prints.
ServerReads ==
  /\ sPc = "read"
  /\ says' = CASE data -> "message"
               [] ~data /\ writing -> "No writer"
               [] OTHER -> "FIFO empty"
  /\ data' = FALSE
  /\ sPc' = "close"
  /\ SRest /\ UNCHANGED <<fifo, reading, met>>

ServerCloses == /\ sPc = "close" /\ sPc' = "ended"
                /\ reading' = FALSE
                /\ data' = (data /\ writing)
                /\ SRest /\ UNCHANGED <<fifo, met, says>>

-----------------------------------------------------------------------------
(* The client.                                                             *)

CRest == UNCHANGED <<modes, fifo, sPc, reading, says>>

\* Mode 0 does not block; any other argument does nothing.
ClientOpens ==
  /\ Fifo /\ cPc = "start"
  /\ \/ /\ ~fifo \/ (clientMode = 0 /\ ~reading)
        /\ cPc' = "refused" /\ UNCHANGED <<writing, met>>
     \/ /\ fifo /\ (clientMode = 0 => reading)
        /\ writing' = TRUE /\ Opens("client", "server", reading)
        /\ cPc' = IF clientMode = 0 THEN "close" ELSE "opening"
  /\ CRest /\ UNCHANGED <<data, wrote>>

ClientIsOpen ==
  /\ cPc = "opening" /\ "client" \in met
  /\ cPc' = IF clientMode = 1 THEN "close" ELSE "write"
  /\ CRest /\ UNCHANGED <<writing, met, data, wrote>>

\* A second later mode 2 writes; SIGPIPE is ignored, so a write without a
\* reader fails and the client goes on.
ClientWrites ==
  /\ cPc = "write"
  /\ data' = reading /\ wrote' = IF reading THEN "bytes" ELSE "EPIPE"
  /\ cPc' = "close"
  /\ CRest /\ UNCHANGED <<writing, met>>

ClientCloses == /\ cPc = "close" /\ cPc' = "ended"
                /\ writing' = FALSE
                /\ data' = (data /\ reading)
                /\ CRest /\ UNCHANGED <<met, wrote>>

-----------------------------------------------------------------------------
Init == /\ serverMode \in IF Fifo THEN 0..4 ELSE {0}
        /\ clientMode \in IF Fifo THEN 0..2 ELSE {0}
        /\ fifo \in IF Fifo THEN BOOLEAN ELSE {FALSE}
        /\ sPc = "start" /\ cPc = "start"
        /\ reading = FALSE /\ writing = FALSE
        /\ met = {}
        /\ data = FALSE /\ says = "" /\ wrote = ""

Server == Mkfifo \/ ServerOpens \/ ServerIsOpen \/ ServerReads \/ ServerCloses
Client == ClientOpens \/ ClientIsOpen \/ ClientWrites \/ ClientCloses
Next   == Server \/ Client

Fairness == WF_vars(Server) /\ WF_vars(Client)

-----------------------------------------------------------------------------
\* server.c:34-97, client.c:50-80: a message that is printed was written, before
\* the server looked; a write fails with EPIPE only after a server that had let
\* the client in has ended; and a message that was written waits for a server
\* that is still to read, whenever the client goes.  (What the server prints if
\* it reads nothing is the subject of Claims.)
ModesShowWhatTheyDo ==
  /\ says = "message" => wrote = "bytes"
  /\ wrote = "EPIPE" => sPc = "ended"
  /\ wrote = "bytes" /\ sPc \in {"opening", "read"} => data

\* A side ends, unless it waits in open for one that was refused, or that has
\* been and is gone.
BothEnd ==
  Fifo ~> /\ sPc = "ended" \/ (sPc = "opening" /\ cPc = "refused")
          /\ cPc \in {"ended", "refused"} \/ (cPc = "opening" /\ sPc = "ended")

=============================================================================

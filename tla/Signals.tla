------------------------------- MODULE Signals -------------------------------
(***************************************************************************)
(* Programs that live by signals: the two ping-pong timers of SP_HW7/22-3  *)
(* (program "suspend" and "waitinfo"), the System V calls of SP_HW7/22-4   *)
(* made by a caller ("calls"), and the detector of quiz_1 ("detector").    *)
(*                                                                         *)
(* External: a signal is pending at most once, is kept while it is blocked *)
(* and discarded when it is ignored, and system() ignores SIGINT.          *)
(***************************************************************************)
EXTENDS Integers, Sequences

CONSTANTS
  NumSigs,       \* num-sigs of 22-3
  Callers,       \* sequences of calls of 22-4
  MaxInterrupts  \* bound: SIGINTs sent from outside

Proc == {"parent", "child"}
Sig  == {"USR1", "INT", "ALRM"}

VARIABLES
  program,
  pc, mask, pending, disp,  \* of each process
  scnt,       \* rounds each process has done
  calls,      \* the calls the caller has still to make
  asked,      \* history: the disposition it has asked for last
  owed,       \* history: a SIGINT came while held and was not dealt with
  interrupts, \* SIGINTs sent
  timer,      \* "off", "once", "ever"
  cnt,        \* errors the detector has counted
  unsaid,     \* history: an error came, no mail has been begun since, and it
              \* was not cleared with those of the mail before
  told,       \* history: the count as the last mail was begun
  lost        \* history: a count was cleared that was more than its mail said
caller   == <<calls, asked, owed>>
mails  == <<unsaid, told, lost>>
detector == <<timer, cnt, mails>>
process  == <<pc, mask, pending, disp>>
vars == <<program, process, scnt, caller, interrupts, detector>>

Goto(p, l) == pc' = [pc EXCEPT ![p] = l]

\* sigsuspend of my_sigpause takes SIGINT out of the mask while it waits.
Blocked(p) == IF pc[p] = "pause" THEN mask[p] \ {"INT"} ELSE mask[p]

Kill(p, s) ==
  pending' = IF disp[p][s] = "IGN" /\ s \notin Blocked(p)
               THEN pending ELSE [pending EXCEPT ![p] = @ \cup {s}]

Taken(p, s) == [pending EXCEPT ![p] = @ \ {s}]

-----------------------------------------------------------------------------
(* SP_HW7/22-3.                                                            *)

PingPong == program \in {"suspend", "waitinfo"}

Fork ==
  /\ PingPong /\ pc["parent"] = "start"
  /\ disp' = [p \in Proc |-> [disp[p] EXCEPT !["USR1"] = "handler"]]
  /\ mask' = [p \in Proc |-> {"USR1"}]
  /\ pc' = [parent |-> "wait", child |-> "send"]
  /\ UNCHANGED <<program, pending, scnt, caller, interrupts, detector>>

\* The end of a round: the child's is the wait, the parent's the kill.
Round(p, l) == /\ scnt' = [scnt EXCEPT ![p] = @ + 1]
               /\ Goto(p, IF scnt[p] + 1 = NumSigs THEN "ended" ELSE l)

\* kill(getppid()): a parent that has ended is no longer the one meant.
ChildKill ==
  /\ pc["child"] = "send"
  /\ IF pc["parent"] = "ended" THEN Goto("child", "failed") /\ UNCHANGED pending
                               ELSE Goto("child", "wait") /\ Kill("parent", "USR1")
  /\ UNCHANGED <<program, mask, disp, scnt, caller, interrupts, detector>>

ParentKill ==
  /\ PingPong /\ pc["parent"] = "send"
  /\ Kill("child", "USR1")
  /\ Round("parent", "wait")
  /\ UNCHANGED <<program, mask, disp, caller, interrupts, detector>>

Woken(p) ==
  /\ pc[p] = "wait" /\ "USR1" \in pending[p]
  /\ pending' = Taken(p, "USR1")
  /\ IF p = "child" THEN Round(p, "send") ELSE Goto(p, "send") /\ UNCHANGED scnt
  /\ UNCHANGED <<program, mask, disp, caller, interrupts, detector>>

\* The wait unblocks the signal, waits and runs the empty handler.
Sigsuspend(p)  == program = "suspend" /\ Woken(p)
\* Or takes the signal, which stays blocked, from the pending ones.
Sigwaitinfo(p) == program = "waitinfo" /\ Woken(p)

-----------------------------------------------------------------------------
(* SP_HW7/22-4: the calls of a process, for SIGINT.                        *)

Call(c) == /\ program = "calls"
           /\ pc["parent"] = "start"
           /\ calls # <<>> /\ Head(calls) = c
Return  == calls' = Tail(calls) /\ Goto("parent", "start")

SetMask(m) == mask' = [mask EXCEPT !["parent"] = m]
Held       == mask["parent"] \cup {"INT"}
Released   == mask["parent"] \ {"INT"}
Rest       == UNCHANGED <<program, scnt, interrupts, detector>>

\* sigaction: what is pending of an ignored signal is discarded.
Install(d) ==
  /\ disp' = [disp EXCEPT !["parent"]["INT"] = d]
  /\ IF d = "IGN" THEN pending' = Taken("parent", "INT") /\ owed' = FALSE
                  ELSE UNCHANGED <<pending, owed>>
  /\ asked' = d

\* NULL, which stands for SIG_HOLD, is also the value of SIG_DFL.
SigsetHold ==
  /\ \/ Call("sigset HOLD") /\ UNCHANGED asked
     \/ Call("sigset DFL") /\ asked' = "DFL"
  /\ SetMask(Held)
  /\ Return
  /\ Rest /\ UNCHANGED <<pending, disp, owed>>

Sigset ==
  /\ \/ Call("sigset IGN") /\ Install("IGN")
     \/ Call("sigset handler") /\ Install("handler")
  /\ Goto("parent", "unblock")
  /\ Rest /\ UNCHANGED <<mask, calls>>

SigsetUnblocks ==
  /\ pc["parent"] = "unblock"
  /\ SetMask(Released)
  /\ Return
  /\ Rest /\ UNCHANGED <<pending, disp, asked, owed>>

Sighold == /\ Call("sighold") /\ SetMask(Held) /\ Return
           /\ Rest /\ UNCHANGED <<pending, disp, asked, owed>>

Sigrelse == /\ Call("sigrelse") /\ SetMask(Released) /\ Return
            /\ Rest /\ UNCHANGED <<pending, disp, asked, owed>>

Sigignore == /\ Call("sigignore") /\ Install("IGN") /\ Return
             /\ Rest /\ UNCHANGED mask

Sigpause == /\ Call("sigpause") /\ Goto("parent", "pause")
            /\ Rest /\ UNCHANGED <<mask, pending, disp, caller>>

\* The caller is at its end.
Returns == /\ program = "calls" /\ pc["parent"] = "start" /\ calls = <<>>
           /\ Goto("parent", "ended")
           /\ Rest /\ UNCHANGED <<mask, pending, disp, caller>>

-----------------------------------------------------------------------------
(* quiz_1/detector.c.                                                      *)

IsDetector == program = "detector"
DRest == UNCHANGED <<program, mask, scnt, caller, interrupts>>

\* Both handlers, then the timer: off if the start time is 0, and once only if
\* the cycle time is.
Detect ==
  /\ IsDetector
  /\ \/ /\ pc["parent"] = "start" /\ Goto("parent", "sigset")
        /\ disp' = [disp EXCEPT !["parent"]["ALRM"] = "handler"]
        /\ UNCHANGED timer
     \/ /\ pc["parent"] = "sigset" /\ Goto("parent", "setitimer")
        /\ disp' = [disp EXCEPT !["parent"]["INT"] = "handler"]
        /\ UNCHANGED timer
     \/ /\ pc["parent"] = "setitimer" /\ Goto("parent", "loop")
        /\ timer' \in {"off", "once", "ever"}
        /\ UNCHANGED disp
  /\ DRest /\ UNCHANGED <<pending, cnt, mails>>

\* Mutant: the count is cleared whether or not there was a mail.
AlarmChecks_ClearsAlways ==
  /\ IsDetector /\ pc["parent"] = "loop" /\ "ALRM" \in pending["parent"]
  /\ Goto("parent", IF cnt # 0 THEN "mail" ELSE "clear")
  /\ unsaid' = (unsaid /\ cnt = 0) /\ told' = cnt
  /\ pending' = Taken("parent", "ALRM")
  /\ DRest /\ UNCHANGED <<disp, timer, cnt, lost>>

\* The handler looks at the count, with SIGINT not blocked.
AlarmChecks ==
  /\ IsDetector /\ pc["parent"] = "loop" /\ "ALRM" \in pending["parent"]
  /\ IF cnt # 0
       THEN /\ Goto("parent", "mail") /\ unsaid' = FALSE /\ told' = cnt
            /\ disp' = [disp EXCEPT !["parent"]["INT"] = "IGN"]
            /\ pending' = [pending EXCEPT !["parent"] = {}]
       ELSE /\ pending' = Taken("parent", "ALRM")
            /\ UNCHANGED <<pc, unsaid, told, disp>>
  /\ DRest /\ UNCHANGED <<timer, cnt, lost>>

Mailed ==
  /\ pc["parent"] = "mail" /\ Goto("parent", "clear")
  /\ disp' = [disp EXCEPT !["parent"]["INT"] = "handler"]
  /\ DRest /\ UNCHANGED <<pending, detector>>

\* An error that was counted since the mail is cleared with the others.
AlarmClears ==
  /\ pc["parent"] = "clear" /\ Goto("parent", "loop")
  /\ cnt' = 0
  /\ unsaid' = (unsaid /\ "INT" \in pending["parent"])
  /\ lost' = (lost \/ cnt > told)
  /\ DRest /\ UNCHANGED <<pending, disp, timer, told>>

\* Expiry of the interval timer.
Tick ==
  /\ timer # "off"
  /\ Kill("parent", "ALRM")
  /\ timer' = IF timer = "once" THEN "off" ELSE timer
  /\ DRest /\ UNCHANGED <<pc, disp, cnt, mails>>

-----------------------------------------------------------------------------
(* Signals from outside, and their delivery.                               *)

Alive(p) == pc[p] \notin {"none", "ended", "killed", "failed"}

\* For the detector an error, in whatever it does but before it has a handler,
\* when it is the end, and while system() ignores it.
Interrupt ==
  /\ program \in {"calls", "detector"} /\ Alive("parent")
  /\ interrupts < MaxInterrupts /\ interrupts' = interrupts + 1
  /\ Kill("parent", "INT")
  /\ owed' = (owed \/ /\ program = "calls"
                      /\ "INT" \in Blocked("parent")
                      /\ disp["parent"]["INT"] # "IGN")
  /\ unsaid' = (unsaid \/ (IsDetector /\ disp["parent"]["INT"] = "handler"))
  /\ UNCHANGED <<program, pc, mask, disp, scnt, calls, asked, timer, cnt, told, lost>>

\* intHandler of the detector counts, the others' handlers do nothing.
IntHandler == cnt' = IF IsDetector THEN cnt + 1 ELSE cnt

Deliver(p, s) ==
  /\ s \in pending[p] \ Blocked(p) /\ Alive(p)
  /\ ~(IsDetector /\ s = "ALRM")
  /\ pending' = Taken(p, s)
  /\ CASE disp[p][s] = "handler" ->
            /\ IntHandler /\ owed' = FALSE
            /\ IF pc[p] = "pause" THEN Return ELSE UNCHANGED <<pc, calls>>
       [] disp[p][s] = "DFL" ->
            Goto(p, "killed") /\ owed' = FALSE /\ UNCHANGED <<calls, cnt>>
       [] disp[p][s] = "IGN" -> UNCHANGED <<pc, calls, owed, cnt>>
  /\ UNCHANGED <<program, mask, disp, scnt, asked, interrupts, timer, mails>>

-----------------------------------------------------------------------------
Init == /\ pc = [parent |-> "start", child |-> "none"]
        /\ mask = [p \in Proc |-> {}]
        /\ pending = [p \in Proc |-> {}]
        /\ disp = [p \in Proc |-> [s \in Sig |-> "DFL"]]
        /\ scnt = [p \in Proc |-> 0]
        /\ calls \in IF program = "calls" THEN Callers ELSE {<<>>}
        /\ asked = "DFL" /\ owed = FALSE
        /\ interrupts = 0 /\ timer = "off" /\ cnt = 0
        /\ unsaid = FALSE /\ told = 0 /\ lost = FALSE

Step(p) == \/ Sigsuspend(p) \/ Sigwaitinfo(p)
           \/ /\ p = "child" /\ ChildKill
           \/ /\ p = "parent"
              /\ \/ Fork \/ ParentKill
                 \/ SigsetHold \/ Sigset \/ SigsetUnblocks \/ Sighold
                 \/ Sigrelse \/ Sigignore \/ Sigpause \/ Returns
                 \/ Detect \/ AlarmChecks \/ Mailed \/ AlarmClears

Next == \/ \E p \in Proc : Step(p)
        \/ \E p \in Proc, s \in Sig : Deliver(p, s)
        \/ Interrupt
        \/ Tick

\* A process goes on, pending signals are delivered, the timer expires.
Fairness == /\ \A p \in Proc : WF_vars(Step(p))
            /\ \A p \in Proc, s \in Sig : WF_vars(Deliver(p, s))
            /\ WF_vars(Tick)

-----------------------------------------------------------------------------
\* 22-3, 22-4.c:13-184, detector.c:13-27: nobody sends to a process that is
\* gone or has not yet taken the signal before; a SIGINT that comes while it is
\* held is kept until it is handled or ignored, between the two calls my_sigset
\* is made of too; none is fatal while the disposition asked for last is not the
\* default.  An error that comes while no mail is being sent is in the count until
\* a mail is begun.  The count is cleared only after a mail that said at least
\* one, so what is cleared without a mail, and lost, was counted after one.
SignalsAreKept ==
  /\ \A p \in Proc : pc[p] # "failed"
  /\ scnt["child"] <= scnt["parent"] /\ scnt["parent"] <= scnt["child"] + 1
  /\ pc["child"] = "send" => pending["parent"] \cup pending["child"] = {}
  /\ owed => "INT" \in pending["parent"]
  /\ program = "calls" /\ pc["parent"] = "killed" => asked = "DFL"
  /\ unsaid => cnt > 0 \/ "INT" \in pending["parent"]
  /\ pc["parent"] = "clear" => 0 < told /\ told <= cnt
  /\ lost => told > 0

\* The ping-pong ends; a caller gets on, unless it pauses for a SIGINT nobody
\* sends or that is ignored; an error is mailed about, if the timer goes on.
SignalsArrive ==
  /\ PingPong ~> \A p \in Proc : pc[p] = "ended"
  /\ (program = "calls" /\ Alive("parent")) ~>
        \/ ~Alive("parent")
        \/ pc["parent"] = "pause" /\ "INT" \notin pending["parent"]
  /\ (unsaid /\ timer = "ever") ~> ~unsaid

=============================================================================

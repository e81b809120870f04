# A TLA+ development of SP_HW

`SP_HW` is a collection of small Unix programs, one directory per exercise of a
system-programming course. Most of them are one process and a few lines. The
ones with a life of their own are groups of processes that talk through shared
memory and semaphores, System V and POSIX message queues, FIFOs, signals or
sockets: what they do depends on the order in which the kernel runs them, on
who is killed where, and on kernel objects that outlive their users. Those are
modelled here.

The modules are written from the source; every definition that stands for code
is listed with its lines in `PROJECT.json` ("map"). Where a definition stands
for something outside the repository (what the kernel does with a semaphore, a
signal, a queue or a dying process), it is marked external there.

## Inventory

Paths are relative to `src/SP_HW` (`src/SP_quiz` for the quizzes). State,
operations, interaction, what is hard, and what makes the component correct.

**Shared-memory dictionary (SP_HW12)** - *modelled: ShmDict.* Clients
(`main.c`, `lookup6.c`) and one server (`shm_server.c`, `lookup5.c`) share one
`Dictrec` and a set of two System V semaphores. State: word and text in the
segment, the two semaphore values, the undo adjustments the kernel keeps per
process. Operations: a lookup (grab, put the word, alert, await, release,
compare, copy), the server's loop (wait, search, store, notify), start, exit
and death of either. Hard: reads after the unlock, SEM_UNDO applied at exit, a
server restarted under a running request, the 16-bit limit of an adjustment.
Correct when the mutex excludes, a client that passed its wait finds its own
answer, and nobody waits for ever.

**Producer and consumers (SP_HW10)** - *modelled: ProducerConsumer.* A producer
writes numbered data into a ring, announces each to every consumer by
`sigqueue(SIGUSR1)` and never waits; a consumer's handler compares the slot and
counts the datum under a semaphore. Hard: signals that do not queue, a slot
overwritten while it is read, consumers killed inside the handler. Correct when
no increment is lost, data are counted in order and once, a datum is rejected
only when it was overwritten, and the producer ends.

**Shared-memory transfer (SP_HW9/54_1)** - *modelled: ShmXfr over LineChannel.*
A writer passes lines to a reader through one segment and two named semaphores;
the writer creates the three names exclusively and removes them. Hard: names
removed one by one while the next writer starts, a reader that opens objects of
two different writers, blank lines, deaths. Correct when a line is printed
once, in order and before it is overwritten, the transfer ends, and no name is
left behind.

**Message-queue sequence numbers (SP_HW8/46-2)** - *modelled: MsgqSeqnum over
SeqAlloc.* Clients ask for ranges of numbers through one bounded System V queue
that carries requests and replies. Hard: a queue full of requests, a queue that
outlives its users, pids used twice, a second server, a counter that is an int.
Correct when every client receives its own range, ranges are disjoint, and
every request is answered.

**FIFO sequence numbers (SP_HW8/44-6)** - *modelled: FifoSeqnum over
SeqAlloc.* The same service over a server FIFO and a FIFO per client; the server
opens the client's FIFO without blocking and tries again up to five times.
State: the FIFOs, the paths, who has what open, the counter. Hard: a client
slower than the retries, a client that dies before its answer, a FIFO left by an
earlier process with the same pid, a server that dies between the answer and the
increment. Correct when it allocates as SeqAlloc does, answers reach whom they
were meant for, and no client holds up the server.

**POSIX mq file server (SP_HW9/52_3)** - *modelled: MqFile over FileChannel.*
A child per request streams a file through the client's queue, whose name
contains the client's pid. State: queues and their names, the requests, a child
per request, ended children. Hard: bounded queues that block children, a name
left by an earlier client with the same pid, a handler that children inherit and
that runs before a server has its name, children that end together under one
SIGCHLD. Correct when a client gets the chunks of its file in order with one end
mark, names are left by the dead only, and every child is waited for.

**Socket dictionaries (SP_HW11)** - *modelled: NetDict.* Part 1 and 2: a stream
per client and a child of the server per connection; part 3: datagrams to one
server. Hard: lost, late and duplicated datagrams with nothing to tie an answer
to its word, a closed connection read as an answer, a second server that takes
the socket's name. Correct when a lookup returns the answer to its word, and
returns.

**Local lookup (lookup5.c of SP_HW12 and the three parts of SP_HW11)** -
*modelled: Lookup5.* Binary search in a file of fixed records, cut off after 100
rounds. Correct when it agrees with membership in the sorted file.

**Shells (SP_HW3, SP_HW5/part2)** - *modelled: Shell.* A read loop; passes over
the argument vector (background, redirections, pipe); then fork, pipe, dup, exec
and wait. State: the input and its offset, which all processes share, the
shell's buffer, the processes with their descriptors. Hard: who holds which end
of a pipe, who is waited for, what exit() does to the shared offset. Correct
when the commands of a line run with the input and output it gives them, and
every command and the shell come to an end.

**Signals (SP_HW7, quiz_1/detector)** - *modelled: Signals.* Ping-pong by
`sigsuspend` or `sigwaitinfo`; System V signal calls written over `sigaction`; a
counter of interrupts that a timer mails and clears. Hard: a signal between test
and sleep, between the two steps of a call, or between a mail and the reset of
the count. Correct when the two sides alternate and both end, held signals are
kept, and no interrupt is lost but one that comes after its mail.

**Pipes (SP_HW6, SP_HW5/part1 pipe_ls, quiz_1/myrpc)** - *modelled: Pipes.* An
upper-caser behind two pipes, popen and pclose, `ls` through a pipe, commands
run one after another. Hard: end of file, a comparison over a buffer that was
not cleared, a status that was never set, descriptors that run out.

**FIFO modes (SP_HW8/44-7)** - *modelled: FifoModes.* Opens with and without
O_NONBLOCK. Hard: which of them meet, and what an empty read means.

**File tools (SP_HW1, SP_HW2, SP_HW5/part1 mycat, SP_HW9/49_1)** - *modelled:
FileTools.* Copying with holes, tee, printing the tail, copying by mmap, each
while the file may grow. Hard: a source that is its own destination, chunk
edges.

**Dictionary converter (SP_HW5/part3)** - *modelled: Convert.* A text into
records by the kind of its lines, and a linear search. Hard: definitions longer
than a line, a last line without a newline.

**Process table tools (SP_HW4)** - *modelled: ProcTools.* Three walks over
`/proc`. Hard: processes that end, are adopted or are replaced between two
opens; an errno nobody cleared.

**Condition variable (quiz_2)** - *modelled: CondVar.* One producer, consumers
that wait without a predicate. Hard: lost and spurious calls, a mutex that is
never given back.

**Router (quiz_3)** - *modelled: Router.* A router and three nodes over
sockets. Hard: reading one node to its end while that waits for another.

**Left out.** `hostinfo`, `mydate` and `printdir` of `SP_HW5/part1` (the result
of one library call, printed), the helper library that three directories copy
from a textbook, and a plotting script.

The hazards of all of these, each at its line and with the properties that cover
it, are the list "hazards" of `PROJECT.json`.

## Plan

1. ShmDict, with its proofs - done.
2. ProducerConsumer, with its proofs - done.
3. LineChannel (abstract), ShmXfr, the refinement proved - done.
4. SeqAlloc (abstract), MsgqSeqnum, the refinement proved - done.
5. FifoSeqnum over the same SeqAlloc; the refinement proved - done.
6. FileChannel (abstract), MqFile, the refinement proved - done.
7. NetDict: the stream and the datagram dialogue, with its proofs - done.
8. Lookup5, its invariant proved - done.
9. Shell, with its proofs - done.
10. The small programs: Signals, Pipes, FifoModes, CondVar, Router, FileTools,
    Convert, ProcTools, composed in Programs, with their proofs - done.
11. Claims: what the repository says of the small programs and they do not do -
    done.

Nothing of the plan is left. Every safety invariant that a passing run checks is
a theorem; what is left to TLC is named under "What is assumed everywhere".

## ShmDict

`pc[c]` and `spc` name the next statement of a client and of the server;
`sem`, `adj` are the kernel's, `word` and `shmtext` the segment. One action per
semop and per access to the segment: Grab, PutWord, Alert, Await, Release,
Compare, Copy for `lookup6.c`; Take, Search, Store, Notify for `shm_server.c`
with `lookup5.c`; Ask and ClientDies, ServerDies, Restart around them. The
comparison with XXXX and the copy are separate steps because both follow the
release of the mutex. A definition is represented by its word, since only
"whose answer is it" matters. A semop whose adjustment would leave the range of
SEMAEM fails as in the kernel, and `DIE` ends the process.

Two history variables: `harm` notes that an exit changed semaphore 1 or that a
server was started under a running request; `fresh[c]` that nobody has put
another word since c's.

Runs, two clients with a word that exists and one that does not:

- `shmdict` (SemMax 5, so that the limit is reached after two requests; exits
  at every label; one server killed, one restarted): MutualExclusion and the
  answer in place hold outside the two harms; a server that reaches the limit
  strands its client; otherwise clients get on.
- `shmdict_undo` shows that a client can pass its wait before it was served:
  the exit of another client, at the prompt, undoes a finished lookup.
- `shmdict_race` shows that a lookup can return another client's text with
  nobody ending, as compare and copy follow the release.

The last two contradict comments in `lookup6.c`; they are the findings.

Two clients are enough: every property is about one client, or one and another
that interferes, and the proofs below are for any number.

Fairness: every process that can run does. The kernel queues sleepers on a
semaphore in order, so Grab is strongly fair; nobody has to ask or to exit.

Proved (`ShmDictShell_proofs`), for every set of clients and words and every
limit of at least 2: TypeCorrect, Mutex, AnswerInPlace, ServerHasAClient,
RightUnlessOvertaken, OwnDeathStrands. The inductive invariant adds to the
properties how far the request of the one client inside has come for each value
of semaphore 1 and label of the server (RequestInv), what the adjustments for
semaphore 0 are (MutexInv), and that nobody put a word after a fresh client
(FreshInv). ServerHasAClient is proved and, as the others need it, not checked
by a run of its own; liveness (ClientsGetOn) is checked only.

## ProducerConsumer

`ppc`, `i`, `j` are the producer's place and loop variables, `buf` the ring,
`pc[c]` and `hand[c]` a consumer's handler and the value it was called with,
`pending[c]` its pending signal, `fate[c]` whether SIGKILL was sent and has
taken effect. Writing a slot takes two steps, and `cnt++` is a load and a
store. A signal sent while one is pending is dropped with its value, and the
signal stays blocked in its handler; both are the kernel's.

Run `shared_memory` (MCSharedMemory), whose behaviours are those of this system
or of ShmXfr, the variable `system` saying which: three data, two consumers, two
slots, so that the ring is lapped, a signal is dropped and a consumer dies at
every label. The counter is exact, order holds, only a lapped datum is rejected,
and the producer ends or sleeps for ever on the semaphore of a consumer it has
killed in the handler (RingEnds: ProducerEnds, of the behaviours of the ring).

Fairness: the producer, every consumer and the delivery of SIGKILL are weakly
fair, which is what a scheduler gives. The semaphore needs no more: each
consumer waits for it finitely often.

Proved (`ShmXfrProducerConsumer_proofs`) for all positive numbers of data,
consumers and slots: RingTypeCorrect, Mutex, ExactCount, Order, Announced,
LossRate. The invariant adds that an increment under way has read the present
value, and that whatever a consumer holds, has pending or has counted is older
than what it can still be sent. Mutex and LossRate are proved only; ProducerEnds
is checked only.

## LineChannel and ShmXfr

LineChannel says what a transfer is: per writer, a line is put in, printed once
before the next, and the channel closes when the last was printed. ShmXfr has
one action per semaphore operation, access to the segment and creation, opening
or removal of a name. Objects are named by the writer that created them, since
they exist on after their names are removed; `openW`, `openR` and `openM` say
whose objects a reader got, and they may be different writers'.

The same run, `shared_memory`: two writers, two readers, two lines each, one text and
one blank line, one kill. Two of each are needed for a change of writers under
a reader, and a second reader on one segment. OneTurn, the refinement,
TransferEnds and what names can be left (OnlyACollisionLeaks) hold.

Fairness: a started process that can take its next step does; nobody has to be
started. TransferEnds therefore begins with a reader that has all three objects
of one writer. A line that starts with a NUL byte has length 0 and is the reader's
end: the writer's next wait then never returns. The model has the case (`Blank`,
`stopped`); the refinement and TransferEnds except it, as the sources do not say
what should become of such a line, and no property says more of it.

Proved (`ShmXfrProducerConsumer_proofs`) for any number of writers, readers,
lines and kills: TypeCorrect, Turns, Refinement, OnlyCollisionsLeak. NamesInv
says in which order a writer holds its names, OpenedInv that a reader with mixed
objects has only ones of closed writers, TurnInv where the turn is. LeftInv, for
the names left, says which names a writer that has ended by itself can still
hold: none, or that of its writer semaphore when the reader semaphore's name was
taken. TransferEnds is checked only.

## SeqAlloc and MsgqSeqnum

SeqAlloc says what a sequence-number server promises: whoever asks for n numbers
is granted the next n, with a counter that wraps around like an int. It notes
in `sunk` the servers whose counter once moved down, after a negative amount or
past INT_MAX. SeqAlloc_proofs shows that all other servers never grant a number
twice (Disjoint), for every width of int; the arithmetic is in WrappedSum.

MsgqSeqnum has one action per system call of `server.c` and `client.c`; what
follows a call without another one (making the reply in the message buffer and
moving the counter, lines 43-47) is part of it. The queue is a bounded sequence;
Send sleeps when it is full and Take removes the first message of a type.
`live` names the queue that has the key by the server that created it, and
`msgid[p]` the queue process p opened, so a process may be left with a removed
one. Cleanup is the SIGINT handler, which may run anywhere in the loop; Kill is
any other death. `msg[s]` is the buffer between receiving and replying. The
fields `who` and `by` of a message, `granted`, `sunk` and `killed` are history.
The size of a queue is counted in messages (they are all of one length), and all
processes are taken to have the same user.

Runs:

- `msgq_seqnum`: two servers, which may share a queue or follow one another,
  three clients of which two get the same pid, amounts -1 and 2 with ints from
  -5 to 4 (a server grants two ranges of two numbers, which must not overlap,
  and the third wraps), a queue of two messages, one kill. A client
  gets the answer to its own request or, when a process with its pid was killed,
  perhaps that one's; ranges printed are disjoint unless the counter sank or a
  pid was inherited; a request is never lost or doubled except in the buffer of
  a killed server; the servers implement SeqAlloc.
- `msgq_crowd`: three clients with pids of their own on a queue of two. A server
  sleeps on the full queue only when more clients than fit are waiting or were
  killed; every request is answered unless the queue was removed, a process was
  killed, or nobody can move (Jam): the queue is full of requests, and the
  server that would take them waits for room.

Fairness: every system call that can return does. Servers and clients need not
be started.

Proved (`MsgqSeqnum_proofs`) for any number of servers, clients, kills and pids
and every size of queue and int: TypeCorrect, OwnAnswer, Refinement,
PrintedDisjoint, RequestsKept and FullQueueHasACrowd. The invariant says that a
message carries what its client asked and what it was granted (Well), that the
client it stands for still waits, was killed, or took an earlier process's
answer (Pending), and that no client has two messages in the queue and the
buffers together (Single). Without Single a client could be done while another
message of its own waits for the next process with its pid. PrintedDisjoint
combines this with Disjoint of SeqAlloc_proofs, through the refinement.
RequestsKept needs KeptInv besides: a waiting client's message is under way
unless a killed server had it, and that of a client whose answer was taken is
not; with Single this says that it exists once. For FullQueueHasACrowd, CrowdInv
counts: the messages in the queue and the servers that hold one are together no
more than the clients on the queue that wait or were killed, which is not
inductive without the servers. RequestIsAnswered is checked only.

## FifoSeqnum

One action per system call of `fifo_seqnum_server.c` and `fifo_seqnum_client.c`.
`spc` and `cpc` name the next statement; a process that was killed keeps its
label and is in `killed`. `requests` is the server's FIFO, which is never
removed; two servers may read it. A client's FIFO is named by the client that
made it: `path[p]` is the one at the path of pid p, and `data[c]` its data, so a
FIFO left behind and used again by the next process with that pid stays the same
one. Who has which FIFO open follows from the labels (ServerReads, ClientWrites,
ReadsFifo, WritesFifo), and DropUnheld discards the data of a FIFO nobody has
open any more, as the kernel does. An open that sleeps counts as open: it lets
the other side's open, blocking or not, succeed. The response is written before
the counter moves, in two steps; NextNumber maps the interval between them to
the abstract counter, so the refinement is by the moment of the write. In a
response only `seqNum` is real; the rest, `granted`, `sunk` and `abandoned` are
history.

Run `fifo_seqnum`: two servers, three clients, two of them with one pid, one
retry, amounts of 2 with ints from -5 to 4, so that a server grants two ranges
that must not overlap and the third grant wraps around, and one kill anywhere.
This is the least in which a FIFO is left behind and used again, two servers read
the requests, and a third client's range can overlap.
A client reads the response to its own request unless a killed process had its
pid; ranges printed are disjoint unless the counter sank; a live client is given
up only after all tries and only before its open; only a killed process, or one
ended by SIGPIPE, leaves its FIFO; the server is never held up, and a client
that sent its request ends unless it was given up (it then sleeps for ever) or a
process was killed.

Fairness: a started process whose system call can return goes on. Nothing makes
a client open its FIFO before the server's last try: a second is long, not
unbounded.

Proved (`FifoSeqnum_proofs`) for any number of servers, clients, pids, retries
and kills and every width of int: TypeCorrect, FifosOfTheDead, LateGiveUp,
Refinement and PrintedDisjoint, that is, all the run checks but liveness. The
invariant says whose a letter is (LetterInv) and that no client has two of them
in the server's FIFO, the servers' hands and the clients' FIFOs together
(Single). Two parts are about stale FIFOs: a FIFO that a server has open and
that is still at its path lost its reader by a kill only (HeirInv), so a client
whose open returns at once, because a server has the FIFO open already, has the
pid of a killed process; and a client that reads finds its own answer next or
never (ReadInv), which needs HeirInv, as the answer could else still be with the
server when the client meets the end of file. PrintedDisjoint comes from
Disjoint of SeqAlloc_proofs through the refinement. EveryoneGetsOn is checked
only.

The size of a FIFO, a failing fcntl or atexit and a path removed by hand are not
modelled; requests and responses are below PIPE_BUF, so each is read and written
whole.

## FileChannel and MqFile

FileChannel says what a file server promises a client: the chunks of its file in
order, each once, then an end mark; or a refusal if there is no such file.
MqFile has one action per queue operation of `posixmq_file_server.c` and
`posixmq_file_client.c` and one for each handler. A queue is named by the
process that made it and outlives its name: `serverName` and `clientName[p]` are
the names, `sq` and `to` the queues that a client and a child have opened. A
child is named by its client. SIGCHLD is one bit, and GrimReaper waits for all
children that have ended. A server installs its handlers first (StartServer),
makes its queue next (OpenServer), and exits in a step of its own when the name
exists (ServerExists). From StartServer on SIGINT and SIGTERM run cleanup, which
removes the name whoever's it is (Cleanup); a child has inherited the handler
and does the same (KidCleanup).

Run `mq_file`: two servers, as a second finds the name or takes it after the
first; three clients, of which two have one pid; a file of three chunks on
queues of two messages, so that a child sleeps, an empty file and one that does
not exist; one process ended by a signal anywhere, a second server before its
mq_open included. The model implements
FileChannel; a client's name is left only by a killed client or by one that
found no server, the server's only by a killed server, and a serving one keeps
its name unless the handler ran in a child or in a server that was not serving
(StrayCleanup); a client that sent its request and every
child end, unless the client, its child or its server was ended by a signal; a
child whose client was killed sleeps for ever if the rest of the file does not
fit; every child that ended is waited for.

Fairness: a server's receive and its SIGCHLD handler, a child and a client that
can go on do. Clients and servers need not be started.

Proved (`MqFile_proofs`) for any number of servers, clients and pids, any files,
any size of the queues and any number of signals: TypeCorrect, NamesFollow and
Refinement. That names follow the living is inductive with the types: a server
that serves has the name from mq_open, and only a handler takes it away again,
its own, which ends it, or a stray one. For the refinement the
invariant says that a client's queue has its name from creation to removal
(Named), so the child opens the queue of the client it serves although pids are
used again; that a request exists once and one child is forked for it (Asked);
that what a child has sent is what its client has received and has in its queue
(Sending); and that every message in a queue is the one that must come at its
place, an end mark or a refusal being the last (Boxed, Prefix). TransferEnds is
checked only.

A failing fork, read or mq_send, the bytes in a chunk, and names longer than
their 30 bytes are not modelled.

## NetDict

`transport` says which part of SP_HW11 runs. Over a stream, `kid[c]` is the
connection of client c and the child that serves it, `held[s]` the accepted
sockets that server s has open itself, `up` and `down` the records under way,
`reset` the connections whose other end was closed with unread data. Accept,
Fork and CloseSocket are three steps, as a server may be killed between any two.
Over datagrams, `net` is a set of numbered copies that may be lost, doubled and
received in any order. `at` is the server that the path or the port leads to: a second Unix
server removes the path and takes it, a second Internet or datagram server fails
to bind. `rec[c]` is the record the client's main passes in, which keeps the
text of the lookup before; `want`, `result`, `cut`, `orphaned`, `dup`, `lost` are
history.

Run `net_dict`: all three transports, two servers, two clients of which one asks
twice (a late answer needs a second question), a word that exists and one that
does not, and one fault: a process killed, or a client whose datagrams may be
lost or doubled. The text of the record before the first lookup, which main never
sets, is taken to be no answer (Unset; with XXXX as well the run has 484864
states and passes too, and the proofs hold for both). An answer is to the word
asked, except over a stream whose child was killed and, over TCP, one whose
server was killed between accept and fork - either way `recv` returns 0 and the
record sent, with the text it had, is taken for the answer - and over datagrams
of which a second copy was under way. Over a Unix socket the server killed
between accept and fork does no harm: a query already sent resets the
connection, one sent later ends the client with SIGPIPE. A lookup over a stream
ends whoever is killed; over datagrams a client sleeps for ever when its query
or answer was lost, was sent before any server was there, or the server was
killed. A child does not outlive its client.

Fairness: servers, children and clients whose call can return go on; nobody has
to ask, and the network need not lose or double anything.

Proved (`NetDict_proofs`) for any servers, clients and words, any number of
lookups and any number of faults: TypeCorrect and OwnAnswer, which states
AnswerIsToTheQuestion. By itself that property is not inductive: that an answer
is right depends on what is under way while it is awaited. The invariant adds

- Queued: a client connects once and waits in one queue; the connections in the
  queue of a server that lives have no child yet, so the child that Fork starts
  finds nothing half done;
- Owned: only one server has a socket, and only once it is accepted; a
  connection without a child carries no answer; one that lost its server between
  accept and fork is at its end, and over a Unix socket the client that waits on
  it is told so by a reset;
- Dialogues: while neither child nor such a server was killed, a stream holds at most one
  record - the query on its way up, the query with the child, or the answer on
  its way down - and only while the client is in recv; and a connection that was
  closed under a client was reset. So an answer is the answer to the last query,
  and an end of file that `recv` takes for an answer needs one of those kills;
- Exchanges: the same of datagrams while none was doubled: one query or one
  answer, in the network or with one server, and none once the client has its
  answer. Loss keeps this, doubling does not, and nothing in the code restores
  it: no number ties an answer to its query;
- Looking: the record a client sends has the word it was called with.

TLC checked this invariant with one and with two faults before it was proved.
NetDictAssumption says that servers, clients and nobody are different processes;
it bounds neither lookups nor faults. The module also holds the proofs about
Lookup5, the search its servers make. LookupEnds is a liveness property, which
TLC alone checks.

Records cut in two by TCP, TIME_WAIT, a full backlog, a failing fork, unreaped
children and words longer than their field are not modelled.

## Lookup5

`start`, `end`, `cnt` are the loop's variables, `found` the record it stopped
at. One step is one comparison. Words are integers, records are counted from 1.
The code moves the lower bound to the middle and not past it, so an absent word
may leave an interval of one record that never shrinks; the cut-off ends that.

In run `programs` the files are the first 0 to 8 of eight records with odd
words, and every word from 0 to 16 is looked up in each; four rounds are the
least the assumption allows for eight records.

Proved (`NetDict_proofs`, last section) for every sorted file, every word and
every number of rounds R with at most 2^(R-1) records (100 rounds in the code:
more records than an int counts): SearchIsMembership. The invariant says that
the interval keeps every record that is the word (Keeps), that its length halves
with each round (Halves, where Pow2 is the power of two), and that when the
rounds are used up it was a single record that is not the word (UsedUp): the
cut-off loses nothing.

## Shell

One module for both versions, as HW3's shell is HW5's without redirections and
pipelines. A line is a sequence of words and blanks. The shell reads, runs a
builtin, or forks and waits; `proc[p]` is a child with its argument vector, its
input and output, the pipe ends it holds and the copy of the shell's buffer it
has (`unread`). One action per pass of the child over its vector, per fork in
pipe_command, per exec; Kind says how a command behaves: "filter" reads to end
of file, "gen" writes while somebody can read, "plain" ends by itself. The
offset of the input is shared by all: exit() in a child that could not execute
seeks a file back over the lines that were buffered and not used.

Run `shell`: scripts of one line with every combination of "|", "<", ">" and "&"
that the passes treat differently, among them a missing file, a command that
does not exist in the middle of a pipeline and an empty stage, and scripts of up
to four lines with builtins and failing commands; both versions; input from a
file or a terminal; blocks of three lines, so that a script spans two; at most
four processes (a pipeline of three and one in the background). Regular lines
run as written; only background and pipeline processes are left at a prompt; a
line is read twice only from a file and after a failed exec; every process ends
(a generator into a filter excepted), and the shell comes to the end of its
input or reads lines again for ever.

Fairness: the shell and each child go on when they can.

Proved (`ShmDictShell_proofs`, second part) for every script, set of commands,
files and directories, size of a block and number of processes: Obeyed, which
states LinesAreObeyed. That a command runs as its line says is true of no single
pass over the vector, so the invariant follows the vector through them:

- Written: at each pass a process has the part of its line that the passes so
  far left it (ReadyFor): the whole line, the line before "<", a part that
  begins after a bar (FromBar), and at last the words of one stage; input and
  output are those of the redirections made so far, or the pipes;
- PipesLead: a pipe that a command writes to is read by the next stage, and the
  shell never waits for a process that reads from a pipe;
- Waited: whoever is not waited for has a line with "&" or "|". The words of a
  vector come from its line, so the test of the vector is one of the line;
- ReadsOn: without a rewound offset the buffer ends no further than the input
  stands, so no line comes twice.

The work is in the lemmas about positions: which bar is the first one of what
is left, that as many bars are before a stage as its number says, and that the
two redirections of a regular line are the last of its words. A stage is counted
by Cardinality of the bars before it, and induction over lines is done by the
least counterexample. The only assumption is ShellAssumption. EverythingEnds is
a liveness property, which TLC alone checks.

The comment at `run_command.c:18-22` says that "&" is removed from the vector by
the test for it; it is not, and the model passes it on as a word, as the code
does. Lines over 254 bytes, more than 20 words in a pipeline, failing fork and
pipe, zombies and output that is not flushed are not modelled.

## The small programs (Programs)

The remaining programs are small, and each has its hazard or two. Their modules
share one run, `programs`: a behaviour is that of one program, named by the
variable `program`, and Programs composes the families, each with variables of
its own; MCPrograms gives the constants their values. Its properties are
conjunctions of what the modules say: NothingIsLost of the programs that have
partners, ResultsAreRight of those that have a result, ProgramsEnd of all.
Deadlock is not checked: programs end. Several of them wait for ever by what
their code says; ProgramsEnd names each of these waits.

- **Signals.** The ping-pong has three rounds: nobody sends before the other has
  taken the signal before, and both end. Callers of the five System V calls make
  sequences of calls, among them a release of what was held, with up to three
  SIGINTs at any point: one that comes while held is kept, also between the two
  calls my_sigset consists of, and one is fatal only while the disposition asked
  for last (`asked`) is the default. A caller may pause for ever for a signal
  nobody sends. The detector: an error that comes outside a mail is counted or
  pending until a mail is begun, if it is not cleared with the errors of the
  mail before; `cnt = 0` follows a mail of at least one and at most as many
  errors as were counted, and what it clears beyond those (`lost`) came after
  that mail was begun. Errors are mailed about as long as the timer goes on.
- **Pipes.** Upper-caser: four inputs, in which "kill yourself" stands alone,
  after a shorter and after a longer line. Parent and child always agree on it,
  and both miss it after a longer line; at the end of input the parent waits for
  ever. popen with three lines over a pipe of two: everything written is read,
  whichever side closes or ends first; the command closes its end of the pipe
  before it has ended (ChildHasEnded), so the parent may come between. myrpc
  with nine descriptors: it
  never executes what was not typed before the end of input, and ends when it
  has no descriptors left.
- **FifoModes.** All modes of both programs. A message that is printed was
  written before; a write fails only after a server that let the client in has
  ended; and what was written waits for a server that is still to read, even if
  the client has gone.
- **CondVar.** One or two consumers, two data, one spurious call. A consumer
  adds at most one value per call, in order; with two consumers the joins never
  end.
- **Router.** Three nodes accepted in any order, of which one sends to all, one
  to the first and one to the third; up to two are killed. The router serves the
  second node only when the first has gone: unless nodes are killed, only the
  first one's message arrives.
- **FileTools.** Files of up to three bytes of three kinds and four of five,
  buffers of two bytes, one append by another process. A copy by cp is the file,
  if that does not end in a zero; otherwise zeros, and nothing but zeros, are
  missing at its end; cp of a file to itself empties it; tee -a keeps what others
  append; tail prints as many lines as asked for of the file as it was.
- **Convert.** Texts of up to five lines. Every entry can be found, whatever
  stands before it; if all definitions are of one line, what is found for a word
  is the definition of the first entry for it.
- **ProcTools.** Three processes and up to three changes. In 12-1 the name is
  read in two steps (get_process_cmdname is the `fopen` of `12-1.c:65`,
  NameIsRead the `fgets` of line 71), so the process may end in between
  (`gone`), and the line printed then has the name left from the line before, or
  garbage. In the other reads of a status file such an end has the outcome of
  one before the open. Processes of the user that are there all the time are
  printed, with their own names; a name that was not read is followed by a
  failure of the program; both walks that test errno at the end (`12-1.c:124`,
  `12-2.c:102`) fail when any process ended before it was opened or read, and
  the tree is then not printed at all.

Two sides, three lines or nodes and files of two buffers and a half are the
least at which a program meets its partner twice, or an edge once on either
side; nothing in these programs counts further.

What the repository says of these programs and they do not do is apart, so that
the properties above state what does hold. Claims has one sentence for each
comment, message or README line concerned, over an instance of the program's own
module with the smallest constants that matter:

| sentence | said at | what happens |
| --- | --- | --- |
| DefaultIsReset | `22-4.c:71` | SIG_DFL is NULL, which is tested first: the signal is held, the handler stays |
| GoodMeansNoError | `detector.c:21-23` | an error after the mail is cleared with the count |
| KillYourselfExits | `44_1.c:66` | typed after a longer line it is answered like any other |
| StatusIsTheCommands | `44_2.c:135` | WNOHANG: the status was never set |
| NoWriterMeansNone | `44-7/server.c:51,82`, `README:14` | EAGAIN comes only while there is a writer |
| ContentIsCopied | `SP_HW1/README:3` | zeros at the end are not in the copy |
| WordsAreWords | `convert.c:3-7` | the second line of a definition is found as a word |
| NamesAreTheirs | `12-1.c:115-119` | a process that ended before `fgets` gets the name of the one before |

Run `claims` (expected to be violated): the programs run one after the other,
each until its sentence is broken, and SomeSentenceHolds says that one is not.
Its violation is one behaviour that breaks all eight; each is a finding.

Proved (`Programs_proofs`, a section per family, the composition last) from
ProgramsAssumption: PartnersLoseNothing, which states NothingIsLost, and
ResultsHold, which states ResultsAreRight. The numbers of signals, lines,
values, consumers and changes, the contents, texts, process numbers and the size
of a buffer are arbitrary. A family keeps its own invariant in its steps and in
those of all others (SigStays and so on), so the families are proved one by one:

- SigInv: the ping-pong has one ball - the signal that is pending, or the side
  that has taken it and not yet sent - in one of the positions that Ball lists;
  a caller that owes itself a held SIGINT has it pending and does not ignore it,
  and has asked for the default if it has it; an error the detector has not
  mailed came while it had the handler, and between a mail and the clearing the
  count is at least what the mail said.
- PipInv: the upper-caser's child waits, was asked, has answered or has ended at
  the line, and in each of the four its buffer has the same rest of earlier
  lines as the parent's, so both compare the same bytes; what popen's writer has
  written was read or is in the pipe, and the writer keeps its end until it has
  written all; a command in myrpc's pipe was typed and not yet executed.
- FifInv, ConInv, RouInv: who has met whom; the buffer is the last value or the
  terminator, and whoever is past the wait holds the mutex; the nodes before the
  one the router reads have gone, whatever is in the inboxes.
- FilInv: the buffer is the last bytes that were read (ReadInv); what cp has not
  yet written of what it read are zeros (CpInv); the bytes that tee -a has
  written lie in order among those others have appended (Places); tail stands
  where the newlines behind it are those it has counted (Behind), so what it
  prints starts where it should (Starts).
- CnvInv: there is an assignment of records to lines that names the line each
  record is from, in the order of the file, and misses no entry (Sources); while
  no definition has two lines it names beginnings of entries only.
- ProInv: the processes that have not changed and that the walk is past are in
  the list (Visited), an errno that is set comes from a change; in the tree a
  parent that has not changed has been there before its child, so a process
  whose ancestors are all unchanged is reached from 1 by as many steps as it
  has ancestors - at most the number of processes.

Several of these are about all prefixes of a file or all generations of a tree.
The induction is by the least counterexample (LeastNat, from the library's
theorem that `<` on Nat is well-founded), and the recursive function that the
tree is printed by is taken as one of the sequences that IteratesExist provides.
TLC checked each family's invariant on the run before it was proved.

Fairness: each program or process goes on when it can; a pending signal is
delivered and a timer that is set expires. Nobody has to type, send or append.

Not modelled: a read of 44_1 that takes two lines or a part of one, words and
lines that overflow their fields, write errors that tee passes over, files that
shrink (SIGBUS in 49_1), a negative number of lines for tail, more than 1024
processes, and failing fork, pipe, socket and sigaction calls.

## What is assumed everywhere

Accesses to shared memory by single statements are atomic, except where a module
splits them (the slot of ProducerConsumer, `cnt++`). Signed addition wraps
around, as the compiled code does.

Every safety invariant that a passing run checks is proved, for every value of
the constants, and so are the action properties, both refinements of SeqAlloc
and those of LineChannel and FileChannel. Only model-checked are the liveness
properties (ClientsGetOn, ProducerEnds, TransferEnds, RequestIsAnswered,
EveryoneGetsOn, LookupEnds, EverythingEnds, ProgramsEnd): liveness under
fairness is outside what the proof system does. So is induction with a theorem
that takes an operator as a parameter; where a proof needs induction over the
naturals it looks at a least counterexample instead.

The assumptions of the theorems are the ASSUMEs of the modules
(ShmDictAssumption, ProducerConsumerAssumption, ShmXfrAssumption,
MsgqAssumption, FifoAssumption, MqFileAssumption, NetDictAssumption,
Lookup5Assumption, ShellAssumption, ProgramsAssumption) and IntsGiven, a
hypothesis of SeqAlloc's theorem; TLC evaluates the former on every run of
theirs.

Every passing property has a mutant in `PROJECT.json` ("mutants"): a plausible
error in one definition, given beside it under a comment "Mutant", with which
the run finds the property violated.

Run a model with `tlc -config X.cfg M`, a proof with `tlapm M_proofs.tla`.
Two proof modules hold the proofs of two programs that have no name in common,
ShmDictShell_proofs and ShmXfrProducerConsumer_proofs; NetDict_proofs also holds
those of Lookup5.

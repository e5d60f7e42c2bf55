# TLA+ models of Why3: prover server, proof scheduler, mini-gmp

Why3 is a platform for deductive program verification. Its OCaml part turns
programs and theories into proof tasks, keeps them in a session and schedules
them. The tasks are handed to a separate process, `why3server`, written in C,
which runs the external provers a few at a time and reports how each ended.
Front ends (IDE, shell, replayer) share that server over a socket or a named
pipe. The repository also holds a multiprecision library in C, mini-gmp, which
its extracted and verified code is compared with.

This directory models three parts of it:

1. the prover server on Unix and on Windows, its data structures, the bytes
   between client and server, the way of a command line to the prover, and the
   small wrapper `why3-cpulimit` that runs a command under limits;
2. the scheduler of proof attempts on the client's side, with the session it
   updates, composed with the abstract specification of the server; and the
   files a session is saved in;
3. mini-gmp, function by function, against exact arithmetic.

Source paths below are relative to the repository's `src/`, those of mini-gmp to
`examples/multiprecision/`.

## 1. Inventory

| Part | Source | What it is |
|---|---|---|
| Server, Unix | `server/server-unix.c`, `proc.c`, `arraylist.c` | one thread, `poll()` loop, SIGCHLD self-pipe, fork/exec of provers |
| Server, Windows | `server/server-win.c` | one thread, I/O completion port, overlapped pipes, job objects |
| Requests | `server/request.c`, `queue.c` | parsing of commands, ring buffer of waiting requests |
| Buffers | `server/readbuf.c`, `writebuf.c` | per client, partial reads and writes |
| Wrapper | `server/cpulimit-unix.c`, `cpulimit-win.c` | runs one command under time and memory limits |
| Options, log | `server/options.c`, `logging.c` | command line and log file |
| Client | `driver/prove_client.ml` | connects, sends requests, reads answers |
| Calls | `driver/call_provers.ml` | table of calls in progress, results, interrupts |
| Controller | `session/controller_itp.ml`, `unix_scheduler.ml`, `strategy.ml` | schedules proof attempts, transformations, strategies; replay, bisection |
| Session | `session/session_itp.ml`, `termcode.ml` | tree of goals, transformations, attempts; proved status; merge; saving |
| Proof server | `session/itp_server.ml`, `itp_communication.ml` | requests and notifications of the user interfaces |
| User interfaces | `ide/`, `trywhy3/`, `tools/` | front ends |
| mini-gmp | `mini-gmp/mini-gmp.c` | integers of any size: limbs, vectors of limbs (mpn), signed numbers (mpz) |
| Primitives | `overlays/uint64gmp.h` | 64-bit operations used by the extracted code |
| Logic | `core/`, `mlw/`, `parser/`, `transform/`, `printer/`, `extract/`, `infer/` | purely functional processing of terms and programs |

How the modelled parts interact: a client connects and sends lines
(`run;...`, `interrupt;id`, `parallel;n`). The server parses a line, starts the
prover if fewer than `parallel` run, and queues it otherwise. It sends `S;id`
when a prover starts and `F;id;...` when it ends. A prover's end comes back as
SIGCHLD (Unix) or as a packet of the job object (Windows). A prover may itself
be `why3-cpulimit` around the real one.

On the client's side the scheduler keeps proof attempts in a queue, makes calls
of provers of them from an idle handler, and goes through the answers in a
timeout handler, which updates the session and may let a strategy go on. The
user asks for attempts, strategies and transformations, interrupts them, and
removes or cleans parts of the session, between any two handlers.

`PROJECT.json` lists every part with its status, and the hazards: the places
where an order of events, a limit or a failure could break the code and a test
would hardly reach it.

## 2. Modules

| Module | Models | Size of the state |
|---|---|---|
| `VCServer` | Unix server, kernel (children, SIGCHLD, self-pipe, sockets), clients | whole server |
| `JobPool` | abstract specification: jobs wait, run once, start below a limit | |
| `VCServerWin` | Windows server, completion port, pipe instances, clients | whole server |
| `PollList` | the `pollfd` array and the list of clients, entry by entry | entries of the two tables |
| `RingQueue` | `queue.c` and `remove_from_queue` | |
| `RequestFifo` | abstract specification: a FIFO queue from which an id can be removed | |
| `Wire` | bytes between one client and the server | one client |
| `CommandLine` | a command from the client to the prover's `argv` | no time |
| `CpuLimit`, `CpuLimitWin` | `why3-cpulimit` | two processes, two threads |
| `Session` | the session tree with its cached proved status | one theory, one prover |
| `Controller` | the scheduler, the calls of provers, strategies; the server as in `JobPool` | client, socket and server |
| `SessionFile` | the files written by `save_session`, call by call | four files |
| `Limbs` | macros on one and two limbs, `uint64gmp.h` | operators |
| `Mpn` | the mpn functions | operators on vectors of limbs |
| `Mpz`, `MpzHigh`, `MpzText` | the mpz functions | operators on a store of variables |
| `IntFunctions` | abstract specification of the mpz functions: exact integers | |
| `MpnCalls`, `MpzCalls` | clients that call each function on each operand | operands, result |

`MCVCServer`, `MCVCServerWin`, `MCController`, `MCMpn` and `MCMpz` instantiate
the module of that name for TLC, `MCCpuLimit` the two wrappers, and
`MCServerParts` the parts below the main loop of the server (`RingQueue`,
`PollList`, `Wire`, `CommandLine`) together with `MCCpuLimit`. Where such a module
holds several parts, they share no state, and a variable says which one is at work.

The theorems are in modules of their own: `VCServerProofs` (about `VCServer`),
`VCServerWinProofs` (about `VCServerWin`), `ControllerProofs` (about `Controller`),
each over a module of lemmas (`VCServerSteps`, `VCServerWinSteps`,
`ControllerSteps`), `SessionProofs` (about `Session` and `SessionFile`) and
`ServerPartsProofs` (about `PollList`, `RingQueue` and both wrappers). `FiniteFacts`
names the facts about finite sets that their lemmas assume and the last of them
take from the library. Section 4 describes them.

### VCServer

The server is sequential, so its program counter `pc` goes round the main loop:
`schedule` (schedule_new_jobs), `poll`, `accept`, `pipe` and `reap`
(handle_child_events), `serve` (a client's entry), `msg` (handle_msg). A step is
one poll entry, one reaped child, one line of input or one started job, because
only system calls separate what others can observe. Between two steps the
kernel and the clients act: a child ends (`ChildEnds`), the signal is delivered
(`SigchldHandle` writes a byte to the self-pipe), a client connects, sends,
reads, or closes.

- `clients` is keyed by descriptor, as in the code; `accept` returns the lowest
  free one, which is how a descriptor is used again.
- A request carries the descriptor and the id chosen by the client. The fields
  `rid` and `owner` are history: the code has neither, and no action decides
  anything by them, except that `rid` stands for the position in the queue.
- `stream` is everything ever put into a client's write buffer and `sent` says
  how much was written; together they are the write buffer. Answers are whole
  here. `Wire` has the bytes.
- A write to a connection its client has closed gives EPIPE, or SIGPIPE unless
  ignored (`SigpipeIgnored`, inherited by the process).
- `ShutdownWithMsg` is any failing `accept`, `fork` or `poll`.

### VCServerWin

The completion port is a queue of packets; a key tells the server whether a
packet is for a pipe instance, a client or a prover. Overlapped operations are
pending until the kernel ends them (`ReadEnds`, `WriteEnds`). Messages may come
in parts (`RunParts`). Job events (`Events`: time limit, memory limit) may come
before the end of the prover. The bytes in the buffers are as in `Wire`, and not
repeated. Left out: a client that connects between CreateNamedPipe and
ConnectNamedPipe, and Win32 calls whose failure shuts the server down.

### PollList, RingQueue, Wire

`PollList` walks over the array with the loop's index while handlers append,
mark entries removed and compress. `RingQueue` executes `queue_push` with its
resizing, and `remove_from_queue` one pop or push at a time. `Wire` gives every
byte an identity (line and place in it), so that losing, doubling or mixing
bytes is visible; `read` and `write` take any amount the kernel may give.
`have_taken` uses `memcpy` on overlapping memory, which is undefined. The
run fixes the order in which it copies (`MemcpyOrders = {"forward"}`, the order
in which overlap does no harm here). That is an assumption on the C library:
with `"backward"` added, `LinesIntact` fails.

### CommandLine

The stages of a command are operators on sequences of characters: joining with
semicolons (client), splitting (`parse_request`), and on Windows quoting
(`run_request`) followed by the splitting rules of the C runtime (external).
An invariant compares the `argv` that comes out with what went in. `CmdSize`
is the size of the array in which `run_request` puts the Windows command line
together without a check (4096 in the code): a line beyond it is undefined, and
the model stops there (`RunRequestBeyond`). The handle of the input file of a
`runstdin` request is not inheritable on Windows, so there the prover gets no
stdin.

### CpuLimit, CpuLimitWin

Parent, child, command and alarm clock (Unix), or main thread, console handler
thread and command (Windows), as separate processes over shared state. Usage
errors end the program before anything happens and are left out. Console events
are handled one after the other. The signal of its own that the Unix wrapper may
meet is SIGALRM; a SIGKILL sent to the wrapper by the server, and signals ignored
since before it was started, are not in the model.

### Session, Controller

A session is a record and an operation of `session_itp.ml` an operator from
sessions to sessions. The state of a proof attempt is reduced to `pa_ok` (valid
and not obsolete), the only thing a status depends on. The tables `pn_state`,
`tn_state` and `th_state` are caches: `update_goal_node` and
`update_trans_node` are translated with the point at which they stop. As they only
call each other last, a call of one is a session and the call it ends with, and
the calls that follow one another are a recursive function of their number. Nodes
are numbered in the order they are made, as in the code, so that a parent is older
than its children.

OCaml runs one handler at a time, so an action of `Controller` is a whole
handler with all callbacks it calls. `timeout_handler` alone is cut: it reads
some answers, then handles each result, those of different calls in any order,
because they come out of a hash table. Nothing but the server acts in between.

| Variable | Code |
|---|---|
| `queue`, `tasks`, `nrunning` | `scheduled_proof_attempts`, `prover_tasks_in_progress`, `number_of_running_provers` |
| `running` | `controller_running_proof_attempts`, a bag: `Hpan.add` stacks bindings |
| `jobs`, `idleOn` | functions registered with `S.idle ~prio:0`; `idle_handler_running` |
| `fetched` | results `timeout_handler` has yet to go through |
| `saved` | `saved_data` of `call_provers.ml` |
| `told` | history: what each callback was last told |

The orders of the GTK and the Unix scheduler differ (priorities, timers), so
registered functions and handlers run in any order, except that functions of
priority 0 keep theirs. The server is `JobPool` with its answers `S` and `F` and a
step in which it dies; `VCServer` is proved to refine `JobPool`. A write to a dead
server raises an exception, as in a process that ignores SIGPIPE; otherwise the
process ends and there is nothing left to say. The client is connected from the
start. An `interrupt` that raises in the middle, because the server dies between
two of its writes, is not in the model. A registered function that raises (a
strategy whose goal was removed, say) changes nothing, and the main loop goes on, as
that of GTK does; the loop of `unix_scheduler.ml` catches only `Exit`, so that there
the program ends and nothing is left to say.

`set_session_max_tasks` keeps a number that is not positive, although
`set_max_running_provers` then raises and sends nothing.

`SessionFile` takes `save_session` apart into its system calls: removal of the old
backup, rename, open, close, for `why3session.xml` and the shapes. The program
may end between any two of them and be started again, or any of them may fail,
after which `treat_request` tells the user and the program goes on with the files
as they are (`SaveFails`). The variable `over` is history: a save began over the
incomplete file of a failed one, and none has returned since. The uncompressed file of
shapes is handled like the compressed one and is not repeated.

### mini-gmp

Limbs have `LimbBits` bits (64 in the build), and every C expression on them
wraps. A vector is a sequence of limbs; a function that stores a vector and
returns a limb gives both. In `Mpz` a function maps the store of all variables
to the store it leaves, so that a result that is also an operand is read as the
code reads it: after it was written, where the code does so. A ghost `ok` turns
false when limbs are stored beyond the room that was requested, and when an
`assert` fails. `mpz_import` and `mpz_export` place bytes with a moving pointer,
as the code does; `IntFunctions` says by a formula for the weight of each byte what
either of them must read or write, for both orders of words and all three values of
`endian` (0 is the order of the machine, here least significant byte first). Loops are recursive operators; those modules are for TLC only.

## 3. Runs

Passing runs:

| Run | Distinct states | Shows |
|---|---|---|
| `server_shared` | 2,305,345 | two clients sharing a Unix server: SIGCHLD, self-pipe and `wait3` lose no child (`SelfPipeSound`); every child is in the list (`ChildrenKnown`); no free slot beside a waiting request when the server sleeps (`NoIdleSlot`); POLLOUT exactly when data is left (`PolloutIffPending`); every start and end reported once and in order (`StartedThenFinished`); each request of a connected client in exactly one place (`NothingLost`); an answer strays only after its client left (`StrayOnlyAfterClose`); refinement of `JobPool`, which starts a job only below the limit (`RefinesJobPool`) |
| `server_live` | 327,620 | a `--single-client` server ends once its clients are gone; every `run` of a client that stays is answered, unless interrupted in the queue or the server stopped |
| `server_parts` | 280,317 | the ring buffer refines `RequestFifo` and a removal is complete; one `pollfd` entry per client and no ready entry skipped; lines arrive whole and in order both ways, and client and server do not block each other for ever; `argv` and limits arrive unchanged, on Unix stdin too (`CommandArrives`); `why3-cpulimit` on Unix ends as the command, leaves nothing running and ends in time, on Windows a code that was read is final and it ends with the command |
| `win_shared` | 2,778,217 | answers to their sender, writes one at a time, always a read pending, ends reported once, no idle slot, refinement of `JobPool` |
| `win_progress` | 361,554 | every `run` answered if nobody leaves |
| `controller` | 610,307 | each attempt is told one end and only one, whatever arrives after an interrupt (`EndsOnce`); counter, table of calls, running attempts, saved data and session agree (`TablesAgree`); the cached status of every node is that of its children (`StatusSound`); `clean` changes no status (`CleanKeepsStatus`); attempts end, unless the server dies or the number of provers is not positive (`AttemptsEnd`); the last saved session survives the end of the program at any point and a failed save, but not always a second one (`SavedSurvives`) |
| `mpn` | 282,410 | limb primitives, additions, products, shifts, bit scans and counts, and divisions are exact (`ArithmeticExact`); conversions to and from text keep the number, fit their buffers and refuse what is no number (`DigitsExact`) |
| `mpz` | 144,969 | each mpz function gives what `IntFunctions` says, `mpz_powm` with exponent 0 and modulus ±1 excepted, whichever variables coincide, stays within the room it requested, fails no `assert` and leaves normalized variables (`CallsExact`) |

Bounds. Two clients are enough for one to get another's descriptor, to
interrupt or delay another, and to leave while the other waits; two descriptors
make reuse happen. One slot and two or three requests make queueing, overtaking
and interrupts in the queue happen; a `parallel` command with 0 or 2 covers the
rejected (in `server_shared`) and the raised limit. No run lowers the limit below
the number of running provers; the safety theorems below about both servers hold
for every sequence of limits. `SockCap = 1` makes writes block, `PipeCap = 1` makes the
self-pipe full. On Windows both clients send a `run` and one also a control
command; the other one's command is the one that may fail to start or meet
a limit. Four pushes into a ring of capacity 1 wrap and resize it twice; three
client descriptors let the `pollfd` array change before, at and behind the entry
being handled. Lengths in
`Wire` are chosen to be longer, equal and shorter than a read. Arguments of five
characters over a letter, space, quote and backslash contain every combination
the quoting code distinguishes: runs of backslashes before a quote, before
another character and at the end. With `CmdSize = 16` some of the
lines they make fit and some do not. `Symmetry` permutes pids only, which no
action orders, and is used in safety runs only; clients are not symmetric.

`controller`: one goal, one transformation with no or one subgoal, two attempts
and two slots make every pair of a user's request and a handler meet: a goal that
is attempted twice at once, removed or interrupted while a call is in the queue,
in the table or answered, a strategy that goes on in a subgoal. The window of
the idle handler is `Multiplier * maxTasks`; 1 instead of 3 lets it close with two
attempts. Strategies begin at any of the three instructions. A transformation is
made while its number is at most `MaxNodes`; strategies and transformations are
asked for while fewer than `MaxJobs` functions are registered, and the number of provers
goes from its default 1 to 0 or 2, and from 0 to 2.
Four saves let a program fail or end in a save, save again, be started, and fail or
end once more.

`mpn`: limbs of four bits, with halves of two. The single-limb functions are
tried on all limbs, the vectors on up to four limbs out of {0, 1, 7, 8, 15}, the
values around which carries and quotient estimates change; texts on up to six
digits in bases 2 to 8. `gmp_popcount_limb` works on 16 bits at a time whatever the
limb, so it is tried on words of 30 bits with one or two ones or a run of ones.
`mpz`: limbs of two bits, all pairs of operands of up
to two limbs of either sign, single operands also with a spare limb; bit counts around one
and two limbs; bytes of one bit, up to two words of one to three bytes. A text that has digits after the prefix `0x` is not tried: base 16
needs larger limbs.

Only `VCServer` has a type invariant that a run checks; elsewhere a wrong type
shows in the properties. The other proofs state the types they rest on beside their
inductive invariants.

Deadlock is not checked for the two servers, which may rest: when all clients
are done the server sleeps in `poll` for ever.

Fairness. The server's loop is fair because it is one thread of a running
process. Signals and completion packets are delivered by the kernel. Provers end
because they run under a CPU limit (a prover that never ends holds its slot; the
runs do not claim otherwise). A client that stays connected reads its answers:
Call_provers polls for results. Clients need not send, and need not close. In
`CpuLimit` nothing makes the command end; only the wrapper and the alarm are
fair. In `Controller` the two handlers are fair, because the main loops of both
schedulers call them again and again; so is the server, by what `server_live`
and `win_progress` show. The user is not, nor are the functions registered by
strategies. All fairness is weak.

### Disagreements between code and documentation

Four runs each check one statement of the documentation or of a comment, and TLC
finds a behaviour of the code against it; the quotes are in `PROJECT.json` under
`findings`.

| Run | The code |
|---|---|
| `server_fdreuse` | an answer goes to a later client with the same descriptor |
| `win_slots` | the slot of a prover whose client left is lost |
| `win_stdin` | the file of a `runstdin` request does not become the stdin of the prover on Windows |
| `transf_twice` | two equal transformations asked for in a row are both grafted; a reload of that session ends the program |

Other disagreements met while modelling are built into the models as the code
has them, and the properties of the passing runs name them as exceptions:

- A new request may overtake queued ones: `handle_msg` does not look at the
  queue (`README.server`, lines 8-9, says it is put in the queue).
- The timeout field of an answer is 1 for any ending by a signal, a crash or an
  interrupt too (`README.server`, lines 75-76).
- A client that closes its end while an answer for it is unwritten ends the
  server: by SIGPIPE, or, if that is ignored, by the assertion of
  `prepare_write` one turn later. `RequestsAnswered` excepts a stopped server.
- On Windows a connection to a pipe instance above a lowered limit is not
  accepted, and the name of an executable is not quoted: `CommandArrives` asks
  for a name without a space there. It also asks for a line that fits the array
  `cmd` of `run_request`, which the code does not check.
- An alarm that rings before `waitpid` is lost (`EndsInTime` excepts it), and a
  command killed by SIGALRM is reported as neither exited nor signalled
  (`EndsAsTheCommand` excepts it).
- A console event around `CreateProcess` leaves the command of the Windows
  wrapper behind; `CpuLimitWin` claims nothing of the command then.
- The scheduler does not notice the death of the server: `read_from_client`
  takes the end of file for a read without data. `AttemptsEnd` excepts it.
- A number of provers that is not positive is stored before it is refused, which
  closes the window of `idle_handler` until another one comes. `AttemptsEnd`
  excepts the attempts in the queue then, not those with a call.
- A call interrupted in the server's queue is never answered, and its entry of
  `saved_data` and its file stay. `TablesAgree` asks for no entry too few, not
  for none too many.
- A program that ends between the rename of `why3session.xml` and the end of
  writing the new one leaves the session in the backup only, which
  `load_session` does not read: it gives an empty session, or an error.
- After a save that failed while writing, the next one takes the incomplete file
  for the backup and removes the complete one; if it fails as well, or the program
  ends in it, no complete session is left. `SavedSurvives` excepts the time from
  the beginning of such a save to the return of one (`over`).
- `mpz_powm` stores 1 for an exponent of 0 without reducing it, also for a modulus
  of 1 or -1, where the power is 0. `wmpz_powm` of `tests.c` (lines 128-131), which
  is compared with it, stores 0 there, under a comment that assumes a positive
  exponent. `IntFunctions` has 0, and `CallsExact` names the case
  (`PowmModuloOne`).
- `mpz_gcd_ui` returns 0 for a second operand of 0, whatever the first, while it
  stores the gcd. `IntFunctions` says so.

## 4. Proofs

A run looks at a few clients and requests; the theorems hold for any number of
them. Every theorem states a property that a run also checks on a small instance.
Those about `PollList`, `RingQueue` and `SessionFile` are about the component alone;
`MCServerParts` and `MCController` check the same formula beside other parts.

| Module | Theorem | Property | Meaning |
|---|---|---|---|
| `VCServerProofs` | `TypeCorrect` | `TypeOK` | type correctness |
| | `ChildrenAlwaysKnown` | `ChildrenKnown` | the list of provers and the kernel's children agree |
| | `NoChildForgotten` | `SelfPipeSound` | an ended child is always announced by a signal, a byte or the loop being about to reap |
| | `NeverIdle` | `NoIdleSlot` | the server sleeps only if no request waits or no slot is free |
| | `ImplementsJobPool` | `RefinesJobPool` | the Unix server implements `JobPool` |
| | `PolloutExact` | `PolloutIffPending` | POLLOUT is asked for exactly while data is unwritten |
| | `AnswersInOrder` | `StartedThenFinished` | a client is told each start and end of its own requests once, the end after the start |
| | `StrayAfterCloseOnly` | `StrayOnlyAfterClose` | an answer strays only after its client was closed |
| | `NoRequestLost` | `NothingLost` | a request of a connected client is in exactly one place |
| `VCServerWinProofs` | `OneWriteAtATime` | `WritesTakeTurns` | `is_writing` says exactly that a write is under way |
| | `AlwaysListening` | `AlwaysReading` | a connected client always has a read pending or its packet in the port |
| | `NoSlotIdle` | `NoIdleSlot` | as on Unix |
| | `AnswersReachTheirSender` | `AnswersToSender` | an answer goes to the sender of the request |
| | `EndReportedOnce` | `ReportedOnce` | start and end are reported at most once, in this order |
| | `WinImplementsJobPool` | `RefinesJobPool` | the Windows server implements `JobPool` too |
| `ServerPartsProofs` | `EveryClientHasItsEntry` | `OneEntryPerClient` | one `pollfd` entry per client, room in both tables |
| | `EveryReportHandled` | `NobodySkipped` | a turn of the loop handles exactly what `poll` reported |
| | `RemovesAll` | `RemovalComplete` | `remove_from_queue` leaves no request of that id |
| | `ImplementsFifo` | `RefinesFifo` | the ring buffer implements `RequestFifo` |
| | `EndOfCommandReturned` | `EndsAsTheCommand` | Unix: the wrapper ends as the command |
| | `NoCommandLeft` | `NothingLeftRunning` | Unix: no command left behind, no stranger killed |
| | `FinalCodeRead` | `CodeReadIsFinal` | Windows: a code that was read is the final one |
| `SessionProofs` | `SavedSessionSurvives` | `SavedSurvives` | the last saved session survives the end of the program at any point and failed saves, until one begins over an incomplete file |
| `ControllerProofs` | `AttemptsEndOnce` | `EndsOnce` | an attempt is told one end, and only one |
| | `TablesAlwaysAgree` | `TablesAgree` | counter, tables, session and saved data agree |
| | `StatusAlwaysSound` | `StatusSound` | the cached status of every node is that of its children |
| | `CleanChangesNoStatus` | `CleanKeepsStatus` | `clean` changes no status |

Assumptions. The two servers and `CpuLimit` name theirs beside their constants:
these have their types, the first limit, the buffer sizes and the number of parts
of a message are not zero, and the signals the code names are signals. Their sets
may be infinite. The theorems about `RingQueue` assume a capacity that is not
zero (`init_queue` asserts it), those about `PollList`
that the listening socket, the self-pipe and the mark of a removed entry are none
of the clients' descriptors, and a limit that is not zero. Those about `Controller`
assume a theory with at least one goal and transformations that give a number of
goals; strategies, limits and all bounds are any. `SavedSessionSurvives` assumes
nothing. The theorems about `why3-cpulimit` are stated for the composition
of both wrappers in `MCCpuLimit`; the lemmas under them are about each one alone.

### Unix server

`TypeOK` is not inductive. `TypeInv` adds that `seen` and `processes` are finite
(their cardinalities are used as numbers), that events left to handle and lines
left to parse belong to connected clients (a handler looks its client up and uses
it), and that the self-pipe is read only when it holds a byte. `ChildrenKnown`,
`SelfPipeSound` and `NoIdleSlot` are inductive relative to `TypeInv`, with one
step per action. The refinement needs `PoolInv`: arrival numbers are fresh, a
request is not queued and running at once, and no two processes run the same
request. Then `processes` and the jobs that run have the same number of elements,
the limit in the code is the limit of `JobPool`, and each action maps to one
`JobPool` step or to none.

For the answers, `LinkInv` says that the table of clients lists exactly accepted
connections, each under one descriptor, and that the descriptor in a request is
its sender's as long as the sender is connected. This is what a reused descriptor
breaks later, and why `StrayOnlyAfterClose` is the most that holds. `PolloutInv`
adds that an event POLLOUT is handled while the client still asks for it.
`TalkInv` adds what was said so far: nothing of a request that waits or was
interrupted in the queue, no end of one that runs, and a start of each one that
runs for a connected client. Without it a second start or end could not be
excluded.

### Windows server

Everything there goes by keys, so the proof begins with them (`KeysInv` in
`VCServerWinSteps`): a key belongs to one pipe instance, or to the one client
that came through it, and is never given out again; a request carries its
sender's key. `WriteInv` then says of each connected client that at most one
write is in the kernel or reported in the port, never both, and that no packet of
a write carries the key of an idle pipe instance: otherwise the next client of
that instance could be told of a write it never made. `PipesInv`, the types with
these two, is inductive. That requests and processes are finite (`FiniteInv`) is
kept apart, because only the counting of slots needs it.
`JobsInv`, in `VCServerWinSteps` too, is the counterpart of `PoolInv` and `TalkInv`; a
request whose `CreateProcess` failed is in `refused` and counts as not submitted
in the refinement.

### Parts of the server

`PollInv`: entries other than removed ones have distinct descriptors, the same
ones as in the list of clients, the first two stay socket and self-pipe; behind
the index of `poll_list_clean` there is no removed entry; and in the main loop
what `poll` reported is what was handled or is still ahead of the index, which
`NobodySkipped` follows from at the end of the array.

`RingInv`: both queues are well formed (pointer and length within the capacity,
slots in use written), and what `remove_from_queue` has poured into the temporary
queue, and back, has not the id it removes. The lemmas before it say what
`queue_push`, its resizing and `queue_pop` do to the contents as a sequence. The
refinement mapping takes what the two queues hold together, in the order a removal
would leave it; each pop that drops a request is then a step of `RequestFifo`, and
each one that pours a request over is none.

### Wrapper

`UnixInv` says where the child is at each point of `main` (forked and not waited
for until `waitpid` returns, dead when it is called again after SIGKILL) and that
an end is known once the child is dead. `WinInv` says the same of the handle of
the process: null only before `CreateProcess`, never open again once closed, and
`main` reads the code of a process that has ended or by a closed handle.

### Session

`Tree` is the shape of a session: a goal is a subtask of its parent, a
transformation stands on a goal, every node has its status, and parents are older
than children. `SoundBut(s, X)` says that every status outside `X` is what the
children give; a session is `Valid` when it is a tree and `X` is empty. An operation
on the session breaks at most the status of one goal or of a new transformation, and
`CallInv` says that along the calls of `update_goal_node` and `update_trans_node` only
the node of the next call may be wrong. The calls go to older and older nodes, so one
of them returns (`CallsReturn`), and then nothing is wrong (`UpdateGoal`). This holds
for trees of any shape, by induction along the calls: `Least`, `Induction` and
`RunsExist` are proved from the well-foundedness of the naturals for sets and
functions in place of a predicate. The nodes under a transformation (`Under`) are the
least set closed under its subtasks, so no induction is needed for a removal.

`FilesInv` says what `why3session.xml` and the shapes are at each of the eight
calls of a save, and that a complete file is never older than the last save that
returned. A save that finds an incomplete file under the name of the session has
set `over`: without this the rename of that file over the good backup could not be
told from a harmless one. A program that was started has loaded a complete session
or none, so only a failed save leads there.

### Scheduler

The inductive invariant `Inv` of `ControllerProofs` has four parts.

- `AttemptInv`: an attempt is in the queue, in the table of calls, or told its end;
  never in two of these places, and never twice in one. What it was told last
  follows from the place and from `tp_started`.
- `MessageInv`: a call is requested once, and its request is gone once the server has
  it; each of its answers is at most once on the way, in the socket or among the results
  read. A call that waits has no answer, one that is being proved none F, and one
  marked as started no S. The data of a call is saved until its F is read. Without
  this part a second S could raise the counter twice, or an F find no data.
- `CountInv`: the counter is the number of calls marked as started, and the table of
  running attempts has each goal as often as attempts on it are pending.
- `SessionInv`: the session is `Valid`, and every goal in the table of running
  attempts has a node. This is what `check_removable` protects: the callback of an
  attempt finds its node, and the status it updates is of a goal that exists.

`StepKinds` reduces the actions to what they do to these variables: a new attempt, a
call made or failed, a start or an end handled, an interrupt, a change of nodes, a
transformation, a step of the server. `clean` and `reset_proofs` visit every node;
`RemovedStays` is the induction over the visits. `clean` takes away only what is not
proved, under a goal that is, so that no status has to be repaired (`CleanSession`).

### Only model-checked

- Liveness (`StopsAfterLastClient`, `RequestsAnswered`, `EveryRequestAnswered`,
  `AnsweredIfNobodyLeaves`, `EndsInTime`, `EndsWithTheCommand`, `AttemptsEnd`):
  fairness is out of the prover's reach.
- `LinesIntact` and `CommandArrives`: they count newlines and fold over the
  characters of lines and commands, by operators of the library that are themselves
  recursive, which the provers cannot unfold.
- All of mini-gmp: its loops are recursive operators, and what they compute needs
  induction over vectors of limbs.

## 5. Not modelled

Parsing of prover output, drivers, configuration, term encodings, session file
formats, user interfaces: input, output and text without protocol. The logic
core, verification conditions, transformations, printers and extraction: pure
functions over infinite syntax. Failures while the server starts up, and lack
of memory, end the process at once.

Of the scheduler and the session: editors (`prover_tasks_edited`), detached
goals, replay, bisection, copy and paste, reload with the merge of the old
session, `clean` and `reset_proofs` of a part of the session, limits adapted to
earlier results. Reload, replay and bisection are in the plan. Several
files, theories, provers and kinds of transformations would multiply the states
without a new way for the handlers to interact.

Of mini-gmp: conversions to and from `double` (floating point),
`mpz_probab_prime_p` (its constants need limbs out of TLC's reach), `mpz_out_str`,
the hooks for memory functions, the accessors `mpz_limbs_*` and `mpz_roinit_n`,
`mpn_sqrtrem`, `mpn_div_qr_2` (compiled out), and `mpz_powm_ui` and
`mpz_ui_pow_ui`, which only wrap modelled functions. The random number generator
and the header `wmp.h` belong to the benchmarks.

## 6. Plan

1. `Controller`: reload with the merge of the old session, which needs detached
   goals; replay and bisection on top of the scheduler; `wait_on_call`.
2. `VCServerWin`: the window before ConnectNamedPipe.
3. Proofs: `LinesIntact`, over a `Wire` whose lines are counted without folds.

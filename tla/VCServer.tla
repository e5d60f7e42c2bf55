------------------------------ MODULE VCServer ------------------------------
(***************************************************************************)
(* The why3server process on Unix (src/server/server-unix.c with           *)
(* request.c, proc.c): a single-threaded poll() loop that accepts clients, *)
(* reads their commands, runs at most `parallel' provers at a time, queues *)
(* the other requests, and reports the start ("S;id") and the end ("F;id") *)
(* of every prover to the client.                                          *)
(*                                                                         *)
(* The server takes one step per poll entry, per reaped child, per line of *)
(* input and per scheduled job; between two of its steps the kernel (child *)
(* exits, SIGCHLD) and the clients (send, read, disconnect) may act.       *)
(***************************************************************************)
EXTENDS Naturals, Sequences, FiniteSets

CONSTANTS
  Conns,          \* client connections; each is opened at most once
  NoConn,         \* stands for the NULL that list_lookup(clients, fd) returns
  Fds,            \* descriptors accept(2) may return
  Pids,           \* process identifiers fork(2) may return
  Limits,         \* arguments of `parallel;n' the clients send
  InitParallel,   \* option -j
  SingleClient,   \* option --single-client
  SigpipeIgnored, \* SIGPIPE disposition inherited by the server
  OSMayFail,      \* whether accept, fork, poll may fail
  Outcomes,       \* how a prover may end by itself
  MaxRun,         \* bound: `run' commands each client sends
  MaxCtl,         \* bound: `interrupt' and `parallel' commands each client sends
  SockCap,        \* bound: answers the socket buffer of a client holds
  PipeCap         \* bound: bytes the self-pipe holds

ASSUME ConnsAssumption  == NoConn \notin Conns
ASSUME FdsAssumption    == Fds \subseteq Nat
ASSUME LimitsAssumption == Limits \subseteq Nat /\ InitParallel \in Nat \ {0}
ASSUME FlagsAssumption  == {SingleClient, SigpipeIgnored, OSMayFail} \subseteq BOOLEAN
ASSUME OutcomesAssumption == Outcomes \subseteq {"exit", "crash", "limit"}
ASSUME BoundsAssumption == /\ MaxRun \in [Conns -> Nat] /\ MaxCtl \in [Conns -> Nat]
                           /\ SockCap \in Nat \ {0} /\ PipeCap \in Nat \ {0}

VARIABLES
  status,     \* "up", or how the server process ended
  pc,         \* where the main loop is
  parallel,   \* the limit in force
  clients,    \* the list of clients, keyed by descriptor
  queue,      \* requests waiting to be run, ordered by arrival number
  processes,  \* the list of running provers, keyed by pid
  revents,    \* what poll() reported and the loop has not handled yet
  reading,    \* descriptor handle_msg works on, with the lines still to handle
  pollout,    \* clients whose poll entry asks for POLLOUT
  stream,     \* all answers ever pushed to a client, oldest first
  sent,       \* how many of them were written to the socket
  is_writing, \* clients whose last write() failed
  child,      \* the kernel's view of every pid
  sigchld,    \* SIGCHLD is pending
  cpipe,      \* bytes in the self-pipe
  sock,       \* command lines on the way to the server, per client
  link,       \* the state of a connection on the server's side
  open,       \* clients that have their end of the connection open
  reset,      \* clients that closed it with unread answers (ECONNRESET)
  rcvd,       \* how many answers a client has read
  nrun, nctl, \* commands a client has sent
  seen,       \* history: every run request the server has parsed
  cancelled   \* history: requests an interrupt took out of the queue

serverVars == <<status, pc, parallel, clients, queue, processes, revents, reading>>
bufVars    == <<pollout, stream, sent, is_writing>>
kernelVars == <<child, sigchld, cpipe, sock, link, reset>>
clientVars == <<open, rcvd, nrun, nctl>>
ghostVars  == <<seen, cancelled>>
vars == <<serverVars, bufVars, kernelVars, clientVars, ghostVars>>

(* A request as parse_request builds it: the task id chosen by the client  *)
(* and the descriptor it came from.  rid (arrival order) and owner (the    *)
(* sender) are not in the C struct; the server never looks at owner, and   *)
(* uses rid only as the position in the FIFO queue.                        *)
Request == [rid : Nat, id : Nat, key : Fds, owner : Conns]
Line    == [cmd : {"run", "interrupt", "parallel"}, arg : Nat]
Proc    == [pid : Pids, req : Request]

(* How a prover ends: by itself, by a signal of its own fault, by its CPU  *)
(* limit, or by the SIGKILL of an interrupt.                               *)
Endings   == {"exit", "crash", "limit", "killed"}
Signalled == {"crash", "limit", "killed"}
Answer == [kind : {"S", "F"}, req : Request, timeout : BOOLEAN, how : Endings]

Accepted(c) == \E f \in Fds : clients[f] = c
NumRunning  == Cardinality(processes)
Zombies     == {p \in Pids : child[p] \in Endings}

-----------------------------------------------------------------------------
(* server_init_listening, setup_child_pipe: the server listens, knows no   *)
(* client, runs nothing.                                                   *)
NoEvents == [listen |-> FALSE, pipe |-> FALSE, fd |-> [f \in Fds |-> {}]]
NoInput  == [fds |-> {}, lines |-> <<>>]

Init ==
  /\ status = "up" /\ pc = "schedule" /\ parallel = InitParallel
  /\ clients = [f \in Fds |-> NoConn]
  /\ queue = {} /\ processes = {} /\ revents = NoEvents /\ reading = NoInput
  /\ pollout = {} /\ is_writing = {}
  /\ stream = [c \in Conns |-> <<>>] /\ sent = [c \in Conns |-> 0]
  /\ child = [p \in Pids |-> "free"] /\ sigchld = FALSE /\ cpipe = 0
  /\ sock = [c \in Conns |-> <<>>] /\ link = [c \in Conns |-> "none"]
  /\ open = {} /\ reset = {} /\ rcvd = [c \in Conns |-> 0]
  /\ nrun = [c \in Conns |-> 0] /\ nctl = [c \in Conns |-> 0]
  /\ seen = {} /\ cancelled = {}

-----------------------------------------------------------------------------
(* Helpers of the handlers.                                                *)

(* Mutant: `<=' for `<'. *)
SlotFreeAtLimit == NumRunning <= parallel

(* The condition under which both schedule_new_jobs and handle_msg fork.   *)
SlotFree == NumRunning < parallel

(* Mutant: the POLLOUT flag is not set. *)
QueueWriteUnpolled(c, m) ==
  stream' = [stream EXCEPT ![c] = Append(@, m)] /\ UNCHANGED pollout

(* queue_write: push_write_data and the POLLOUT flag of the poll entry.    *)
QueueWrite(c, m) ==
  /\ stream' = [stream EXCEPT ![c] = Append(@, m)]
  /\ pollout' = pollout \cup {c}

Started(r)     == [kind |-> "S", req |-> r, timeout |-> FALSE, how |-> "exit"]
Finished(r, e) == [kind |-> "F", req |-> r, timeout |-> e \in Signalled, how |-> e]

(* Mutant: the start is not sent. *)
RunRequestSilently(r) ==
  /\ UNCHANGED <<stream, pollout>>
  /\ IF clients[r.key] = NoConn
       THEN UNCHANGED <<processes, child>>
       ELSE \E p \in Pids :
              /\ child[p] = "free"
              /\ child' = [child EXCEPT ![p] = "running"]
              /\ processes' = processes \cup {[pid |-> p, req |-> r]}

(* run_request: nothing if the descriptor has no client any more, else     *)
(* fork the prover, append it to processes and tell the client.            *)
RunRequest(r) ==
  IF clients[r.key] = NoConn
    THEN UNCHANGED <<processes, child, stream, pollout>>
    ELSE \E p \in Pids :
           /\ child[p] = "free"
           /\ child' = [child EXCEPT ![p] = "running"]
           /\ processes' = processes \cup {[pid |-> p, req |-> r]}
           /\ QueueWrite(clients[r.key], Started(r))

(* Mutant: the test for the last client precedes the removal. *)
CloseClientLate(f) ==
  /\ clients' = [clients EXCEPT ![f] = NoConn]
  /\ link' = [link EXCEPT ![clients[f]] = "freed"]
  /\ pollout' = pollout \ {clients[f]}
  /\ status' = IF SingleClient /\ \A g \in Fds : clients[g] = NoConn
                 THEN "exited" ELSE status

(* close_client; a --single-client server exits with its last client.      *)
CloseClient(f) ==
  /\ clients' = [clients EXCEPT ![f] = NoConn]
  /\ link' = [link EXCEPT ![clients[f]] = "freed"]
  /\ pollout' = pollout \ {clients[f]}
  /\ status' = IF SingleClient /\ \A g \in Fds \ {f} : clients[g] = NoConn
                 THEN "exited" ELSE status

-----------------------------------------------------------------------------
(* Mutant: the request is read but not popped. *)
ScheduleUnpopped ==
  /\ pc = "schedule" /\ SlotFree
  /\ \E r \in queue : (\A q \in queue : r.rid <= q.rid) /\ RunRequest(r)
  /\ UNCHANGED <<status, pc, parallel, clients, queue, revents, reading, sent, is_writing,
                 sigchld, cpipe, sock, link, reset, clientVars, ghostVars>>

(* schedule_new_jobs: pop the oldest request while there is a free slot.   *)
ScheduleNewJob ==
  /\ pc = "schedule" /\ SlotFree
  /\ \E r \in queue :
       /\ \A q \in queue : r.rid <= q.rid
       /\ queue' = queue \ {r}
       /\ RunRequest(r)
  /\ UNCHANGED <<status, pc, parallel, clients, revents, reading, sent, is_writing,
                 sigchld, cpipe, sock, link, reset, clientVars, ghostVars>>

(* Mutant: an `if' for the `while' of schedule_new_jobs. *)
ScheduleOnce ==
  /\ pc = "schedule" /\ pc' = "poll"
  /\ UNCHANGED <<status, parallel, clients, queue, processes, revents, reading,
                 bufVars, kernelVars, clientVars, ghostVars>>

(* ... then poll_list_clean, and the loop reaches poll().                  *)
ScheduleDone ==
  /\ pc = "schedule" /\ ~(SlotFree /\ queue # {})
  /\ pc' = "poll"
  /\ UNCHANGED <<status, parallel, clients, queue, processes, revents, reading,
                 bufVars, kernelVars, clientVars, ghostVars>>

(* The events poll() reports for a client: POLLERR when the peer closed    *)
(* with unread data, POLLOUT when asked for and the socket has room (a     *)
(* closed one always has), POLLIN when there is input or end of file.      *)
ClientEvents(c) ==
     {e \in {"ERR"} : c \in reset}
\cup {e \in {"OUT"} : c \in pollout /\ (sent[c] - rcvd[c] < SockCap \/ c \notin open)}
\cup {e \in {"IN"}  : sock[c] # <<>> \/ c \notin open}

Ready ==
  [listen |-> \E c \in Conns : link[c] = "waiting",
   pipe   |-> cpipe > 0,
   fd     |-> [f \in Fds |-> IF clients[f] = NoConn THEN {} ELSE ClientEvents(clients[f])]]

(* The for loop over the poll list: the entries are, in this order, the    *)
(* listening socket, the self-pipe and the clients (in any order), and     *)
(* those with revents = 0 are skipped.                                     *)
NextEntry(rev) ==
  IF rev.listen THEN "accept" ELSE IF rev.pipe THEN "pipe"
  ELSE IF \E f \in Fds : rev.fd[f] # {} THEN "serve" ELSE "schedule"

Poll ==
  /\ pc = "poll" /\ Ready # NoEvents
  /\ revents' = Ready /\ pc' = NextEntry(Ready)
  /\ UNCHANGED <<status, parallel, clients, queue, processes, reading,
                 bufVars, kernelVars, clientVars, ghostVars>>

(* Poll entry 0, the listening socket: server_accept_client.  accept(2)    *)
(* returns the lowest free descriptor.                                     *)
ServerAcceptClient ==
  /\ pc = "accept"
  /\ \E c \in Conns, f \in Fds :
       /\ link[c] = "waiting"
       /\ clients[f] = NoConn /\ \A g \in Fds : clients[g] = NoConn => f <= g
       /\ clients' = [clients EXCEPT ![f] = c]
       /\ link' = [link EXCEPT ![c] = "accepted"]
  /\ revents' = [revents EXCEPT !.listen = FALSE]
  /\ pc' = NextEntry(revents')
  /\ UNCHANGED <<status, parallel, queue, processes, reading, bufVars,
                 child, sigchld, cpipe, sock, reset, clientVars, ghostVars>>

(* Poll entry 1, the self-pipe: one byte is read, then handle_child_events *)
(* reaps until wait3 finds nothing.                                        *)
ReadChildPipe ==
  /\ pc = "pipe"
  /\ pc' = "reap" /\ cpipe' = cpipe - 1
  /\ revents' = [revents EXCEPT !.pipe = FALSE]
  /\ UNCHANGED <<status, parallel, clients, queue, processes, reading, bufVars,
                 child, sigchld, sock, link, reset, clientVars, ghostVars>>

(* Mutant: the child stays listed when its client is gone. *)
HandleChildOfClient ==
  /\ pc = "reap"
  /\ \E ch \in processes :
       /\ child[ch.pid] \in Endings
       /\ child' = [child EXCEPT ![ch.pid] = "free"]
       /\ IF clients[ch.req.key] = NoConn
            THEN UNCHANGED <<processes, stream, pollout>>
            ELSE /\ processes' = processes \ {ch}
                 /\ QueueWrite(clients[ch.req.key], Finished(ch.req, child[ch.pid]))
  /\ UNCHANGED <<status, pc, parallel, clients, queue, revents, reading, sent, is_writing,
                 sigchld, cpipe, sock, link, reset, clientVars, ghostVars>>

(* One round of handle_child_events: wait3 returns an ended child and      *)
(* frees its pid, the child leaves the list, and its end is sent to        *)
(* whichever client has the descriptor now.  The code dereferences the     *)
(* list entry unchecked: that it is there is ChildrenKnown below.          *)
HandleChildEvent ==
  /\ pc = "reap"
  /\ \E ch \in processes :
       /\ child[ch.pid] \in Endings
       /\ child' = [child EXCEPT ![ch.pid] = "free"]
       /\ processes' = processes \ {ch}
       /\ IF clients[ch.req.key] = NoConn
            THEN UNCHANGED <<stream, pollout>>
            ELSE QueueWrite(clients[ch.req.key], Finished(ch.req, child[ch.pid]))
  /\ UNCHANGED <<status, pc, parallel, clients, queue, revents, reading, sent, is_writing,
                 sigchld, cpipe, sock, link, reset, clientVars, ghostVars>>

(* Mutant: one child per byte of the pipe, no loop around wait3. *)
ChildEventsOnce ==
  /\ pc = "reap" /\ pc' = NextEntry(revents)
  /\ UNCHANGED <<status, parallel, clients, queue, processes, revents, reading,
                 bufVars, kernelVars, clientVars, ghostVars>>

ChildEventsDone ==
  /\ pc = "reap" /\ Zombies = {}
  /\ pc' = NextEntry(revents)
  /\ UNCHANGED <<status, parallel, clients, queue, processes, revents, reading,
                 bufVars, kernelVars, clientVars, ghostVars>>

-----------------------------------------------------------------------------
(* The remaining poll entries, the clients.                                *)
Handled(f) == revents' = [revents EXCEPT !.fd[f] = {}]
EntryDone(f) == Handled(f) /\ pc' = NextEntry(revents')

(* POLLERR: close_client.                                                  *)
CloseOnError(f) ==
  /\ pc = "serve" /\ "ERR" \in revents.fd[f]
  /\ CloseClient(f) /\ EntryDone(f)
  /\ UNCHANGED <<parallel, queue, processes, reading, stream, sent, is_writing,
                 child, sigchld, cpipe, sock, reset, clientVars, ghostVars>>

(* Mutant: POLLOUT is dropped after every write. *)
WriteOnce(f) ==
  LET c == clients[f] IN
  /\ pc = "serve" /\ "ERR" \notin revents.fd[f] /\ "OUT" \in revents.fd[f]
  /\ c \in open /\ EntryDone(f)
  /\ sent' = [sent EXCEPT ![c] = @ + 1] /\ pollout' = pollout \ {c}
  /\ UNCHANGED <<status, parallel, clients, queue, processes, reading, stream, is_writing,
                 kernelVars, clientVars, ghostVars>>

(* POLLOUT: write_to_client.  prepare_write asserts that the last write    *)
(* completed.  On a socket whose peer is gone write() raises SIGPIPE, or,  *)
(* when that is ignored, fails and leaves is_writing set.                  *)
WriteToClient(f) ==
  LET c == clients[f] IN
  /\ pc = "serve" /\ "ERR" \notin revents.fd[f] /\ "OUT" \in revents.fd[f]
  /\ EntryDone(f)
  /\ \/ /\ c \in is_writing
        /\ status' = "aborted"
        /\ UNCHANGED <<sent, pollout, is_writing>>
     \/ /\ c \notin is_writing /\ c \in open
        /\ sent' = [sent EXCEPT ![c] = @ + 1]
        /\ pollout' = IF sent'[c] = Len(stream[c]) THEN pollout \ {c} ELSE pollout
        /\ UNCHANGED <<status, is_writing>>
     \/ /\ c \notin is_writing /\ c \notin open
        /\ status' = IF SigpipeIgnored THEN status ELSE "sigpipe"
        /\ is_writing' = is_writing \cup {c}
        /\ UNCHANGED <<sent, pollout>>
  /\ UNCHANGED <<parallel, clients, queue, processes, reading, stream,
                 kernelVars, clientVars, ghostVars>>

(* POLLIN: read_on_client.  read() returns some of the lines on the way,   *)
(* -1 once for a reset connection, 0 at the end of file.                   *)
ReadLines(f) ==
  LET c == clients[f] IN
  /\ pc = "serve" /\ revents.fd[f] = {"IN"} /\ sock[c] # <<>>
  /\ \E n \in 1..Len(sock[c]) :
       /\ reading' = [fds |-> {f}, lines |-> SubSeq(sock[c], 1, n)]
       /\ sock' = [sock EXCEPT ![c] = SubSeq(@, n + 1, Len(@))]
  /\ pc' = "msg" /\ Handled(f)
  /\ UNCHANGED <<status, parallel, clients, queue, processes, bufVars,
                 child, sigchld, cpipe, link, reset, clientVars, ghostVars>>

ReadFails(f) ==
  LET c == clients[f] IN
  /\ pc = "serve" /\ revents.fd[f] = {"IN"} /\ sock[c] = <<>> /\ c \in reset
  /\ reset' = reset \ {c} /\ EntryDone(f)
  /\ UNCHANGED <<status, parallel, clients, queue, processes, reading, bufVars,
                 child, sigchld, cpipe, sock, link, clientVars, ghostVars>>

ReadEof(f) ==
  LET c == clients[f] IN
  /\ pc = "serve" /\ revents.fd[f] = {"IN"} /\ sock[c] = <<>>
  /\ c \notin reset /\ c \notin open
  /\ CloseClient(f) /\ EntryDone(f)
  /\ UNCHANGED <<parallel, queue, processes, reading, stream, sent, is_writing,
                 child, sigchld, cpipe, sock, reset, clientVars, ghostVars>>

-----------------------------------------------------------------------------
(* handle_msg: one step per complete line of the read buffer.              *)
NextLine(cmd) ==
  /\ pc = "msg" /\ reading.lines # <<>> /\ Head(reading.lines).cmd = cmd
  /\ IF Len(reading.lines) = 1
       THEN reading' = NoInput /\ pc' = NextEntry(revents)
       ELSE reading' = [reading EXCEPT !.lines = Tail(@)] /\ UNCHANGED pc

(* Mutant: the request is keyed by the first client of the list. *)
HandleRunFirstKey ==
  /\ NextLine("run")
  /\ \E f \in reading.fds :
       LET k == CHOOSE g \in Fds : /\ clients[g] # NoConn
                                  /\ \A h \in Fds : clients[h] # NoConn => g <= h
           r == [rid |-> Cardinality(seen) + 1, id |-> Head(reading.lines).arg,
                 key |-> k, owner |-> clients[f]] IN
       /\ seen' = seen \cup {r}
       /\ IF SlotFree THEN RunRequest(r) /\ UNCHANGED queue
                      ELSE /\ queue' = queue \cup {r}
                           /\ UNCHANGED <<processes, child, stream, pollout>>
  /\ UNCHANGED <<status, parallel, clients, revents, sent, is_writing,
                 sigchld, cpipe, sock, link, reset, clientVars, cancelled>>

(* REQ_RUN: run at once if a slot is free, else queue_push.                *)
HandleRun ==
  /\ NextLine("run")
  /\ \E f \in reading.fds :
       LET r == [rid |-> Cardinality(seen) + 1, id |-> Head(reading.lines).arg,
                 key |-> f, owner |-> clients[f]] IN
       /\ seen' = seen \cup {r}
       /\ IF SlotFree THEN RunRequest(r) /\ UNCHANGED queue
                      ELSE /\ queue' = queue \cup {r}
                           /\ UNCHANGED <<processes, child, stream, pollout>>
  /\ UNCHANGED <<status, parallel, clients, revents, sent, is_writing,
                 sigchld, cpipe, sock, link, reset, clientVars, cancelled>>

(* REQ_INTERRUPT: remove_from_queue and kill_processes, by task id only.   *)
HandleInterrupt ==
  LET id   == Head(reading.lines).arg
      hit  == {r \in queue : r.id = id}
      kill == {ch.pid : ch \in {x \in processes : x.req.id = id}}
      dies == {p \in kill : child[p] = "running"} IN
  /\ NextLine("interrupt")
  /\ queue' = queue \ hit
  /\ cancelled' = cancelled \cup hit
  /\ child' = [p \in Pids |-> IF p \in dies THEN "killed" ELSE child[p]]
  /\ sigchld' = (sigchld \/ dies # {})
  /\ UNCHANGED <<status, parallel, clients, processes, revents, bufVars,
                 cpipe, sock, link, reset, clientVars, seen>>

(* Mutant: no check that the limit is positive. *)
HandleAnyParallel ==
  /\ NextLine("parallel") /\ parallel' = Head(reading.lines).arg
  /\ UNCHANGED <<status, clients, queue, processes, revents,
                 bufVars, kernelVars, clientVars, ghostVars>>

(* `parallel;n': parse_request sets the limit itself, if n >= 1.           *)
HandleParallel ==
  /\ NextLine("parallel")
  /\ parallel' = IF Head(reading.lines).arg >= 1 THEN Head(reading.lines).arg
                                                 ELSE parallel
  /\ UNCHANGED <<status, clients, queue, processes, revents,
                 bufVars, kernelVars, clientVars, ghostVars>>

(* shutdown_with_msg after a failed accept, fork or poll.                  *)
ShutdownWithMsg ==
  /\ OSMayFail
  /\ \/ pc = "poll"
     \/ pc = "accept"
     \/ pc = "schedule" /\ SlotFree /\ queue # {}
     \/ pc = "msg" /\ SlotFree /\ reading.lines # <<>> /\ Head(reading.lines).cmd = "run"
  /\ status' = "exited"
  /\ UNCHANGED <<pc, parallel, clients, queue, processes, revents, reading,
                 bufVars, kernelVars, clientVars, ghostVars>>

ServeClient(f) == \/ CloseOnError(f) \/ WriteToClient(f)
                  \/ ReadLines(f) \/ ReadFails(f) \/ ReadEof(f)

ServerStep ==
  /\ status = "up"
  /\ \/ ScheduleNewJob \/ ScheduleDone \/ Poll
     \/ ServerAcceptClient \/ ReadChildPipe \/ HandleChildEvent \/ ChildEventsDone
     \/ \E f \in Fds : ServeClient(f)
     \/ HandleRun \/ HandleInterrupt \/ HandleParallel

-----------------------------------------------------------------------------
(* The kernel: a prover ends and SIGCHLD becomes pending (pending signals  *)
(* merge); the handler sigchld_handle writes a byte unless the pipe is     *)
(* full (EAGAIN).                                                          *)
ChildEnds(p) ==
  /\ child[p] = "running"
  /\ \E e \in Outcomes : child' = [child EXCEPT ![p] = e]
  /\ sigchld' = TRUE
  /\ UNCHANGED <<serverVars, bufVars, cpipe, sock, link, reset, clientVars, ghostVars>>

SigchldHandle ==
  /\ sigchld
  /\ sigchld' = FALSE
  /\ cpipe' = IF cpipe < PipeCap THEN cpipe + 1 ELSE cpipe
  /\ UNCHANGED <<serverVars, bufVars, child, sock, link, reset, clientVars, ghostVars>>

(* The clients: connect, send a command line, read the answers, close.     *)
Connect(c) ==
  /\ link[c] = "none"
  /\ link' = [link EXCEPT ![c] = "waiting"]
  /\ open' = open \cup {c}
  /\ UNCHANGED <<serverVars, bufVars, child, sigchld, cpipe, sock, reset,
                 rcvd, nrun, nctl, ghostVars>>

(* Every client numbers its own requests from 1.                           *)
SendRun(c) ==
  /\ c \in open /\ nrun[c] < MaxRun[c]
  /\ nrun' = [nrun EXCEPT ![c] = @ + 1]
  /\ sock' = [sock EXCEPT ![c] = Append(@, [cmd |-> "run", arg |-> nrun[c] + 1])]
  /\ UNCHANGED <<serverVars, bufVars, child, sigchld, cpipe, link, reset,
                 open, rcvd, nctl, ghostVars>>

SendControl(c) ==
  /\ c \in open /\ nctl[c] < MaxCtl[c]
  /\ nctl' = [nctl EXCEPT ![c] = @ + 1]
  /\ \E m \in [cmd : {"interrupt"}, arg : 1..nrun[c]] \cup [cmd : {"parallel"}, arg : Limits] :
       sock' = [sock EXCEPT ![c] = Append(@, m)]
  /\ UNCHANGED <<serverVars, bufVars, child, sigchld, cpipe, link, reset,
                 open, rcvd, nrun, ghostVars>>

ReadAnswers(c) ==
  /\ c \in open /\ rcvd[c] < sent[c]
  /\ rcvd' = [rcvd EXCEPT ![c] = sent[c]]
  /\ UNCHANGED <<serverVars, bufVars, kernelVars, open, nrun, nctl, ghostVars>>

Close(c) ==
  /\ c \in open
  /\ open' = open \ {c}
  /\ reset' = IF rcvd[c] < sent[c] THEN reset \cup {c} ELSE reset
  /\ UNCHANGED <<serverVars, bufVars, child, sigchld, cpipe, sock, link,
                 rcvd, nrun, nctl, ghostVars>>

Environment ==
  /\ status = "up"
  /\ \/ SigchldHandle
     \/ \E p \in Pids : ChildEnds(p)
     \/ \E c \in Conns : \/ Connect(c) \/ SendRun(c) \/ SendControl(c)
                         \/ ReadAnswers(c) \/ Close(c)

Next == ServerStep \/ (status = "up" /\ ShutdownWithMsg) \/ Environment

Spec == Init /\ [][Next]_vars

(* The loop keeps running while it has something to do, signals are        *)
(* delivered, provers end (they run under a CPU limit), and a client that  *)
(* stays connected keeps reading its answers.  Clients need not send       *)
(* anything, nor close.                                                    *)
Fairness ==
  /\ WF_vars(ServerStep)
  /\ WF_vars(status = "up" /\ SigchldHandle)
  /\ \A p \in Pids : WF_vars(status = "up" /\ ChildEnds(p))
  /\ \A c \in Conns : WF_vars(status = "up" /\ ReadAnswers(c))

FairSpec == Spec /\ Fairness

-----------------------------------------------------------------------------
TypeOK ==
  /\ status \in {"up", "exited", "aborted", "sigpipe"}
  /\ pc \in {"schedule", "poll", "accept", "pipe", "reap", "serve", "msg"}
  /\ parallel \in Nat \ {0}
  /\ clients \in [Fds -> Conns \cup {NoConn}]
  /\ queue \subseteq Request
  /\ processes \subseteq Proc
  /\ revents \in [listen : BOOLEAN, pipe : BOOLEAN,
                  fd : [Fds -> SUBSET {"ERR", "OUT", "IN"}]]
  /\ reading \in [fds : SUBSET Fds, lines : Seq(Line)]
  /\ pollout \subseteq Conns /\ is_writing \subseteq Conns
  /\ stream \in [Conns -> Seq(Answer)] /\ sent \in [Conns -> Nat]
  /\ child \in [Pids -> {"free", "running"} \cup Endings]
  /\ sigchld \in BOOLEAN /\ cpipe \in Nat
  /\ sock \in [Conns -> Seq(Line)]
  /\ link \in [Conns -> {"none", "waiting", "accepted", "freed"}]
  /\ open \subseteq Conns /\ reset \subseteq Conns /\ rcvd \in [Conns -> Nat]
  /\ nrun \in [Conns -> Nat] /\ nctl \in [Conns -> Nat]
  /\ seen \subseteq Request /\ cancelled \subseteq Request

-----------------------------------------------------------------------------
(* Safety.                                                                 *)

(* The self-pipe trick loses no child: while a prover has ended and is not *)
(* reaped, the signal is pending, or a byte is in the pipe, or the reaping *)
(* loop is still running (sigchld_handle, handle_child_events).            *)
SelfPipeSound ==
  Zombies # {} => sigchld \/ cpipe > 0 \/ pc = "reap"

(* The list of processes is exactly the server's children, one entry each: *)
(* the lookup in handle_child_events never returns NULL, and               *)
(* kill_processes never signals a pid that is not (or no longer) a child.  *)
ChildrenKnown ==
  /\ {ch.pid : ch \in processes} = {p \in Pids : child[p] # "free"}
  /\ \A x, y \in processes : x.pid = y.pid => x = y

(* The server never blocks in poll() with a free slot and a queued         *)
(* request (schedule_new_jobs runs on every turn of the loop).             *)
NoIdleSlot ==
  pc = "poll" => queue = {} \/ NumRunning >= parallel

(* The poll entry of a client asks for POLLOUT exactly while an answer is  *)
(* unwritten: no answer is forgotten in the buffer, and the assertion      *)
(* has_write_data of prepare_write holds (queue_write, write_to_client).   *)
PolloutIffPending ==
  \A c \in Conns : link[c] = "accepted" =>
    (c \in pollout <=> sent[c] < Len(stream[c]))

(* In what a client is sent about its own requests, every start and every  *)
(* end is reported at most once, and an end only after the start.          *)
StartedThenFinished ==
  \A c \in Conns : \A j \in 1..Len(stream[c]) :
    stream[c][j].req.owner = c =>
      /\ \A i \in 1..(j - 1) : ~ /\ stream[c][i].req = stream[c][j].req
                                 /\ stream[c][i].kind = stream[c][j].kind
      /\ stream[c][j].kind = "F" =>
           \E i \in 1..(j - 1) : stream[c][i] = Started(stream[c][j].req)

FinishSent(r) ==
  \E i \in 1..Len(stream[r.owner]) :
    stream[r.owner][i].kind = "F" /\ stream[r.owner][i].req = r
Running(r) == \E ch \in processes : ch.req = r

(* A run request of a client that is still connected is in exactly one     *)
(* place: queued, running, finished and reported, or taken out of the      *)
(* queue by an interrupt.                                                  *)
NothingLost ==
  \A r \in seen : link[r.owner] = "accepted" =>
    /\ r \in queue \/ Running(r) \/ FinishSent(r) \/ r \in cancelled
    /\ ~(r \in queue /\ (Running(r) \/ FinishSent(r) \/ r \in cancelled))
    /\ ~(Running(r) /\ (FinishSent(r) \/ r \in cancelled))
    /\ ~(FinishSent(r) /\ r \in cancelled)

(* An answer goes to another client than the sender only when the sender's *)
(* connection has been closed before.                                      *)
StrayOnlyAfterClose ==
  \A c \in Conns : \A i \in 1..Len(stream[c]) :
    LET o == stream[c][i].req.owner IN o # c => link[o] = "freed"

(* Refinement: seen through the requests only, the server is a JobPool.    *)
(* Every request is started at most once, never after it was given up, and *)
(* only below the limit, whatever the clients and the children do.         *)
Pool == INSTANCE JobPool WITH
  submitted <- seen,
  waiting   <- queue,
  running   <- {ch.req : ch \in processes},
  limit     <- parallel

RefinesJobPool == Pool!PoolSpec

-----------------------------------------------------------------------------
(* Liveness.                                                               *)

Answered(c, n) ==
  \E i \in 1..sent[c] : /\ stream[c][i].kind = "F"
                        /\ stream[c][i].req.owner = c /\ stream[c][i].req.id = n
Interrupted(c, n) == \E r \in cancelled : r.owner = c /\ r.id = n

(* Every run command of a client that stays connected is answered, unless  *)
(* an interrupt removed it from the queue or the server stops.             *)
RequestsAnswered ==
  \A c \in Conns : \A n \in 1..MaxRun[c] :
    nrun[c] >= n ~> Answered(c, n) \/ Interrupted(c, n) \/ c \notin open \/ status # "up"

(* A --single-client server stops once its clients are gone: the client    *)
(* waits for that in its exit handler (prove_client.ml, connect_internal). *)
StopsAfterLastClient ==
  (open = {} /\ \E c \in Conns : Accepted(c)) ~> (status # "up" \/ open # {})

-----------------------------------------------------------------------------
(* What README.server or an assertion says and the code does not do.       *)

(* README.server, lines 59-60 and 65-66: S and F are sent "to the client   *)
(* who sent the 'run' request".  A request only remembers the descriptor,  *)
(* which accept(2) reuses.                                                 *)
AnswersToSender ==
  \A c \in Conns : \A i \in 1..Len(stream[c]) : stream[c][i].req.owner = c
=============================================================================

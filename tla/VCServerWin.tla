----------------------------- MODULE VCServerWin -----------------------------
(***************************************************************************)
(* why3server on Windows (src/server/server-win.c): one thread handles the *)
(* packets of an I/O completion port, which reports new connections, ended *)
(* reads and writes of the named pipes, and the job events of the provers. *)
(* Clients, pipe instances and provers are told apart by keys that are     *)
(* never used twice.                                                       *)
(***************************************************************************)
EXTENDS Naturals, Sequences, FiniteSets

CONSTANTS
  Conns,          \* client connections; each is opened at most once
  NoConn,         \* no client on a pipe instance
  InitParallel,   \* option -j, and the number of pipe instances
  Limits,         \* arguments of `parallel;n' the clients send
  SingleClient,   \* option --single-client
  SpawnMayFail,   \* clients whose commands CreateProcess may fail for
  Events,         \* job events that may precede the end of a prover, by client
  MaxRun,         \* bound: `run' commands each client sends
  MaxCtl,         \* bound: `interrupt' and `parallel' commands each client sends
  RunParts        \* reads a `run' message takes (READ_ONCE bytes each)

ASSUME ConnsAssumption  == NoConn \notin Conns
ASSUME LimitsAssumption == Limits \subseteq Nat /\ InitParallel \in Nat \ {0}
ASSUME FlagsAssumption  == SingleClient \in BOOLEAN /\ SpawnMayFail \subseteq Conns
ASSUME EventsAssumption == Events \in [Conns -> SUBSET {"time_limit", "memory_limit"}]
ASSUME BoundsAssumption == MaxRun \in [Conns -> Nat] /\ MaxCtl \in [Conns -> Nat] /\ RunParts \in Nat \ {0}

VARIABLES
  status,      \* "up", or how the server ended
  pc,          \* "schedule" or "wait": where the main loop is
  parallel,    \* the limit in force
  gen_key,     \* the next key
  server_key,  \* key of each pipe instance
  caller,      \* the client connected to a pipe instance, or NoConn
  ckey,        \* key of the handle of each connection, 0 before it is made
  clients,     \* the list of clients
  queue,       \* requests waiting to be run, ordered by arrival number
  processes,   \* the list of provers
  stream,      \* all answers ever pushed to a client, oldest first
  written,     \* how many of them were taken out of the write buffer
  is_writing,  \* clients with prepare_write called and have_written not yet
  port,        \* packets of the completion port
  rpend,       \* clients with a ReadFile in the kernel
  wpend,       \* how many WriteFiles of a client are in the kernel
  alive,       \* keys of the provers that run
  sock,        \* messages on the way to the server
  open,        \* clients that have their end open
  link,        \* what became of a connection
  nrun, nctl,  \* commands a client has sent
  seen,        \* history: every run request parsed
  cancelled,   \* history: requests an interrupt took out of the queue
  refused      \* history: requests never queued whose CreateProcess failed

loopVars   == <<status, pc, parallel>>
keyVars    == <<gen_key, server_key, caller, ckey, clients, link>>
jobVars    == <<queue, processes, alive>>
bufVars    == <<stream, written, is_writing, wpend>>
clientVars == <<sock, open, nrun, nctl>>
ghostVars  == <<seen, cancelled, refused>>
vars == <<loopVars, keyVars, jobVars, bufVars, port, rpend, clientVars, ghostVars>>

Instances == 0..(InitParallel - 1)
Request == [rid : Nat, id : Nat, key : Nat, owner : Conns]
Line    == [cmd : {"run", "interrupt", "parallel"}, arg : Nat, parts : Nat]
Proc    == [key : Nat, req : Request]
Answer  == [kind : {"S", "F"}, req : Request]
Notices == {"new", "exit", "time_limit", "memory_limit"}
Packet  == [kind : {"connect", "more", "broken", "written", "unwritten"} \cup Notices, key : Nat]
             \cup [kind : {"read"}, key : Nat, line : Line]

NumRunning == Cardinality(processes)
ByKey(k)   == {c \in clients : ckey[c] = k}

-----------------------------------------------------------------------------
(* init: one pipe instance per slot, each with a key.                      *)
Init ==
  /\ status = "up" /\ pc = "schedule" /\ parallel = InitParallel
  /\ gen_key = InitParallel + 1 /\ server_key = [i \in Instances |-> i + 1]
  /\ caller = [i \in Instances |-> NoConn] /\ clients = {}
  /\ ckey = [c \in Conns |-> 0] /\ link = [c \in Conns |-> "none"]
  /\ queue = {} /\ processes = {} /\ alive = {}
  /\ stream = [c \in Conns |-> <<>>] /\ written = [c \in Conns |-> 0]
  /\ is_writing = {} /\ wpend = [c \in Conns |-> 0] /\ port = <<>> /\ rpend = {}
  /\ sock = [c \in Conns |-> <<>>] /\ open = {}
  /\ nrun = [c \in Conns |-> 0] /\ nctl = [c \in Conns |-> 0]
  /\ seen = {} /\ cancelled = {} /\ refused = {}

(* Mutant: try_write does not ask can_write. *)
TryWriteAlways(c, writing) ==
  IF written'[c] < Len(stream'[c])
    THEN /\ is_writing' = writing \cup {c}
         /\ wpend' = IF c \in open THEN [wpend EXCEPT ![c] = @ + 1] ELSE wpend
    ELSE is_writing' = writing /\ UNCHANGED wpend

(* try_write, when the write buffer is what stream' and written' say and   *)
(* writing is the set of clients with a write under way: WriteFile, if     *)
(* there is data and can_write holds.  On a pipe whose client is gone the  *)
(* call fails at once and no packet follows.                               *)
TryWrite(c, writing) ==
  IF written'[c] < Len(stream'[c]) /\ c \notin writing
    THEN /\ is_writing' = writing \cup {c}
         /\ wpend' = IF c \in open THEN [wpend EXCEPT ![c] = @ + 1] ELSE wpend
    ELSE is_writing' = writing /\ UNCHANGED wpend

(* send_started_msg_to_client, send_msg_to_client *)
SendMsg(c, kind, r) ==
  /\ stream' = [stream EXCEPT ![c] = Append(@, [kind |-> kind, req |-> r])]
  /\ UNCHANGED written
  /\ TryWrite(c, is_writing)

(* do_read: ReadFile.  When the client is gone and nothing is left to read *)
(* the call may fail at once, and no packet follows.                       *)
DoRead(c) ==
  \/ rpend' = rpend \cup {c}
  \/ c \notin open /\ sock[c] = <<>> /\ UNCHANGED rpend

(* Mutant: `<=' for `<'. *)
SlotFreeAtLimit == NumRunning <= parallel

SlotFree == NumRunning < parallel

(* run_request: nothing if the client is gone; F alone when CreateProcess  *)
(* fails; else a new key for the prover, S to the client, and the prover   *)
(* is resumed, its job reporting to the port.                              *)
SpawnFails(c, r, rest) ==
  /\ c \in SpawnMayFail
  /\ SendMsg(c, "F", r) /\ port' = rest
  /\ UNCHANGED <<gen_key, processes, alive>>

Spawns(c, r, rest) ==
  /\ gen_key' = gen_key + 1
  /\ processes' = processes \cup {[key |-> gen_key, req |-> r]}
  /\ alive' = alive \cup {gen_key}
  /\ SendMsg(c, "S", r)
  /\ port' = Append(rest, [kind |-> "new", key |-> gen_key])

RunRequest(r, rest) ==
  \/ /\ ByKey(r.key) = {}
     /\ port' = rest /\ UNCHANGED <<gen_key, processes, alive, bufVars>>
  \/ \E c \in ByKey(r.key) : Spawns(c, r, rest) \/ SpawnFails(c, r, rest)

-----------------------------------------------------------------------------
(* schedule_new_jobs *)
ScheduleNewJob ==
  /\ pc = "schedule" /\ SlotFree
  /\ \E r \in queue : /\ \A q \in queue : r.rid <= q.rid
                      /\ queue' = queue \ {r}
                      /\ RunRequest(r, port)
  /\ UNCHANGED <<loopVars, server_key, caller, ckey, clients, link, rpend, clientVars, ghostVars>>

(* Mutant: an `if' for the `while' of schedule_new_jobs. *)
ScheduleOnce ==
  /\ pc = "schedule" /\ pc' = "wait"
  /\ UNCHANGED <<status, parallel, keyVars, jobVars, bufVars, port, rpend, clientVars, ghostVars>>

ScheduleDone ==
  /\ pc = "schedule" /\ ~(SlotFree /\ queue # {})
  /\ pc' = "wait"
  /\ UNCHANGED <<status, parallel, keyVars, jobVars, bufVars, port, rpend, clientVars, ghostVars>>

(* GetQueuedCompletionStatus returns the oldest packet.                    *)
Packets(kinds) == pc = "wait" /\ port # <<>> /\ Head(port).kind \in kinds
TurnDone == port' = Tail(port) /\ pc' = "schedule"

(* get_server_num looks at `parallel' entries of an array that has         *)
(* InitParallel of them.                                                   *)
ServerNums(k) == {i \in Instances : i < parallel /\ server_key[i] = k}

(* accept_client: the connected instance becomes a client, a new instance  *)
(* with a new key takes its place.                                         *)
AcceptClient ==
  /\ Packets({"connect"}) /\ TurnDone
  /\ \E i \in ServerNums(Head(port).key) :
       /\ clients' = clients \cup {caller[i]}
       /\ link' = [link EXCEPT ![caller[i]] = "accepted"]
       /\ caller' = [caller EXCEPT ![i] = NoConn]
       /\ server_key' = [server_key EXCEPT ![i] = gen_key]
       /\ gen_key' = gen_key + 1
       /\ DoRead(caller[i])
  /\ UNCHANGED <<status, parallel, ckey, jobVars, bufVars, clientVars, ghostVars>>

(* A packet whose key is that of no client (any more), or of no prover, or *)
(* of the prover of a client that is gone, is ignored.                     *)
ProcByKey(k) == {p \in processes : p.key = k /\ ByKey(p.req.key) # {}}

IgnorePacket ==
  /\ \/ Packets({"connect"}) /\ ServerNums(Head(port).key) = {}
     \/ Packets({"read", "more", "broken", "written", "unwritten"}) /\ ByKey(Head(port).key) = {}
     \/ Packets(Notices) /\ ProcByKey(Head(port).key) = {}
     \/ Packets({"new"}) /\ ProcByKey(Head(port).key) # {}
  /\ TurnDone
  /\ UNCHANGED <<status, parallel, keyVars, jobVars, bufVars, rpend, clientVars, ghostVars>>

(* With `parallel' above InitParallel, get_server_num reads past the array *)
(* for every key that is not a server key, and what it finds may match.    *)
ReadPastArray ==
  /\ Packets({"read", "more", "broken", "written", "unwritten"})
  /\ parallel > InitParallel
  /\ status' = "undefined"
  /\ UNCHANGED <<pc, parallel, keyVars, jobVars, bufVars, port, rpend, clientVars, ghostVars>>

(* READOP with res: handle_msg, clear_readbuf, do_read.                    *)
Received(cmd) ==
  /\ Packets({"read"}) /\ Head(port).line.cmd = cmd /\ pc' = "schedule"
  /\ \E c \in ByKey(Head(port).key) : DoRead(c)

HandleRun ==
  /\ Received("run")
  /\ \E c \in ByKey(Head(port).key) :
       LET r == [rid |-> Cardinality(seen) + 1, id |-> Head(port).line.arg,
                 key |-> Head(port).key, owner |-> c] IN
       /\ seen' = seen \cup {r}
       /\ \/ /\ ~SlotFree /\ queue' = queue \cup {r} /\ port' = Tail(port)
             /\ UNCHANGED <<gen_key, processes, alive, bufVars, refused>>
          \/ /\ SlotFree /\ UNCHANGED queue
             /\ \/ Spawns(c, r, Tail(port)) /\ UNCHANGED refused
                \/ SpawnFails(c, r, Tail(port)) /\ refused' = refused \cup {r}
  /\ UNCHANGED <<status, parallel, server_key, caller, ckey, clients, link, clientVars, cancelled>>

(* remove_from_queue and kill_processes.  TerminateProcess makes provers   *)
(* end, which ChildEnds below lets them do at any time.                    *)
HandleInterrupt ==
  LET hit == {r \in queue : r.id = Head(port).line.arg} IN
  /\ Received("interrupt") /\ port' = Tail(port)
  /\ queue' = queue \ hit /\ cancelled' = cancelled \cup hit
  /\ UNCHANGED <<status, parallel, keyVars, processes, alive, bufVars, clientVars, seen, refused>>

HandleParallel ==
  LET n == Head(port).line.arg IN
  /\ Received("parallel") /\ port' = Tail(port)
  /\ parallel' = IF n >= 1 THEN n ELSE parallel
  /\ UNCHANGED <<status, keyVars, jobVars, bufVars, clientVars, ghostVars>>

(* Mutant: the rest of a long message is not asked for. *)
ReadMoreForgotten ==
  /\ Packets({"more"}) /\ TurnDone /\ ByKey(Head(port).key) # {}
  /\ UNCHANGED <<status, parallel, keyVars, jobVars, bufVars, rpend, clientVars, ghostVars>>

(* READOP without res, ERROR_MORE_DATA: read on.                           *)
ReadMore ==
  /\ Packets({"more"}) /\ TurnDone
  /\ \E c \in ByKey(Head(port).key) : DoRead(c)
  /\ UNCHANGED <<status, parallel, keyVars, jobVars, bufVars, clientVars, ghostVars>>

(* READOP without res, ERROR_BROKEN_PIPE: close_client.                    *)
CloseClient ==
  /\ Packets({"broken"}) /\ TurnDone
  /\ \E c \in ByKey(Head(port).key) :
       /\ clients' = clients \ {c}
       /\ link' = [link EXCEPT ![c] = "freed"]
       /\ status' = IF SingleClient /\ clients = {c} THEN "exited" ELSE status
  /\ UNCHANGED <<parallel, gen_key, server_key, caller, ckey, jobVars, bufVars, rpend,
                 clientVars, ghostVars>>

(* Mutant: no try_write when a write has ended. *)
HaveWrittenStops ==
  /\ Packets({"written", "unwritten"}) /\ TurnDone
  /\ \E c \in ByKey(Head(port).key) :
       /\ written' = IF Head(port).kind = "written" THEN [written EXCEPT ![c] = @ + 1] ELSE written
       /\ is_writing' = is_writing \ {c}
  /\ UNCHANGED <<status, parallel, keyVars, jobVars, stream, wpend, rpend, clientVars, ghostVars>>

(* WRITEOP: have_written (of 0 bytes when the write failed), try_write.    *)
HaveWritten ==
  /\ Packets({"written", "unwritten"}) /\ TurnDone
  /\ \E c \in ByKey(Head(port).key) :
       /\ written' = IF Head(port).kind = "written" THEN [written EXCEPT ![c] = @ + 1] ELSE written
       /\ UNCHANGED stream
       /\ TryWrite(c, is_writing \ {c})
  /\ UNCHANGED <<status, parallel, keyVars, jobVars, rpend, clientVars, ghostVars>>

(* Mutant: the prover stays in the list. *)
HandleChildAgain ==
  /\ Packets(Notices \ {"new"}) /\ TurnDone
  /\ Head(port).key \notin alive
  /\ \E p \in ProcByKey(Head(port).key), c \in Conns :
       /\ c \in ByKey(p.req.key)
       /\ UNCHANGED processes
       /\ SendMsg(c, "F", p.req)
  /\ UNCHANGED <<status, parallel, keyVars, queue, alive, rpend, clientVars, ghostVars>>

(* Mutant: the end goes to the client accepted last. *)
HandleChildOfLast ==
  /\ Packets(Notices \ {"new"}) /\ TurnDone
  /\ Head(port).key \notin alive
  /\ \E p \in ProcByKey(Head(port).key), c \in clients :
       /\ \A d \in clients : ckey[d] <= ckey[c]
       /\ processes' = processes \ {p}
       /\ SendMsg(c, "F", p.req)
  /\ UNCHANGED <<status, parallel, keyVars, queue, alive, rpend, clientVars, ghostVars>>

(* handle_child_event for a limit, an error or the exit: the server waits  *)
(* for the end of the process, takes it out of the list and sends F.       *)
HandleChildEvent ==
  /\ Packets(Notices \ {"new"}) /\ TurnDone
  /\ Head(port).key \notin alive
  /\ \E p \in ProcByKey(Head(port).key), c \in Conns :
       /\ c \in ByKey(p.req.key)
       /\ processes' = processes \ {p}
       /\ SendMsg(c, "F", p.req)
  /\ UNCHANGED <<status, parallel, keyVars, queue, alive, rpend, clientVars, ghostVars>>

ServerStep ==
  \/ ScheduleNewJob \/ ScheduleDone \/ AcceptClient \/ IgnorePacket \/ ReadPastArray
  \/ HandleRun \/ HandleInterrupt \/ HandleParallel \/ ReadMore \/ CloseClient
  \/ HaveWritten \/ HandleChildEvent

-----------------------------------------------------------------------------
(* The kernel: reads and writes end, provers end or meet a limit.          *)
Post(packets) == port' = port \o packets

ReadEnds(c) ==
  LET line == Head(sock[c])
      packet(kind) == [kind |-> kind, key |-> ckey[c]] IN
  /\ c \in rpend /\ rpend' = rpend \ {c}
  /\ \/ /\ sock[c] = <<>> /\ c \notin open
        /\ Post(<<packet("broken")>>) /\ UNCHANGED sock
     \/ /\ sock[c] # <<>> /\ line.parts > 1
        /\ Post(<<packet("more")>>) /\ sock' = [sock EXCEPT ![c][1].parts = @ - 1]
     \/ /\ sock[c] # <<>> /\ line.parts = 1
        /\ Post(<<[kind |-> "read", key |-> ckey[c], line |-> line]>>)
        /\ sock' = [sock EXCEPT ![c] = Tail(@)]
  /\ UNCHANGED <<loopVars, keyVars, jobVars, bufVars, open, nrun, nctl, ghostVars>>

WriteEnds(c) ==
  /\ wpend[c] > 0 /\ wpend' = [wpend EXCEPT ![c] = @ - 1]
  /\ Post(<<[kind |-> IF c \in open THEN "written" ELSE "unwritten", key |-> ckey[c]]>>)
  /\ UNCHANGED <<loopVars, keyVars, jobVars, stream, written, is_writing, rpend,
                 clientVars, ghostVars>>

(* Whether the prover with key k may meet this limit. *)
MayMeet(k, ev) == \E p \in processes : p.key = k /\ ev \in Events[p.req.owner]

(* The time limit ends the process, the memory limit does not.  The job    *)
(* also reports "no process left", which the server ignores like "new".    *)
ChildEnds(k) ==
  LET notice(ev) == [kind |-> ev, key |-> k] IN
  /\ k \in alive /\ alive' = alive \ {k}
  /\ \/ Post(<<notice("exit")>>)
     \/ MayMeet(k, "time_limit") /\ Post(<<notice("time_limit"), notice("exit")>>)
  /\ UNCHANGED <<loopVars, keyVars, queue, processes, bufVars, rpend, clientVars, ghostVars>>

MemoryLimit(k) ==
  LET notice == [kind |-> "memory_limit", key |-> k] IN
  /\ k \in alive /\ MayMeet(k, "memory_limit")
  /\ \A i \in 1..Len(port) : port[i] # notice
  /\ Post(<<notice>>)
  /\ UNCHANGED <<loopVars, keyVars, jobVars, bufVars, rpend, clientVars, ghostVars>>

(* The clients.                                                            *)
Connect(c) ==
  /\ link[c] = "none"
  /\ \E i \in Instances :
       /\ caller[i] = NoConn /\ caller' = [caller EXCEPT ![i] = c]
       /\ ckey' = [ckey EXCEPT ![c] = server_key[i]]
       /\ Post(<<[kind |-> "connect", key |-> server_key[i]]>>)
  /\ link' = [link EXCEPT ![c] = "waiting"] /\ open' = open \cup {c}
  /\ UNCHANGED <<loopVars, gen_key, server_key, clients, jobVars, bufVars, rpend,
                 sock, nrun, nctl, ghostVars>>

SendRun(c) ==
  /\ c \in open /\ nrun[c] < MaxRun[c] /\ nrun' = [nrun EXCEPT ![c] = @ + 1]
  /\ sock' = [sock EXCEPT ![c] =
                Append(@, [cmd |-> "run", arg |-> nrun[c] + 1, parts |-> RunParts])]
  /\ UNCHANGED <<loopVars, keyVars, jobVars, bufVars, port, rpend, open, nctl, ghostVars>>

SendControl(c) ==
  /\ c \in open /\ nctl[c] < MaxCtl[c] /\ nctl' = [nctl EXCEPT ![c] = @ + 1]
  /\ \E m \in [cmd : {"interrupt"}, arg : 1..nrun[c], parts : {1}]
              \cup [cmd : {"parallel"}, arg : Limits, parts : {1}] :
       sock' = [sock EXCEPT ![c] = Append(@, m)]
  /\ UNCHANGED <<loopVars, keyVars, jobVars, bufVars, port, rpend, open, nrun, ghostVars>>

Close(c) ==
  /\ c \in open /\ open' = open \ {c}
  /\ UNCHANGED <<loopVars, keyVars, jobVars, bufVars, port, rpend, sock, nrun, nctl, ghostVars>>

Kernel ==
  \/ \E c \in Conns : ReadEnds(c) \/ WriteEnds(c)
  \/ \E k \in alive : ChildEnds(k) \/ MemoryLimit(k)

Environment == \E c \in Conns : Connect(c) \/ SendRun(c) \/ SendControl(c) \/ Close(c)

Next == status = "up" /\ (ServerStep \/ Kernel \/ Environment)
Spec == Init /\ [][Next]_vars

(* Keys given out at most: one per pipe instance, per accepted client and  *)
(* per prover.                                                             *)
MaxKey ==
  InitParallel + Cardinality(Conns) + Cardinality(UNION {{c} \X (1..MaxRun[c]) : c \in Conns}) + 1

(* The loop runs while it has something to do; started reads and writes    *)
(* end, and so do provers.                                                 *)
Fairness ==
  /\ WF_vars(status = "up" /\ ServerStep)
  /\ \A c \in Conns : WF_vars(status = "up" /\ (ReadEnds(c) \/ WriteEnds(c)))
  /\ \A k \in 1..MaxKey : WF_vars(status = "up" /\ ChildEnds(k))

FairSpec == Spec /\ Fairness

-----------------------------------------------------------------------------
InPort(kinds, k) == \E i \in 1..Len(port) : port[i].kind \in kinds /\ port[i].key = k

(* Every answer goes to the client that sent the request, whoever else     *)
(* connects or disconnects in between: a client's key is never used again. *)
AnswersToSender ==
  \A c \in Conns : \A i \in 1..Len(stream[c]) : stream[c][i].req.owner = c

(* The flag is_writing of the write buffer is exactly "a WriteFile is in   *)
(* the kernel or its packet is in the port": the assertions of             *)
(* prepare_write and have_written hold, and two writes never overlap.      *)
WritesTakeTurns ==
  \A c \in clients \cap open :
    (c \in is_writing) <=> (wpend[c] > 0 \/ InPort({"written"}, ckey[c]))

(* A connected client is always listened to: a ReadFile is in the kernel,  *)
(* or its packet is in the port.                                           *)
AlwaysReading ==
  \A c \in clients \cap open :
    c \in rpend \/ InPort({"read", "more"}, ckey[c])

(* The end of a prover is reported once, although up to three job events   *)
(* announce it, and after its start (handle_child_event).                  *)
ReportedOnce ==
  \A c \in Conns : \A i, j \in 1..Len(stream[c]) :
    i < j /\ stream[c][i].req = stream[c][j].req
      => stream[c][i].kind = "S" /\ stream[c][j].kind = "F"

(* No slot stays free while a request waits and the loop blocks.           *)
NoIdleSlot == pc = "wait" => queue = {} \/ NumRunning >= parallel

(* Seen through the requests it accepts, the Windows server is the same    *)
(* pool of jobs as the Unix one.  A request whose CreateProcess fails at   *)
(* once counts as not submitted.                                           *)
Pool == INSTANCE JobPool WITH
  submitted <- seen \ refused,
  waiting   <- queue,
  running   <- {p.req : p \in processes},
  limit     <- parallel

RefinesJobPool == Pool!PoolSpec

Answered(c, n) ==
  \E i \in 1..written[c] : /\ stream[c][i].kind = "F"
                           /\ stream[c][i].req.owner = c /\ stream[c][i].req.id = n
Interrupted(c, n) == \E r \in cancelled : r.owner = c /\ r.id = n

(* Every run command is answered while no client has closed its pipe.      *)
AnsweredIfNobodyLeaves ==
  \A c \in Conns : \A n \in 1..MaxRun[c] :
    (nrun[c] >= n /\ c \in clients)
      ~> Answered(c, n) \/ Interrupted(c, n) \/ status # "up"
         \/ \E d \in Conns : link[d] # "none" /\ d \notin open

(* server-win.c, lines 462-464: the list of processes is cleaned up "when  *)
(* we get notified of the end of the child process".  main ignores the     *)
(* notice when the client is gone, and the slot is lost.                   *)
EndedProversLeaveTheList ==
  \A k \in 1..MaxKey :
    (\E p \in processes : p.key = k /\ k \notin alive)
      ~> (~ \E p \in processes : p.key = k) \/ status # "up"
=============================================================================

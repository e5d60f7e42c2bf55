---------------------------- MODULE VCServerSteps ----------------------------
(***************************************************************************)
(* What every step of the Unix server keeps: types, the list of processes, *)
(* the self-pipe, the limit and the job pool.  The theorems that rest on   *)
(* it are in VCServerProofs.                                               *)
(***************************************************************************)
EXTENDS VCServer, FiniteFacts, TLAPS

-----------------------------------------------------------------------------
(* The inductive strengthening of TypeOK.                                  *)

Finite == FiniteSetFacts /\ IsFiniteSet(seen) /\ IsFiniteSet(processes)

(* A poll entry with events still to handle belongs to a connected client. *)
EventsOfClients == \A f \in Fds : revents.fd[f] # {} => clients[f] # NoConn

(* Lines are only held inside handle_msg, for a connected client.          *)
InputOfClient ==
  /\ pc # "msg" => reading = NoInput
  /\ \A f \in reading.fds : clients[f] # NoConn

(* The loop reads the self-pipe only when it holds a byte.                 *)
PipeByte == /\ revents.pipe => cpipe > 0
            /\ pc = "pipe" => revents.pipe

TypeInv == TypeOK /\ Finite /\ EventsOfClients /\ InputOfClient /\ PipeByte

LEMMA InitTypeInv == ASSUME FiniteSetFacts, Init PROVE TypeInv
<1>1. TypeOK
  <2>1. revents \in [listen : BOOLEAN, pipe : BOOLEAN,
                     fd : [Fds -> SUBSET {"ERR", "OUT", "IN"}]]
    BY DEF Init, NoEvents
  <2>2. reading \in [fds : SUBSET Fds, lines : Seq(Line)]
    BY DEF Init, NoInput
  <2>3. stream \in [Conns -> Seq(Answer)] /\ sock \in [Conns -> Seq(Line)]
    BY DEF Init
  <2>4. QED
    BY ZenonT(30), <2>1, <2>2, <2>3, LimitsAssumption DEF Init, TypeOK
<1>2. Finite
  BY DEF Init, Finite, FiniteSetFacts, FiniteEmpty
<1>3. EventsOfClients /\ InputOfClient /\ PipeByte
  BY DEF Init, EventsOfClients, InputOfClient, PipeByte, NoEvents, NoInput
<1>4. QED
  BY <1>1, <1>2, <1>3 DEF TypeInv

LEMMA NextEntryType ==
  ASSUME NEW rev
  PROVE  /\ NextEntry(rev) \in {"schedule", "accept", "pipe", "serve"}
         /\ NextEntry(rev) = "pipe" => rev.pipe
  BY DEF NextEntry

LEMMA RequestType ==
  ASSUME TypeInv, NEW f \in Fds, clients[f] # NoConn, NEW n \in Nat
  PROVE  [rid |-> Cardinality(seen) + 1, id |-> n, key |-> f, owner |-> clients[f]] \in Request
  BY DEF TypeInv, TypeOK, Finite, FiniteSetFacts, FiniteCount, Request

LEMMA AnswerType ==
  ASSUME NEW r \in Request, NEW e \in Endings
  PROVE  Started(r) \in Answer /\ Finished(r, e) \in Answer
  BY DEF Started, Finished, Answer, Endings, Signalled

LEMMA QueueWriteType ==
  ASSUME TypeOK, NEW c \in Conns, NEW m \in Answer, QueueWrite(c, m)
  PROVE  stream' \in [Conns -> Seq(Answer)] /\ pollout' \subseteq Conns
  BY DEF TypeOK, QueueWrite

LEMMA RunRequestType ==
  ASSUME TypeInv, NEW r \in Request, RunRequest(r)
  PROVE  /\ stream' \in [Conns -> Seq(Answer)] /\ pollout' \subseteq Conns
         /\ child' \in [Pids -> {"free", "running"} \cup Endings]
         /\ processes' \subseteq Proc /\ IsFiniteSet(processes')
<1>1. CASE clients[r.key] = NoConn
  BY <1>1 DEF RunRequest, TypeInv, TypeOK, Finite
<1>2. CASE clients[r.key] # NoConn
  <2>1. PICK p \in Pids :
           /\ child' = [child EXCEPT ![p] = "running"]
           /\ processes' = processes \cup {[pid |-> p, req |-> r]}
           /\ QueueWrite(clients[r.key], Started(r))
    BY <1>2 DEF RunRequest
  <2>2. clients[r.key] \in Conns /\ Started(r) \in Answer
    BY <1>2, AnswerType DEF TypeInv, TypeOK, Request, Endings
  <2>3. stream' \in [Conns -> Seq(Answer)] /\ pollout' \subseteq Conns
    BY <2>1, <2>2, QueueWriteType DEF TypeInv
  <2>4. child' \in [Pids -> {"free", "running"} \cup Endings] /\ processes' \subseteq Proc
    BY <2>1 DEF TypeInv, TypeOK, Proc
  <2>5. IsFiniteSet(processes')
    BY ZenonT(30), <2>1 DEF TypeInv, Finite, FiniteSetFacts, FiniteAdd
  <2>6. QED
    BY <2>3, <2>4, <2>5
<1>3. QED
  BY <1>1, <1>2
-----------------------------------------------------------------------------
(* Every step preserves TypeInv.                                           *)

LEMMA ScheduleNewJobType == TypeInv /\ ScheduleNewJob => TypeInv'
<1> SUFFICES ASSUME TypeInv, ScheduleNewJob PROVE TypeInv'
  OBVIOUS
<1>1. PICK r \in queue : queue' = queue \ {r} /\ RunRequest(r)
  BY DEF ScheduleNewJob
<1>2. r \in Request
  BY <1>1 DEF TypeInv, TypeOK
<1>3. TypeOK' /\ Finite'
  BY <1>1, <1>2, RunRequestType
     DEF TypeInv, TypeOK, Finite, ScheduleNewJob, clientVars, ghostVars
<1>4. EventsOfClients' /\ InputOfClient' /\ PipeByte'
  BY DEF TypeInv, EventsOfClients, InputOfClient, PipeByte, ScheduleNewJob
<1>5. QED
  BY <1>3, <1>4 DEF TypeInv

LEMMA ScheduleDoneType == TypeInv /\ ScheduleDone => TypeInv'
  BY DEF TypeInv, TypeOK, Finite, EventsOfClients, InputOfClient, PipeByte, ScheduleDone,
     bufVars, kernelVars, clientVars, ghostVars

LEMMA ReadyType ==
  ASSUME TypeInv
  PROVE  /\ Ready \in [listen : BOOLEAN, pipe : BOOLEAN,
                       fd : [Fds -> SUBSET {"ERR", "OUT", "IN"}]]
         /\ \A f \in Fds : Ready.fd[f] # {} => clients[f] # NoConn
         /\ Ready.pipe => cpipe > 0
<1>1. \A c : ClientEvents(c) \subseteq {"ERR", "OUT", "IN"}
  BY DEF ClientEvents
<1>2. DEFINE ev == [f \in Fds |-> IF clients[f] = NoConn THEN {} ELSE ClientEvents(clients[f])]
             li == \E c \in Conns : link[c] = "waiting"
             pi == cpipe > 0
<1>3. Ready = [listen |-> li, pipe |-> pi, fd |-> ev]
  BY DEF Ready
<1>4. li \in BOOLEAN /\ pi \in BOOLEAN
  OBVIOUS
<1>5. ev \in [Fds -> SUBSET {"ERR", "OUT", "IN"}] /\ \A f \in Fds : ev[f] # {} => clients[f] # NoConn
  BY <1>1
<1> HIDE DEF ev, li, pi
<1>6. QED
  BY ZenonT(30), <1>3, <1>4, <1>5 DEF pi

LEMMA PollType == TypeInv /\ Poll => TypeInv'
<1> SUFFICES ASSUME TypeInv, Poll PROVE TypeInv'
  OBVIOUS
<1>1. pc' \in {"schedule", "accept", "pipe", "serve"} /\ (pc' = "pipe" => revents'.pipe)
  BY NextEntryType DEF Poll
<1>2. TypeOK' /\ Finite'
  BY <1>1, ReadyType DEF TypeInv, TypeOK, Finite, Poll, bufVars, kernelVars, clientVars, ghostVars
<1>3. EventsOfClients' /\ InputOfClient' /\ PipeByte'
  BY <1>1, ReadyType DEF TypeInv, EventsOfClients, InputOfClient, PipeByte, Poll, kernelVars
<1>4. QED
  BY <1>2, <1>3 DEF TypeInv

LEMMA ServerAcceptClientType == TypeInv /\ ServerAcceptClient => TypeInv'
<1> SUFFICES ASSUME TypeInv, ServerAcceptClient PROVE TypeInv'
  OBVIOUS
<1>1. PICK c \in Conns, f \in Fds : /\ clients' = [clients EXCEPT ![f] = c]
                                    /\ link' = [link EXCEPT ![c] = "accepted"]
  BY ZenonT(30) DEF ServerAcceptClient
<1>2. pc' \in {"schedule", "accept", "pipe", "serve"} /\ (pc' = "pipe" => revents'.pipe)
  BY ZenonT(30), NextEntryType DEF ServerAcceptClient
<1>3. /\ revents' \in [listen : BOOLEAN, pipe : BOOLEAN,
                       fd : [Fds -> SUBSET {"ERR", "OUT", "IN"}]]
      /\ revents'.fd = revents.fd /\ revents'.pipe = revents.pipe
  <2>1. revents \in [listen : BOOLEAN, pipe : BOOLEAN,
                     fd : [Fds -> SUBSET {"ERR", "OUT", "IN"}]]
    BY DEF TypeInv, TypeOK
  <2>2. revents' = [revents EXCEPT !.listen = FALSE]
    BY DEF ServerAcceptClient
  <2>3. QED
    BY ZenonT(30), <2>1, <2>2
<1>4. TypeOK' /\ Finite'
  BY ZenonT(30), <1>1, <1>2, <1>3 DEF TypeInv, TypeOK, Finite, ServerAcceptClient, bufVars, clientVars, ghostVars
<1>5. \A g \in Fds : clients[g] # NoConn => clients'[g] # NoConn
  BY <1>1, ConnsAssumption DEF TypeInv, TypeOK
<1>6. EventsOfClients' /\ PipeByte'
  BY <1>2, <1>3, <1>5 DEF TypeInv, EventsOfClients, PipeByte, ServerAcceptClient
<1>7. InputOfClient'
  BY <1>2 DEF TypeInv, InputOfClient, ServerAcceptClient, NoInput
<1>8. QED
  BY <1>4, <1>6, <1>7 DEF TypeInv

LEMMA ReadChildPipeType == TypeInv /\ ReadChildPipe => TypeInv'
<1> SUFFICES ASSUME TypeInv, ReadChildPipe PROVE TypeInv'
  OBVIOUS
<1>1. /\ revents' \in [listen : BOOLEAN, pipe : BOOLEAN,
                       fd : [Fds -> SUBSET {"ERR", "OUT", "IN"}]]
      /\ revents'.fd = revents.fd /\ ~revents'.pipe
  BY ZenonT(30) DEF TypeInv, TypeOK, ReadChildPipe
<1>2. cpipe' \in Nat
  BY DEF TypeInv, TypeOK, PipeByte, ReadChildPipe
<1>3. TypeOK' /\ Finite'
  BY ZenonT(30), <1>1, <1>2 DEF TypeInv, TypeOK, Finite, ReadChildPipe, bufVars, clientVars, ghostVars
<1>4. EventsOfClients' /\ InputOfClient' /\ PipeByte'
  BY <1>1, <1>2 DEF TypeInv, EventsOfClients, InputOfClient, PipeByte, ReadChildPipe
<1>5. QED
  BY <1>3, <1>4 DEF TypeInv

LEMMA HandleChildEventType == TypeInv /\ HandleChildEvent => TypeInv'
<1> SUFFICES ASSUME TypeInv, HandleChildEvent PROVE TypeInv'
  OBVIOUS
<1>1. PICK ch \in processes :
         /\ child[ch.pid] \in Endings
         /\ child' = [child EXCEPT ![ch.pid] = "free"]
         /\ processes' = processes \ {ch}
         /\ IF clients[ch.req.key] = NoConn
              THEN UNCHANGED <<stream, pollout>>
              ELSE QueueWrite(clients[ch.req.key], Finished(ch.req, child[ch.pid]))
  BY ZenonT(30) DEF HandleChildEvent
<1>2. ch.pid \in Pids /\ ch.req \in Request /\ ch.req.key \in Fds
  BY <1>1 DEF TypeInv, TypeOK, Proc, Request
<1>3. stream' \in [Conns -> Seq(Answer)] /\ pollout' \subseteq Conns
  <2>1. CASE clients[ch.req.key] = NoConn
    BY <1>1, <2>1 DEF TypeInv, TypeOK
  <2>2. CASE clients[ch.req.key] # NoConn
    <3>1. clients[ch.req.key] \in Conns
      BY <1>2, <2>2 DEF TypeInv, TypeOK
    <3>2. QED
      BY <1>1, <1>2, <2>2, <3>1, AnswerType, QueueWriteType DEF TypeInv
  <2>3. QED
    BY <2>1, <2>2
<1>4. child' \in [Pids -> {"free", "running"} \cup Endings] /\ processes' \subseteq Proc
  BY <1>1, <1>2 DEF TypeInv, TypeOK
<1>5. Finite'
  BY <1>1 DEF TypeInv, Finite, FiniteSetFacts, FiniteSubset, HandleChildEvent, ghostVars
<1>6. TypeOK'
  BY <1>3, <1>4 DEF TypeInv, TypeOK, HandleChildEvent, clientVars, ghostVars
<1>7. EventsOfClients' /\ InputOfClient' /\ PipeByte'
  BY DEF TypeInv, EventsOfClients, InputOfClient, PipeByte, HandleChildEvent
<1>8. QED
  BY <1>5, <1>6, <1>7 DEF TypeInv

LEMMA ChildEventsDoneType == TypeInv /\ ChildEventsDone => TypeInv'
  BY NextEntryType
     DEF TypeInv, TypeOK, Finite, EventsOfClients, InputOfClient, PipeByte, ChildEventsDone,
     bufVars, kernelVars, clientVars, ghostVars

LEMMA HandledType ==
  ASSUME TypeInv, NEW f \in Fds, Handled(f)
  PROVE  /\ revents' \in [listen : BOOLEAN, pipe : BOOLEAN,
                          fd : [Fds -> SUBSET {"ERR", "OUT", "IN"}]]
         /\ revents'.pipe = revents.pipe
         /\ revents'.fd[f] = {}
         /\ \A g \in Fds \ {f} : revents'.fd[g] = revents.fd[g]
<1>1. revents \in [listen : BOOLEAN, pipe : BOOLEAN,
                   fd : [Fds -> SUBSET {"ERR", "OUT", "IN"}]]
  BY DEF TypeInv, TypeOK
<1>2. revents' = [revents EXCEPT !.fd = [revents.fd EXCEPT ![f] = {}]]
  BY <1>1 DEF Handled
<1>3. QED
  BY <1>1, <1>2

LEMMA EntryDoneType ==
  ASSUME NEW f \in Fds, EntryDone(f)
  PROVE  /\ Handled(f)
         /\ pc' \in {"schedule", "accept", "pipe", "serve"}
         /\ pc' = "pipe" => revents'.pipe
  BY NextEntryType DEF EntryDone

(* The facts a client entry needs to keep the strengthening, when the      *)
(* descriptor may have been closed and the self-pipe is not touched.       *)
LEMMA EntryKeeps ==
  ASSUME TypeInv, NEW f \in Fds, EntryDone(f), pc = "serve",
         \A g \in Fds \ {f} : clients'[g] = clients[g],
         UNCHANGED <<cpipe, reading>>
  PROVE  EventsOfClients' /\ InputOfClient' /\ PipeByte'
<1>1. EventsOfClients'
  BY HandledType, EntryDoneType DEF TypeInv, EventsOfClients
<1>2. InputOfClient'
  BY EntryDoneType DEF TypeInv, InputOfClient, NoInput
<1>3. PipeByte'
  BY HandledType, EntryDoneType DEF TypeInv, PipeByte
<1>4. QED
  BY <1>1, <1>2, <1>3

LEMMA CloseClientType ==
  ASSUME TypeInv, NEW f \in Fds, CloseClient(f)
  PROVE  /\ clients' \in [Fds -> Conns \cup {NoConn}]
         /\ link' \in [Conns -> {"none", "waiting", "accepted", "freed"}]
         /\ pollout' \subseteq Conns
         /\ status' \in {"up", "exited", "aborted", "sigpipe"}
         /\ \A g \in Fds \ {f} : clients'[g] = clients[g]
  BY ZenonT(30) DEF TypeInv, TypeOK, CloseClient

LEMMA ServedClient ==
  ASSUME TypeInv, NEW f \in Fds, revents.fd[f] # {}
  PROVE  clients[f] \in Conns
  BY DEF TypeInv, TypeOK, EventsOfClients

LEMMA CloseOnErrorType == TypeInv /\ (\E f \in Fds : CloseOnError(f)) => TypeInv'
<1> SUFFICES ASSUME TypeInv, NEW f \in Fds, CloseOnError(f) PROVE TypeInv'
  OBVIOUS
<1>1. CloseClient(f) /\ EntryDone(f) /\ pc = "serve"
  BY SMTT(30) DEF CloseOnError
<1>2. TypeOK' /\ Finite'
  BY Zenon, <1>1, CloseClientType, EntryDoneType, HandledType
     DEF TypeInv, TypeOK, Finite, CloseOnError, clientVars, ghostVars
<1>3. EventsOfClients' /\ InputOfClient' /\ PipeByte'
  BY <1>1, EntryKeeps, CloseClientType DEF CloseOnError
<1>4. QED
  BY <1>2, <1>3 DEF TypeInv

LEMMA ReadEofType == TypeInv /\ (\E f \in Fds : ReadEof(f)) => TypeInv'
<1> SUFFICES ASSUME TypeInv, NEW f \in Fds, ReadEof(f) PROVE TypeInv'
  OBVIOUS
<1>1. CloseClient(f) /\ EntryDone(f) /\ pc = "serve"
  BY DEF ReadEof
<1>2. TypeOK' /\ Finite'
  BY Zenon, <1>1, CloseClientType, EntryDoneType, HandledType
     DEF TypeInv, TypeOK, Finite, ReadEof, clientVars, ghostVars
<1>3. EventsOfClients' /\ InputOfClient' /\ PipeByte'
  BY ZenonT(30), <1>1, EntryKeeps, CloseClientType DEF ReadEof
<1>4. QED
  BY <1>2, <1>3 DEF TypeInv

LEMMA ReadFailsType == TypeInv /\ (\E f \in Fds : ReadFails(f)) => TypeInv'
<1> SUFFICES ASSUME TypeInv, NEW f \in Fds, ReadFails(f) PROVE TypeInv'
  OBVIOUS
<1>1. EntryDone(f) /\ pc = "serve"
  BY Zenon DEF ReadFails
<1>2. TypeOK' /\ Finite'
  BY ZenonT(30), <1>1, EntryDoneType, HandledType
     DEF TypeInv, TypeOK, Finite, ReadFails, bufVars, clientVars, ghostVars
<1>3. EventsOfClients' /\ InputOfClient' /\ PipeByte'
  BY <1>1, EntryKeeps DEF ReadFails
<1>4. QED
  BY <1>2, <1>3 DEF TypeInv

LEMMA WriteToClientType == TypeInv /\ (\E f \in Fds : WriteToClient(f)) => TypeInv'
<1> SUFFICES ASSUME TypeInv, NEW f \in Fds, WriteToClient(f) PROVE TypeInv'
  OBVIOUS
<1>1. EntryDone(f) /\ pc = "serve" /\ revents.fd[f] # {}
  BY DEF WriteToClient
<1>2. clients[f] \in Conns
  BY <1>1, ServedClient
<1>3. /\ status' \in {"up", "exited", "aborted", "sigpipe"}
      /\ pollout' \subseteq Conns /\ is_writing' \subseteq Conns /\ sent' \in [Conns -> Nat]
  <2> DEFINE c == clients[f]
  <2>1. /\ status \in {"up", "exited", "aborted", "sigpipe"}
        /\ pollout \subseteq Conns /\ is_writing \subseteq Conns /\ sent \in [Conns -> Nat]
    BY DEF TypeInv, TypeOK
  <2>2. \/ status' = "aborted" /\ UNCHANGED <<sent, pollout, is_writing>>
        \/ /\ sent' = [sent EXCEPT ![c] = sent[c] + 1] /\ UNCHANGED <<status, is_writing>>
           /\ pollout' = pollout \ {c} \/ pollout' = pollout
        \/ /\ status' = IF SigpipeIgnored THEN status ELSE "sigpipe"
           /\ is_writing' = is_writing \cup {c} /\ UNCHANGED <<sent, pollout>>
    BY DEF WriteToClient
  <2>3. QED
    BY <1>2, <2>1, <2>2
<1>4. TypeOK' /\ Finite'
  BY ZenonT(30), <1>1, <1>3, EntryDoneType, HandledType
     DEF TypeInv, TypeOK, Finite, WriteToClient, kernelVars, clientVars, ghostVars
<1>5. EventsOfClients' /\ InputOfClient' /\ PipeByte'
  BY ZenonT(30), <1>1, EntryKeeps DEF WriteToClient, kernelVars
<1>6. QED
  BY <1>4, <1>5 DEF TypeInv

LEMMA ReadLinesType == TypeInv /\ (\E f \in Fds : ReadLines(f)) => TypeInv'
<1> SUFFICES ASSUME TypeInv, NEW f \in Fds, ReadLines(f) PROVE TypeInv'
  OBVIOUS
<1>1. Handled(f) /\ pc' = "msg" /\ clients[f] \in Conns /\ sock \in [Conns -> Seq(Line)]
  BY ZenonT(30), ServedClient DEF ReadLines, TypeInv, TypeOK
<1> DEFINE c == clients[f]
<1>2. PICK n \in 1..Len(sock[c]) :
         /\ reading' = [fds |-> {f}, lines |-> SubSeq(sock[c], 1, n)]
         /\ sock' = [sock EXCEPT ![c] = SubSeq(sock[c], n + 1, Len(sock[c]))]
  BY ZenonT(30) DEF ReadLines
<1>3. SubSeq(sock[c], 1, n) \in Seq(Line) /\ SubSeq(sock[c], n + 1, Len(sock[c])) \in Seq(Line)
  BY SMTT(60), <1>1
<1>4. reading' \in [fds : SUBSET Fds, lines : Seq(Line)] /\ sock' \in [Conns -> Seq(Line)]
  BY <1>1, <1>2, <1>3
<1>5. TypeOK' /\ Finite'
  BY ZenonT(30), <1>1, <1>4, HandledType
     DEF TypeInv, TypeOK, Finite, ReadLines, bufVars, clientVars, ghostVars
<1>6. EventsOfClients' /\ PipeByte'
  BY ZenonT(30), <1>1, HandledType DEF TypeInv, EventsOfClients, PipeByte, ReadLines
<1>7. InputOfClient'
  BY <1>1, <1>2, ConnsAssumption DEF InputOfClient, ReadLines
<1>8. QED
  BY <1>5, <1>6, <1>7 DEF TypeInv

-----------------------------------------------------------------------------
LEMMA NextLineType ==
  ASSUME TypeInv, NEW cmd, NextLine(cmd), UNCHANGED <<clients, revents, cpipe>>
  PROVE  /\ pc' \in {"schedule", "poll", "accept", "pipe", "reap", "serve", "msg"}
         /\ reading' \in [fds : SUBSET Fds, lines : Seq(Line)]
         /\ Head(reading.lines) \in Line
         /\ EventsOfClients' /\ InputOfClient' /\ PipeByte'
<1>1. /\ reading \in [fds : SUBSET Fds, lines : Seq(Line)] /\ reading.lines # <<>>
      /\ pc = "msg" /\ \A f \in reading.fds : clients[f] # NoConn
  BY DEF TypeInv, TypeOK, InputOfClient, NextLine
<1>2. Head(reading.lines) \in Line /\ Tail(reading.lines) \in Seq(Line)
  BY <1>1
<1>3. CASE Len(reading.lines) = 1
  <2>1. reading' = NoInput /\ pc' = NextEntry(revents)
    BY <1>3 DEF NextLine
  <2>2. QED
    BY <1>2, <2>1, NextEntryType
       DEF NoInput, TypeInv, EventsOfClients, InputOfClient, PipeByte
<1>4. CASE Len(reading.lines) # 1
  <2>1. reading' = [reading EXCEPT !.lines = Tail(reading.lines)] /\ pc' = "msg"
    BY <1>1, <1>4 DEF NextLine
  <2>2. reading' \in [fds : SUBSET Fds, lines : Seq(Line)] /\ reading'.fds = reading.fds
    BY ZenonT(30), <1>1, <1>2, <2>1
  <2>3. QED
    BY ZenonT(30), <1>1, <1>2, <2>1, <2>2 DEF TypeInv, EventsOfClients, InputOfClient, PipeByte
<1>5. QED
  BY <1>3, <1>4

LEMMA HandleRunType == TypeInv /\ HandleRun => TypeInv'
<1> SUFFICES ASSUME TypeInv, HandleRun PROVE TypeInv'
  OBVIOUS
<1>1. /\ pc' \in {"schedule", "poll", "accept", "pipe", "reap", "serve", "msg"}
      /\ reading' \in [fds : SUBSET Fds, lines : Seq(Line)]
      /\ Head(reading.lines) \in Line
      /\ EventsOfClients' /\ InputOfClient' /\ PipeByte'
  BY Zenon, NextLineType DEF HandleRun
<1> DEFINE Req(f) == [rid |-> Cardinality(seen) + 1, id |-> Head(reading.lines).arg,
                      key |-> f, owner |-> clients[f]]
<1>2. PICK f \in reading.fds :
         /\ seen' = seen \cup {Req(f)}
         /\ \/ SlotFree /\ RunRequest(Req(f)) /\ UNCHANGED queue
            \/ /\ queue' = queue \cup {Req(f)}
               /\ UNCHANGED <<processes, child, stream, pollout>>
  BY DEF HandleRun
<1>3. Req(f) \in Request
  <2>1. f \in Fds /\ clients[f] # NoConn
    BY DEF TypeInv, TypeOK, InputOfClient
  <2>2. Head(reading.lines).arg \in Nat
    BY Zenon, <1>1 DEF Line
  <2>3. QED
    BY <2>1, <2>2, RequestType
<1> HIDE DEF Req
<1>4. /\ stream' \in [Conns -> Seq(Answer)] /\ pollout' \subseteq Conns
      /\ child' \in [Pids -> {"free", "running"} \cup Endings]
      /\ processes' \subseteq Proc /\ IsFiniteSet(processes')
  BY <1>2, <1>3, RunRequestType DEF TypeInv, TypeOK, Finite
<1>5. queue' \subseteq Request /\ seen' \subseteq Request
  BY <1>2, <1>3 DEF TypeInv, TypeOK
<1>6. Finite'
  BY ZenonT(30), <1>2, <1>4 DEF TypeInv, Finite, FiniteSetFacts, FiniteAdd
<1>7. TypeOK'
  BY SMTT(60), <1>1, <1>4, <1>5 DEF TypeInv, TypeOK, HandleRun, clientVars
<1>8. QED
  BY Zenon, <1>1, <1>6, <1>7 DEF TypeInv

LEMMA HandleInterruptType == TypeInv /\ HandleInterrupt => TypeInv'
<1> SUFFICES ASSUME TypeInv, HandleInterrupt PROVE TypeInv'
  OBVIOUS
<1>1. /\ pc' \in {"schedule", "poll", "accept", "pipe", "reap", "serve", "msg"}
      /\ reading' \in [fds : SUBSET Fds, lines : Seq(Line)]
      /\ EventsOfClients' /\ InputOfClient' /\ PipeByte'
  BY NextLineType DEF HandleInterrupt
<1>2. /\ queue' \subseteq Request /\ cancelled' \subseteq Request
      /\ child' \in [Pids -> {"free", "running"} \cup Endings] /\ sigchld' \in BOOLEAN
  BY Zenon DEF TypeInv, TypeOK, HandleInterrupt, Endings
<1>3. TypeOK' /\ Finite'
  BY <1>1, <1>2 DEF TypeInv, TypeOK, Finite, HandleInterrupt, bufVars, clientVars
<1>4. QED
  BY <1>1, <1>3 DEF TypeInv

LEMMA HandleParallelType == TypeInv /\ HandleParallel => TypeInv'
<1> SUFFICES ASSUME TypeInv, HandleParallel PROVE TypeInv'
  OBVIOUS
<1>1. /\ pc' \in {"schedule", "poll", "accept", "pipe", "reap", "serve", "msg"}
      /\ reading' \in [fds : SUBSET Fds, lines : Seq(Line)]
      /\ Head(reading.lines) \in Line
      /\ EventsOfClients' /\ InputOfClient' /\ PipeByte'
  BY NextLineType DEF HandleParallel, kernelVars
<1>2. parallel' \in Nat \ {0}
  BY SMTT(30), <1>1 DEF TypeInv, TypeOK, HandleParallel, Line
<1>3. TypeOK' /\ Finite'
  BY Zenon, <1>1, <1>2
     DEF TypeInv, TypeOK, Finite, HandleParallel, bufVars, kernelVars, clientVars, ghostVars
<1>4. QED
  BY <1>1, <1>3 DEF TypeInv

-----------------------------------------------------------------------------
LEMMA ShutdownWithMsgType == TypeInv /\ ShutdownWithMsg => TypeInv'
  BY DEF TypeInv, TypeOK, Finite, EventsOfClients, InputOfClient, PipeByte, ShutdownWithMsg,
     bufVars, kernelVars, clientVars, ghostVars

LEMMA ServerStepType == TypeInv /\ ServerStep => TypeInv'
  BY SMTT(30), ScheduleNewJobType, ScheduleDoneType, PollType, ServerAcceptClientType, ReadChildPipeType,
     HandleChildEventType, ChildEventsDoneType, CloseOnErrorType, WriteToClientType,
     ReadLinesType, ReadFailsType, ReadEofType, HandleRunType, HandleInterruptType,
     HandleParallelType
  DEF ServerStep, ServeClient

LEMMA EnvironmentType == TypeInv /\ Environment => TypeInv'
<1> SUFFICES ASSUME TypeInv, Environment PROVE TypeInv'
  OBVIOUS
<1> USE DEF TypeInv, TypeOK, Finite, EventsOfClients, InputOfClient, PipeByte,
            serverVars, bufVars, kernelVars, clientVars, ghostVars
<1>1. CASE SigchldHandle
  <2>1. cpipe' \in Nat /\ cpipe' >= cpipe /\ sigchld' \in BOOLEAN
    <3>1. cpipe \in Nat /\ cpipe' = IF cpipe < PipeCap THEN cpipe + 1 ELSE cpipe
      BY <1>1 DEF SigchldHandle
    <3>2. sigchld' \in BOOLEAN
      BY <1>1, Zenon DEF SigchldHandle
    <3>3. cpipe' \in Nat /\ cpipe' >= cpipe
      BY ONLY <3>1
    <3>4. QED
      BY Zenon, <3>2, <3>3
  <2>2. TypeOK' /\ Finite' /\ EventsOfClients' /\ InputOfClient'
    BY <1>1, <2>1 DEF SigchldHandle
  <2>3. PipeByte'
    BY SMTT(60), <1>1, <2>1 DEF SigchldHandle
  <2>4. QED
    BY ZenonT(30), <2>2, <2>3
<1>2. ASSUME NEW p \in Pids, ChildEnds(p) PROVE TypeInv'
  <2>1. child' \in [Pids -> {"free", "running"} \cup Endings]
    BY ZenonT(30), <1>2, OutcomesAssumption DEF ChildEnds, Endings
  <2>2. QED
    BY <1>2, <2>1 DEF ChildEnds
<1>3. ASSUME NEW c \in Conns, Connect(c) PROVE TypeInv'
  BY Zenon, <1>3 DEF Connect
<1>4. ASSUME NEW c \in Conns, SendRun(c) PROVE TypeInv'
  <2>1. sock' \in [Conns -> Seq(Line)]
    <3>1. [cmd |-> "run", arg |-> nrun[c] + 1] \in Line
      BY DEF Line
    <3>2. QED
      BY <1>4, <3>1 DEF SendRun
  <2>2. QED
    BY SMTT(30), <1>4, <2>1 DEF SendRun
<1>5. ASSUME NEW c \in Conns, SendControl(c) PROVE TypeInv'
  <2>1. PICK m \in [cmd : {"interrupt"}, arg : 1..nrun[c]] \cup [cmd : {"parallel"}, arg : Limits] :
           sock' = [sock EXCEPT ![c] = Append(sock[c], m)]
    BY ZenonT(30), <1>5 DEF SendControl
  <2>2. m \in Line
    <3>1. 1..nrun[c] \subseteq Nat /\ Limits \subseteq Nat
      BY SMTT(30), LimitsAssumption
    <3>2. QED
      BY ZenonT(30), <2>1, <3>1 DEF Line
  <2>3. sock' \in [Conns -> Seq(Line)]
    <3>1. sock \in [Conns -> Seq(Line)]
      BY SMTT(30)
    <3>2. Append(sock[c], m) \in Seq(Line)
      BY ONLY <2>2, <3>1, c \in Conns
    <3>3. QED
      BY Zenon, <2>1, <3>1, <3>2
  <2>4. nctl' \in [Conns -> Nat]
    BY <1>5 DEF SendControl
  <2>5. QED
    BY ZenonT(60), <1>5, <2>4, <2>3 DEF SendControl
<1>6. ASSUME NEW c \in Conns, ReadAnswers(c) PROVE TypeInv'
  BY ZenonT(60), <1>6 DEF ReadAnswers
<1>7. ASSUME NEW c \in Conns, Close(c) PROVE TypeInv'
  BY Zenon, <1>7 DEF Close
<1>8. QED
  BY ZenonT(30), <1>1, <1>2, <1>3, <1>4, <1>5, <1>6, <1>7 DEF Environment

LEMMA StutterType == TypeInv /\ UNCHANGED vars => TypeInv'
  BY DEF TypeInv, TypeOK, Finite, EventsOfClients, InputOfClient, PipeByte,
     vars, serverVars, bufVars, kernelVars, clientVars, ghostVars

LEMMA TypeStep == ASSUME TypeInv, [Next]_vars PROVE TypeInv'
  BY ServerStepType, ShutdownWithMsgType, EnvironmentType, StutterType DEF Next

-----------------------------------------------------------------------------
(* The processes list and the server's children.                           *)

LEMMA RunRequestChildren ==
  ASSUME TypeInv, ChildrenKnown, NEW r \in Request, RunRequest(r)
  PROVE  /\ ChildrenKnown'
         /\ \A p \in Pids : child'[p] \in Endings => child[p] \in Endings
<1>1. CASE clients[r.key] = NoConn
  BY <1>1 DEF RunRequest, ChildrenKnown
<1>2. CASE clients[r.key] # NoConn
  <2>1. PICK p \in Pids :
           /\ child[p] = "free"
           /\ child' = [child EXCEPT ![p] = "running"]
           /\ processes' = processes \cup {[pid |-> p, req |-> r]}
    BY <1>2 DEF RunRequest
  <2>2. \A q \in Pids : child'[q] = IF q = p THEN "running" ELSE child[q]
    BY <2>1 DEF TypeInv, TypeOK
  <2> DEFINE new == [pid |-> p, req |-> r]
  <2>a. new.pid = p /\ processes' = processes \cup {new}
    BY <2>1
  <2> HIDE DEF new
  <2>3. {ch.pid : ch \in processes'} = {ch.pid : ch \in processes} \cup {p}
    BY Zenon, <2>a
  <2>4. {ch.pid : ch \in processes'} = {q \in Pids : child'[q] # "free"}
    BY <2>2, <2>3 DEF ChildrenKnown
  <2>5. \A x \in processes : x.pid # p
    BY <2>1 DEF ChildrenKnown
  <2>6. \A x, y \in processes' : x.pid = y.pid => x = y
    BY <2>5, <2>a DEF ChildrenKnown
  <2>7. QED
    BY <2>2, <2>4, <2>6 DEF ChildrenKnown, Endings
<1>3. QED
  BY Zenon, <1>1, <1>2

LEMMA HandleChildEventChildren ==
  ASSUME TypeInv, ChildrenKnown, HandleChildEvent
  PROVE  ChildrenKnown'
<1>1. PICK ch \in processes : /\ child' = [child EXCEPT ![ch.pid] = "free"]
                              /\ processes' = processes \ {ch}
  BY ZenonT(30) DEF HandleChildEvent
<1>2. \A q \in Pids : child'[q] = IF q = ch.pid THEN "free" ELSE child[q]
  BY <1>1 DEF TypeInv, TypeOK
<1>3. {x.pid : x \in processes'} = {x.pid : x \in processes} \ {ch.pid}
  BY ZenonT(30), <1>1 DEF ChildrenKnown
<1>4. {x.pid : x \in processes'} = {q \in Pids : child'[q] # "free"}
  BY <1>2, <1>3 DEF ChildrenKnown
<1>5. QED
  BY <1>1, <1>4 DEF ChildrenKnown

(* A step that only lets running children end keeps the correspondence.    *)
LEMMA EndingChildren ==
  ASSUME TypeInv, ChildrenKnown, UNCHANGED processes,
         \A p \in Pids : child'[p] = child[p] \/ (child[p] = "running" /\ child'[p] \in Endings)
  PROVE  ChildrenKnown'
<1>1. \A p \in Pids : child'[p] = "free" <=> child[p] = "free"
  BY DEF Endings
<1>2. QED
  BY <1>1 DEF ChildrenKnown

LEMMA HandleInterruptChildren ==
  ASSUME TypeInv, HandleInterrupt
  PROVE  /\ \A p \in Pids : child'[p] = child[p] \/ (child[p] = "running" /\ child'[p] \in Endings)
         /\ (\A p \in Pids : child'[p] = child[p]) \/ sigchld'
         /\ sigchld => sigchld'
  BY ZenonT(30) DEF TypeInv, TypeOK, HandleInterrupt, Endings

LEMMA ChildEndsChildren ==
  ASSUME TypeInv, NEW q \in Pids, ChildEnds(q)
  PROVE  \A p \in Pids : child'[p] = child[p] \/ (child[p] = "running" /\ child'[p] \in Endings)
  BY SMTT(30), OutcomesAssumption DEF TypeInv, TypeOK, ChildEnds, Endings

(* The steps that touch neither the list nor the children.                 *)
QuietServerStep ==
  \/ ScheduleDone \/ Poll \/ ServerAcceptClient \/ ReadChildPipe \/ ChildEventsDone
  \/ (\E f \in Fds : ServeClient(f)) \/ HandleParallel \/ ShutdownWithMsg

LEMMA QuietServerChildren == QuietServerStep => UNCHANGED <<processes, child>>
  BY DEF QuietServerStep, ScheduleDone, Poll, ServerAcceptClient, ReadChildPipe, ChildEventsDone,
     ServeClient, CloseOnError, WriteToClient, ReadLines, ReadFails, ReadEof, HandleParallel,
     ShutdownWithMsg, kernelVars

QuietEnvironment ==
  \/ SigchldHandle
  \/ \E c \in Conns : Connect(c) \/ SendRun(c) \/ SendControl(c) \/ ReadAnswers(c) \/ Close(c)

LEMMA QuietEnvironmentChildren == QuietEnvironment => UNCHANGED <<processes, child, pc, queue, parallel>>
  BY ZenonT(30) DEF QuietEnvironment, SigchldHandle, Connect, SendRun, SendControl, ReadAnswers, Close,
     serverVars, kernelVars

LEMMA NextCases ==
  ASSUME [Next]_vars
  PROVE  \/ ScheduleNewJob \/ HandleRun \/ HandleChildEvent \/ HandleInterrupt
         \/ QuietServerStep \/ QuietEnvironment \/ (\E p \in Pids : ChildEnds(p)) \/ UNCHANGED vars
  BY DEF Next, ServerStep, Environment, QuietServerStep, QuietEnvironment

LEMMA HandleRunRuns ==
  ASSUME TypeInv, HandleRun
  PROVE  \/ UNCHANGED <<processes, child>>
         \/ \E r \in Request : SlotFree /\ RunRequest(r)
<1> DEFINE Req(f) == [rid |-> Cardinality(seen) + 1, id |-> Head(reading.lines).arg,
                      key |-> f, owner |-> clients[f]]
<1>1. PICK f \in reading.fds : \/ SlotFree /\ RunRequest(Req(f))
                               \/ UNCHANGED <<processes, child>>
  BY ZenonT(30) DEF HandleRun
<1>2. f \in Fds /\ clients[f] # NoConn
  BY DEF TypeInv, TypeOK, InputOfClient
<1>3. Head(reading.lines).arg \in Nat
  <2>1. Head(reading.lines) \in Line
    BY DEF HandleRun, NextLine, TypeInv, TypeOK
  <2>2. QED
    BY <2>1 DEF Line
<1>4. Req(f) \in Request
  BY <1>2, <1>3, RequestType
<1> HIDE DEF Req
<1>5. QED
  BY <1>1, <1>4

LEMMA ChildrenStep == TypeInv /\ ChildrenKnown /\ [Next]_vars => ChildrenKnown'
<1> SUFFICES ASSUME TypeInv, ChildrenKnown, [Next]_vars PROVE ChildrenKnown'
  OBVIOUS
<1>1. CASE ScheduleNewJob
  <2>1. \E r \in Request : RunRequest(r)
    BY <1>1 DEF ScheduleNewJob, TypeInv, TypeOK
  <2>2. QED
    BY SMTT(30), <2>1, RunRequestChildren
<1>2. CASE HandleRun
  <2>1. CASE \E r \in Request : SlotFree /\ RunRequest(r)
    BY <2>1, RunRequestChildren
  <2>2. CASE UNCHANGED <<processes, child>>
    BY <2>2 DEF ChildrenKnown
  <2>3. QED
    BY <1>2, <2>1, <2>2, HandleRunRuns
<1>3. CASE HandleChildEvent
  BY <1>3, HandleChildEventChildren
<1>4. CASE HandleInterrupt
  <2>1. UNCHANGED processes
    BY <1>4 DEF HandleInterrupt
  <2>2. QED
    BY SMTT(30), <1>4, <2>1, HandleInterruptChildren, EndingChildren
<1>5. ASSUME NEW p \in Pids, ChildEnds(p) PROVE ChildrenKnown'
  <2>1. UNCHANGED processes
    BY <1>5 DEF ChildEnds, serverVars
  <2>2. QED
    BY <1>5, <2>1, ChildEndsChildren, EndingChildren
<1>6. CASE QuietServerStep \/ QuietEnvironment \/ UNCHANGED vars
  <2>1. UNCHANGED <<processes, child>>
    BY <1>6, QuietServerChildren, QuietEnvironmentChildren DEF vars, serverVars, kernelVars
  <2>2. QED
    BY <2>1 DEF ChildrenKnown
<1>7. QED
  BY <1>1, <1>2, <1>3, <1>4, <1>5, <1>6, NextCases

-----------------------------------------------------------------------------
(* The self-pipe.                                                          *)

LEMMA QuietSelfPipe ==
  ASSUME SelfPipeSound, TypeInv, QuietServerStep
  PROVE  SelfPipeSound'
<1>1. Zombies' = Zombies
  BY QuietServerChildren DEF Zombies
<1>2. CASE ReadChildPipe
  BY <1>2 DEF ReadChildPipe, SelfPipeSound
<1>3. CASE ChildEventsDone
  BY <1>1, <1>3 DEF ChildEventsDone, SelfPipeSound
<1>4. CASE ScheduleDone \/ Poll \/ ServerAcceptClient \/ HandleParallel \/ ShutdownWithMsg
  BY <1>1, <1>4
     DEF ScheduleDone, Poll, ServerAcceptClient, HandleParallel, ShutdownWithMsg, NextLine,
         SelfPipeSound, kernelVars
<1>5. ASSUME NEW f \in Fds, ServeClient(f) PROVE SelfPipeSound'
  BY ZenonT(30), <1>1, <1>5
     DEF ServeClient, CloseOnError, WriteToClient, ReadLines, ReadFails, ReadEof,
         SelfPipeSound, kernelVars
<1>6. QED
  BY <1>2, <1>3, <1>4, <1>5 DEF QuietServerStep

LEMMA SelfPipeStep ==
  TypeInv /\ ChildrenKnown /\ SelfPipeSound /\ [Next]_vars => SelfPipeSound'
<1> SUFFICES ASSUME TypeInv, ChildrenKnown, SelfPipeSound, [Next]_vars PROVE SelfPipeSound'
  OBVIOUS
<1>1. CASE ScheduleNewJob
  <2>1. \E r \in Request : RunRequest(r)
    BY <1>1 DEF ScheduleNewJob, TypeInv, TypeOK
  <2>2. Zombies' \subseteq Zombies
    BY <2>1, RunRequestChildren DEF Zombies
  <2>3. QED
    BY <1>1, <2>2 DEF SelfPipeSound, ScheduleNewJob
<1>2. CASE HandleRun
  <2>1. Zombies' \subseteq Zombies
    BY Zenon, <1>2, HandleRunRuns, RunRequestChildren DEF Zombies
  <2>2. QED
    BY <1>2, <2>1 DEF SelfPipeSound, HandleRun, NextLine
<1>3. CASE HandleChildEvent
  BY <1>3 DEF HandleChildEvent, SelfPipeSound
<1>4. CASE HandleInterrupt
  <2>1. CASE sigchld'
    BY <2>1 DEF SelfPipeSound
  <2>2. CASE ~sigchld'
    <3>1. Zombies' = Zombies
      BY <1>4, <2>2, HandleInterruptChildren DEF Zombies
    <3>2. QED
      BY <1>4, <2>2, <3>1, HandleInterruptChildren DEF SelfPipeSound, HandleInterrupt, NextLine
  <2>3. QED
    BY <2>1, <2>2
<1>5. ASSUME NEW p \in Pids, ChildEnds(p) PROVE SelfPipeSound'
  BY <1>5 DEF ChildEnds, SelfPipeSound
<1>6. CASE QuietServerStep
  BY <1>6, QuietSelfPipe
<1>7. CASE QuietEnvironment
  <2>1. Zombies' = Zombies /\ pc' = pc
    BY <1>7, QuietEnvironmentChildren DEF Zombies
  <2>2. CASE SigchldHandle
    <3>1. cpipe' > 0
      BY <2>2, BoundsAssumption DEF SigchldHandle, TypeInv, TypeOK
    <3>2. QED
      BY <3>1 DEF SelfPipeSound
  <2>3. CASE ~SigchldHandle
    BY ZenonT(30), <1>7, <2>1, <2>3
       DEF QuietEnvironment, Connect, SendRun, SendControl, ReadAnswers, Close,
           SelfPipeSound, kernelVars
  <2>4. QED
    BY <2>2, <2>3
<1>8. CASE UNCHANGED vars
  BY <1>8 DEF vars, serverVars, kernelVars, SelfPipeSound, Zombies
<1>9. QED
  BY SMTT(30), <1>1, <1>2, <1>3, <1>4, <1>5, <1>6, <1>7, <1>8, NextCases

-----------------------------------------------------------------------------
(* The limit.                                                              *)

LEMMA LoopReachesPoll ==
  ASSUME TypeInv, [Next]_vars, pc' = "poll"
  PROVE  \/ ScheduleDone
         \/ pc = "poll" /\ UNCHANGED <<queue, processes, parallel>>
<1>1. CASE ScheduleNewJob \/ HandleChildEvent
  BY <1>1 DEF ScheduleNewJob, HandleChildEvent
<1>2. CASE HandleRun \/ HandleInterrupt \/ HandleParallel
  BY <1>2, NextEntryType DEF HandleRun, HandleInterrupt, HandleParallel, NextLine
<1>3. CASE Poll \/ ServerAcceptClient \/ ReadChildPipe \/ ChildEventsDone
  BY <1>3, NextEntryType DEF Poll, ServerAcceptClient, ReadChildPipe, ChildEventsDone
<1>4. ASSUME NEW f \in Fds, ServeClient(f) PROVE FALSE
  BY ZenonT(30), <1>4, EntryDoneType
     DEF ServeClient, CloseOnError, WriteToClient, ReadLines, ReadFails, ReadEof
<1>5. CASE ShutdownWithMsg
  BY <1>5 DEF ShutdownWithMsg
<1>6. CASE QuietEnvironment \/ UNCHANGED vars
  BY <1>6, QuietEnvironmentChildren DEF vars, serverVars
<1>7. CASE \E p \in Pids : ChildEnds(p)
  BY <1>7 DEF ChildEnds, serverVars
<1>8. QED
  BY Zenon, <1>1, <1>2, <1>3, <1>4, <1>5, <1>6, <1>7, NextCases DEF QuietServerStep

LEMMA NoIdleSlotStep ==
  ASSUME TypeInv, NoIdleSlot, [Next]_vars
  PROVE  NoIdleSlot'
<1> SUFFICES ASSUME pc' = "poll"
             PROVE  (queue = {} \/ NumRunning >= parallel)'
  BY DEF NoIdleSlot
<1>1. NumRunning \in Nat /\ parallel \in Nat
  BY DEF TypeInv, TypeOK, Finite, FiniteSetFacts, FiniteCount, NumRunning
<1>2. CASE ScheduleDone
  <2>1. queue = {} \/ NumRunning >= parallel
    BY <1>1, <1>2 DEF ScheduleDone, SlotFree
  <2>2. QED
    BY <1>2, <2>1 DEF ScheduleDone, NumRunning
<1>3. CASE pc = "poll" /\ UNCHANGED <<queue, processes, parallel>>
  BY <1>3 DEF NoIdleSlot, NumRunning
<1>4. QED
  BY <1>2, <1>3, LoopReachesPoll

-----------------------------------------------------------------------------
(* The server implements JobPool.                                          *)

(* Arrival numbers are fresh; a request is queued or running but not both, *)
(* and no two processes run the same request.                              *)
PoolInv ==
  /\ \A r \in seen : r.rid <= Cardinality(seen)
  /\ queue \subseteq seen
  /\ \A ch \in processes : ch.req \in seen /\ ch.req \notin queue
  /\ \A x, y \in processes : x.req = y.req => x = y

Jobs == {ch.req : ch \in processes}

LEMMA JobsBelow ==
  ASSUME TypeInv, SlotFree
  PROVE  Cardinality(Jobs) < parallel
<1> DEFINE f == [ch \in processes |-> ch.req]
<1>1. Jobs = {f[ch] : ch \in processes}
  BY DEF Jobs
<1>2. IsFiniteSet(processes)
  BY DEF TypeInv, Finite
<1>3. IsFiniteSet(Jobs) /\ Cardinality(Jobs) <= Cardinality(processes)
  BY Zenon, <1>1, <1>2 DEF TypeInv, Finite, FiniteSetFacts, FiniteImage
<1>4. Cardinality(Jobs) \in Nat /\ Cardinality(processes) \in Nat /\ parallel \in Nat
  BY Zenon, <1>2, <1>3 DEF TypeInv, TypeOK, Finite, FiniteSetFacts, FiniteCount
<1>5. QED
  BY <1>3, <1>4 DEF SlotFree, NumRunning

LEMMA RunRequestJobs ==
  ASSUME TypeInv, NEW r \in Request, RunRequest(r)
  PROVE  \/ clients[r.key] = NoConn /\ UNCHANGED processes
         \/ \E p \in Pids : processes' = processes \cup {[pid |-> p, req |-> r]}
  BY Zenon DEF RunRequest

LEMMA AddJob ==
  ASSUME NEW p, NEW r, processes' = processes \cup {[pid |-> p, req |-> r]}
  PROVE  Jobs' = Jobs \cup {r}
<1> DEFINE new == [pid |-> p, req |-> r]
<1>1. new.req = r /\ processes' = processes \cup {new}
  OBVIOUS
<1> HIDE DEF new
<1>2. QED
  BY <1>1 DEF Jobs

LEMMA FreshRequest ==
  ASSUME TypeInv, PoolInv, NEW r, r.rid = Cardinality(seen) + 1
  PROVE  r \notin seen
  BY DEF TypeInv, Finite, FiniteSetFacts, FiniteCount, PoolInv

LEMMA HandleRunJobs ==
  ASSUME TypeInv, PoolInv, HandleRun
  PROVE  \E r \in Request :
           /\ r \notin seen /\ seen' = seen \cup {r} /\ r.rid = Cardinality(seen) + 1
           /\ \/ /\ SlotFree /\ UNCHANGED queue
                 /\ \E p \in Pids : processes' = processes \cup {[pid |-> p, req |-> r]}
              \/ queue' = queue \cup {r} /\ UNCHANGED processes
<1> DEFINE Req(f) == [rid |-> Cardinality(seen) + 1, id |-> Head(reading.lines).arg,
                      key |-> f, owner |-> clients[f]]
<1>1. PICK f \in reading.fds :
         /\ seen' = seen \cup {Req(f)}
         /\ \/ SlotFree /\ RunRequest(Req(f)) /\ UNCHANGED queue
            \/ queue' = queue \cup {Req(f)} /\ UNCHANGED processes
  BY ZenonT(30) DEF HandleRun
<1>2. f \in Fds /\ clients[f] # NoConn
  BY DEF TypeInv, TypeOK, InputOfClient
<1>3. Head(reading.lines).arg \in Nat
  <2>1. Head(reading.lines) \in Line
    BY SMTT(30) DEF HandleRun, NextLine, TypeInv, TypeOK
  <2>2. QED
    BY <2>1 DEF Line
<1>4. Req(f) \in Request
  BY Zenon, <1>2, <1>3, RequestType
<1>5. Req(f).key = f /\ Req(f).rid = Cardinality(seen) + 1
  OBVIOUS
<1> HIDE DEF Req
<1>6. Req(f) \notin seen
  BY Zenon, <1>5, FreshRequest
<1>7. RunRequest(Req(f)) => \E p \in Pids : processes' = processes \cup {[pid |-> p, req |-> Req(f)]}
  BY Zenon, <1>2, <1>4, <1>5, RunRequestJobs
<1>8. QED
  BY <1>1, <1>4, <1>5, <1>6, <1>7

LEMMA PoolInvAdd ==
  ASSUME TypeInv, PoolInv, NEW p, NEW r, r \in seen', seen \subseteq seen', queue' \subseteq seen',
         r \notin queue', queue' \subseteq queue, \A x \in processes : x.req # r,
         \A q \in seen' : q.rid <= Cardinality(seen'),
         processes' = processes \cup {[pid |-> p, req |-> r]}
  PROVE  PoolInv'
<1> DEFINE new == [pid |-> p, req |-> r]
<1>1. new.req = r /\ processes' = processes \cup {new}
  OBVIOUS
<1> HIDE DEF new
<1>2. QED
  BY <1>1 DEF PoolInv

LEMMA QuietSubmissions ==
  QuietServerStep \/ QuietEnvironment => UNCHANGED <<seen, queue, processes>>
  BY ZenonT(30) DEF QuietServerStep, ScheduleDone, Poll, ServerAcceptClient, ReadChildPipe, ChildEventsDone,
     ServeClient, CloseOnError, WriteToClient, ReadLines, ReadFails, ReadEof, HandleParallel,
     ShutdownWithMsg, QuietEnvironment, SigchldHandle, Connect, SendRun, SendControl, ReadAnswers,
     Close, serverVars, kernelVars, ghostVars

LEMMA PoolInvStep == TypeInv /\ PoolInv /\ [Next]_vars => PoolInv'
<1> SUFFICES ASSUME TypeInv, PoolInv, [Next]_vars PROVE PoolInv'
  OBVIOUS
<1>1. CASE ScheduleNewJob
  <2>1. PICK r \in queue : queue' = queue \ {r} /\ RunRequest(r) /\ seen' = seen
    BY SMTT(30), <1>1 DEF ScheduleNewJob, ghostVars
  <2>2. r \in Request
    BY <2>1 DEF TypeInv, TypeOK
  <2>3. CASE UNCHANGED processes
    BY SMTT(30), <2>1, <2>3 DEF PoolInv
  <2>4. ASSUME NEW p, processes' = processes \cup {[pid |-> p, req |-> r]} PROVE PoolInv'
    <3>1. /\ queue \subseteq seen
          /\ \A x \in processes : x.req \notin queue
          /\ \A q \in seen : q.rid <= Cardinality(seen)
      BY ZenonT(30) DEF PoolInv
    <3>2. /\ r \in seen' /\ seen \subseteq seen' /\ queue' \subseteq seen' /\ r \notin queue'
          /\ queue' \subseteq queue /\ \A x \in processes : x.req # r
      BY <2>1, <3>1
    <3>3. \A q \in seen' : q.rid <= Cardinality(seen')
      BY ZenonT(30), <2>1, <3>1
    <3>4. QED
      BY ZenonT(30), <2>4, <3>2, <3>3, PoolInvAdd
  <2>5. QED
    BY SMTT(30), <2>1, <2>2, <2>3, <2>4, RunRequestJobs
<1>2. CASE HandleRun
  <2>1. PICK r \in Request :
          /\ r \notin seen /\ seen' = seen \cup {r} /\ r.rid = Cardinality(seen) + 1
          /\ \/ /\ SlotFree /\ UNCHANGED queue
                /\ \E p \in Pids : processes' = processes \cup {[pid |-> p, req |-> r]}
             \/ queue' = queue \cup {r} /\ UNCHANGED processes
    BY Zenon, <1>2, HandleRunJobs
  <2>2. Cardinality(seen') = Cardinality(seen) + 1 /\ Cardinality(seen) \in Nat
    BY <2>1 DEF TypeInv, Finite, FiniteSetFacts, FiniteAdd, FiniteCount
  <2>3. \A q \in seen' : q.rid <= Cardinality(seen')
    <3>1. \A q \in seen : q.rid \in Nat
      BY DEF TypeInv, TypeOK, Request
    <3>2. \A q \in seen : q.rid <= Cardinality(seen)
      BY DEF PoolInv
    <3>3. QED
      BY SMTT(60), <2>1, <2>2, <3>1, <3>2
  <2>4. CASE queue' = queue \cup {r} /\ UNCHANGED processes
    BY ZenonT(30), <2>1, <2>3, <2>4 DEF PoolInv
  <2>5. ASSUME UNCHANGED queue, NEW p, processes' = processes \cup {[pid |-> p, req |-> r]}
        PROVE  PoolInv'
    <3>1. queue \subseteq seen /\ \A ch \in processes : ch.req \in seen
      BY Zenon DEF PoolInv
    <3>2. /\ r \in seen' /\ seen \subseteq seen' /\ queue' \subseteq seen' /\ r \notin queue'
          /\ queue' \subseteq queue /\ \A x \in processes : x.req # r
      BY SMTT(30), <2>1, <2>5, <3>1
    <3>3. QED
      BY ZenonT(30), <2>3, <2>5, <3>2, PoolInvAdd
  <2>6. QED
    BY ZenonT(30), <2>1, <2>4, <2>5
<1>3. CASE HandleChildEvent
  <2>1. processes' \subseteq processes /\ UNCHANGED <<seen, queue>>
    BY SMTT(30), <1>3 DEF HandleChildEvent, ghostVars
  <2>2. QED
    BY Zenon, <2>1 DEF PoolInv
<1>4. CASE HandleInterrupt
  <2>1. queue' \subseteq queue /\ UNCHANGED <<seen, processes>>
    BY <1>4 DEF HandleInterrupt
  <2>2. QED
    BY Zenon, <2>1 DEF PoolInv
<1>5. CASE \E p \in Pids : ChildEnds(p)
  <2>1. UNCHANGED <<seen, queue, processes>>
    BY <1>5 DEF ChildEnds, serverVars, ghostVars
  <2>2. QED
    BY <2>1 DEF PoolInv
<1>6. CASE QuietServerStep \/ QuietEnvironment \/ UNCHANGED vars
  <2>1. UNCHANGED <<seen, queue, processes>>
    BY <1>6, QuietSubmissions DEF vars, serverVars, ghostVars
  <2>2. QED
    BY <2>1 DEF PoolInv
<1>7. QED
  BY <1>1, <1>2, <1>3, <1>4, <1>5, <1>6, NextCases

-----------------------------------------------------------------------------
(* The steps of the server, seen through the refinement mapping.           *)

LEMMA JobsInstance == Jobs = {ch.req : ch \in processes} /\ Jobs' = {ch.req : ch \in processes'}
  BY SMTT(30) DEF Jobs

LEMMA ScheduleNewJobPool ==
  ASSUME TypeInv, PoolInv, ScheduleNewJob
  PROVE  Pool!PoolNext
<1>1. PICK r \in queue : /\ queue' = queue \ {r} /\ RunRequest(r)
                         /\ UNCHANGED <<seen, parallel>>
  BY DEF ScheduleNewJob, ghostVars
<1>2. r \in Request
  BY <1>1 DEF TypeInv, TypeOK
<1>3. CASE UNCHANGED processes
  <2>1. queue \ queue' = {r}
    BY <1>1
  <2>2. Pool!GiveUp(queue \ queue')
    BY <1>1, <1>3, <2>1 DEF Pool!GiveUp
  <2>3. QED
    BY ZenonT(30), <2>2 DEF Pool!PoolNext
<1>4. ASSUME NEW p, processes' = processes \cup {[pid |-> p, req |-> r]} PROVE Pool!PoolNext
  <2>1. Jobs' = Jobs \cup {r}
    BY <1>4, AddJob
  <2>2. Pool!Room
    <3>1. Cardinality(Jobs) < parallel
      BY Zenon, JobsBelow DEF ScheduleNewJob
    <3>2. QED
      BY <3>1 DEF Pool!Room, Jobs, Pool!Cardinality, Cardinality
  <2>3. Pool!Start(r)
    BY <1>1, <2>1, <2>2, JobsInstance DEF Pool!Start
  <2>4. QED
    BY <2>3 DEF Pool!PoolNext
<1>5. QED
  BY <1>1, <1>2, <1>3, <1>4, RunRequestJobs

LEMMA HandleRunPool ==
  ASSUME TypeInv, PoolInv, HandleRun
  PROVE  Pool!PoolNext
<1>1. PICK r \in Request :
        /\ r \notin seen /\ seen' = seen \cup {r}
        /\ \/ /\ SlotFree /\ UNCHANGED queue
              /\ \E p \in Pids : processes' = processes \cup {[pid |-> p, req |-> r]}
           \/ queue' = queue \cup {r} /\ UNCHANGED processes
  BY Zenon, HandleRunJobs
<1>2. UNCHANGED parallel
  BY DEF HandleRun
<1>3. Pool!Submit(r)
  <2>1. CASE queue' = queue \cup {r} /\ UNCHANGED processes
    BY Zenon, <1>1, <1>2, <2>1 DEF Pool!Submit
  <2>2. ASSUME SlotFree, UNCHANGED queue,
               NEW p, processes' = processes \cup {[pid |-> p, req |-> r]}
        PROVE  Pool!Submit(r)
    <3>1. Jobs' = Jobs \cup {r}
      BY <2>2, AddJob
    <3>2. Pool!Room
      <4>1. Cardinality(Jobs) < parallel
        BY <2>2, JobsBelow
      <4>2. QED
        BY <4>1 DEF Pool!Room, Jobs, Pool!Cardinality, Cardinality
    <3>3. QED
      BY Zenon, <1>1, <1>2, <2>2, <3>1, <3>2, JobsInstance DEF Pool!Submit
  <2>3. QED
    BY ZenonT(60), <1>1, <2>1, <2>2
<1>4. r \in seen' \ seen
  BY SMTT(30), <1>1
<1>5. QED
  BY ZenonT(30), <1>3, <1>4 DEF Pool!PoolNext

LEMMA HandleChildEventPool ==
  ASSUME TypeInv, PoolInv, HandleChildEvent
  PROVE  Pool!PoolNext
<1>1. PICK ch \in processes : processes' = processes \ {ch} /\ UNCHANGED <<seen, queue, parallel>>
  BY Zenon DEF HandleChildEvent, ghostVars
<1>2. Jobs' = Jobs \ {ch.req} /\ ch.req \in Jobs
  BY <1>1 DEF Jobs, PoolInv
<1>3. Pool!Finish(ch.req)
  BY ZenonT(30), <1>1, <1>2, JobsInstance DEF Pool!Finish
<1>4. QED
  BY Zenon, <1>2, <1>3, JobsInstance DEF Pool!PoolNext

LEMMA HandleInterruptPool ==
  ASSUME HandleInterrupt
  PROVE  Pool!PoolNext \/ UNCHANGED Pool!poolVars
<1>1. queue' \subseteq queue /\ UNCHANGED <<seen, processes, parallel>>
  BY ZenonT(30) DEF HandleInterrupt
<1>2. CASE queue' = queue
  BY <1>1, <1>2 DEF Pool!poolVars
<1>3. CASE queue' # queue
  <2>1. queue \ queue' # {} /\ queue' = queue \ (queue \ queue')
    BY <1>1, <1>3
  <2>2. Pool!GiveUp(queue \ queue')
    BY <1>1, <2>1 DEF Pool!GiveUp
  <2>3. QED
    BY Zenon, <2>2 DEF Pool!PoolNext
<1>4. QED
  BY SMTT(30), <1>2, <1>3

LEMMA HandleParallelPool ==
  ASSUME TypeInv, HandleParallel
  PROVE  Pool!PoolNext
<1>1. UNCHANGED <<seen, queue, processes>>
  BY DEF HandleParallel, ghostVars
<1>2. parallel' >= 1
  <2>1. TypeInv'
    BY Zenon, HandleParallelType
  <2>2. parallel' \in Nat \ {0}
    BY <2>1 DEF TypeInv, TypeOK
  <2>3. QED
    BY <2>2
<1>3. Pool!SetLimit(parallel')
  BY <1>1, <1>2 DEF Pool!SetLimit
<1>4. QED
  BY <1>3 DEF Pool!PoolNext

LEMMA OtherStepsPool ==
  ASSUME QuietServerStep \/ QuietEnvironment \/ (\E p \in Pids : ChildEnds(p)) \/ UNCHANGED vars,
         ~HandleParallel
  PROVE  UNCHANGED Pool!poolVars
<1>1. UNCHANGED <<seen, queue, processes>>
  BY Zenon, QuietSubmissions DEF ChildEnds, vars, serverVars, ghostVars
<1>2. UNCHANGED parallel
  BY QuietEnvironmentChildren
     DEF QuietServerStep, ScheduleDone, Poll, ServerAcceptClient, ReadChildPipe, ChildEventsDone,
         ServeClient, CloseOnError, WriteToClient, ReadLines, ReadFails, ReadEof,
         ShutdownWithMsg, ChildEnds, vars, serverVars
<1>3. QED
  BY <1>1, <1>2 DEF Pool!poolVars

LEMMA PoolStep ==
  ASSUME TypeInv, PoolInv, [Next]_vars
  PROVE  Pool!PoolNext \/ UNCHANGED Pool!poolVars
  BY ScheduleNewJobPool, HandleRunPool, HandleChildEventPool, HandleInterruptPool,
     HandleParallelPool, OtherStepsPool, NextCases
=============================================================================

--------------------------- MODULE VCServerProofs ----------------------------
(***************************************************************************)
(* Theorems about VCServer, for every number of clients, descriptors,      *)
(* pids, every limit and every bound: first what every step keeps of the   *)
(* connections and of the answers, then the theorems that rest on it and   *)
(* on VCServerSteps.                                                       *)
(***************************************************************************)
EXTENDS VCServerSteps


(* What the table of clients and the states of the connections have to do  *)
(* with each other, and with the requests.                                 *)
LinkInv ==
  /\ \A f \in Fds : clients[f] # NoConn => link[clients[f]] = "accepted"
  /\ \A f, g \in Fds : clients[f] = clients[g] /\ clients[f] # NoConn => f = g
  /\ \A r \in seen : /\ link[r.owner] \in {"accepted", "freed"}
                     /\ link[r.owner] = "accepted" => clients[r.key] = r.owner

(* An event POLLOUT is handled while the client still asks for it; before  *)
(* a connection is accepted nothing is written to it.                      *)
PolloutInv ==
  /\ \A f \in Fds : "OUT" \in revents.fd[f] => clients[f] \in pollout
  /\ \A c \in Conns : sent[c] <= Len(stream[c])
  /\ \A c \in Conns : link[c] \in {"none", "waiting"} => c \notin pollout /\ stream[c] = <<>>
  /\ PolloutIffPending

Told(r, kinds) ==
  \E c \in Conns : \E i \in 1..Len(stream[c]) :
    stream[c][i].req = r /\ stream[c][i].kind \in kinds

(* Nobody was told of a request that waits, or that an interrupt took out  *)
(* of the queue, nor of the end of one that runs.                          *)
ToldOfSeen ==
  \A c \in Conns : \A i \in 1..Len(stream[c]) : stream[c][i].req \in seen
CancelledApart == cancelled \subseteq seen /\ cancelled \cap queue = {}
WaitUntold     == \A r \in queue \cup cancelled : ~Told(r, {"S", "F"})
RunningTold(ch) ==
  /\ ch.req \notin cancelled /\ ~Told(ch.req, {"F"})
  /\ link[ch.req.owner] = "accepted" =>
       \E i \in 1..Len(stream[ch.req.owner]) : stream[ch.req.owner][i] = Started(ch.req)
RunTold        == \A ch \in processes : RunningTold(ch)
Somewhere(r)   == r \in queue \/ Running(r) \/ FinishSent(r) \/ r \in cancelled
AllSomewhere   == \A r \in seen : link[r.owner] = "accepted" => Somewhere(r)

TalkInv == ToldOfSeen /\ CancelledApart /\ WaitUntold /\ RunTold /\ AllSomewhere

-----------------------------------------------------------------------------
(* The steps that matter here, by what they do to the tables of clients,   *)
(* to the requests and to the answers.                                     *)

talkVars == <<stream, queue, processes, seen, cancelled>>

TalkStep == ScheduleNewJob \/ HandleRun \/ HandleChildEvent \/ HandleInterrupt

LEMMA OtherTalk ==
  ASSUME [Next]_vars, ~TalkStep
  PROVE  UNCHANGED talkVars
<1>1. CASE UNCHANGED vars
  BY <1>1 DEF vars, serverVars, bufVars, ghostVars, talkVars
<1>2. CASE ScheduleDone \/ Poll \/ ServerAcceptClient \/ ReadChildPipe \/ ChildEventsDone \/ HandleParallel
  BY <1>2 DEF ScheduleDone, Poll, ServerAcceptClient, ReadChildPipe, ChildEventsDone, HandleParallel,
     bufVars, ghostVars, talkVars
<1>3. ASSUME NEW f \in Fds, ServeClient(f) PROVE UNCHANGED talkVars
  <2>1. CASE CloseOnError(f)
    BY <2>1 DEF CloseOnError, ghostVars, talkVars
  <2>2. CASE WriteToClient(f)
    BY <2>2, Zenon DEF WriteToClient, ghostVars, talkVars
  <2>3. CASE ReadLines(f)
    BY <2>3, Zenon DEF ReadLines, ghostVars, bufVars, talkVars
  <2>4. CASE ReadFails(f)
    BY <2>4, Zenon DEF ReadFails, ghostVars, bufVars, talkVars
  <2>5. CASE ReadEof(f)
    BY <2>5, Zenon DEF ReadEof, ghostVars, talkVars
  <2>6. QED
    BY <1>3, <2>1, <2>2, <2>3, <2>4, <2>5 DEF ServeClient
<1>4. CASE ShutdownWithMsg
  BY <1>4 DEF ShutdownWithMsg, bufVars, ghostVars, talkVars
<1>5. CASE Environment
  BY ZenonT(60), <1>5 DEF Environment, SigchldHandle, ChildEnds, Connect, SendRun, SendControl, ReadAnswers, Close,
     serverVars, bufVars, ghostVars, talkVars
<1>6. QED
  BY <1>1, <1>2, <1>3, <1>4, <1>5 DEF Next, ServerStep, TalkStep

ClosesClient(f) == CloseOnError(f) \/ ReadEof(f)
LinkStep == ServerAcceptClient \/ (\E f \in Fds : ClosesClient(f)) \/ (\E c \in Conns : Connect(c))

LEMMA OtherLink ==
  ASSUME [Next]_vars, ~LinkStep
  PROVE  UNCHANGED <<clients, link>>
<1>1. CASE UNCHANGED vars
  BY <1>1 DEF vars, serverVars, kernelVars
<1>2. CASE \/ ScheduleNewJob \/ ScheduleDone \/ Poll \/ ReadChildPipe \/ HandleChildEvent
           \/ ChildEventsDone \/ HandleRun \/ HandleInterrupt \/ HandleParallel
  BY <1>2, Zenon DEF ScheduleNewJob, ScheduleDone, Poll, ReadChildPipe, HandleChildEvent, ChildEventsDone,
     HandleRun, HandleInterrupt, HandleParallel, kernelVars
<1>3. ASSUME NEW f \in Fds, WriteToClient(f) \/ ReadLines(f) \/ ReadFails(f)
      PROVE  UNCHANGED <<clients, link>>
  BY <1>3, Zenon DEF WriteToClient, ReadLines, ReadFails, kernelVars
<1>4. CASE ShutdownWithMsg
  BY <1>4 DEF ShutdownWithMsg, kernelVars
<1>5. CASE SigchldHandle \/ \E p \in Pids : ChildEnds(p)
  BY <1>5 DEF SigchldHandle, ChildEnds, serverVars
<1>6. ASSUME NEW c \in Conns, SendRun(c) \/ SendControl(c) \/ ReadAnswers(c) \/ Close(c)
      PROVE  UNCHANGED <<clients, link>>
  BY <1>6, Zenon DEF SendRun, SendControl, ReadAnswers, Close, serverVars, kernelVars
<1>7. QED
  BY <1>1, <1>2, <1>3, <1>4, <1>5, <1>6 DEF Next, ServerStep, ServeClient, Environment, LinkStep, ClosesClient

LEMMA HandleRunParts ==
  ASSUME TypeInv, PoolInv, HandleRun
  PROVE  \E r \in Request :
           /\ r \notin seen /\ seen' = seen \cup {r} /\ UNCHANGED cancelled
           /\ clients[r.key] = r.owner /\ r.key \in Fds /\ r.owner \in Conns
           /\ \/ RunRequest(r) /\ UNCHANGED queue
              \/ queue' = queue \cup {r} /\ UNCHANGED <<processes, stream, pollout>>
<1> DEFINE Req(f) == [rid |-> Cardinality(seen) + 1, id |-> Head(reading.lines).arg,
                      key |-> f, owner |-> clients[f]]
<1>1. PICK f \in reading.fds :
         /\ seen' = seen \cup {Req(f)}
         /\ \/ RunRequest(Req(f)) /\ UNCHANGED queue
            \/ queue' = queue \cup {Req(f)} /\ UNCHANGED <<processes, stream, pollout>>
  BY ZenonT(30) DEF HandleRun
<1>2. f \in Fds /\ clients[f] # NoConn /\ clients[f] \in Conns
  BY DEF TypeInv, TypeOK, InputOfClient
<1>3. Head(reading.lines).arg \in Nat
  <2>1. Head(reading.lines) \in Line
    BY SMTT(30) DEF HandleRun, NextLine, TypeInv, TypeOK
  <2>2. QED
    BY <2>1 DEF Line
<1>4. Req(f) \in Request
  BY SMTT(30), <1>2, <1>3, RequestType
<1>5. Req(f).key = f /\ Req(f).rid = Cardinality(seen) + 1 /\ Req(f).owner = clients[f]
  OBVIOUS
<1>6. UNCHANGED cancelled
  BY DEF HandleRun
<1> HIDE DEF Req
<1>7. Req(f) \notin seen
  BY SMTT(30), <1>5, FreshRequest
<1>8. QED
  BY <1>1, <1>2, <1>4, <1>5, <1>6, <1>7

LEMMA CloseClientLinks ==
  ASSUME TypeInv, LinkInv, NEW f \in Fds, ClosesClient(f)
  PROVE  /\ CloseClient(f) /\ EntryDone(f) /\ clients[f] \in Conns /\ link[clients[f]] = "accepted"
         /\ UNCHANGED <<sent, stream>>
<1>1. CloseClient(f) /\ EntryDone(f) /\ revents.fd[f] # {} /\ UNCHANGED <<sent, stream>>
  BY DEF ClosesClient, CloseOnError, ReadEof
<1>2. clients[f] # NoConn /\ clients[f] \in Conns
  BY <1>1, ServedClient, ConnsAssumption
<1>3. QED
  BY <1>1, <1>2 DEF LinkInv

LEMMA RequestFields ==
  ASSUME TypeInv, NEW r, r \in seen \cup queue \cup cancelled \/ \E ch \in processes : ch.req = r
  PROVE  r \in Request /\ r.owner \in Conns /\ r.key \in Fds
<1>1. r \in Request
  BY DEF TypeInv, TypeOK, Proc
<1>2. QED
  BY <1>1 DEF Request

LEMMA LinkInvStep == TypeInv /\ PoolInv /\ LinkInv /\ [Next]_vars => LinkInv'
<1> SUFFICES ASSUME TypeInv, PoolInv, LinkInv, [Next]_vars PROVE LinkInv'
  OBVIOUS
<1>1. /\ clients \in [Fds -> Conns \cup {NoConn}] /\ NoConn \notin Conns
      /\ link \in [Conns -> {"none", "waiting", "accepted", "freed"}]
  BY ConnsAssumption DEF TypeInv, TypeOK
<1>2. \A r \in seen : r.owner \in Conns /\ r.key \in Fds
  BY RequestFields
<1>3. CASE ServerAcceptClient
  <2>1. PICK c \in Conns, f \in Fds : /\ link[c] = "waiting" /\ clients[f] = NoConn
                                      /\ clients' = [clients EXCEPT ![f] = c]
                                      /\ link' = [link EXCEPT ![c] = "accepted"]
    BY <1>3, ZenonT(30) DEF ServerAcceptClient
  <2>2. UNCHANGED seen
    BY <1>3 DEF ServerAcceptClient, ghostVars
  <2>3. \A g \in Fds : clients'[g] # NoConn => link'[clients'[g]] = "accepted"
    BY <1>1, <2>1 DEF LinkInv
  <2>4. \A g \in Fds : clients[g] # c
    BY <1>1, <2>1 DEF LinkInv
  <2>5. \A g, h \in Fds : clients'[g] = clients'[h] /\ clients'[g] # NoConn => g = h
    BY <1>1, <2>1, <2>4 DEF LinkInv
  <2>6. \A r \in seen : r.owner # c /\ (link[r.owner] = "accepted" => r.key # f)
    BY <1>1, <1>2, <2>1 DEF LinkInv
  <2>7. \A r \in seen : link'[r.owner] = link[r.owner] /\ (r.key # f => clients'[r.key] = clients[r.key])
    BY <1>1, <1>2, <2>1, <2>6
  <2>8. QED
    BY <2>2, <2>3, <2>5, <2>6, <2>7 DEF LinkInv
<1>4. ASSUME NEW f \in Fds, ClosesClient(f) PROVE LinkInv'
  <2> DEFINE c == clients[f]
  <2>1. c \in Conns /\ link' = [link EXCEPT ![c] = "freed"] /\ clients' = [clients EXCEPT ![f] = NoConn]
    BY <1>4, CloseClientLinks DEF CloseClient
  <2>2. UNCHANGED seen
    BY <1>4 DEF ClosesClient, CloseOnError, ReadEof, ghostVars
  <2>3. \A g \in Fds : clients'[g] # NoConn => g # f /\ clients'[g] = clients[g] /\ clients[g] # c
    BY <1>1, <2>1 DEF LinkInv
  <2>4. \A g \in Fds : clients'[g] # NoConn => link'[clients'[g]] = "accepted"
    BY <1>1, <2>1, <2>3 DEF LinkInv
  <2>5. \A g, h \in Fds : clients'[g] = clients'[h] /\ clients'[g] # NoConn => g = h
    BY <1>1, <2>3 DEF LinkInv
  <2>6. \A r \in seen : /\ link'[r.owner] \in {"accepted", "freed"}
                        /\ link'[r.owner] = "accepted" => clients'[r.key] = r.owner
    BY <1>1, <1>2, <2>1 DEF LinkInv
  <2>7. QED
    BY <2>2, <2>4, <2>5, <2>6 DEF LinkInv
<1>5. ASSUME NEW c \in Conns, Connect(c) PROVE LinkInv'
  BY <1>1, <1>2, <1>5 DEF Connect, LinkInv, serverVars, ghostVars
<1>6. CASE UNCHANGED <<clients, link>>
  <2>1. CASE UNCHANGED seen
    BY <1>6, <2>1 DEF LinkInv
  <2>2. CASE HandleRun
    <3>1. PICK r \in Request : /\ seen' = seen \cup {r} /\ clients[r.key] = r.owner
                               /\ r.key \in Fds /\ r.owner \in Conns
      BY <2>2, HandleRunParts
    <3>2. link[r.owner] = "accepted"
      BY <1>1, <3>1 DEF LinkInv
    <3>3. QED
      BY <1>6, <3>1, <3>2 DEF LinkInv
  <2>3. CASE ScheduleNewJob \/ HandleChildEvent \/ HandleInterrupt
    BY <2>1, <2>3, Zenon DEF ScheduleNewJob, HandleChildEvent, HandleInterrupt, ghostVars
  <2>4. QED
    BY <2>1, <2>2, <2>3, OtherTalk DEF TalkStep, talkVars
<1>7. QED
  BY <1>3, <1>4, <1>5, <1>6, OtherLink DEF LinkStep

-----------------------------------------------------------------------------
(* POLLOUT is asked for exactly while an answer is unwritten.              *)

LEMMA StreamLengths ==
  ASSUME TypeOK
  PROVE  \A c \in Conns : stream[c] \in Seq(Answer) /\ Len(stream[c]) \in Nat /\ sent[c] \in Nat
  BY DEF TypeOK

LEMMA QueueWriteAppends ==
  ASSUME TypeOK, NEW c \in Conns, NEW m, QueueWrite(c, m)
  PROVE  /\ pollout' = pollout \cup {c}
         /\ stream'[c] = Append(stream[c], m) /\ Len(stream'[c]) = Len(stream[c]) + 1
         /\ \A d \in Conns \ {c} : stream'[d] = stream[d]
<1>1. stream \in [Conns -> Seq(Answer)]
  BY DEF TypeOK
<1>2. stream'[c] = Append(stream[c], m) /\ \A d \in Conns \ {c} : stream'[d] = stream[d]
  BY <1>1 DEF QueueWrite
<1>3. Len(Append(stream[c], m)) = Len(stream[c]) + 1
  BY <1>1
<1>4. QED
  BY <1>2, <1>3 DEF QueueWrite

LEMMA QueueWritePollout ==
  ASSUME TypeOK, PolloutInv, NEW c \in Conns, NEW m, QueueWrite(c, m), link[c] = "accepted",
         UNCHANGED <<revents, clients, link, sent>>
  PROVE  PolloutInv'
<1>1. /\ pollout' = pollout \cup {c}
      /\ Len(stream'[c]) = Len(stream[c]) + 1
      /\ \A d \in Conns \ {c} : stream'[d] = stream[d]
  BY QueueWriteAppends
<1>2. \A d \in Conns : Len(stream[d]) \in Nat /\ sent[d] \in Nat
  BY StreamLengths
<1>3. \A f \in Fds : "OUT" \in revents'.fd[f] => clients'[f] \in pollout'
  BY <1>1 DEF PolloutInv
<1>4. \A d \in Conns : sent'[d] <= Len(stream'[d])
  BY <1>1, <1>2 DEF PolloutInv
<1>5. \A d \in Conns : link'[d] \in {"none", "waiting"} => d \notin pollout' /\ stream'[d] = <<>>
  BY <1>1 DEF PolloutInv
<1>6. PolloutIffPending'
  <2>1. sent[c] < Len(stream'[c])
    BY <1>1, <1>2 DEF PolloutInv
  <2>2. QED
    BY <1>1, <2>1 DEF PolloutInv, PolloutIffPending
<1>7. QED
  BY <1>3, <1>4, <1>5, <1>6 DEF PolloutInv

LEMMA RunRequestPollout ==
  ASSUME TypeInv, LinkInv, PolloutInv, NEW r \in Request, RunRequest(r),
         UNCHANGED <<revents, clients, link, sent>>
  PROVE  PolloutInv'
<1>1. CASE UNCHANGED <<stream, pollout>>
  BY <1>1 DEF PolloutInv, PolloutIffPending
<1>2. CASE clients[r.key] # NoConn /\ QueueWrite(clients[r.key], Started(r))
  <2>1. clients[r.key] \in Conns /\ link[clients[r.key]] = "accepted"
    BY <1>2 DEF TypeInv, TypeOK, LinkInv, Request
  <2>2. QED
    BY <1>2, <2>1, QueueWritePollout DEF TypeInv
<1>3. QED
  BY <1>1, <1>2 DEF RunRequest

LEMMA TalkStepPollout ==
  ASSUME TypeInv, PoolInv, LinkInv, PolloutInv, TalkStep
  PROVE  PolloutInv'
<1>1. CASE ScheduleNewJob
  <2>1. PICK r \in queue : RunRequest(r)
    BY <1>1 DEF ScheduleNewJob
  <2>2. r \in Request /\ UNCHANGED <<revents, clients, link, sent>>
    BY <1>1, RequestFields DEF ScheduleNewJob
  <2>3. QED
    BY <2>1, <2>2, RunRequestPollout
<1>2. CASE HandleRun
  <2>1. UNCHANGED <<revents, clients, link, sent>>
    BY <1>2, Zenon DEF HandleRun
  <2>2. PICK r \in Request : RunRequest(r) \/ UNCHANGED <<stream, pollout>>
    BY <1>2, HandleRunParts
  <2>3. CASE UNCHANGED <<stream, pollout>>
    BY <2>1, <2>3 DEF PolloutInv, PolloutIffPending
  <2>4. QED
    BY <2>1, <2>2, <2>3, RunRequestPollout
<1>3. CASE HandleChildEvent
  <2>1. UNCHANGED <<revents, clients, link, sent>>
    BY <1>3, Zenon DEF HandleChildEvent
  <2>2. PICK ch \in processes :
          IF clients[ch.req.key] = NoConn
            THEN UNCHANGED <<stream, pollout>>
            ELSE QueueWrite(clients[ch.req.key], Finished(ch.req, child[ch.pid]))
    BY <1>3, Zenon DEF HandleChildEvent
  <2>3. CASE UNCHANGED <<stream, pollout>>
    BY <2>1, <2>3 DEF PolloutInv, PolloutIffPending
  <2>4. CASE clients[ch.req.key] # NoConn
    <3>1. ch.req.key \in Fds
      BY RequestFields
    <3>2. clients[ch.req.key] \in Conns /\ link[clients[ch.req.key]] = "accepted"
      BY <2>4, <3>1 DEF TypeInv, TypeOK, LinkInv
    <3>3. QED
      BY <2>1, <2>2, <2>4, <3>2, QueueWritePollout DEF TypeInv
  <2>5. QED
    BY <2>2, <2>3, <2>4
<1>4. CASE HandleInterrupt
  BY <1>4, Zenon DEF HandleInterrupt, bufVars, PolloutInv, PolloutIffPending
<1>5. QED
  BY <1>1, <1>2, <1>3, <1>4 DEF TalkStep

(* Entries of the poll list that were handled, or not touched.             *)
LEMMA FewerEventsPollout ==
  ASSUME PolloutInv, \A f \in Fds : revents'.fd[f] \subseteq revents.fd[f],
         UNCHANGED <<clients, link, sent, stream, pollout>>
  PROVE  PolloutInv'
  BY DEF PolloutInv, PolloutIffPending

LEMMA WriteToClientPollout ==
  ASSUME TypeInv, LinkInv, PolloutInv, NEW f \in Fds, WriteToClient(f)
  PROVE  PolloutInv'
<1> DEFINE c == clients[f]
<1>1. /\ revents'.fd[f] = {} /\ \A g \in Fds \ {f} : revents'.fd[g] = revents.fd[g]
      /\ UNCHANGED <<clients, link, stream>> /\ "OUT" \in revents.fd[f]
  BY EntryDoneType, HandledType DEF WriteToClient, kernelVars
<1>2. c \in Conns /\ c # NoConn /\ link[c] = "accepted"
  BY <1>1, ServedClient, ConnsAssumption DEF LinkInv
<1>3. c \in pollout /\ sent[c] < Len(stream[c])
  BY <1>1, <1>2 DEF PolloutInv, PolloutIffPending
<1>4. CASE UNCHANGED <<sent, pollout>>
  BY SMTT(60), <1>1, <1>4, FewerEventsPollout
<1>5. CASE /\ sent' = [sent EXCEPT ![c] = sent[c] + 1]
           /\ pollout' = IF sent'[c] = Len(stream[c]) THEN pollout \ {c} ELSE pollout
  <2>1. sent \in [Conns -> Nat] /\ \A d \in Conns : Len(stream[d]) \in Nat
    BY StreamLengths DEF TypeInv, TypeOK
  <2>2. sent'[c] = sent[c] + 1 /\ \A d \in Conns \ {c} : sent'[d] = sent[d]
    BY <1>2, <1>5, <2>1
  <2>3. /\ c \in pollout' <=> sent'[c] < Len(stream[c])
        /\ sent'[c] <= Len(stream[c])
        /\ \A d : d # c => (d \in pollout' <=> d \in pollout)
    BY SMTT(60), <1>2, <1>3, <1>5, <2>1, <2>2
  <2>4. \A g \in Fds : "OUT" \in revents'.fd[g] => clients'[g] \in pollout'
    BY <1>1, <1>2, <2>3 DEF PolloutInv, LinkInv
  <2>5. QED
    BY SMTT(60), <1>1, <1>2, <2>2, <2>3, <2>4 DEF PolloutInv, PolloutIffPending
<1>6. QED
  BY ZenonT(60), <1>4, <1>5, Zenon DEF WriteToClient

LEMMA LinkStepPollout ==
  ASSUME TypeInv, LinkInv, PolloutInv, LinkStep
  PROVE  PolloutInv'
<1>1. CASE ServerAcceptClient
  <2>1. PICK c \in Conns, f \in Fds : /\ link[c] = "waiting" /\ clients[f] = NoConn
                                      /\ clients' = [clients EXCEPT ![f] = c]
                                      /\ link' = [link EXCEPT ![c] = "accepted"]
    BY <1>1, ZenonT(30) DEF ServerAcceptClient
  <2>2. UNCHANGED <<pollout, sent, stream>> /\ revents' = [revents EXCEPT !.listen = FALSE]
    BY <1>1, Zenon DEF ServerAcceptClient, bufVars
  <2>3. revents'.fd = revents.fd
    <3>1. revents \in [listen : BOOLEAN, pipe : BOOLEAN,
                       fd : [Fds -> SUBSET {"ERR", "OUT", "IN"}]]
      BY DEF TypeInv, TypeOK
    <3>2. QED
      BY ZenonT(30), <2>2, <3>1
  <2>4. /\ link \in [Conns -> {"none", "waiting", "accepted", "freed"}]
        /\ clients \in [Fds -> Conns \cup {NoConn}]
    BY DEF TypeInv, TypeOK
  <2>5. \A g \in Fds : "OUT" \in revents'.fd[g] => clients'[g] \in pollout'
    <3>1. "OUT" \notin revents.fd[f]
      BY <2>1 DEF TypeInv, EventsOfClients
    <3>2. QED
      BY <2>1, <2>2, <2>3, <2>4, <3>1 DEF PolloutInv
  <2>6. c \notin pollout /\ stream[c] = <<>> /\ sent[c] <= Len(stream[c])
    BY <2>1 DEF PolloutInv
  <2>7. sent[c] \in Nat /\ Len(stream[c]) = 0
    BY <2>6, StreamLengths DEF TypeInv
  <2>8. ~(sent[c] < Len(stream[c]))
    BY <2>7
  <2>9. QED
    BY <2>1, <2>2, <2>4, <2>5, <2>6, <2>8 DEF PolloutInv, PolloutIffPending
<1>2. ASSUME NEW f \in Fds, ClosesClient(f) PROVE PolloutInv'
  <2> DEFINE c == clients[f]
  <2>1. /\ c \in Conns /\ link' = [link EXCEPT ![c] = "freed"] /\ c # NoConn
        /\ clients' = [clients EXCEPT ![f] = NoConn] /\ pollout' = pollout \ {c}
        /\ UNCHANGED <<sent, stream>>
    BY <1>2, CloseClientLinks, ConnsAssumption DEF CloseClient
  <2>2. revents'.fd[f] = {} /\ \A g \in Fds \ {f} : revents'.fd[g] = revents.fd[g]
    BY <1>2, CloseClientLinks, EntryDoneType, HandledType
  <2>3. /\ link \in [Conns -> {"none", "waiting", "accepted", "freed"}]
        /\ clients \in [Fds -> Conns \cup {NoConn}]
    BY DEF TypeInv, TypeOK
  <2>4. \A g \in Fds : "OUT" \in revents'.fd[g] => clients'[g] \in pollout'
    BY <2>1, <2>2, <2>3 DEF PolloutInv, LinkInv
  <2>5. QED
    BY <2>1, <2>3, <2>4 DEF PolloutInv, PolloutIffPending
<1>3. ASSUME NEW c \in Conns, Connect(c) PROVE PolloutInv'
  <2>1. link \in [Conns -> {"none", "waiting", "accepted", "freed"}]
    BY DEF TypeInv, TypeOK
  <2>2. link[c] = "none" /\ link' = [link EXCEPT ![c] = "waiting"]
        /\ UNCHANGED <<pollout, sent, stream, revents, clients>>
    BY <1>3 DEF Connect, serverVars, bufVars
  <2>3. QED
    BY <2>1, <2>2 DEF PolloutInv, PolloutIffPending
<1>4. QED
  BY <1>1, <1>2, <1>3 DEF LinkStep

LEMMA PollPollout ==
  ASSUME TypeInv, PolloutInv, Poll
  PROVE  PolloutInv'
<1>1. UNCHANGED <<clients, link, sent, stream, pollout>> /\ revents' = Ready
  BY DEF Poll, bufVars, kernelVars
<1>2. ASSUME NEW f \in Fds, "OUT" \in Ready.fd[f] PROVE clients[f] \in pollout
  <2>1. Ready.fd[f] = IF clients[f] = NoConn THEN {} ELSE ClientEvents(clients[f])
    BY Zenon DEF Ready
  <2>2. "OUT" \in ClientEvents(clients[f])
    BY <1>2, <2>1
  <2>3. QED
    BY <2>2 DEF ClientEvents
<1>3. QED
  BY <1>1, <1>2 DEF PolloutInv, PolloutIffPending

LEMMA PolloutInvStep == TypeInv /\ PoolInv /\ LinkInv /\ PolloutInv /\ [Next]_vars => PolloutInv'
<1> SUFFICES ASSUME TypeInv, PoolInv, LinkInv, PolloutInv, [Next]_vars PROVE PolloutInv'
  OBVIOUS
<1>1. CASE ScheduleDone \/ ChildEventsDone \/ HandleParallel \/ ShutdownWithMsg
  <2>1. UNCHANGED <<clients, link, sent, stream, pollout, revents>>
    BY <1>1 DEF ScheduleDone, ChildEventsDone, HandleParallel, ShutdownWithMsg, bufVars, kernelVars
  <2>2. QED
    BY SMTT(60), <2>1, FewerEventsPollout
<1>2. CASE ReadChildPipe
  <2>1. UNCHANGED <<clients, link, sent, stream, pollout>>
    BY <1>2 DEF ReadChildPipe, bufVars
  <2>2. revents'.fd = revents.fd
    BY ZenonT(60), <1>2, ZenonT(30) DEF TypeInv, TypeOK, ReadChildPipe
  <2>3. QED
    BY <2>1, <2>2, FewerEventsPollout
<1>3. ASSUME NEW f \in Fds, ReadLines(f) \/ ReadFails(f) PROVE PolloutInv'
  <2>1. UNCHANGED <<clients, link, sent, stream, pollout>> /\ Handled(f)
    BY <1>3, Zenon DEF ReadLines, ReadFails, EntryDone, bufVars
  <2>2. QED
    BY <2>1, HandledType, FewerEventsPollout
<1>4. CASE \/ SigchldHandle \/ UNCHANGED vars \/ \E p \in Pids : ChildEnds(p)
           \/ \E c \in Conns : SendRun(c) \/ SendControl(c) \/ ReadAnswers(c) \/ Close(c)
  <2>1. UNCHANGED <<clients, link, sent, stream, pollout, revents>>
    BY <1>4, Zenon DEF SigchldHandle, ChildEnds, SendRun, SendControl, ReadAnswers, Close, vars,
       serverVars, bufVars, kernelVars
  <2>2. QED
    BY <2>1, FewerEventsPollout
<1>5. QED
  BY SMTT(60), <1>1, <1>2, <1>3, <1>4, TalkStepPollout, LinkStepPollout, PollPollout, WriteToClientPollout
     DEF Next, ServerStep, ServeClient, Environment, TalkStep, LinkStep, ClosesClient

LEMMA PolloutInit == ASSUME Init PROVE PolloutInv
<1>1. \A c \in Conns : stream[c] = <<>> /\ sent[c] = 0 /\ c \notin pollout /\ Len(<<>>) = 0
  BY DEF Init
<1>2. \A f \in Fds : revents.fd[f] = {}
  BY DEF Init, NoEvents
<1>3. QED
  BY <1>1, <1>2 DEF PolloutInv, PolloutIffPending

-----------------------------------------------------------------------------
(* Who is told what.                                                       *)

LEMMA LinkMoves ==
  ASSUME TypeInv, LinkInv, [Next]_vars, NEW c \in Conns
  PROVE  /\ link[c] = "freed" => link'[c] = "freed"
         /\ link[c] \in {"accepted", "freed"} /\ link'[c] = "accepted" => link[c] = "accepted"
<1>1. link \in [Conns -> {"none", "waiting", "accepted", "freed"}]
  BY DEF TypeInv, TypeOK
<1>2. CASE ServerAcceptClient
  <2>1. PICK d \in Conns : link[d] = "waiting" /\ link' = [link EXCEPT ![d] = "accepted"]
    BY <1>2, ZenonT(30) DEF ServerAcceptClient
  <2>2. QED
    BY <1>1, <2>1
<1>3. ASSUME NEW f \in Fds, ClosesClient(f)
      PROVE  /\ link[c] = "freed" => link'[c] = "freed"
             /\ link'[c] = "accepted" => link[c] = "accepted"
  BY <1>1, <1>3, CloseClientLinks DEF CloseClient
<1>4. ASSUME NEW d \in Conns, Connect(d)
      PROVE  /\ link[c] = "freed" => link'[c] = "freed"
             /\ link[c] \in {"accepted", "freed"} /\ link'[c] = "accepted" => link[c] = "accepted"
  BY SMTT(60), <1>1, <1>4 DEF Connect
<1>5. QED
  BY SMTT(60), <1>2, <1>3, <1>4, OtherLink DEF LinkStep

(* How a stream grows by one answer.                                       *)
LEMMA Grown ==
  ASSUME TypeOK, NEW c \in Conns, NEW m, QueueWrite(c, m)
  PROVE  /\ \A d \in Conns : \A i \in 1..Len(stream[d]) :
              i \in 1..Len(stream'[d]) /\ stream'[d][i] = stream[d][i]
         /\ Len(stream[c]) + 1 \in 1..Len(stream'[c]) /\ stream'[c][Len(stream[c]) + 1] = m
         /\ \A d \in Conns : \A i \in 1..Len(stream'[d]) :
              \/ i \in 1..Len(stream[d]) /\ stream'[d][i] = stream[d][i]
              \/ d = c /\ i = Len(stream[c]) + 1 /\ stream'[d][i] = m
<1>1. /\ stream'[c] = Append(stream[c], m) /\ Len(stream'[c]) = Len(stream[c]) + 1
      /\ \A d \in Conns \ {c} : stream'[d] = stream[d]
  BY QueueWriteAppends
<1>2. stream[c] \in Seq(Answer) /\ Len(stream[c]) \in Nat
  BY StreamLengths
<1>3. /\ \A i \in 1..Len(stream[c]) : stream'[c][i] = stream[c][i]
      /\ stream'[c][Len(stream[c]) + 1] = m
  <2> DEFINE s == stream[c]
  <2>1. s \in Seq(Answer) /\ stream'[c] = Append(s, m)
    BY <1>1, <1>2
  <2> HIDE DEF s
  <2>2. (\A i \in 1..Len(s) : Append(s, m)[i] = s[i]) /\ Append(s, m)[Len(s) + 1] = m
    BY <2>1
  <2>3. QED
    BY <2>1, <2>2 DEF s
<1> DEFINE n == Len(stream[c])
<1>4. n \in Nat /\ Len(stream'[c]) = n + 1
  BY <1>1, <1>2
<1>5. /\ \A i \in 1..n : i \in 1..n + 1
      /\ n + 1 \in 1..n + 1 /\ \A i \in 1..n + 1 : i \in 1..n \/ i = n + 1
  BY <1>4
<1> HIDE DEF n
<1>6. ASSUME NEW d \in Conns, NEW i \in 1..Len(stream'[d])
      PROVE  \/ i \in 1..Len(stream[d]) /\ stream'[d][i] = stream[d][i]
             \/ d = c /\ i = n + 1 /\ stream'[d][i] = m
  BY SMTT(60), <1>1, <1>3, <1>4, <1>5 DEF n
<1>7. ASSUME NEW d \in Conns, NEW i \in 1..Len(stream[d])
      PROVE  i \in 1..Len(stream'[d]) /\ stream'[d][i] = stream[d][i]
  BY SMTT(60), <1>1, <1>3, <1>4, <1>5 DEF n
<1>8. QED
  BY SMTT(60), <1>3, <1>4, <1>5, <1>6, <1>7 DEF n

LEMMA ToldGrown ==
  ASSUME TypeOK, NEW c \in Conns, NEW m, QueueWrite(c, m), NEW r, NEW K
  PROVE  Told(r, K)' <=> Told(r, K) \/ (m.req = r /\ m.kind \in K)
<1>1. ASSUME Told(r, K)' PROVE Told(r, K) \/ (m.req = r /\ m.kind \in K)
  BY ZenonT(60), <1>1, Grown, Zenon DEF Told
<1>2. ASSUME Told(r, K) PROVE Told(r, K)'
  BY ZenonT(60), <1>2, Grown, Zenon DEF Told
<1>3. ASSUME m.req = r, m.kind \in K PROVE Told(r, K)'
  <2>1. Len(stream[c]) + 1 \in 1..Len(stream'[c]) /\ stream'[c][Len(stream[c]) + 1] = m
    BY Grown
  <2>2. \E i \in 1..Len(stream'[c]) : stream'[c][i].req = r /\ stream'[c][i].kind \in K
    BY Zenon, <1>3, <2>1
  <2>3. QED
    BY <2>2 DEF Told
<1>4. QED
  BY <1>1, <1>2, <1>3

(* An answer may be sent when the sender of the request has not got one of *)
(* the same kind, and the start before the end.                            *)
LEMMA MayBeSent ==
  ASSUME TypeOK, StartedThenFinished, NEW c \in Conns, NEW m, QueueWrite(c, m),
         m.req.owner = c =>
           /\ \A i \in 1..Len(stream[c]) : ~ /\ stream[c][i].req = m.req
                                             /\ stream[c][i].kind = m.kind
           /\ m.kind = "F" => \E i \in 1..Len(stream[c]) : stream[c][i] = Started(m.req)
  PROVE  StartedThenFinished'
<1> SUFFICES ASSUME NEW d \in Conns, NEW j \in 1..Len(stream'[d]), stream'[d][j].req.owner = d
             PROVE  /\ \A i \in 1..(j - 1) : ~ /\ stream'[d][i].req = stream'[d][j].req
                                               /\ stream'[d][i].kind = stream'[d][j].kind
                    /\ stream'[d][j].kind = "F" =>
                         \E i \in 1..(j - 1) : stream'[d][i] = Started(stream'[d][j].req)
  BY Zenon DEF StartedThenFinished, Started
<1>1. Len(stream[d]) \in Nat /\ Len(stream[c]) \in Nat
  BY Zenon, StreamLengths
<1>2. \A i \in 1..Len(stream[d]) : stream'[d][i] = stream[d][i]
  BY Grown
<1>3. CASE j \in 1..Len(stream[d]) /\ stream'[d][j] = stream[d][j]
  <2>1. \A i \in 1..(j - 1) : stream'[d][i] = stream[d][i]
    BY SMTT(60), <1>1, <1>2, <1>3
  <2>2. /\ \A i \in 1..(j - 1) : ~ /\ stream[d][i].req = stream[d][j].req
                                   /\ stream[d][i].kind = stream[d][j].kind
        /\ stream[d][j].kind = "F" =>
             \E i \in 1..(j - 1) : stream[d][i] = Started(stream[d][j].req)
    BY SMTT(60), <1>3 DEF StartedThenFinished
  <2>3. QED
    BY ZenonT(60), <1>3, <2>1, <2>2, Zenon
<1>4. CASE d = c /\ j = Len(stream[c]) + 1 /\ stream'[d][j] = m
  <2>1. 1..(j - 1) = 1..Len(stream[c])
    BY <1>1, <1>4
  <2>2. QED
    BY <1>2, <1>4, <2>1, Zenon
<1>5. QED
  BY SMTT(60), <1>3, <1>4, Grown

(* Requests keep what was said of them, when an answer is added to a       *)
(* stream.                                                                 *)
LEMMA SaidStays ==
  ASSUME TypeOK, NEW c \in Conns, NEW m, QueueWrite(c, m), NEW r, r.owner \in Conns
  PROVE  /\ FinishSent(r) => FinishSent(r)'
         /\ (\E i \in 1..Len(stream[r.owner]) : stream[r.owner][i] = Started(r))
              => \E i \in 1..Len(stream'[r.owner]) : stream'[r.owner][i] = Started(r)
<1>1. \A i \in 1..Len(stream[r.owner]) :
        i \in 1..Len(stream'[r.owner]) /\ stream'[r.owner][i] = stream[r.owner][i]
  BY Grown
<1>2. QED
  BY ZenonT(60), <1>1, Zenon DEF FinishSent

AnswerInv == TalkInv /\ StartedThenFinished /\ StrayOnlyAfterClose
ServerInv == TypeInv /\ PoolInv /\ LinkInv /\ AnswerInv

LEMMA ServerParts ==
  ASSUME ServerInv
  PROVE  /\ TypeOK /\ TypeInv /\ PoolInv /\ LinkInv /\ StartedThenFinished /\ StrayOnlyAfterClose
         /\ ToldOfSeen /\ CancelledApart /\ WaitUntold /\ RunTold /\ AllSomewhere
  BY DEF ServerInv, AnswerInv, TypeInv, TalkInv

LEMMA ClientOfFd ==
  ASSUME TypeOK, NEW f \in Fds, clients[f] # NoConn
  PROVE  clients[f] \in Conns
<1>1. clients \in [Fds -> Conns \cup {NoConn}]
  BY Zenon DEF TypeOK
<1>2. QED
  BY <1>1

(* What a step that says nothing does to what was said.                    *)
LEMMA SilentTold ==
  ASSUME UNCHANGED stream
  PROVE  /\ \A r, K : Told(r, K)' <=> Told(r, K)
         /\ \A r : FinishSent(r)' <=> FinishSent(r)
  BY DEF Told, FinishSent

LEMMA SilentRunning ==
  ASSUME UNCHANGED <<stream, cancelled>>, NEW ch, RunningTold(ch),
         link'[ch.req.owner] = "accepted" => link[ch.req.owner] = "accepted"
  PROVE  RunningTold(ch)'
  BY SilentTold DEF RunningTold

LEMMA SilentOrder ==
  ASSUME StartedThenFinished, UNCHANGED stream
  PROVE  StartedThenFinished'
  BY DEF StartedThenFinished

LEMMA SilentStray ==
  ASSUME StrayOnlyAfterClose, UNCHANGED <<stream, link>>
  PROVE  StrayOnlyAfterClose'
  BY DEF StrayOnlyAfterClose

(* Steps that neither answer nor touch the requests.                       *)
LEMMA QuietOwners ==
  ASSUME ServerInv, [Next]_vars, NEW r \in seen
  PROVE  /\ link'[r.owner] = "accepted" => link[r.owner] = "accepted"
         /\ link[r.owner] = "freed" => link'[r.owner] = "freed"
<1>1. r.owner \in Conns
  BY RequestFields, ServerParts
<1>2. link[r.owner] \in {"accepted", "freed"}
  BY ServerParts DEF LinkInv
<1>3. QED
  BY <1>1, <1>2, LinkMoves, ServerParts

LEMMA QuietTalk ==
  ASSUME ServerInv, [Next]_vars, UNCHANGED talkVars
  PROVE  TalkInv'
<1>1. UNCHANGED <<stream, queue, processes, seen, cancelled>>
  BY DEF talkVars
<1>2. ToldOfSeen' /\ CancelledApart'
  BY <1>1, ServerParts DEF ToldOfSeen, CancelledApart
<1>3. WaitUntold'
  BY <1>1, ServerParts, SilentTold DEF WaitUntold
<1>4. RunTold'
  BY Zenon, <1>1, ServerParts, SilentRunning, QuietOwners DEF RunTold, PoolInv
<1>5. AllSomewhere'
  BY <1>1, ServerParts, SilentTold, QuietOwners DEF AllSomewhere, Somewhere, Running
<1>6. QED
  BY <1>2, <1>3, <1>4, <1>5 DEF TalkInv

LEMMA QuietStray ==
  ASSUME ServerInv, [Next]_vars, UNCHANGED talkVars
  PROVE  StrayOnlyAfterClose'
<1>1. UNCHANGED stream
  BY DEF talkVars
<1>2. ASSUME NEW c \in Conns, NEW i \in 1..Len(stream[c]), stream[c][i].req.owner # c
      PROVE  link'[stream[c][i].req.owner] = "freed"
  <2>1. stream[c][i].req \in seen /\ link[stream[c][i].req.owner] = "freed"
    BY <1>2, ServerParts DEF ToldOfSeen, StrayOnlyAfterClose
  <2>2. QED
    BY <2>1, QuietOwners
<1>3. QED
  BY <1>1, <1>2 DEF StrayOnlyAfterClose

LEMMA QuietAnswers ==
  ASSUME ServerInv, [Next]_vars, UNCHANGED talkVars
  PROVE  AnswerInv'
  BY QuietTalk, QuietStray, SilentOrder, ServerParts DEF AnswerInv, talkVars

-----------------------------------------------------------------------------
(* An answer m about the request r, sent to the client that has the        *)
(* descriptor of r: what becomes of each part of the invariant.            *)
LEMMA SaidStray ==
  ASSUME TypeOK, StrayOnlyAfterClose, NEW c \in Conns, NEW m, QueueWrite(c, m), UNCHANGED link,
         m.req.owner # c => link[m.req.owner] = "freed"
  PROVE  StrayOnlyAfterClose'
<1>1. \A d \in Conns : \A i \in 1..Len(stream'[d]) :
        \/ i \in 1..Len(stream[d]) /\ stream'[d][i] = stream[d][i]
        \/ d = c /\ stream'[d][i] = m
  BY Zenon, Grown
<1>2. QED
  BY <1>1 DEF StrayOnlyAfterClose

LEMMA SaidOfSeen ==
  ASSUME TypeOK, ToldOfSeen, NEW c \in Conns, NEW m, QueueWrite(c, m), m.req \in seen', seen \subseteq seen'
  PROVE  ToldOfSeen'
<1>1. \A d \in Conns : \A i \in 1..Len(stream'[d]) :
        \/ i \in 1..Len(stream[d]) /\ stream'[d][i] = stream[d][i]
        \/ d = c /\ stream'[d][i] = m
  BY Zenon, Grown
<1>2. QED
  BY <1>1 DEF ToldOfSeen

LEMMA SaidUntold ==
  ASSUME TypeOK, WaitUntold, NEW c \in Conns, NEW m, QueueWrite(c, m),
         queue' \cup cancelled' \subseteq (queue \cup cancelled) \ {m.req}
  PROVE  WaitUntold'
  BY ToldGrown DEF WaitUntold

LEMMA SaidRunning ==
  ASSUME TypeOK, NEW c \in Conns, NEW m, QueueWrite(c, m), UNCHANGED <<link, cancelled>>,
         NEW ch, RunningTold(ch), ch.req.owner \in Conns, m.req # ch.req \/ m.kind # "F"
  PROVE  RunningTold(ch)'
<1>1. ~Told(ch.req, {"F"})'
  BY ToldGrown DEF RunningTold
<1>2. QED
  BY Zenon, <1>1, SaidStays DEF RunningTold

LEMMA StartedFields ==
  ASSUME NEW r
  PROVE  Started(r).req = r /\ Started(r).kind = "S"
  BY DEF Started

LEMMA FinishedFields ==
  ASSUME NEW r, NEW e
  PROVE  Finished(r, e).req = r /\ Finished(r, e).kind = "F"
  BY DEF Finished

LEMMA StartInOrder ==
  ASSUME TypeOK, StartedThenFinished, NEW c \in Conns, NEW r, QueueWrite(c, Started(r)), ~Told(r, {"S", "F"})
  PROVE  StartedThenFinished'
<1>1. \A i \in 1..Len(stream[c]) : ~(stream[c][i].req = r /\ stream[c][i].kind = "S")
  BY Zenon DEF Told
<1>2. QED
  BY <1>1, StartedFields, MayBeSent

LEMMA EndInOrder ==
  ASSUME TypeOK, StartedThenFinished, NEW c \in Conns, NEW r, NEW e, QueueWrite(c, Finished(r, e)),
         ~Told(r, {"F"}),
         r.owner = c => \E i \in 1..Len(stream[c]) : stream[c][i] = Started(r)
  PROVE  StartedThenFinished'
<1>1. \A i \in 1..Len(stream[c]) : ~(stream[c][i].req = r /\ stream[c][i].kind = "F")
  BY Zenon DEF Told
<1>2. QED
  BY <1>1, FinishedFields, MayBeSent

-----------------------------------------------------------------------------
(* run_request of a request r nobody was told of: without a client at its  *)
(* descriptor the request is dropped, and its sender is gone.              *)
MayRun(r) ==
  /\ r \in Request /\ r.owner \in Conns /\ r.key \in Fds
  /\ ~Told(r, {"S", "F"}) /\ r \notin cancelled /\ \A ch \in processes : ch.req # r
  /\ link[r.owner] \in {"accepted", "freed"}
  /\ link[r.owner] = "accepted" => clients[r.key] = r.owner
  /\ seen' = seen \cup {r} /\ queue' = queue \ {r} /\ UNCHANGED <<link, cancelled>>

LEMMA DroppedRun ==
  ASSUME ServerInv, NEW r, MayRun(r), UNCHANGED <<processes, stream>>, clients[r.key] = NoConn
  PROVE  AnswerInv'
<1>1. link[r.owner] # "accepted"
  BY ConnsAssumption DEF MayRun
<1>2. ToldOfSeen' /\ CancelledApart'
  BY Zenon, ServerParts DEF MayRun, ToldOfSeen, CancelledApart
<1>3. WaitUntold'
  BY Zenon, ServerParts, SilentTold DEF MayRun, WaitUntold
<1>4. RunTold'
  BY Zenon, ServerParts, SilentRunning DEF MayRun, RunTold
<1>5. AllSomewhere'
  BY Zenon, <1>1, ServerParts, SilentTold DEF MayRun, AllSomewhere, Somewhere, Running
<1>6. StartedThenFinished' /\ StrayOnlyAfterClose'
  BY ServerParts, SilentOrder, SilentStray DEF MayRun
<1>7. QED
  BY <1>2, <1>3, <1>4, <1>5, <1>6 DEF AnswerInv, TalkInv

(* With a client there, it is told of the start.                           *)
LEMMA StartRunTold ==
  ASSUME ServerInv, NEW r, MayRun(r), NEW c \in Conns, c = clients[r.key], QueueWrite(c, Started(r)),
         NEW new, new.req = r, processes' = processes \cup {new}
  PROVE  RunTold'
<1>1. ASSUME NEW ch \in processes PROVE RunningTold(ch)'
  <2>1. ch.req.owner \in Conns /\ RunningTold(ch)
    BY Zenon, ServerParts, RequestFields DEF RunTold
  <2>2. QED
    BY Zenon, <2>1, ServerParts, SaidRunning, StartedFields DEF MayRun
<1>2. ~Told(r, {"F"})'
  <2>1. ~Told(r, {"F"})
    BY Zenon DEF MayRun, Told
  <2>2. QED
    BY <2>1, ToldGrown, ServerParts, StartedFields
<1>3. ASSUME link[r.owner] = "accepted"
      PROVE  \E i \in 1..Len(stream'[r.owner]) : stream'[r.owner][i] = Started(r)
  BY SMTT(60), <1>3, Grown, ServerParts DEF MayRun
<1>4. RunningTold(new)'
  BY Zenon, <1>2, <1>3 DEF RunningTold, MayRun
<1>5. QED
  BY Zenon, <1>1, <1>4 DEF RunTold

LEMMA StartSomewhere ==
  ASSUME ServerInv, NEW r, MayRun(r), NEW c \in Conns, QueueWrite(c, Started(r)),
         NEW new, new.req = r, processes' = processes \cup {new}
  PROVE  AllSomewhere'
<1>1. Running(r)' /\ \A q : Running(q) => Running(q)'
  BY Zenon DEF Running
<1>2. ASSUME NEW q \in seen, q # r, link[q.owner] = "accepted" PROVE Somewhere(q)'
  <2>1. Somewhere(q) /\ q.owner \in Conns
    BY Zenon, <1>2, ServerParts, RequestFields DEF AllSomewhere
  <2>2. FinishSent(q) => FinishSent(q)'
    BY Zenon, <2>1, ServerParts, SaidStays
  <2>3. QED
    BY Zenon, <1>1, <1>2, <2>1, <2>2 DEF Somewhere, MayRun
<1>3. QED
  BY <1>1, <1>2 DEF AllSomewhere, Somewhere, MayRun

LEMMA StartAnswers ==
  ASSUME ServerInv, NEW r, MayRun(r), NEW c \in Conns, c = clients[r.key], QueueWrite(c, Started(r)),
         NEW new, new.req = r, processes' = processes \cup {new}
  PROVE  AnswerInv'
<1>1. ToldOfSeen'
  BY Zenon, ServerParts, SaidOfSeen, StartedFields DEF MayRun
<1>2. CancelledApart'
  BY Zenon, ServerParts DEF MayRun, CancelledApart
<1>3. WaitUntold'
  BY Zenon, ServerParts, SaidUntold, StartedFields DEF MayRun
<1>4. StrayOnlyAfterClose'
  BY Zenon, ServerParts, SaidStray, StartedFields DEF MayRun
<1>5. StartedThenFinished'
  BY Zenon, ServerParts, StartInOrder DEF MayRun
<1>6. QED
  BY <1>1, <1>2, <1>3, <1>4, <1>5, StartRunTold, StartSomewhere DEF AnswerInv, TalkInv

LEMMA RunAnswers ==
  ASSUME ServerInv, NEW r, MayRun(r), RunRequest(r)
  PROVE  AnswerInv'
<1>1. CASE clients[r.key] = NoConn
  <2>1. UNCHANGED <<processes, stream>>
    BY Zenon, <1>1 DEF RunRequest
  <2>2. QED
    BY Zenon, <1>1, <2>1, DroppedRun
<1>2. CASE clients[r.key] # NoConn
  <2>1. clients[r.key] \in Conns
    BY Zenon, <1>2, ClientOfFd, ServerParts DEF MayRun
  <2>2. \E p \in Pids : /\ processes' = processes \cup {[pid |-> p, req |-> r]}
                        /\ QueueWrite(clients[r.key], Started(r))
    BY <1>2 DEF RunRequest
  <2>3. QED
    BY Zenon, <2>1, <2>2, StartAnswers
<1>3. QED
  BY Zenon, <1>1, <1>2

LEMMA ScheduleNewJobAnswers ==
  ASSUME ServerInv, ScheduleNewJob
  PROVE  AnswerInv'
<1>1. PICK r \in queue : queue' = queue \ {r} /\ RunRequest(r)
  BY DEF ScheduleNewJob
<1>2. UNCHANGED <<link, cancelled, seen>>
  BY DEF ScheduleNewJob, ghostVars
<1>3. r \in Request /\ r.owner \in Conns /\ r.key \in Fds
  BY RequestFields, ServerParts
<1>4. r \in seen /\ \A ch \in processes : ch.req # r
  BY Zenon, ServerParts DEF PoolInv
<1>5. MayRun(r)
  BY Zenon, <1>1, <1>2, <1>3, <1>4, ServerParts DEF MayRun, LinkInv, WaitUntold, CancelledApart
<1>6. QED
  BY <1>1, <1>5, RunAnswers

-----------------------------------------------------------------------------
(* A request that arrives is new: nobody was told of it.                   *)
LEMMA NewRequest ==
  ASSUME ServerInv, NEW r, r \notin seen
  PROVE  /\ ~Told(r, {"S", "F"}) /\ r \notin cancelled /\ r \notin queue
         /\ \A ch \in processes : ch.req # r
<1>1. ~Told(r, {"S", "F"})
  BY ServerParts, Zenon DEF ToldOfSeen, Told
<1>2. QED
  BY <1>1, ServerParts DEF PoolInv, CancelledApart

LEMMA QueuedAnswers ==
  ASSUME ServerInv, NEW r, r \notin seen, seen' = seen \cup {r}, queue' = queue \cup {r},
         UNCHANGED <<processes, stream, link, cancelled>>
  PROVE  AnswerInv'
<1>1. ToldOfSeen'
  BY ServerParts DEF ToldOfSeen
<1>2. CancelledApart'
  BY Zenon, ServerParts, NewRequest DEF CancelledApart
<1>3. WaitUntold'
  BY ServerParts, NewRequest, SilentTold DEF WaitUntold
<1>4. RunTold'
  BY Zenon, ServerParts, SilentRunning DEF RunTold
<1>5. AllSomewhere'
  BY ServerParts, SilentTold DEF AllSomewhere, Somewhere, Running
<1>6. StartedThenFinished' /\ StrayOnlyAfterClose'
  BY ServerParts, SilentOrder, SilentStray
<1>7. QED
  BY <1>1, <1>2, <1>3, <1>4, <1>5, <1>6 DEF AnswerInv, TalkInv

LEMMA HandleRunAnswers ==
  ASSUME ServerInv, HandleRun
  PROVE  AnswerInv'
<1>1. PICK r \in Request :
         /\ r \notin seen /\ seen' = seen \cup {r} /\ UNCHANGED cancelled
         /\ clients[r.key] = r.owner /\ r.key \in Fds /\ r.owner \in Conns
         /\ \/ RunRequest(r) /\ UNCHANGED queue
            \/ queue' = queue \cup {r} /\ UNCHANGED <<processes, stream, pollout>>
  BY HandleRunParts, ServerParts
<1>2. UNCHANGED link
  BY Zenon DEF HandleRun
<1>3. link[r.owner] = "accepted"
  BY <1>1, ConnsAssumption, ServerParts DEF LinkInv
<1>4. CASE RunRequest(r) /\ UNCHANGED queue
  <2>1. MayRun(r)
    BY <1>1, <1>2, <1>3, <1>4, NewRequest DEF MayRun
  <2>2. QED
    BY Zenon, <1>4, <2>1, RunAnswers
<1>5. QED
  BY Zenon, <1>1, <1>2, <1>4, QueuedAnswers

LEMMA InterruptAnswers ==
  ASSUME ServerInv, NEW hit, hit \subseteq queue, queue' = queue \ hit, cancelled' = cancelled \cup hit,
         UNCHANGED <<link, processes, stream, seen>>
  PROVE  AnswerInv'
<1>1. queue \subseteq seen /\ \A ch \in processes : ch.req \notin queue
  BY ServerParts DEF PoolInv
<1>2. ToldOfSeen' /\ CancelledApart'
  BY <1>1, ServerParts DEF ToldOfSeen, CancelledApart
<1>3. WaitUntold'
  BY Zenon, ServerParts, SilentTold DEF WaitUntold
<1>4. RunTold'
  BY <1>1, ServerParts, SilentTold DEF RunTold, RunningTold
<1>5. AllSomewhere'
  BY ServerParts, SilentTold DEF AllSomewhere, Somewhere, Running
<1>6. StartedThenFinished' /\ StrayOnlyAfterClose'
  BY ServerParts, SilentOrder, SilentStray
<1>7. QED
  BY <1>2, <1>3, <1>4, <1>5, <1>6 DEF AnswerInv, TalkInv

LEMMA HandleInterruptAnswers ==
  ASSUME ServerInv, HandleInterrupt
  PROVE  AnswerInv'
<1>1. \E hit : hit \subseteq queue /\ queue' = queue \ hit /\ cancelled' = cancelled \cup hit
  BY Zenon DEF HandleInterrupt
<1>2. UNCHANGED <<link, processes, stream, seen>>
  BY ZenonT(60) DEF HandleInterrupt, bufVars
<1>3. QED
  BY <1>1, <1>2, InterruptAnswers

-----------------------------------------------------------------------------
(* The end of the prover ch of a request: it is reported to the client at  *)
(* the descriptor of the request, if there is one.                         *)
Ends(ch) ==
  /\ ch \in processes /\ processes' = processes \ {ch} /\ UNCHANGED <<link, queue, seen, cancelled>>

LEMMA EndingRequest ==
  ASSUME ServerInv, NEW ch, Ends(ch)
  PROVE  /\ ch.req.owner \in Conns /\ ch.req.key \in Fds /\ ch.req \in seen
         /\ ch.req \notin cancelled /\ ch.req \notin queue /\ ~Told(ch.req, {"F"})
         /\ \A x \in processes' : x \in processes /\ x.req # ch.req
         /\ link[ch.req.owner] \in {"accepted", "freed"}
         /\ link[ch.req.owner] = "accepted" => clients[ch.req.key] = ch.req.owner
<1>1. ch.req.owner \in Conns /\ ch.req.key \in Fds /\ ch.req \in seen /\ ch.req \notin queue
  BY ServerParts, RequestFields DEF Ends, PoolInv
<1>2. ch.req \notin cancelled /\ ~Told(ch.req, {"F"})
  BY ServerParts DEF Ends, RunTold, RunningTold
<1>3. \A x \in processes' : x \in processes /\ x.req # ch.req
  BY ServerParts DEF Ends, PoolInv
<1>4. QED
  BY <1>1, <1>2, <1>3, ServerParts DEF LinkInv

LEMMA StillRunning ==
  ASSUME NEW ch, Ends(ch), NEW q, q # ch.req, Running(q)
  PROVE  Running(q)'
  BY DEF Ends, Running

LEMMA UnreportedEnd ==
  ASSUME ServerInv, NEW ch, Ends(ch), UNCHANGED stream, clients[ch.req.key] = NoConn
  PROVE  AnswerInv'
<1>1. link[ch.req.owner] # "accepted"
  BY Zenon, EndingRequest, ConnsAssumption
<1>2. ToldOfSeen' /\ CancelledApart'
  BY ServerParts DEF Ends, ToldOfSeen, CancelledApart
<1>3. WaitUntold'
  BY Zenon, ServerParts, SilentTold DEF Ends, WaitUntold
<1>4. RunTold'
  BY Zenon, ServerParts, SilentRunning, EndingRequest DEF Ends, RunTold
<1>5. AllSomewhere'
  BY <1>1, ServerParts, SilentTold, StillRunning DEF Ends, AllSomewhere, Somewhere
<1>6. StartedThenFinished' /\ StrayOnlyAfterClose'
  BY ServerParts, SilentOrder, SilentStray DEF Ends
<1>7. QED
  BY Zenon, <1>2, <1>3, <1>4, <1>5, <1>6 DEF AnswerInv, TalkInv

LEMMA EndRunTold ==
  ASSUME ServerInv, NEW ch, Ends(ch), NEW c \in Conns, NEW e, QueueWrite(c, Finished(ch.req, e))
  PROVE  RunTold'
<1>1. ASSUME NEW x \in processes' PROVE RunningTold(x)'
  <2>1. x \in processes /\ x.req # ch.req
    BY Zenon, EndingRequest
  <2>2. RunningTold(x) /\ x.req.owner \in Conns
    BY Zenon, <2>1, ServerParts, RequestFields DEF RunTold
  <2>3. QED
    BY <2>1, <2>2, ServerParts, SaidRunning, FinishedFields DEF Ends
<1>2. QED
  BY Zenon, <1>1 DEF RunTold

LEMMA EndSomewhere ==
  ASSUME ServerInv, NEW ch, Ends(ch), NEW c \in Conns, c = clients[ch.req.key], NEW e,
         QueueWrite(c, Finished(ch.req, e))
  PROVE  AllSomewhere'
<1>1. ASSUME link[ch.req.owner] = "accepted" PROVE FinishSent(ch.req)'
  <2>1. ch.req.owner = c
    BY Zenon, <1>1, EndingRequest
  <2> DEFINE f == Finished(ch.req, e)
             k == Len(stream[c]) + 1
  <2>2. f.req = ch.req /\ f.kind = "F"
    BY Zenon, FinishedFields
  <2>3. TypeOK /\ QueueWrite(c, f)
    BY Zenon, ServerParts
  <2> HIDE DEF f
  <2>4. k \in 1..Len(stream'[c]) /\ stream'[c][k] = f
    BY ONLY <2>3, c \in Conns, Grown
  <2> HIDE DEF k
  <2>5. QED
    BY Zenon, <2>1, <2>2, <2>4 DEF FinishSent
<1>2. ASSUME NEW q \in seen, q # ch.req, link[q.owner] = "accepted" PROVE Somewhere(q)'
  <2>1. Somewhere(q) /\ q.owner \in Conns
    BY Zenon, <1>2, ServerParts, RequestFields DEF AllSomewhere
  <2>2. FinishSent(q) => FinishSent(q)'
    BY ZenonT(30), <2>1, ServerParts, SaidStays
  <2>3. QED
    BY Zenon, <1>2, <2>1, <2>2, StillRunning DEF Somewhere, Ends
<1>3. QED
  BY Zenon, <1>1, <1>2 DEF AllSomewhere, Somewhere, Ends

LEMMA EndStarted ==
  ASSUME ServerInv, NEW ch, Ends(ch), clients[ch.req.key] \in Conns, ch.req.owner = clients[ch.req.key]
  PROVE  \E i \in 1..Len(stream[ch.req.owner]) : stream[ch.req.owner][i] = Started(ch.req)
<1>1. link[ch.req.owner] = "accepted"
  BY EndingRequest, ServerParts, ConnsAssumption DEF LinkInv
<1>2. QED
  BY Zenon, <1>1, ServerParts DEF Ends, RunTold, RunningTold

LEMMA ReportedEnd ==
  ASSUME ServerInv, NEW ch, Ends(ch), NEW c \in Conns, c = clients[ch.req.key], NEW e,
         QueueWrite(c, Finished(ch.req, e))
  PROVE  AnswerInv'
<1>1. ToldOfSeen'
  BY ServerParts, SaidOfSeen, FinishedFields, EndingRequest DEF Ends
<1>2. CancelledApart'
  BY Zenon, ServerParts DEF Ends, CancelledApart
<1>3. WaitUntold'
  BY ServerParts, SaidUntold, FinishedFields, EndingRequest DEF Ends
<1>4. StrayOnlyAfterClose'
  BY ServerParts, SaidStray, FinishedFields, EndingRequest DEF Ends
<1>5. StartedThenFinished'
  BY Zenon, ServerParts, EndInOrder, EndStarted, EndingRequest
<1>6. QED
  BY Zenon, <1>1, <1>2, <1>3, <1>4, <1>5, EndRunTold, EndSomewhere DEF AnswerInv, TalkInv

LEMMA HandleChildEventAnswers ==
  ASSUME ServerInv, HandleChildEvent
  PROVE  AnswerInv'
<1>1. PICK ch \in processes :
         /\ processes' = processes \ {ch}
         /\ IF clients[ch.req.key] = NoConn
              THEN UNCHANGED <<stream, pollout>>
              ELSE QueueWrite(clients[ch.req.key], Finished(ch.req, child[ch.pid]))
  BY ZenonT(30) DEF HandleChildEvent
<1>2. UNCHANGED <<link, queue, seen, cancelled>>
  BY Zenon DEF HandleChildEvent, ghostVars
<1>3. Ends(ch)
  BY Zenon, <1>1, <1>2 DEF Ends
<1>4. clients[ch.req.key] # NoConn => clients[ch.req.key] \in Conns
  BY Zenon, <1>3, EndingRequest, ServerParts, ClientOfFd
<1>5. QED
  BY <1>1, <1>3, <1>4, UnreportedEnd, ReportedEnd

LEMMA AnswersInit == ASSUME Init PROVE AnswerInv
<1>1. /\ \A c \in Conns : stream[c] = <<>> /\ 1..Len(stream[c]) = {}
      /\ queue = {} /\ processes = {} /\ seen = {} /\ cancelled = {}
  BY DEF Init
<1>2. TalkInv
  BY <1>1 DEF TalkInv, ToldOfSeen, CancelledApart, WaitUntold, RunTold, AllSomewhere
<1>3. QED
  BY <1>1, <1>2 DEF AnswerInv, StartedThenFinished, StrayOnlyAfterClose

LEMMA AnswersStep ==
  ASSUME TypeInv, PoolInv, LinkInv, AnswerInv, [Next]_vars
  PROVE  AnswerInv'
  BY Zenon, QuietAnswers, OtherTalk, ScheduleNewJobAnswers, HandleRunAnswers, HandleInterruptAnswers,
     HandleChildEventAnswers DEF ServerInv, TalkStep

LEMMA OnePlace ==
  ASSUME ServerInv, NEW r \in seen, link[r.owner] = "accepted"
  PROVE  /\ r \in queue \/ Running(r) \/ FinishSent(r) \/ r \in cancelled
         /\ ~(r \in queue /\ (Running(r) \/ FinishSent(r) \/ r \in cancelled))
         /\ ~(Running(r) /\ (FinishSent(r) \/ r \in cancelled))
         /\ ~(FinishSent(r) /\ r \in cancelled)
<1>1. r.owner \in Conns
  BY RequestFields, ServerParts
<1>2. FinishSent(r) => Told(r, {"F"}) /\ Told(r, {"S", "F"})
  BY <1>1, Zenon DEF FinishSent, Told
<1>3. Running(r) => r \notin queue /\ r \notin cancelled /\ ~Told(r, {"F"})
  BY ServerParts DEF Running, PoolInv, RunTold, RunningTold
<1>4. r \in queue \cup cancelled => ~Told(r, {"S", "F"})
  BY ServerParts DEF WaitUntold
<1>5. cancelled \cap queue = {} /\ Somewhere(r)
  BY Zenon, ServerParts DEF CancelledApart, AllSomewhere
<1>6. QED
  BY <1>2, <1>3, <1>4, <1>5 DEF Somewhere

-----------------------------------------------------------------------------
(* The facts about finite sets come from the library.                      *)
INSTANCE FiniteSetTheorems

LEMMA FiniteImageHolds == FiniteImage
<1> SUFFICES ASSUME NEW S, NEW f, IsFiniteSet(S)
             PROVE  IsFiniteSet({f[x] : x \in S}) /\ Cardinality({f[x] : x \in S}) <= Cardinality(S)
  BY Zenon DEF FiniteImage
<1> DEFINE g == [x \in S |-> f[x]]
<1>1. g \in Surjection(S, {f[x] : x \in S})
  BY Zenon DEF Surjection
<1>2. QED
  BY Zenon, <1>1, FS_Surjection

LEMMA FiniteSetFactsHold == FiniteSetFacts
<1>1. FiniteEmpty /\ FiniteCount /\ FiniteAdd
  BY FS_EmptySet, FS_CardinalityType, FS_AddElement DEF FiniteEmpty, FiniteCount, FiniteAdd
<1>2. FiniteSubset
  BY FS_Subset DEF FiniteSubset
<1>3. QED
  BY <1>1, <1>2, FiniteImageHolds DEF FiniteSetFacts

LEMMA TypeInvAlways == Spec => []TypeInv
<1>1. Init => TypeInv
  BY InitTypeInv, FiniteSetFactsHold
<1>2. TypeInv /\ [Next]_vars => TypeInv'
  BY TypeStep
<1>3. QED
  BY <1>1, <1>2, PTL DEF Spec

(* Every variable of the server keeps its type; in particular the limit is *)
(* always positive and the self-pipe is never read when it is empty.       *)
THEOREM TypeCorrect == Spec => []TypeOK
<1>1. TypeInv => TypeOK
  BY DEF TypeInv
<1>2. QED
  BY <1>1, TypeInvAlways, PTL

(* The list of processes is exactly the set of children the kernel knows:  *)
(* handle_child_events finds every child it reaps, and kill_processes only *)
(* signals pids that are children (arbitrary clients, pids and limits).    *)
THEOREM ChildrenAlwaysKnown == Spec => []ChildrenKnown
<1>1. Init => ChildrenKnown
  BY DEF Init, ChildrenKnown
<1>2. QED
  BY <1>1, ChildrenStep, TypeInvAlways, PTL DEF Spec

(* No ended prover is ever forgotten: until it is reaped, SIGCHLD is       *)
(* pending, a byte is in the self-pipe, or the reaping loop is running,    *)
(* although signals merge, the pipe may be full and one byte is read per   *)
(* turn (sigchld_handle, handle_child_events).                             *)
THEOREM NoChildForgotten == Spec => []SelfPipeSound
<1>1. Init => SelfPipeSound
  BY DEF Init, SelfPipeSound, Zombies, Endings
<1>2. QED
  BY <1>1, SelfPipeStep, ChildrenAlwaysKnown, TypeInvAlways, PTL DEF Spec

(* The loop never sleeps in poll() while a request is queued and a slot is *)
(* free (schedule_new_jobs on every turn of main).                         *)
THEOREM NeverIdle == Spec => []NoIdleSlot
<1>1. Init => NoIdleSlot
  BY DEF Init, NoIdleSlot
<1>2. TypeInv /\ NoIdleSlot /\ [Next]_vars => NoIdleSlot'
  BY NoIdleSlotStep
<1>3. QED
  BY <1>1, <1>2, TypeInvAlways, PTL DEF Spec

LEMMA PoolInvAlways == Spec => []PoolInv
<1>1. Init => PoolInv
  BY DEF Init, PoolInv
<1>2. QED
  BY <1>1, PoolInvStep, TypeInvAlways, PTL DEF Spec

(* Seen through its requests the server is a JobPool, for any number of    *)
(* clients, descriptors and pids: each request starts at most once, never  *)
(* after an interrupt took it from the queue, and only below the limit;    *)
(* reaping ends exactly one job.                                           *)
THEOREM ImplementsJobPool == Spec => RefinesJobPool
<1>1. Init => Pool!PoolInit
  BY SMTT(60), LimitsAssumption DEF Init, Pool!PoolInit
<1>2. TypeInv /\ PoolInv /\ [Next]_vars => [Pool!PoolNext]_(Pool!poolVars)
  BY PoolStep
<1>3. QED
  BY <1>1, <1>2, PoolInvAlways, TypeInvAlways, PTL DEF Spec, RefinesJobPool, Pool!PoolSpec

LEMMA LinkInvAlways == Spec => []LinkInv
<1>1. Init => LinkInv
  BY Zenon DEF Init, LinkInv
<1>2. QED
  BY <1>1, LinkInvStep, PoolInvAlways, TypeInvAlways, PTL DEF Spec

(* queue_write, write_to_client and close_client keep the POLLOUT flag and *)
(* the write buffer together: no answer is left in the buffer without the  *)
(* flag, and has_write_data holds when prepare_write is called.            *)
THEOREM PolloutExact == Spec => []PolloutIffPending
<1>1. Init => PolloutInv
  BY Zenon, PolloutInit
<1>2. PolloutInv => PolloutIffPending
  BY DEF PolloutInv
<1>3. QED
  BY <1>1, <1>2, PolloutInvStep, LinkInvAlways, PoolInvAlways, TypeInvAlways, PTL DEF Spec

LEMMA AnswersAlways == Spec => []AnswerInv
<1>1. Init => AnswerInv
  BY AnswersInit
<1>2. TypeInv /\ PoolInv /\ LinkInv /\ AnswerInv /\ [Next]_vars => AnswerInv'
  BY AnswersStep
<1>3. QED
  BY <1>1, <1>2, LinkInvAlways, PoolInvAlways, TypeInvAlways, PTL DEF Spec

(* In what a client is told of its own requests every start and every end  *)
(* comes once, and the end after the start.                                *)
THEOREM AnswersInOrder == Spec => []StartedThenFinished
  BY AnswersAlways, PTL DEF AnswerInv

(* Only the answers to a client that is gone can reach another one, which  *)
(* accept(2) gave the same descriptor.                                     *)
THEOREM StrayAfterCloseOnly == Spec => []StrayOnlyAfterClose
  BY AnswersAlways, PTL DEF AnswerInv

(* While its sender is connected a request is in exactly one place: in the *)
(* queue, running, finished and reported to the sender, or interrupted     *)
(* before it ran.                                                          *)
THEOREM NoRequestLost == Spec => []NothingLost
<1>1. ServerInv => NothingLost
  BY Zenon, OnePlace DEF NothingLost
<1>2. QED
  BY <1>1, AnswersAlways, LinkInvAlways, PoolInvAlways, TypeInvAlways, PTL DEF ServerInv
=============================================================================

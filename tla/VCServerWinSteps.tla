-------------------------- MODULE VCServerWinSteps ---------------------------
(***************************************************************************)
(* What the steps of the server on Windows keep, for every number of       *)
(* clients and pipe instances: what becomes of requests, processes and     *)
(* answers, and that every variable keeps its type.  VCServerWinProofs     *)
(* rests on it.                                                            *)
(***************************************************************************)
EXTENDS VCServerWin, FiniteFacts, TLAPS

(* A packet of one of these kinds with key k is in s; and at most one that *)
(* reports an ended write.                                                 *)
In(s, kinds, k) == \E i \in 1..Len(s) : s[i].kind \in kinds /\ s[i].key = k
One(s, k) ==
  \A i, j \in 1..Len(s) :
    ((s[i].kind = "written" /\ s[i].key = k) /\ (s[j].kind = "written" /\ s[j].key = k)) => i = j

(* The keys given out so far, and the packets that carry one of them.      *)
Keys == 1..(gen_key - 1)
Good(s, g) == s \in Seq(Packet) /\ \A i \in 1..Len(s) : s[i].key \in 1..(g - 1)

LoopType == pc \in {"schedule", "wait"} /\ parallel \in Nat \ {0}

KeyType ==
  /\ gen_key \in Nat \ {0} /\ server_key \in [Instances -> Keys]
  /\ caller \in [Instances -> Conns \cup {NoConn}]
  /\ ckey \in [Conns -> Keys \cup {0}] /\ clients \subseteq Conns
  /\ link \in [Conns -> {"none", "waiting", "accepted", "freed"}]

JobType ==
  /\ queue \subseteq Request /\ processes \subseteq Proc
  /\ alive \subseteq Keys

BufType ==
  /\ stream \in [Conns -> Seq(Answer)] /\ written \in [Conns -> Nat]
  /\ is_writing \subseteq Conns /\ wpend \in [Conns -> Nat]

ClientType ==
  /\ rpend \subseteq Conns /\ sock \in [Conns -> Seq(Line)] /\ open \subseteq Conns
  /\ nrun \in [Conns -> Nat] /\ nctl \in [Conns -> Nat]

SeenType == seen \subseteq Request

TypeInv ==
  LoopType /\ KeyType /\ JobType /\ BufType /\ ClientType /\ SeenType /\ Good(port, gen_key)

(* A key belongs to one pipe instance, or to the client that came through  *)
(* it; a request carries the key of its sender.                            *)
InstanceKeys   == \A i, j \in Instances : server_key[i] = server_key[j] => i = j
KeyIfLinked    == \A c \in Conns : link[c] = "none" <=> ckey[c] = 0
ClientKeys     == \A c, d \in Conns : ckey[c] = ckey[d] /\ ckey[c] # 0 => c = d
CallersWait    == \A i \in Instances : caller[i] # NoConn =>
                    ckey[caller[i]] = server_key[i] /\ link[caller[i]] = "waiting"
KeyOfCaller    == \A i \in Instances, c \in Conns : ckey[c] = server_key[i] => caller[i] = c
ClientsLinked  == clients = {c \in Conns : link[c] = "accepted"}
ConnectPending == \A i \in Instances : In(port, {"connect"}, server_key[i]) => caller[i] # NoConn
ReadsLinked    == \A c \in rpend : link[c] \in {"accepted", "freed"}
SendersKeys    == \A r \in seen : r.key = ckey[r.owner] /\ r.key # 0

KeysInv ==
  /\ InstanceKeys /\ KeyIfLinked /\ ClientKeys /\ CallersWait /\ KeyOfCaller
  /\ ClientsLinked /\ ConnectPending /\ ReadsLinked /\ SendersKeys

(* Before a client is accepted nothing was written to it, and the packets  *)
(* of its writes carry its key.  There is one write at a time.             *)
WriteInv ==
  /\ \A c \in Conns : link[c] \in {"none", "waiting"} => wpend[c] = 0 /\ c \notin is_writing
  /\ \A i \in Instances : /\ ~In(port, {"written"}, server_key[i])
                           /\ ~In(port, {"unwritten"}, server_key[i])
  /\ \A c \in clients \cap open :
       /\ c \in is_writing <=> wpend[c] > 0 \/ In(port, {"written"}, ckey[c])
       /\ wpend[c] <= 1 /\ (wpend[c] > 0 => ~In(port, {"written"}, ckey[c]))
       /\ ~In(port, {"unwritten"}, ckey[c]) /\ One(port, ckey[c])

-----------------------------------------------------------------------------
(* Sequences, and the packet a turn is about.                              *)

LEMMA TailFacts ==
  ASSUME NEW S, NEW s \in Seq(S), s # <<>>
  PROVE  /\ Head(s) \in S /\ Tail(s) \in Seq(S) /\ Head(s) = s[1]
         /\ Len(s) \in Nat \ {0} /\ Len(Tail(s)) = Len(s) - 1
         /\ \A i \in 1..Len(Tail(s)) : Tail(s)[i] = s[i + 1]
OBVIOUS

LEMMA AppendFacts ==
  ASSUME NEW S, NEW s \in Seq(S), NEW p \in S
  PROVE  /\ Append(s, p) \in Seq(S) /\ Len(s) \in Nat /\ Len(Append(s, p)) = Len(s) + 1
         /\ Append(s, p)[Len(s) + 1] = p
         /\ \A i \in 1..Len(s) : Append(s, p)[i] = s[i]
OBVIOUS

LEMMA GoodTail ==
  ASSUME NEW s, NEW g \in Nat \ {0}, Good(s, g), s # <<>>
  PROVE  Good(Tail(s), g) /\ Head(s) \in Packet /\ Head(s).key \in 1..(g - 1)
<1>1. /\ Head(s) \in Packet /\ Tail(s) \in Seq(Packet) /\ Head(s) = s[1]
      /\ Len(s) \in Nat \ {0} /\ Len(Tail(s)) = Len(s) - 1
      /\ \A i \in 1..Len(Tail(s)) : Tail(s)[i] = s[i + 1]
  BY TailFacts DEF Good
<1>2. \A i \in 1..Len(Tail(s)) : i + 1 \in 1..Len(s)
  BY <1>1
<1>3. 1 \in 1..Len(s)
  BY <1>1
<1>4. QED
  BY <1>1, <1>2, <1>3 DEF Good

LEMMA ReadPacket ==
  ASSUME NEW p \in Packet, p.kind = "read"
  PROVE  p.line \in Line /\ p.line.arg \in Nat
<1>1. p \in [kind : {"read"}, key : Nat, line : Line]
  BY DEF Packet, Notices
<1>2. p.line \in Line
  BY <1>1
<1>3. \A l \in Line : l.arg \in Nat
  BY DEF Line
<1>4. QED
  BY <1>2, <1>3

LEMMA DoReadType ==
  ASSUME ClientType, NEW c \in Conns, DoRead(c)
  PROVE  rpend' \subseteq Conns
BY DEF ClientType, DoRead

(* The packet a turn is about.                                             *)
LEMMA PacketTaken ==
  ASSUME TypeInv, NEW K, Packets(K)
  PROVE  /\ port # <<>> /\ port \in Seq(Packet) /\ Head(port) \in Packet /\ Head(port).key \in Keys
         /\ Head(port).key \in Nat \ {0} /\ Head(port).kind \in K /\ Good(Tail(port), gen_key)
<1>1. port # <<>> /\ Head(port).kind \in K /\ gen_key \in Nat \ {0} /\ Good(port, gen_key)
  BY DEF Packets, TypeInv, KeyType
<1>2. Good(Tail(port), gen_key) /\ Head(port) \in Packet /\ Head(port).key \in 1..(gen_key - 1)
  BY <1>1, GoodTail
<1>3. QED
  BY <1>1, <1>2 DEF Good, Keys

LEMMA HandleRunFrame ==
  ASSUME TypeInv, HandleRun
  PROVE  /\ LoopType' /\ ClientType' /\ Good(Tail(port), gen_key)
         /\ UNCHANGED <<server_key, caller, ckey, clients, link>>
<1>1. Packets({"read"}) /\ pc' = "schedule" /\ \E c \in ByKey(Head(port).key) : DoRead(c)
  BY DEF HandleRun, Received
<1>2. \E c \in Conns : DoRead(c)
  BY <1>1 DEF ByKey, TypeInv, KeyType
<1>3. rpend' \subseteq Conns
  BY <1>2, DoReadType DEF TypeInv
<1>4. LoopType' /\ ClientType'
  BY <1>1, <1>3 DEF TypeInv, HandleRun, LoopType, ClientType, clientVars
<1>5. UNCHANGED <<server_key, caller, ckey, clients, link>>
  BY Zenon DEF HandleRun
<1>6. QED
  BY <1>1, <1>4, <1>5, PacketTaken

-----------------------------------------------------------------------------
Told(r, kinds) ==
  \E c \in Conns : \E i \in 1..Len(stream[c]) :
    stream[c][i].req = r /\ stream[c][i].kind \in kinds

(* A request is queued or running, not both, and one process runs it.      *)
(* Nobody was told of one that waits, nor of the end of one that runs.     *)
JobsInv ==
  /\ \A r \in seen : r.rid <= Cardinality(seen)
  /\ queue \subseteq seen \ refused /\ refused \subseteq seen
  /\ \A p \in processes : p.req \in seen \ refused /\ p.req \notin queue
  /\ \A p, q \in processes : p.req = q.req => p = q
  /\ \A c \in Conns : \A i \in 1..Len(stream[c]) : stream[c][i].req \in seen
  /\ \A r \in queue : ~Told(r, {"S", "F"})
  /\ \A p \in processes : ~Told(p.req, {"F"})

-----------------------------------------------------------------------------
(* What the steps that concern jobs do to queue, processes and answers.    *)
LEMMA ScheduleNewJobDoes ==
  ASSUME ScheduleNewJob
  PROVE  \E r \in queue :
           /\ SlotFree /\ queue' = queue \ {r} /\ UNCHANGED <<seen, refused, parallel>>
           /\ \/ UNCHANGED <<processes, stream>>
              \/ /\ processes' = processes \cup {[key |-> gen_key, req |-> r]}
                 /\ \E c \in ByKey(r.key) : SendMsg(c, "S", r)
              \/ UNCHANGED processes /\ \E c \in ByKey(r.key) : SendMsg(c, "F", r)
<1>1. PICK r \in queue : queue' = queue \ {r} /\ RunRequest(r, port)
  BY DEF ScheduleNewJob
<1>2. \/ UNCHANGED <<processes, stream>>
      \/ /\ processes' = processes \cup {[key |-> gen_key, req |-> r]}
         /\ \E c \in ByKey(r.key) : SendMsg(c, "S", r)
      \/ UNCHANGED processes /\ \E c \in ByKey(r.key) : SendMsg(c, "F", r)
  BY Zenon, <1>1 DEF RunRequest, Spawns, SpawnFails, bufVars
<1>3. QED
  BY <1>1, <1>2 DEF ScheduleNewJob, ghostVars, loopVars

LEMMA HandleRunDoes ==
  ASSUME TypeInv, Cardinality(seen) \in Nat, HandleRun
  PROVE  \E r \in Request, c \in clients :
           /\ r.rid = Cardinality(seen) + 1 /\ r.owner = c /\ c \in Conns
           /\ seen' = seen \cup {r} /\ UNCHANGED parallel
           /\ \/ queue' = queue \cup {r} /\ UNCHANGED <<processes, stream, refused>>
              \/ /\ SlotFree /\ UNCHANGED <<queue, refused>>
                 /\ processes' = processes \cup {[key |-> gen_key, req |-> r]}
                 /\ SendMsg(c, "S", r)
              \/ UNCHANGED <<queue, processes>> /\ refused' = refused \cup {r} /\ SendMsg(c, "F", r)
<1> DEFINE R(c) == [rid |-> Cardinality(seen) + 1, id |-> Head(port).line.arg,
                    key |-> Head(port).key, owner |-> c]
<1>1. PICK c \in ByKey(Head(port).key) :
        /\ seen' = seen \cup {R(c)}
        /\ \/ /\ ~SlotFree /\ queue' = queue \cup {R(c)} /\ port' = Tail(port)
              /\ UNCHANGED <<gen_key, processes, alive, bufVars, refused>>
           \/ /\ SlotFree /\ UNCHANGED queue
              /\ \/ Spawns(c, R(c), Tail(port)) /\ UNCHANGED refused
                 \/ SpawnFails(c, R(c), Tail(port)) /\ refused' = refused \cup {R(c)}
  BY DEF HandleRun
<1>2. /\ Head(port) \in Packet /\ Head(port).key \in Nat \ {0} /\ Head(port).kind = "read"
  BY PacketTaken DEF HandleRun, Received
<1>3. Head(port).line.arg \in Nat
  BY <1>2, ReadPacket
<1>4. c \in Conns /\ c \in clients
  BY DEF ByKey, TypeInv, KeyType
<1> DEFINE r == R(c)
<1>6. r \in Request /\ r.rid = Cardinality(seen) + 1 /\ r.owner = c
  BY <1>2, <1>3, <1>4 DEF Request
<1> HIDE DEF r
<1>7. /\ seen' = seen \cup {r}
      /\ \/ /\ ~SlotFree /\ queue' = queue \cup {r} /\ port' = Tail(port)
            /\ UNCHANGED <<gen_key, processes, alive, bufVars, refused>>
         \/ /\ SlotFree /\ UNCHANGED queue
            /\ \/ Spawns(c, r, Tail(port)) /\ UNCHANGED refused
               \/ SpawnFails(c, r, Tail(port)) /\ refused' = refused \cup {r}
  BY Zenon, <1>1 DEF r
<1>8. \/ queue' = queue \cup {r} /\ UNCHANGED <<processes, stream, refused>>
      \/ /\ SlotFree /\ UNCHANGED <<queue, refused>>
         /\ processes' = processes \cup {[key |-> gen_key, req |-> r]}
         /\ SendMsg(c, "S", r)
      \/ UNCHANGED <<queue, processes>> /\ refused' = refused \cup {r} /\ SendMsg(c, "F", r)
  BY <1>7 DEF Spawns, SpawnFails, bufVars
<1>9. QED
  BY ZenonT(60), <1>4, <1>6, <1>7, <1>8 DEF HandleRun

LEMMA HandleChildEventDoes ==
  ASSUME HandleChildEvent
  PROVE  \E p \in processes : /\ processes' = processes \ {p} /\ UNCHANGED <<queue, seen, refused, parallel>>
                              /\ \E c \in ByKey(p.req.key) : SendMsg(c, "F", p.req)
BY Zenon DEF HandleChildEvent, ProcByKey, ghostVars

LEMMA OtherStepsJobs ==
  ASSUME [Next]_vars
  PROVE  \/ ScheduleNewJob \/ HandleRun \/ HandleInterrupt \/ HandleChildEvent
         \/ UNCHANGED <<queue, processes, stream, seen, refused>>
BY ZenonT(60) DEF Next, ServerStep, Kernel, Environment, ScheduleDone, AcceptClient, IgnorePacket, ReadPastArray,
       HandleParallel, ReadMore, CloseClient, HaveWritten, ReadEnds, WriteEnds, ChildEnds, MemoryLimit,
       Connect, SendRun, SendControl, Close, vars, jobVars, bufVars, ghostVars

(* Requests and processes are finitely many, hence can be counted.         *)
FiniteInv == FiniteSetFacts /\ IsFiniteSet(seen) /\ IsFiniteSet(processes)

LEMMA FiniteStep ==
  ASSUME TypeInv, KeysInv, FiniteInv, [Next]_vars
  PROVE  FiniteInv'
<1>1. Cardinality(seen) \in Nat
  BY DEF FiniteInv, FiniteSetFacts, FiniteCount
<1>2. \/ \E r : seen' = seen \cup {r}
      \/ seen' = seen
  BY ZenonT(60), <1>1, ScheduleNewJobDoes, HandleRunDoes, HandleChildEventDoes, OtherStepsJobs
  DEF HandleInterrupt
<1>3. \/ \E p : processes' = processes \cup {p} \/ processes' = processes \ {p}
      \/ processes' = processes
  BY ZenonT(60), <1>1, ScheduleNewJobDoes, HandleRunDoes, HandleChildEventDoes, OtherStepsJobs
  DEF HandleInterrupt
<1>4. IsFiniteSet(seen')
  BY <1>2 DEF FiniteInv, FiniteSetFacts, FiniteAdd
<1>5. IsFiniteSet(processes')
  BY <1>3 DEF FiniteInv, FiniteSetFacts, FiniteAdd, FiniteSubset
<1>6. QED
  BY <1>4, <1>5 DEF FiniteInv

(* NoIdleSlot is kept: ScheduleDone leaves the scheduling loop only when   *)
(* it holds, and until the loop is entered again no step changes queue,    *)
(* processes or parallel.                                                  *)
LEMMA NoIdleSlotStep ==
  ASSUME TypeInv, FiniteInv, NoIdleSlot, [Next]_vars
  PROVE  NoIdleSlot'
<1> SUFFICES ASSUME pc' = "wait"
             PROVE  (queue = {} \/ NumRunning >= parallel)'
  BY DEF NoIdleSlot
<1>1. CASE ScheduleDone
  <2>1. Cardinality(processes) \in Nat /\ parallel \in Nat
    BY DEF FiniteInv, FiniteSetFacts, FiniteCount, TypeInv, LoopType
  <2>2. QED
    BY <1>1, <2>1 DEF ScheduleDone, SlotFree, NumRunning, jobVars
<1>2. CASE pc = "wait" /\ UNCHANGED <<queue, processes, parallel>>
  BY <1>2 DEF NoIdleSlot, NumRunning
<1>3. CASE Kernel \/ Environment \/ UNCHANGED vars
  BY ZenonT(60), <1>2, <1>3
  DEF Kernel, Environment, ReadEnds, WriteEnds, ChildEnds, MemoryLimit, Connect, SendRun,
      SendControl, Close, vars, loopVars, jobVars
<1>4. CASE ReadPastArray
  BY <1>2, <1>4 DEF ReadPastArray, jobVars
<1>5. ServerStep => ScheduleDone \/ ReadPastArray
  BY Zenon DEF ServerStep, ScheduleNewJob, AcceptClient, IgnorePacket, HandleRun, HandleInterrupt,
         HandleParallel, ReadMore, CloseClient, HaveWritten, HandleChildEvent, Received, TurnDone,
         loopVars
<1>6. QED
  BY <1>1, <1>3, <1>4, <1>5 DEF Next

-----------------------------------------------------------------------------
(* Jobs and answers.                                                       *)

(* One more answer in the stream of client c, the others as before.        *)
LEMMA StreamGrows ==
  ASSUME TypeInv, NEW c \in Conns, NEW kind \in {"S", "F"}, NEW r \in Request, SendMsg(c, kind, r)
  PROVE  /\ \A d \in Conns : \A i \in 1..Len(stream[d]) :
              i \in 1..Len(stream'[d]) /\ stream'[d][i] = stream[d][i]
         /\ \A d \in Conns : \A i \in 1..Len(stream'[d]) :
              \/ i \in 1..Len(stream[d]) /\ stream'[d][i] = stream[d][i]
              \/ /\ d = c /\ i = Len(stream[d]) + 1 /\ Len(stream[d]) \in Nat
                 /\ stream'[d][i].req = r /\ stream'[d][i].kind = kind
         /\ \E i \in 1..Len(stream'[c]) : stream'[c][i].req = r /\ stream'[c][i].kind = kind
<1> DEFINE a == [kind |-> kind, req |-> r]
           s == stream[c]
           n == Len(s)
<1>1. stream \in [Conns -> Seq(Answer)] /\ stream' = [stream EXCEPT ![c] = Append(s, a)]
  BY DEF TypeInv, BufType, SendMsg
<1>2. a \in Answer /\ a.kind = kind /\ a.req = r
  BY DEF Answer
<1> HIDE DEF a
<1>3. /\ n \in Nat /\ Len(Append(s, a)) = n + 1 /\ Append(s, a)[n + 1] = a
      /\ \A i \in 1..n : Append(s, a)[i] = s[i]
  BY <1>1, <1>2, AppendFacts
<1>4. stream'[c] = Append(s, a) /\ \A d \in Conns : d # c => stream'[d] = stream[d]
  BY <1>1
<1>5. /\ n + 1 \in 1..n + 1 /\ \A i \in 1..n : i \in 1..n + 1
      /\ \A i \in 1..n + 1 : i \in 1..n \/ i = n + 1
  BY <1>3
<1>6. ASSUME NEW d \in Conns, NEW i \in 1..Len(stream[d])
      PROVE  i \in 1..Len(stream'[d]) /\ stream'[d][i] = stream[d][i]
  BY SMTT(60), <1>3, <1>4, <1>5
<1>7. ASSUME NEW d \in Conns, NEW i \in 1..Len(stream'[d])
      PROVE  \/ i \in 1..Len(stream[d]) /\ stream'[d][i] = stream[d][i]
             \/ /\ d = c /\ i = Len(stream[d]) + 1 /\ Len(stream[d]) \in Nat
                /\ stream'[d][i].req = r /\ stream'[d][i].kind = kind
  BY SMTT(60), <1>2, <1>3, <1>4, <1>5
<1>8. QED
  BY SMTT(60), <1>2, <1>3, <1>4, <1>5, <1>6, <1>7

LEMMA ToldMore ==
  ASSUME TypeInv, NEW c \in Conns, NEW kind \in {"S", "F"}, NEW r \in Request, SendMsg(c, kind, r),
         NEW q, NEW K
  PROVE  Told(q, K)' => Told(q, K) \/ (q = r /\ kind \in K)
<1> SUFFICES ASSUME NEW d \in Conns, NEW i \in 1..Len(stream'[d]),
                    stream'[d][i].req = q, stream'[d][i].kind \in K
             PROVE  Told(q, K) \/ (q = r /\ kind \in K)
  BY DEF Told
<1>1. \/ i \in 1..Len(stream[d]) /\ stream'[d][i] = stream[d][i]
      \/ stream'[d][i].req = r /\ stream'[d][i].kind = kind
  BY StreamGrows
<1>2. QED
  BY <1>1 DEF Told

LEMMA SendKeepsOnce ==
  ASSUME TypeInv, ReportedOnce, NEW c \in Conns, NEW kind \in {"S", "F"}, NEW r \in Request,
         SendMsg(c, kind, r),
         ~Told(r, {"S", "F"}) \/ (kind = "F" /\ ~Told(r, {"F"}))
  PROVE  ReportedOnce'
<1> SUFFICES ASSUME NEW d \in Conns, NEW i \in 1..Len(stream'[d]), NEW j \in 1..Len(stream'[d]),
                    i < j, stream'[d][i].req = stream'[d][j].req
             PROVE  stream'[d][i].kind = "S" /\ stream'[d][j].kind = "F"
  BY Zenon DEF ReportedOnce
<1>1. \A h \in 1..Len(stream'[d]) :
        \/ h \in 1..Len(stream[d]) /\ stream'[d][h] = stream[d][h]
        \/ /\ d = c /\ h = Len(stream[d]) + 1 /\ Len(stream[d]) \in Nat
           /\ stream'[d][h].req = r /\ stream'[d][h].kind = kind
  BY SMTT(60), StreamGrows
<1>2. stream[d] \in Seq(Answer) /\ \A h \in 1..Len(stream[d]) : stream[d][h] \in Answer
  BY DEF TypeInv, BufType
<1>3. CASE j \in 1..Len(stream[d]) /\ stream'[d][j] = stream[d][j]
  <2>1. i \in 1..Len(stream[d]) /\ stream'[d][i] = stream[d][i]
    BY <1>1, <1>2, <1>3
  <2>2. QED
    BY <1>3, <2>1 DEF ReportedOnce
<1>4. CASE j = Len(stream[d]) + 1 /\ stream'[d][j].req = r /\ stream'[d][j].kind = kind
  <2>1. i \in 1..Len(stream[d]) /\ stream'[d][i] = stream[d][i]
    BY <1>1, <1>2, <1>4
  <2>2. stream[d][i].req = r /\ stream[d][i].kind \in {"S", "F"}
    BY Zenon, <1>2, <1>4, <2>1 DEF Answer
  <2>3. Told(r, {"S", "F"}) /\ (stream[d][i].kind = "F" => Told(r, {"F"}))
    BY Zenon, <2>1, <2>2 DEF Told
  <2>4. QED
    BY SMTT(60), <1>4, <2>1, <2>2, <2>3
<1>5. QED
  BY <1>1, <1>3, <1>4

LEMMA SendToSender ==
  ASSUME TypeInv, AnswersToSender, NEW c \in Conns, NEW kind \in {"S", "F"}, NEW r \in Request,
         SendMsg(c, kind, r), r.owner = c
  PROVE  AnswersToSender'
BY SMTT(60), StreamGrows DEF AnswersToSender

LEMMA SenderByKey ==
  ASSUME TypeInv, KeysInv, NEW r \in seen, NEW c \in ByKey(r.key)
  PROVE  c \in Conns /\ r \in Request /\ r.owner = c
BY DEF TypeInv, SeenType, KeyType, KeysInv, ClientKeys, SendersKeys, ByKey, Request

(* An arrival number is new.                                               *)
LEMMA NewRequest ==
  ASSUME TypeInv, FiniteInv, JobsInv, NEW r, r.rid = Cardinality(seen) + 1
  PROVE  r \notin seen
<1>1. Cardinality(seen) \in Nat
  BY DEF FiniteInv, FiniteSetFacts, FiniteCount
<1>2. \A q \in seen : q.rid \in Nat /\ q.rid <= Cardinality(seen)
  BY DEF TypeInv, SeenType, JobsInv, Request
<1>3. QED
  BY <1>1, <1>2

AnswerInv == JobsInv /\ ReportedOnce /\ AnswersToSender

LEMMA QuietAnswers ==
  ASSUME AnswerInv, UNCHANGED <<processes, stream, seen, refused>>, queue' \subseteq queue
  PROVE  AnswerInv'
<1>1. ReportedOnce' /\ AnswersToSender'
  BY DEF AnswerInv, ReportedOnce, AnswersToSender
<1>2. \A r, K : Told(r, K)' <=> Told(r, K)
  BY DEF Told
<1>3. JobsInv'
  BY <1>2 DEF AnswerInv, JobsInv
<1>4. QED
  BY <1>1, <1>3 DEF AnswerInv

(* A request starts, that waited or has just come.                         *)
LEMMA StartAnswers ==
  ASSUME TypeInv, AnswerInv, NEW r \in Request, NEW k, NEW c \in Conns,
         SendMsg(c, "S", r), r.owner = c, r \notin queue', queue' \subseteq queue,
         processes' = processes \cup {[key |-> k, req |-> r]},
         UNCHANGED refused, seen \subseteq seen', r \in seen', r \notin refused,
         \A q \in seen' : q.rid <= Cardinality(seen'),
         ~Told(r, {"S", "F"}), \A p \in processes : p.req # r
  PROVE  AnswerInv'
<1>0. JobsInv /\ ReportedOnce /\ AnswersToSender
  BY DEF AnswerInv
<1>1. ReportedOnce' /\ AnswersToSender'
  BY SMTT(60), <1>0, SendKeepsOnce, SendToSender
<1>2. \A q, K : Told(q, K)' => Told(q, K) \/ (q = r /\ "S" \in K)
  BY SMTT(60), ToldMore
<1>3. \A d \in Conns : \A i \in 1..Len(stream'[d]) : stream'[d][i].req \in seen'
  BY <1>0, StreamGrows DEF JobsInv
<1> DEFINE n == [key |-> k, req |-> r]
<1>4. n.req = r /\ processes' = processes \cup {n}
  OBVIOUS
<1> HIDE DEF n
<1>5. \A p \in processes' : p.req \in seen' \ refused' /\ p.req \notin queue'
  BY <1>0, <1>4 DEF JobsInv
<1>6. \A p, q \in processes' : p.req = q.req => p = q
  BY <1>0, <1>4 DEF JobsInv
<1>7. \A q \in queue' : ~Told(q, {"S", "F"})'
  BY <1>0, <1>2 DEF JobsInv
<1>8. ~Told(r, {"F"})
  BY DEF Told
<1>9. \A p \in processes' : ~Told(p.req, {"F"})'
  BY SMTT(60), <1>0, <1>2, <1>4, <1>8 DEF JobsInv
<1>10. queue' \subseteq seen' \ refused' /\ refused' \subseteq seen'
  BY <1>0 DEF JobsInv
<1>11. JobsInv'
  BY SMTT(60), <1>3, <1>5, <1>6, <1>7, <1>9, <1>10 DEF JobsInv
<1>12. QED
  BY <1>1, <1>11 DEF AnswerInv

(* A request is answered F: its prover ended, or was never made.           *)
LEMMA EndAnswers ==
  ASSUME TypeInv, AnswerInv, NEW r \in Request, NEW c \in Conns,
         SendMsg(c, "F", r), r.owner = c, r \notin queue', queue' \subseteq queue,
         processes' \subseteq processes, \A p \in processes' : p.req # r,
         seen \subseteq seen', r \in seen', refused' \subseteq refused \cup {r},
         \A q \in seen' : q.rid <= Cardinality(seen'), ~Told(r, {"F"})
  PROVE  AnswerInv'
<1>0. JobsInv /\ ReportedOnce /\ AnswersToSender
  BY DEF AnswerInv
<1>1. ReportedOnce' /\ AnswersToSender'
  BY <1>0, SendKeepsOnce, SendToSender
<1>2. \A q, K : Told(q, K)' => Told(q, K) \/ (q = r /\ "F" \in K)
  BY ToldMore
<1>3. \A d \in Conns : \A i \in 1..Len(stream'[d]) : stream'[d][i].req \in seen'
  BY <1>0, StreamGrows DEF JobsInv
<1>4. \A p \in processes' : p.req \in seen' \ refused' /\ p.req \notin queue'
  BY <1>0 DEF JobsInv
<1>5. \A p, q \in processes' : p.req = q.req => p = q
  BY <1>0 DEF JobsInv
<1>6. \A q \in queue' : ~Told(q, {"S", "F"})'
  BY SMTT(60), <1>0, <1>2 DEF JobsInv
<1>7. \A p \in processes' : ~Told(p.req, {"F"})'
  BY SMTT(60), <1>0, <1>2 DEF JobsInv
<1>8. queue' \subseteq seen' \ refused' /\ refused' \subseteq seen'
  BY <1>0 DEF JobsInv
<1>9. JobsInv'
  BY SMTT(60), <1>3, <1>4, <1>5, <1>6, <1>7, <1>8 DEF JobsInv
<1>10. QED
  BY <1>1, <1>9 DEF AnswerInv

LEMMA ScheduleNewJobAnswers ==
  ASSUME TypeInv, KeysInv, AnswerInv, ScheduleNewJob
  PROVE  AnswerInv'
<1>1. PICK r \in queue :
        /\ queue' = queue \ {r} /\ UNCHANGED <<seen, refused>>
        /\ \/ UNCHANGED <<processes, stream>>
           \/ /\ processes' = processes \cup {[key |-> gen_key, req |-> r]}
              /\ \E c \in ByKey(r.key) : SendMsg(c, "S", r)
           \/ UNCHANGED processes /\ \E c \in ByKey(r.key) : SendMsg(c, "F", r)
  BY ScheduleNewJobDoes
<1>2. /\ r \in seen /\ r \notin refused /\ ~Told(r, {"S", "F"}) /\ \A p \in processes : p.req # r
  BY DEF AnswerInv, JobsInv
<1>3. ~Told(r, {"F"})
  BY SMTT(60), <1>2 DEF Told
<1>4. \A q \in seen' : q.rid <= Cardinality(seen')
  BY <1>1 DEF AnswerInv, JobsInv
<1>5. \A c \in ByKey(r.key) : c \in Conns /\ r \in Request /\ r.owner = c
  BY <1>2, SenderByKey
<1>6. CASE UNCHANGED <<processes, stream>>
  BY SMTT(60), <1>1, <1>6, QuietAnswers
<1>7. ASSUME processes' = processes \cup {[key |-> gen_key, req |-> r]},
             NEW c \in ByKey(r.key), SendMsg(c, "S", r)
      PROVE  AnswerInv'
  BY SMTT(60), <1>1, <1>2, <1>4, <1>5, <1>7, StartAnswers
<1>8. ASSUME UNCHANGED processes, NEW c \in ByKey(r.key), SendMsg(c, "F", r)
      PROVE  AnswerInv'
  BY SMTT(60), <1>1, <1>2, <1>3, <1>4, <1>5, <1>8, EndAnswers
<1>9. QED
  BY SMTT(60), <1>1, <1>6, <1>7, <1>8

LEMMA HandleRunAnswers == ASSUME TypeInv, FiniteInv, AnswerInv, HandleRun PROVE AnswerInv'
<1>0. JobsInv
  BY DEF AnswerInv
<1>1. PICK r \in Request, c \in clients :
        /\ r.rid = Cardinality(seen) + 1 /\ r.owner = c /\ c \in Conns
        /\ seen' = seen \cup {r}
        /\ \/ queue' = queue \cup {r} /\ UNCHANGED <<processes, stream, refused>>
           \/ /\ SlotFree /\ UNCHANGED <<queue, refused>>
              /\ processes' = processes \cup {[key |-> gen_key, req |-> r]}
              /\ SendMsg(c, "S", r)
           \/ UNCHANGED <<queue, processes>> /\ refused' = refused \cup {r} /\ SendMsg(c, "F", r)
  BY SMTT(60), HandleRunDoes DEF FiniteInv, FiniteSetFacts, FiniteCount
<1>2. r \notin seen
  BY SMTT(60), <1>0, <1>1, NewRequest
<1>3. r \notin queue /\ r \notin refused /\ \A p \in processes : p.req # r
  BY SMTT(60), <1>0, <1>2 DEF JobsInv
<1>4. ~Told(r, {"S", "F"}) /\ ~Told(r, {"F"})
  BY SMTT(60), <1>0, <1>2 DEF JobsInv, Told
<1>5. \A q \in seen' : q.rid <= Cardinality(seen')
  <2>1. Cardinality(seen') = Cardinality(seen) + 1 /\ Cardinality(seen) \in Nat
    BY SMTT(60), <1>1, <1>2 DEF FiniteInv, FiniteSetFacts, FiniteAdd, FiniteCount
  <2>2. \A q \in seen : q.rid \in Nat /\ q.rid <= Cardinality(seen)
    BY <1>0 DEF TypeInv, SeenType, JobsInv, Request
  <2>3. QED
    BY SMTT(60), <1>1, <2>1, <2>2
<1>6. CASE queue' = queue \cup {r} /\ UNCHANGED <<processes, stream, refused>>
  <2>1. ReportedOnce' /\ AnswersToSender'
    BY <1>6 DEF AnswerInv, ReportedOnce, AnswersToSender
  <2>2. \A q, K : Told(q, K)' <=> Told(q, K)
    BY SMTT(60), <1>6 DEF Told
  <2>3. \A p \in processes' : p.req \in seen' \ refused' /\ p.req \notin queue'
    BY SMTT(60), <1>0, <1>1, <1>3, <1>6 DEF JobsInv
  <2>4. queue' \subseteq seen' \ refused' /\ refused' \subseteq seen'
    BY SMTT(60), <1>0, <1>1, <1>3, <1>6 DEF JobsInv
  <2>5. \A q \in queue' : ~Told(q, {"S", "F"})'
    BY SMTT(60), <1>0, <1>4, <1>6, <2>2 DEF JobsInv
  <2>6. \A d \in Conns : \A i \in 1..Len(stream'[d]) : stream'[d][i].req \in seen'
    BY SMTT(60), <1>0, <1>1, <1>6 DEF JobsInv
  <2>7. JobsInv'
    BY SMTT(60), <1>0, <1>5, <1>6, <2>2, <2>3, <2>4, <2>5, <2>6 DEF JobsInv
  <2>8. QED
    BY SMTT(60), <2>1, <2>7 DEF AnswerInv
<1>7. CASE /\ UNCHANGED <<queue, refused>>
           /\ processes' = processes \cup {[key |-> gen_key, req |-> r]}
           /\ SendMsg(c, "S", r)
  BY ZenonT(60), <1>1, <1>3, <1>4, <1>5, <1>7, StartAnswers
<1>8. CASE UNCHANGED <<queue, processes>> /\ refused' = refused \cup {r} /\ SendMsg(c, "F", r)
  BY ZenonT(60), <1>1, <1>3, <1>4, <1>5, <1>8, EndAnswers
<1>9. QED
  BY SMTT(60), <1>1, <1>6, <1>7, <1>8

LEMMA HandleChildEventAnswers ==
  ASSUME TypeInv, KeysInv, AnswerInv, HandleChildEvent
  PROVE  AnswerInv'
<1>1. PICK p \in processes : /\ processes' = processes \ {p} /\ UNCHANGED <<queue, seen, refused>>
                             /\ \E c \in ByKey(p.req.key) : SendMsg(c, "F", p.req)
  BY HandleChildEventDoes
<1> DEFINE r == p.req
<1>2. r \in seen /\ r \notin queue /\ ~Told(r, {"F"}) /\ \A q \in processes' : q.req # r
  BY <1>1 DEF AnswerInv, JobsInv
<1>3. PICK c \in ByKey(r.key) : SendMsg(c, "F", r)
  BY <1>1
<1> HIDE DEF r
<1>4. c \in Conns /\ r \in Request /\ r.owner = c
  BY SMTT(60), <1>2, SenderByKey
<1>5. \A q \in seen' : q.rid <= Cardinality(seen')
  BY <1>1 DEF AnswerInv, JobsInv
<1>6. QED
  BY SMTT(60), <1>1, <1>2, <1>3, <1>4, <1>5, EndAnswers

LEMMA AnswersInit == Init => AnswerInv
BY DEF Init, AnswerInv, JobsInv, ReportedOnce, AnswersToSender, Told

LEMMA AnswersStep ==
  ASSUME TypeInv, KeysInv, FiniteInv, AnswerInv, [Next]_vars
  PROVE  AnswerInv'
<1>1. CASE HandleInterrupt
  BY <1>1, QuietAnswers DEF HandleInterrupt, bufVars
<1>2. CASE UNCHANGED <<queue, processes, stream, seen, refused>>
  BY <1>2, QuietAnswers
<1>3. QED
  BY SMTT(60), <1>1, <1>2, OtherStepsJobs, ScheduleNewJobAnswers, HandleRunAnswers, HandleChildEventAnswers

-----------------------------------------------------------------------------
(* Packets of a port that are taken out or added.                          *)

LEMMA TailIn ==
  ASSUME NEW s \in Seq(Packet), s # <<>>, NEW K, NEW k
  PROVE  /\ In(Tail(s), K, k) => In(s, K, k)
         /\ In(s, K, k) => In(Tail(s), K, k) \/ (Head(s).kind \in K /\ Head(s).key = k)
<1> DEFINE t == Tail(s)
           n == Len(s)
<1>1. n \in Nat \ {0} /\ Len(t) = n - 1 /\ Head(s) = s[1] /\ \A i \in 1..n - 1 : t[i] = s[i + 1]
  BY TailFacts
<1> HIDE DEF t, n
<1>2. ASSUME In(t, K, k) PROVE In(s, K, k)
  BY <1>1, <1>2 DEF In, n
<1>3. ASSUME NEW i \in 1..n, s[i].kind \in K, s[i].key = k
      PROVE  In(t, K, k) \/ (Head(s).kind \in K /\ Head(s).key = k)
  <2>1. CASE i = 1
    BY <1>1, <1>3, <2>1
  <2>2. CASE i # 1
    <3>1. i - 1 \in 1..n - 1 /\ t[i - 1] = s[i]
      BY <1>1, <2>2
    <3>2. QED
      BY <1>1, <1>3, <3>1 DEF In
  <2>3. QED
    BY <2>1, <2>2
<1>4. QED
  BY <1>2, <1>3 DEF In, n, t

LEMMA TailOne ==
  ASSUME NEW s \in Seq(Packet), s # <<>>, NEW k, One(s, k)
  PROVE  /\ One(Tail(s), k)
         /\ Head(s).kind = "written" /\ Head(s).key = k => ~In(Tail(s), {"written"}, k)
<1> DEFINE t == Tail(s)
           n == Len(s)
<1>1. n \in Nat \ {0} /\ Len(t) = n - 1 /\ Head(s) = s[1] /\ \A i \in 1..n - 1 : t[i] = s[i + 1]
  BY TailFacts
<1>2. \A i, j \in 1..n :
        ((s[i].kind = "written" /\ s[i].key = k) /\ (s[j].kind = "written" /\ s[j].key = k)) => i = j
  BY DEF One
<1> HIDE DEF t, n
<1>3. \A i \in 1..n - 1 : i + 1 \in 1..n /\ i + 1 # 1
  BY <1>1
<1>4. One(t, k)
  <2> SUFFICES ASSUME NEW i \in 1..n - 1, NEW j \in 1..n - 1,
                      t[i].kind = "written", t[i].key = k, t[j].kind = "written", t[j].key = k
               PROVE  i = j
    BY <1>1 DEF One
  <2>1. i + 1 = j + 1
    BY Zenon, <1>1, <1>2, <1>3
  <2>2. QED
    BY <2>1
<1>5. ASSUME s[1].kind = "written", s[1].key = k, NEW i \in 1..n - 1, t[i].kind = "written", t[i].key = k
      PROVE  FALSE
  <2>1. 1 \in 1..n /\ i + 1 \in 1..n /\ i + 1 # 1 /\ t[i] = s[i + 1]
    BY <1>1, <1>3
  <2>2. QED
    BY <1>2, <1>5, <2>1
<1>6. QED
  BY <1>1, <1>4, <1>5 DEF In, t

LEMMA AppendIn ==
  ASSUME NEW s \in Seq(Packet), NEW p \in Packet, NEW k
  PROVE  /\ \A K : In(Append(s, p), K, k) <=> In(s, K, k) \/ (p.kind \in K /\ p.key = k)
         /\ One(s, k) /\ (p.kind # "written" \/ p.key # k \/ ~In(s, {"written"}, k)) => One(Append(s, p), k)
<1> DEFINE t == Append(s, p)
           n == Len(s)
<1>1. n \in Nat /\ Len(t) = n + 1 /\ t[n + 1] = p /\ \A i \in 1..n : t[i] = s[i]
  BY AppendFacts
<1> HIDE DEF t
<1>2. /\ \A i \in 1..n : i \in 1..n + 1
      /\ n + 1 \in 1..n + 1 /\ \A i \in 1..n + 1 : i \in 1..n \/ i = n + 1
  BY <1>1
<1> HIDE DEF n
<1>3. ASSUME NEW K PROVE In(t, K, k) <=> In(s, K, k) \/ (p.kind \in K /\ p.key = k)
  BY <1>1, <1>2 DEF In, n
<1>4. ASSUME One(s, k), p.kind # "written" \/ p.key # k \/ ~In(s, {"written"}, k) PROVE One(t, k)
  <2> SUFFICES ASSUME NEW i \in 1..n + 1, NEW j \in 1..n + 1,
                      t[i].kind = "written", t[i].key = k, t[j].kind = "written", t[j].key = k
               PROVE  i = j
    BY <1>1 DEF One
  <2>1. CASE i \in 1..n /\ j \in 1..n
    BY <1>1, <1>4, <2>1 DEF One, n
  <2>2. CASE i = n + 1 \/ j = n + 1
    <3>1. p.kind = "written" /\ p.key = k
      BY <1>1, <2>2
    <3>2. ~In(s, {"written"}, k)
      BY <1>4, <3>1
    <3>3. \A h \in 1..n : ~(t[h].kind = "written" /\ t[h].key = k)
      BY <1>1, <3>2 DEF In, n
    <3>4. QED
      BY <1>2, <3>3
  <2>3. QED
    BY <1>2, <2>1, <2>2
<1>5. QED
  BY <1>3, <1>4 DEF t

(* Post adds one packet, or two.                                           *)
LEMMA PostAppends ==
  ASSUME NEW S, NEW s \in Seq(S), NEW p \in S, NEW q \in S
  PROVE  s \o <<p>> = Append(s, p) /\ s \o <<p, q>> = Append(Append(s, p), q)
OBVIOUS

-----------------------------------------------------------------------------
(* Types.                                                                  *)

LEMMA GoodAppend ==
  ASSUME NEW s, NEW g \in Nat \ {0}, Good(s, g), NEW p \in Packet, p.key \in 1..(g - 1)
  PROVE  Good(Append(s, p), g)
<1>1. /\ Append(s, p) \in Seq(Packet) /\ Len(s) \in Nat /\ Len(Append(s, p)) = Len(s) + 1
      /\ Append(s, p)[Len(s) + 1] = p
      /\ \A i \in 1..Len(s) : Append(s, p)[i] = s[i]
  BY AppendFacts DEF Good
<1>2. \A i \in 1..Len(s) + 1 : i \in 1..Len(s) \/ i = Len(s) + 1
  BY <1>1
<1>3. QED
  BY <1>1, <1>2 DEF Good

LEMMA GoodMore ==
  ASSUME NEW s, NEW g \in Nat \ {0}, Good(s, g)
  PROVE  Good(s, g + 1)
BY DEF Good

(* The packets the kernel posts.                                           *)
LEMMA PacketTypes ==
  ASSUME NEW k \in Nat
  PROVE  /\ \A kind \in {"connect", "more", "broken", "written", "unwritten"} \cup Notices :
              /\ [kind |-> kind, key |-> k] \in Packet
              /\ [kind |-> kind, key |-> k].kind = kind /\ [kind |-> kind, key |-> k].key = k
         /\ \A line \in Line :
              /\ [kind |-> "read", key |-> k, line |-> line] \in Packet
              /\ [kind |-> "read", key |-> k, line |-> line].kind = "read"
              /\ [kind |-> "read", key |-> k, line |-> line].key = k
BY DEF Packet

LEMMA TryWriteType ==
  ASSUME BufType, ClientType, NEW c \in Conns, NEW W \in SUBSET Conns, TryWrite(c, W)
  PROVE  is_writing' \subseteq Conns /\ wpend' \in [Conns -> Nat]
<1>1. is_writing' = W \/ is_writing' = W \cup {c}
  BY DEF TryWrite
<1>2. wpend' = wpend \/ wpend' = [wpend EXCEPT ![c] = @ + 1]
  BY DEF TryWrite
<1>3. is_writing' \subseteq Conns
  BY <1>1
<1>4. wpend \in [Conns -> Nat] /\ [wpend EXCEPT ![c] = @ + 1] \in [Conns -> Nat]
  BY DEF BufType
<1>5. QED
  BY <1>2, <1>3, <1>4

LEMMA SendMsgType ==
  ASSUME BufType, ClientType, NEW c \in Conns, NEW kind \in {"S", "F"}, NEW r \in Request,
         SendMsg(c, kind, r)
  PROVE  BufType'
<1>1. is_writing' \subseteq Conns /\ wpend' \in [Conns -> Nat]
  BY TryWriteType DEF SendMsg, BufType
<1>2. [kind |-> kind, req |-> r] \in Answer
  BY DEF Answer
<1>3. stream' \in [Conns -> Seq(Answer)] /\ written' \in [Conns -> Nat]
  BY <1>2 DEF SendMsg, BufType
<1>4. QED
  BY <1>1, <1>3 DEF BufType

(* A new key leaves what was typed with the old ones typed.                *)
LEMMA MoreKeys ==
  ASSUME KeyType, gen_key' = gen_key + 1
  PROVE  /\ gen_key' \in Nat \ {0} /\ Keys \subseteq Keys' /\ gen_key \in Keys'
         /\ server_key \in [Instances -> Keys'] /\ ckey \in [Conns -> Keys' \cup {0}]
<1>1. gen_key' \in Nat \ {0} /\ Keys \subseteq Keys' /\ gen_key \in Keys'
  BY DEF KeyType, Keys
<1>2. QED
  BY Zenon, <1>1 DEF KeyType

LEMMA SpawnsType ==
  ASSUME KeyType, JobType, BufType, ClientType, NEW c \in Conns, NEW r \in Request,
         NEW rest, Good(rest, gen_key), Spawns(c, r, rest)
  PROVE  /\ gen_key' = gen_key + 1 /\ processes' \subseteq Proc
         /\ alive' \subseteq Keys' /\ BufType' /\ Good(port', gen_key')
<1>1. gen_key' = gen_key + 1 /\ gen_key \in Nat \ {0}
  BY DEF Spawns, KeyType
<1>2. Keys \subseteq Keys' /\ gen_key \in Keys' /\ gen_key \in 1..(gen_key' - 1)
  BY <1>1, MoreKeys DEF Keys
<1>3. processes' \subseteq Proc
  BY <1>1 DEF Spawns, JobType, Proc
<1>5. alive' \subseteq Keys'
  BY <1>2 DEF Spawns, JobType
<1>6. BufType'
  BY SendMsgType DEF Spawns
<1>7. Good(port', gen_key')
  <2> DEFINE p == [kind |-> "new", key |-> gen_key]
  <2>1. p \in Packet /\ p.key = gen_key
    BY Zenon, <1>1, PacketTypes DEF Notices
  <2>2. Good(rest, gen_key')
    BY <1>1, GoodMore
  <2>3. port' = Append(rest, p)
    BY DEF Spawns
  <2> HIDE DEF p
  <2>4. gen_key' \in Nat \ {0}
    BY <1>1
  <2>5. QED
    BY Zenon, <1>2, <2>1, <2>2, <2>3, <2>4, GoodAppend
<1>8. QED
  BY <1>1, <1>3, <1>5, <1>6, <1>7

LEMMA SpawnFailsType ==
  ASSUME KeyType, JobType, BufType, ClientType, NEW c \in Conns, NEW r \in Request,
         NEW rest, Good(rest, gen_key), SpawnFails(c, r, rest)
  PROVE  UNCHANGED <<gen_key, processes, alive>> /\ BufType' /\ Good(port', gen_key')
<1>1. BufType'
  BY SendMsgType DEF SpawnFails
<1>2. QED
  BY <1>1 DEF SpawnFails

(* Every step keeps the types.                                             *)
LEMMA RunRequestType ==
  ASSUME KeyType, JobType, BufType, ClientType, NEW r \in Request,
         NEW rest, Good(rest, gen_key), RunRequest(r, rest)
  PROVE  /\ gen_key' \in {gen_key, gen_key + 1} /\ processes' \subseteq Proc
         /\ alive' \subseteq Keys' /\ BufType' /\ Good(port', gen_key')
<1>1. CASE /\ port' = rest /\ UNCHANGED <<gen_key, processes, alive, bufVars>>
  BY <1>1 DEF JobType, BufType, bufVars, Keys
<1>2. ASSUME NEW c \in ByKey(r.key), Spawns(c, r, rest)
      PROVE  /\ gen_key' = gen_key + 1 /\ processes' \subseteq Proc
             /\ alive' \subseteq Keys' /\ BufType' /\ Good(port', gen_key')
  BY <1>2, SpawnsType DEF ByKey, KeyType
<1>3. ASSUME NEW c \in ByKey(r.key), SpawnFails(c, r, rest)
      PROVE  UNCHANGED <<gen_key, processes, alive>> /\ BufType' /\ Good(port', gen_key')
  BY <1>3, SpawnFailsType DEF ByKey, KeyType
<1>4. CASE \E c \in ByKey(r.key) : SpawnFails(c, r, rest)
  BY Zenon, <1>3, <1>4 DEF JobType, Keys
<1>5. QED
  BY <1>1, <1>2, <1>4 DEF RunRequest

LEMMA KeyTypeKept ==
  ASSUME KeyType, gen_key' \in {gen_key, gen_key + 1}, UNCHANGED <<server_key, caller, ckey, clients, link>>
  PROVE  KeyType'
<1>1. CASE gen_key' = gen_key
  BY <1>1 DEF KeyType, Keys
<1>2. CASE gen_key' = gen_key + 1
  BY <1>2, MoreKeys DEF KeyType
<1>3. QED
  BY <1>1, <1>2

LEMMA ScheduleNewJobType == ASSUME TypeInv, ScheduleNewJob PROVE TypeInv'
<1> USE DEF TypeInv
<1>1. PICK r \in queue : queue' = queue \ {r} /\ RunRequest(r, port)
  BY DEF ScheduleNewJob
<1>2. r \in Request
  BY DEF JobType
<1>3. /\ gen_key' \in {gen_key, gen_key + 1} /\ processes' \subseteq Proc
      /\ alive' \subseteq Keys' /\ BufType' /\ Good(port', gen_key')
  BY <1>1, <1>2, RunRequestType
<1>4. KeyType'
  BY <1>3, KeyTypeKept DEF ScheduleNewJob
<1>5. JobType'
  BY <1>1, <1>3 DEF JobType
<1>6. LoopType' /\ ClientType' /\ SeenType'
  BY DEF ScheduleNewJob, LoopType, ClientType, SeenType, loopVars, clientVars, ghostVars
<1>7. QED
  BY <1>3, <1>4, <1>5, <1>6

LEMMA QueuesType ==
  ASSUME TypeInv, NEW r \in Request, queue' = queue \cup {r}, port' = Tail(port),
         Good(Tail(port), gen_key),
         UNCHANGED <<gen_key, processes, alive, bufVars, server_key, caller, ckey, clients, link>>
  PROVE  KeyType' /\ JobType' /\ BufType' /\ Good(port', gen_key')
<1>1. KeyType /\ JobType /\ BufType
  BY DEF TypeInv
<1>2. KeyType' /\ BufType'
  BY <1>1 DEF KeyType, BufType, bufVars, Keys
<1>3. JobType'
  BY <1>1 DEF JobType, Keys
<1>4. QED
  BY <1>2, <1>3

LEMMA StartsType ==
  ASSUME TypeInv, NEW c \in Conns, NEW r \in Request, Good(Tail(port), gen_key), UNCHANGED queue,
         Spawns(c, r, Tail(port)) \/ SpawnFails(c, r, Tail(port)),
         UNCHANGED <<server_key, caller, ckey, clients, link>>
  PROVE  KeyType' /\ JobType' /\ BufType' /\ Good(port', gen_key')
<1>1. KeyType /\ JobType /\ BufType /\ ClientType
  BY DEF TypeInv
<1>2. CASE Spawns(c, r, Tail(port))
  BY Zenon, <1>1, <1>2, SpawnsType, KeyTypeKept DEF JobType
<1>3. CASE SpawnFails(c, r, Tail(port))
  BY Zenon, <1>1, <1>3, SpawnFailsType, KeyTypeKept DEF JobType, Keys
<1>4. QED
  BY <1>2, <1>3

(* What the handler of a run request does with the request it made.        *)
HandlesRun(c, r) ==
  /\ seen' = seen \cup {r}
  /\ \/ /\ queue' = queue \cup {r} /\ port' = Tail(port)
        /\ UNCHANGED <<gen_key, processes, alive, bufVars>>
     \/ /\ UNCHANGED queue
        /\ Spawns(c, r, Tail(port)) \/ SpawnFails(c, r, Tail(port))

LEMMA HandleRunMakes ==
  ASSUME TypeInv, Cardinality(seen) \in Nat, HandleRun
  PROVE  \E c \in Conns, r \in Request : HandlesRun(c, r)
<1>1. Packets({"read"})
  BY Zenon DEF HandleRun, Received
<1>2. /\ Head(port) \in Packet /\ Head(port).key \in Nat \ {0} /\ Head(port).kind = "read"
  BY <1>1, PacketTaken
<1>3. Head(port).line.arg \in Nat
  BY <1>2, ReadPacket
<1>4. PICK c \in ByKey(Head(port).key) :
        HandlesRun(c, [rid |-> Cardinality(seen) + 1, id |-> Head(port).line.arg,
                       key |-> Head(port).key, owner |-> c])
  BY Zenon DEF HandleRun, HandlesRun
<1>5. c \in Conns
  BY Zenon DEF ByKey, TypeInv, KeyType
<1>6. [rid |-> Cardinality(seen) + 1, id |-> Head(port).line.arg,
       key |-> Head(port).key, owner |-> c] \in Request
  BY <1>2, <1>3, <1>5 DEF Request
<1>7. QED
  BY Zenon, <1>4, <1>5, <1>6

LEMMA HandleRunType == ASSUME TypeInv, Cardinality(seen) \in Nat, HandleRun PROVE TypeInv'
<1>1. PICK c \in Conns, r \in Request : HandlesRun(c, r)
  BY Zenon, HandleRunMakes
<1>2. /\ LoopType' /\ ClientType' /\ Good(Tail(port), gen_key)
      /\ UNCHANGED <<server_key, caller, ckey, clients, link>>
  BY Zenon, HandleRunFrame
<1>3. KeyType' /\ JobType' /\ BufType' /\ Good(port', gen_key')
  BY Zenon, <1>1, <1>2, QueuesType, StartsType DEF HandlesRun
<1>4. SeenType'
  BY <1>1 DEF HandlesRun, TypeInv, SeenType
<1>5. QED
  BY <1>2, <1>3, <1>4 DEF TypeInv

LEMMA AcceptClientType == ASSUME TypeInv, KeysInv, AcceptClient PROVE TypeInv'
<1>0. /\ LoopType /\ KeyType /\ JobType /\ BufType /\ ClientType /\ SeenType
  BY DEF TypeInv
<1>1. Packets({"connect"}) /\ port' = Tail(port) /\ pc' = "schedule"
  BY DEF AcceptClient, TurnDone
<1>2. port # <<>> /\ port \in Seq(Packet) /\ Head(port).kind = "connect" /\ Good(Tail(port), gen_key)
  BY <1>1, PacketTaken
<1>3. PICK i \in ServerNums(Head(port).key) :
       /\ clients' = clients \cup {caller[i]}
       /\ link' = [link EXCEPT ![caller[i]] = "accepted"]
       /\ caller' = [caller EXCEPT ![i] = NoConn]
       /\ server_key' = [server_key EXCEPT ![i] = gen_key]
       /\ gen_key' = gen_key + 1
       /\ DoRead(caller[i])
  BY Zenon DEF AcceptClient
<1>4. i \in Instances /\ server_key[i] = Head(port).key
  BY DEF ServerNums
<1>5. caller[i] \in Conns
  <2>1. 1 \in 1..Len(port) /\ port[1] = Head(port)
    BY <1>2, TailFacts
  <2>2. In(port, {"connect"}, server_key[i])
    BY <1>2, <1>4, <2>1 DEF In
  <2>3. QED
    BY <1>0, <1>4, <2>2 DEF KeysInv, CallersWait, ConnectPending, KeyType
<1>6. rpend' \subseteq Conns
  BY SMTT(60), <1>0, <1>3, <1>5, DoReadType
<1>7. LoopType' /\ ClientType' /\ SeenType' /\ BufType'
  BY Zenon, <1>0, <1>1, <1>6
  DEF AcceptClient, LoopType, ClientType, SeenType, BufType, clientVars, ghostVars, bufVars
<1>8. /\ gen_key' \in Nat \ {0} /\ Keys \subseteq Keys' /\ gen_key \in Keys'
      /\ server_key \in [Instances -> Keys'] /\ ckey \in [Conns -> Keys' \cup {0}]
  BY Zenon, <1>0, <1>3, MoreKeys
<1>9. KeyType'
  <2>1. caller' \in [Instances -> Conns \cup {NoConn}] /\ clients' \subseteq Conns
    BY Zenon, <1>0, <1>3, <1>5 DEF KeyType
  <2>2. server_key' \in [Instances -> Keys']
    BY Zenon, <1>3, <1>8
  <2>3. link' \in [Conns -> {"none", "waiting", "accepted", "freed"}]
    BY Zenon, <1>0, <1>3, <1>5 DEF KeyType
  <2>4. QED
    BY Zenon, <1>8, <2>1, <2>2, <2>3 DEF KeyType, AcceptClient
<1>10. JobType'
  BY Zenon, <1>0, <1>8 DEF AcceptClient, JobType, jobVars
<1>11. Good(port', gen_key')
  BY <1>0, <1>1, <1>2, <1>3, GoodMore DEF KeyType
<1>12. QED
  BY <1>7, <1>9, <1>10, <1>11 DEF TypeInv

(* A turn that takes the packet and gives out no key.                      *)
LEMMA TurnType ==
  ASSUME TypeInv, NEW K, Packets(K), port' = Tail(port), pc' = "schedule",
         UNCHANGED <<gen_key, clientVars, seen>>, rpend' \subseteq Conns
  PROVE  (LoopType' <=> parallel' \in Nat \ {0}) /\ ClientType' /\ SeenType' /\ Good(port', gen_key')
<1>1. Good(port', gen_key')
  BY PacketTaken
<1>2. QED
  BY <1>1 DEF TypeInv, LoopType, ClientType, SeenType, clientVars

LEMMA TurnStepsType ==
  ASSUME TypeInv,
         IgnorePacket \/ HandleInterrupt \/ HandleParallel \/ ReadMore \/ CloseClient
           \/ HaveWritten \/ HandleChildEvent
  PROVE  TypeInv'
<1>0. /\ LoopType /\ KeyType /\ JobType /\ BufType /\ ClientType /\ SeenType
      /\ rpend \subseteq Conns /\ parallel \in Nat \ {0}
  BY DEF TypeInv, LoopType, ClientType
<1>1. \A c : c \in ByKey(Head(port).key) => c \in Conns
  BY <1>0 DEF ByKey, KeyType
<1>2. ASSUME UNCHANGED keyVars PROVE KeyType'
  BY <1>0, <1>2 DEF KeyType, keyVars, Keys
<1>3. ASSUME UNCHANGED <<gen_key, jobVars>> PROVE JobType'
  BY <1>0, <1>3 DEF JobType, jobVars, Keys
<1>4. ASSUME UNCHANGED bufVars PROVE BufType'
  BY <1>0, <1>4 DEF BufType, bufVars
<1>5. CASE IgnorePacket
  <2>1. \E K : Packets(K)
    BY Zenon, <1>5 DEF IgnorePacket
  <2>2. UNCHANGED <<gen_key, clientVars, seen, rpend, parallel>> /\ port' = Tail(port) /\ pc' = "schedule"
    BY <1>5 DEF IgnorePacket, keyVars, ghostVars, TurnDone
  <2>3. LoopType' /\ ClientType' /\ SeenType' /\ Good(port', gen_key')
    BY Zenon, <1>0, <2>1, <2>2, TurnType
  <2>4. KeyType' /\ JobType' /\ BufType'
    BY <1>2, <1>3, <1>4, <1>5, <2>2 DEF IgnorePacket
  <2>5. QED
    BY Zenon, <2>3, <2>4 DEF TypeInv
<1>6. CASE HandleInterrupt
  <2>1. Packets({"read"}) /\ \E c \in Conns : DoRead(c)
    BY SMTT(60), <1>1, <1>6 DEF HandleInterrupt, Received
  <2>2. UNCHANGED <<gen_key, clientVars, seen, parallel>> /\ port' = Tail(port) /\ pc' = "schedule"
    BY Zenon, <1>6 DEF HandleInterrupt, keyVars, Received
  <2>3. rpend' \subseteq Conns
    BY <1>0, <2>1, DoReadType
  <2>4. LoopType' /\ ClientType' /\ SeenType' /\ Good(port', gen_key')
    BY <1>0, <2>1, <2>2, <2>3, TurnType
  <2>5. KeyType' /\ BufType'
    BY Zenon, <1>2, <1>4, <1>6 DEF HandleInterrupt
  <2>6. JobType'
    BY Zenon, <1>0, <1>6, <2>2 DEF HandleInterrupt, JobType, Keys
  <2>7. QED
    BY ONLY Zenon, <2>4, <2>5, <2>6 DEF TypeInv
<1>7. CASE HandleParallel
  <2>1. Packets({"read"}) /\ \E c \in Conns : DoRead(c)
    BY Zenon, <1>1, <1>7 DEF HandleParallel, Received
  <2>2. UNCHANGED <<gen_key, clientVars, seen>> /\ port' = Tail(port) /\ pc' = "schedule"
    BY <1>7 DEF HandleParallel, keyVars, ghostVars, Received
  <2>3. rpend' \subseteq Conns
    BY <1>0, <2>1, DoReadType
  <2>4. Head(port).line.arg \in Nat
    BY Zenon, <2>1, PacketTaken, ReadPacket
  <2>5. parallel' \in Nat \ {0}
    BY <1>0, <1>7, <2>4 DEF HandleParallel
  <2>6. LoopType' /\ ClientType' /\ SeenType' /\ Good(port', gen_key')
    BY Zenon, <2>1, <2>2, <2>3, <2>5, TurnType
  <2>7. KeyType' /\ BufType' /\ JobType'
    BY Zenon, <1>2, <1>3, <1>4, <1>7, <2>2 DEF HandleParallel
  <2>8. QED
    BY Zenon, <2>6, <2>7 DEF TypeInv
<1>8. CASE ReadMore
  <2>1. Packets({"more"}) /\ \E c \in Conns : DoRead(c)
    BY Zenon, <1>1, <1>8 DEF ReadMore
  <2>2. UNCHANGED <<gen_key, clientVars, seen, parallel>> /\ port' = Tail(port) /\ pc' = "schedule"
    BY <1>8 DEF ReadMore, keyVars, ghostVars, TurnDone
  <2>3. rpend' \subseteq Conns
    BY <1>0, <2>1, DoReadType
  <2>4. LoopType' /\ ClientType' /\ SeenType' /\ Good(port', gen_key')
    BY Zenon, <1>0, <2>1, <2>2, <2>3, TurnType
  <2>5. KeyType' /\ BufType' /\ JobType'
    BY <1>2, <1>3, <1>4, <1>8, <2>2 DEF ReadMore
  <2>6. QED
    BY <2>4, <2>5 DEF TypeInv
<1>9. CASE CloseClient
  <2>1. Packets({"broken"})
    BY Zenon, <1>9 DEF CloseClient
  <2>2. UNCHANGED <<gen_key, clientVars, seen, parallel, rpend>> /\ port' = Tail(port) /\ pc' = "schedule"
    BY <1>9 DEF CloseClient, ghostVars, TurnDone
  <2>3. LoopType' /\ ClientType' /\ SeenType' /\ Good(port', gen_key')
    BY <1>0, <2>1, <2>2, TurnType
  <2>4. PICK c \in Conns : clients' = clients \ {c} /\ link' = [link EXCEPT ![c] = "freed"]
    BY Zenon, <1>1, <1>9 DEF CloseClient
  <2>5. KeyType'
    BY Zenon, <1>0, <1>9, <2>4 DEF CloseClient, KeyType, Keys
  <2>6. BufType' /\ JobType'
    BY Zenon, <1>3, <1>4, <1>9 DEF CloseClient
  <2>7. QED
    BY Zenon, <2>3, <2>5, <2>6 DEF TypeInv
<1>10. CASE HaveWritten
  <2>1. Packets({"written", "unwritten"})
    BY Zenon, <1>10 DEF HaveWritten
  <2>2. UNCHANGED <<gen_key, clientVars, seen, parallel, rpend>> /\ port' = Tail(port) /\ pc' = "schedule"
    BY <1>10 DEF HaveWritten, keyVars, ghostVars, TurnDone
  <2>3. LoopType' /\ ClientType' /\ SeenType' /\ Good(port', gen_key')
    BY <1>0, <2>1, <2>2, TurnType
  <2>4. PICK c \in Conns : /\ written' = IF Head(port).kind = "written"
                                           THEN [written EXCEPT ![c] = @ + 1] ELSE written
                           /\ UNCHANGED stream /\ TryWrite(c, is_writing \ {c})
    BY Zenon, <1>1, <1>10 DEF HaveWritten
  <2>5. is_writing' \subseteq Conns /\ wpend' \in [Conns -> Nat]
    BY <1>0, <2>4, TryWriteType DEF BufType
  <2>6. written' \in [Conns -> Nat]
    <3>1. written \in [Conns -> Nat] /\ [written EXCEPT ![c] = @ + 1] \in [Conns -> Nat]
      BY <1>0 DEF BufType
    <3>2. QED
      BY <2>4, <3>1
  <2>7. BufType'
    BY Zenon, <1>0, <2>4, <2>5, <2>6 DEF BufType
  <2>8. KeyType' /\ JobType'
    BY <1>2, <1>3, <1>10, <2>2 DEF HaveWritten
  <2>9. QED
    BY SMTT(60), <2>3, <2>7, <2>8 DEF TypeInv
<1>11. CASE HandleChildEvent
  <2>1. Packets(Notices \ {"new"})
    BY <1>11 DEF HandleChildEvent
  <2>2. UNCHANGED <<gen_key, clientVars, seen, parallel, rpend>> /\ port' = Tail(port) /\ pc' = "schedule"
    BY Zenon, <1>11 DEF HandleChildEvent, keyVars, ghostVars, TurnDone
  <2>3. LoopType' /\ ClientType' /\ SeenType' /\ Good(port', gen_key')
    BY <1>0, <2>1, <2>2, TurnType
  <2>4. PICK p \in processes, c \in Conns : processes' = processes \ {p} /\ SendMsg(c, "F", p.req)
    BY Zenon, <1>11 DEF HandleChildEvent, ProcByKey
  <2>5. p.req \in Request
    BY <1>0 DEF JobType, Proc
  <2>6. BufType'
    BY <1>0, <2>4, <2>5, SendMsgType
  <2>8. JobType'
    BY Zenon, <1>0, <1>11, <2>2, <2>4 DEF JobType, HandleChildEvent, Keys
  <2>9. KeyType'
    BY Zenon, <1>2, <1>11 DEF HandleChildEvent
  <2>10. QED
    BY ONLY Zenon, <2>3, <2>6, <2>8, <2>9 DEF TypeInv
<1>12. QED
  BY <1>5, <1>6, <1>7, <1>8, <1>9, <1>10, <1>11

LEMMA LessToRead ==
  ASSUME NEW s \in Seq(Line), s # <<>>, s[1].parts > 1
  PROVE  [s EXCEPT ![1].parts = @ - 1] \in Seq(Line)
<1>1. Len(s) \in Nat /\ 1 \in 1..Len(s) /\ s \in [1..Len(s) -> Line] /\ s[1] \in Line
  OBVIOUS
<1>2. [s[1] EXCEPT !.parts = @ - 1] \in Line
  <2>1. ASSUME NEW l \in Line, l.parts > 1 PROVE [l EXCEPT !.parts = @ - 1] \in Line
    <3>1. l.parts \in Nat /\ l.parts - 1 \in Nat
      BY <2>1 DEF Line
    <3>2. QED
      BY SMTT(60), <3>1 DEF Line
  <2>2. QED
    BY <1>1, <2>1
<1>3. [s EXCEPT ![1].parts = @ - 1] \in [1..Len(s) -> Line]
  BY <1>1, <1>2
<1>4. ASSUME NEW n \in Nat, NEW t \in [1..n -> Line] PROVE t \in Seq(Line)
  OBVIOUS
<1>5. QED
  BY <1>1, <1>3, <1>4

LEMMA ClientKeyGiven ==
  ASSUME TypeInv, KeysInv, NEW c \in Conns, link[c] \in {"accepted", "freed"}
  PROVE  ckey[c] \in Keys /\ ckey[c] \in Nat
BY DEF TypeInv, KeyType, KeysInv, KeyIfLinked, Keys

LEMMA PostType ==
  ASSUME TypeInv, NEW p \in Packet, p.key \in Keys
  PROVE  Good(port \o <<p>>, gen_key)
<1>1. port \o <<p>> = Append(port, p)
  BY Zenon, PostAppends DEF TypeInv, Good
<1>2. QED
  BY ZenonT(60), <1>1, GoodAppend DEF TypeInv, KeyType, Keys

LEMMA ReadEndsType ==
  ASSUME TypeInv, KeysInv, NEW c \in Conns, ReadEnds(c)
  PROVE  TypeInv'
<1>1. ckey[c] \in Keys /\ ckey[c] \in Nat
  BY ClientKeyGiven DEF KeysInv, ReadsLinked, ReadEnds
<1>2. sock[c] \in Seq(Line)
  BY DEF TypeInv, ClientType
<1>3. LoopType' /\ KeyType' /\ JobType' /\ BufType' /\ SeenType' /\ gen_key' = gen_key
  BY SMTT(60) DEF ReadEnds, TypeInv, LoopType, KeyType, JobType, BufType, SeenType,
         loopVars, keyVars, jobVars, bufVars, ghostVars, Keys
<1>4. rpend' \subseteq Conns /\ UNCHANGED <<open, nrun, nctl>>
  BY DEF ReadEnds, TypeInv, ClientType
<1>5. Good(port', gen_key)
  <2> DEFINE p(kind) == [kind |-> kind, key |-> ckey[c]]
             q == [kind |-> "read", key |-> ckey[c], line |-> Head(sock[c])]
  <2>1. p("broken") \in Packet /\ p("more") \in Packet /\ p("broken").key = ckey[c] /\ p("more").key = ckey[c]
    BY <1>1, PacketTypes
  <2>2. sock[c] # <<>> => q \in Packet /\ q.key = ckey[c]
    BY Zenon, <1>1, <1>2, PacketTypes, TailFacts
  <2>3. \/ port' = port \o <<p("broken")>> \/ port' = port \o <<p("more")>>
        \/ sock[c] # <<>> /\ port' = port \o <<q>>
    BY DEF ReadEnds, Post
  <2> HIDE DEF p, q
  <2>4. QED
    BY Zenon, <1>1, <2>1, <2>2, <2>3, PostType
<1>6. sock' \in [Conns -> Seq(Line)]
  <2>1. CASE UNCHANGED sock
    BY <2>1 DEF TypeInv, ClientType
  <2>2. CASE sock[c] # <<>> /\ Head(sock[c]).parts > 1 /\ sock' = [sock EXCEPT ![c][1].parts = @ - 1]
    <3>1. [sock[c] EXCEPT ![1].parts = @ - 1] \in Seq(Line)
      BY <1>2, <2>2, LessToRead, TailFacts
    <3> DEFINE t == [sock[c] EXCEPT ![1].parts = @ - 1]
    <3>2. sock' = [sock EXCEPT ![c] = t]
      BY <2>2 DEF TypeInv, ClientType
    <3>3. t \in Seq(Line)
      BY <3>1
    <3> HIDE DEF t
    <3>4. QED
      BY <3>2, <3>3 DEF TypeInv, ClientType
  <2>3. CASE sock[c] # <<>> /\ sock' = [sock EXCEPT ![c] = Tail(@)]
    <3>1. Tail(sock[c]) \in Seq(Line)
      BY <1>2, <2>3, TailFacts
    <3>2. QED
      BY <2>3, <3>1 DEF TypeInv, ClientType
  <2>4. QED
    BY <2>1, <2>2, <2>3 DEF ReadEnds
<1>7. QED
  BY <1>3, <1>4, <1>5, <1>6 DEF TypeInv, ClientType

LEMMA KernelType ==
  ASSUME TypeInv, KeysInv, WriteInv,
         \/ \E c \in Conns : WriteEnds(c)
         \/ \E k \in alive : ChildEnds(k) \/ MemoryLimit(k)
  PROVE  TypeInv'
<1>1. ASSUME NEW c \in Conns, WriteEnds(c) PROVE TypeInv'
  <2>1. link[c] \in {"accepted", "freed"}
    BY <1>1 DEF WriteEnds, WriteInv, TypeInv, KeyType
  <2>2. ckey[c] \in Keys /\ ckey[c] \in Nat
    BY Zenon, <2>1, ClientKeyGiven
  <2> DEFINE p == [kind |-> IF c \in open THEN "written" ELSE "unwritten", key |-> ckey[c]]
  <2>3. p \in Packet /\ p.key = ckey[c]
    BY Zenon, <2>2, PacketTypes
  <2>4. port' = port \o <<p>>
    BY <1>1 DEF WriteEnds, Post
  <2> HIDE DEF p
  <2>5. Good(port', gen_key)
    BY <2>2, <2>3, <2>4, PostType
  <2>6. LoopType' /\ KeyType' /\ JobType' /\ ClientType' /\ SeenType' /\ gen_key' = gen_key
    BY Zenon, <1>1 DEF WriteEnds, TypeInv, LoopType, KeyType, JobType, ClientType, SeenType,
                loopVars, keyVars, jobVars, clientVars, ghostVars, Keys
  <2>7. BufType'
    BY <1>1 DEF WriteEnds, TypeInv, BufType
  <2>8. QED
    BY ONLY Zenon, <2>5, <2>6, <2>7 DEF TypeInv
<1>2. ASSUME NEW k \in alive, ChildEnds(k) \/ MemoryLimit(k) PROVE TypeInv'
  <2>1. k \in Keys /\ k \in Nat
    BY DEF TypeInv, JobType, Keys, KeyType
  <2> DEFINE p(ev) == [kind |-> ev, key |-> k]
  <2>2. \A ev \in Notices : p(ev) \in Packet /\ p(ev).key = k
    BY Zenon, <2>1, PacketTypes
  <2>3. \/ port' = port \o <<p("exit")>> \/ port' = port \o <<p("memory_limit")>>
        \/ port' = port \o <<p("time_limit"), p("exit")>>
    BY Zenon, <1>2 DEF ChildEnds, MemoryLimit, Post
  <2> HIDE DEF p
  <2>4. p("exit") \in Packet /\ p("memory_limit") \in Packet /\ p("time_limit") \in Packet
    BY <2>2 DEF Notices
  <2>5. p("exit").key = k /\ p("memory_limit").key = k /\ p("time_limit").key = k
    BY <2>2 DEF Notices
  <2>6. port \o <<p("time_limit"), p("exit")>> = Append(port \o <<p("time_limit")>>, p("exit"))
    BY <2>4, PostAppends DEF TypeInv, Good
  <2>7. /\ Good(port \o <<p("time_limit")>>, gen_key) /\ Good(port \o <<p("exit")>>, gen_key)
        /\ Good(port \o <<p("memory_limit")>>, gen_key)
    BY Zenon, <2>1, <2>4, <2>5, PostType
  <2>8. Good(Append(port \o <<p("time_limit")>>, p("exit")), gen_key)
    BY <2>1, <2>4, <2>5, <2>7, GoodAppend DEF TypeInv, KeyType, Keys
  <2>9. Good(port', gen_key)
    BY Zenon, <2>3, <2>6, <2>7, <2>8
  <2>10. LoopType' /\ KeyType' /\ BufType' /\ ClientType' /\ SeenType' /\ gen_key' = gen_key
    BY ZenonT(60), <1>2 DEF ChildEnds, MemoryLimit, TypeInv, LoopType, KeyType, BufType, ClientType, SeenType,
                loopVars, keyVars, bufVars, clientVars, ghostVars, Keys
  <2>11. JobType'
    BY ZenonT(60), <1>2 DEF ChildEnds, MemoryLimit, TypeInv, JobType, jobVars, Keys, keyVars
  <2>12. QED
    BY <2>9, <2>10, <2>11 DEF TypeInv
<1>3. QED
  BY <1>1, <1>2

LEMMA EnvironmentType == ASSUME TypeInv, Environment PROVE TypeInv'
<1>1. PICK c \in Conns : Connect(c) \/ SendRun(c) \/ SendControl(c) \/ Close(c)
  BY DEF Environment
<1>2. LoopType' /\ JobType' /\ BufType' /\ SeenType' /\ gen_key' = gen_key
  BY Zenon, <1>1 DEF Connect, SendRun, SendControl, Close, TypeInv, LoopType, JobType, BufType, SeenType,
              loopVars, keyVars, jobVars, bufVars, ghostVars, Keys
<1>3. CASE Connect(c)
  <2>1. PICK i \in Instances :
          /\ caller' = [caller EXCEPT ![i] = c] /\ ckey' = [ckey EXCEPT ![c] = server_key[i]]
          /\ Post(<<[kind |-> "connect", key |-> server_key[i]]>>)
    BY Zenon, <1>3 DEF Connect
  <2>2. server_key[i] \in Keys /\ server_key[i] \in Nat
    BY DEF TypeInv, KeyType, Keys
  <2>3. KeyType'
    <3>1. caller' \in [Instances -> Conns \cup {NoConn}] /\ ckey' \in [Conns -> Keys \cup {0}]
      BY Zenon, <2>1, <2>2 DEF TypeInv, KeyType
    <3>2. link' \in [Conns -> {"none", "waiting", "accepted", "freed"}]
      BY SMTT(60), <1>3 DEF Connect, TypeInv, KeyType
    <3>3. QED
      BY <1>3, <3>1, <3>2 DEF Connect, TypeInv, KeyType, Keys
  <2>4. ClientType'
    BY Zenon, <1>3 DEF Connect, TypeInv, ClientType
  <2>5. Good(port', gen_key)
    BY Zenon, <2>1, <2>2, PacketTypes, PostType DEF Post
  <2>6. QED
    BY <1>2, <2>3, <2>4, <2>5 DEF TypeInv
<1>4. CASE SendRun(c) \/ SendControl(c) \/ Close(c)
  <2>1. KeyType' /\ Good(port', gen_key) /\ rpend' \subseteq Conns
    <3>1. UNCHANGED <<gen_key, server_key, caller, ckey, clients, link, port, rpend>>
      BY Zenon, <1>4 DEF SendRun, SendControl, Close, keyVars
    <3>2. KeyType' /\ Good(port', gen_key)
      BY Zenon, <3>1 DEF TypeInv, KeyType, Keys
    <3>3. QED
      BY <3>1, <3>2 DEF TypeInv, ClientType
  <2>2. open' \subseteq Conns /\ nrun' \in [Conns -> Nat] /\ nctl' \in [Conns -> Nat]
    <3>1. /\ nrun' \in {nrun, [nrun EXCEPT ![c] = nrun[c] + 1]}
          /\ nctl' \in {nctl, [nctl EXCEPT ![c] = nctl[c] + 1]} /\ open' \in {open, open \ {c}}
      BY Zenon, <1>4 DEF SendRun, SendControl, Close
    <3>2. open \subseteq Conns /\ nrun \in [Conns -> Nat] /\ nctl \in [Conns -> Nat]
      BY Zenon DEF TypeInv, ClientType
    <3>3. QED
      BY ONLY <3>1, <3>2, c \in Conns
  <2>3. sock' \in [Conns -> Seq(Line)]
    <3>1. CASE SendRun(c)
      <4>1. [cmd |-> "run", arg |-> nrun[c] + 1, parts |-> RunParts] \in Line
        BY BoundsAssumption DEF Line, TypeInv, ClientType
      <4>2. QED
        BY <3>1, <4>1 DEF SendRun, TypeInv, ClientType
    <3>2. CASE SendControl(c)
      <4>1. PICK m \in [cmd : {"interrupt"}, arg : 1..nrun[c], parts : {1}]
                         \cup [cmd : {"parallel"}, arg : Limits, parts : {1}] :
              sock' = [sock EXCEPT ![c] = Append(@, m)]
        BY Zenon, <3>2 DEF SendControl
      <4>2. m \in Line
        <5>1. nrun[c] \in Nat
          BY Zenon DEF TypeInv, ClientType
        <5>2. CASE m \in [cmd : {"interrupt"}, arg : 1..nrun[c], parts : {1}]
          BY <5>1, <5>2 DEF Line
        <5>3. CASE m \in [cmd : {"parallel"}, arg : Limits, parts : {1}]
          <6>1. [cmd : {"parallel"}, arg : Limits, parts : {1}] \subseteq [cmd : {"parallel"}, arg : Nat, parts : {1}]
            BY Zenon, LimitsAssumption
          <6>2. m \in [cmd : {"parallel"}, arg : Nat, parts : {1}]
            BY <5>3, <6>1
          <6>3. QED
            BY <6>2 DEF Line
        <5>4. QED
          BY Zenon, <5>2, <5>3
      <4>3. QED
        BY <4>1, <4>2 DEF TypeInv, ClientType
    <3>3. CASE Close(c)
      BY <3>3 DEF Close, TypeInv, ClientType
    <3>4. QED
      BY Zenon, <1>4, <3>1, <3>2, <3>3
  <2>4. QED
    BY SMTT(60), <1>2, <2>1, <2>2, <2>3 DEF TypeInv, ClientType
<1>5. QED
  BY <1>1, <1>3, <1>4

LEMMA QuietType ==
  ASSUME TypeInv, ScheduleDone \/ ReadPastArray \/ UNCHANGED vars
  PROVE  TypeInv'
<1>1. KeyType' /\ JobType' /\ BufType' /\ ClientType' /\ SeenType'
  BY Zenon DEF ScheduleDone, ReadPastArray, TypeInv, KeyType, JobType, BufType, ClientType, SeenType,
         vars, keyVars, jobVars, bufVars, clientVars, ghostVars, Keys
<1>2. LoopType' /\ UNCHANGED <<port, gen_key>>
  BY DEF ScheduleDone, ReadPastArray, TypeInv, LoopType, vars, loopVars, keyVars
<1>3. QED
  BY <1>1, <1>2 DEF TypeInv

LEMMA TypeStep ==
  ASSUME TypeInv, KeysInv, WriteInv, Cardinality(seen) \in Nat, [Next]_vars
  PROVE  TypeInv'
BY ScheduleNewJobType, HandleRunType, AcceptClientType, TurnStepsType, ReadEndsType, KernelType,
   EnvironmentType, QuietType DEF Next, ServerStep, Kernel
=============================================================================

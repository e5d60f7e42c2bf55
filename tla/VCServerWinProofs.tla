-------------------------- MODULE VCServerWinProofs --------------------------
(***************************************************************************)
(* Theorems about the server on Windows, for every number of clients and   *)
(* pipe instances, every limit, every kind of job event and every bound:   *)
(* first what every step keeps of keys, reads and writes of the pipes,     *)
(* then the theorems that rest on it and on VCServerWinSteps.              *)
(***************************************************************************)
EXTENDS VCServerWinSteps

-----------------------------------------------------------------------------
(* The steps of the server, seen through the refinement mapping.           *)
Jobs == {p.req : p \in processes}

LEMMA AddedJob ==
  ASSUME NEW k, NEW r, processes' = processes \cup {[key |-> k, req |-> r]}
  PROVE  Jobs' = Jobs \cup {r}
<1> DEFINE n == [key |-> k, req |-> r]
<1>1. n.req = r /\ processes' = processes \cup {n}
  OBVIOUS
<1> HIDE DEF n
<1>2. QED
  BY <1>1 DEF Jobs

LEMMA RoomForJob ==
  ASSUME TypeInv, FiniteInv, SlotFree
  PROVE  Pool!Room
<1> DEFINE f == [p \in processes |-> p.req]
<1>1. Jobs = {f[p] : p \in processes}
  BY DEF Jobs
<1>2. IsFiniteSet(processes) /\ parallel \in Nat
  BY DEF FiniteInv, TypeInv, LoopType
<1>3. IsFiniteSet(Jobs) /\ Cardinality(Jobs) <= Cardinality(processes)
  BY Zenon, <1>1, <1>2 DEF FiniteInv, FiniteSetFacts, FiniteImage
<1>4. Cardinality(Jobs) \in Nat /\ Cardinality(processes) \in Nat
  BY <1>2, <1>3 DEF FiniteInv, FiniteSetFacts, FiniteCount
<1>5. Cardinality(Jobs) < parallel
  BY SMTT(60), <1>2, <1>3, <1>4 DEF SlotFree, NumRunning
<1>6. QED
  BY <1>5 DEF Pool!Room, Jobs, Pool!Cardinality, Cardinality

LEMMA JobsMapping == Jobs = {p.req : p \in processes} /\ Jobs' = {p.req : p \in processes'}
BY DEF Jobs

LEMMA ScheduleNewJobPool == ASSUME TypeInv, FiniteInv, JobsInv, ScheduleNewJob PROVE Pool!PoolNext
<1>1. PICK r \in queue :
        /\ SlotFree /\ queue' = queue \ {r} /\ UNCHANGED <<seen, refused, parallel>>
        /\ UNCHANGED processes \/ processes' = processes \cup {[key |-> gen_key, req |-> r]}
  BY ScheduleNewJobDoes
<1>2. CASE UNCHANGED processes
  <2>1. queue \ queue' = {r}
    BY <1>1
  <2>2. Pool!GiveUp(queue \ queue')
    BY SMTT(60), <1>1, <1>2, <2>1 DEF Pool!GiveUp
  <2>3. QED
    BY ZenonT(30), <2>2 DEF Pool!PoolNext
<1>3. CASE processes' = processes \cup {[key |-> gen_key, req |-> r]}
  <2>1. Jobs' = Jobs \cup {r}
    BY SMTT(60), <1>3, AddedJob
  <2>2. Pool!Room
    BY <1>1, RoomForJob
  <2>3. Pool!Start(r)
    BY SMTT(60), <1>1, <2>1, <2>2, JobsMapping DEF Pool!Start
  <2>4. QED
    BY SMTT(60), <2>3 DEF Pool!PoolNext
<1>4. QED
  BY SMTT(60), <1>1, <1>2, <1>3

LEMMA HandleRunPool ==
  ASSUME TypeInv, FiniteInv, JobsInv, HandleRun
  PROVE  Pool!PoolNext \/ UNCHANGED Pool!poolVars
<1>1. PICK r :
        /\ r.rid = Cardinality(seen) + 1 /\ seen' = seen \cup {r} /\ UNCHANGED parallel
        /\ \/ queue' = queue \cup {r} /\ UNCHANGED <<processes, refused>>
           \/ /\ SlotFree /\ UNCHANGED <<queue, refused>>
              /\ processes' = processes \cup {[key |-> gen_key, req |-> r]}
           \/ UNCHANGED <<queue, processes>> /\ refused' = refused \cup {r}
  BY SMTT(60), HandleRunDoes DEF FiniteInv, FiniteSetFacts, FiniteCount
<1>2. r \notin seen /\ r \notin refused
  BY SMTT(60), <1>1, NewRequest DEF JobsInv
<1>3. CASE UNCHANGED <<queue, processes>> /\ refused' = refused \cup {r}
  <2>1. seen' \ refused' = seen \ refused
    BY SMTT(60), <1>1, <1>2, <1>3
  <2>2. QED
    BY SMTT(60), <1>1, <1>3, <2>1 DEF Pool!poolVars
<1>4. ASSUME UNCHANGED refused
      PROVE  /\ (seen \ refused)' = (seen \ refused) \cup {r}
             /\ r \in (seen \ refused)' \ (seen \ refused) /\ r \notin seen \ refused
  BY SMTT(60), <1>1, <1>2, <1>4
<1>5. CASE queue' = queue \cup {r} /\ UNCHANGED <<processes, refused>>
  <2>1. Pool!Submit(r)
    BY SMTT(60), <1>1, <1>4, <1>5 DEF Pool!Submit
  <2>2. QED
    BY ZenonT(60), <1>4, <1>5, <2>1 DEF Pool!PoolNext
<1>6. CASE /\ SlotFree /\ UNCHANGED <<queue, refused>>
           /\ processes' = processes \cup {[key |-> gen_key, req |-> r]}
  <2>1. Jobs' = Jobs \cup {r}
    BY SMTT(60), <1>6, AddedJob
  <2>2. Pool!Room
    BY SMTT(60), <1>6, RoomForJob
  <2>3. Pool!Submit(r)
    BY SMTT(60), <1>1, <1>4, <1>6, <2>1, <2>2, JobsMapping DEF Pool!Submit
  <2>4. QED
    BY ZenonT(60), <1>4, <1>6, <2>3 DEF Pool!PoolNext
<1>7. QED
  BY SMTT(60), <1>1, <1>3, <1>5, <1>6

LEMMA HandleChildEventPool == ASSUME JobsInv, HandleChildEvent PROVE Pool!PoolNext
<1>1. PICK p \in processes : /\ processes' = processes \ {p}
                             /\ UNCHANGED <<queue, seen, refused, parallel>>
  BY HandleChildEventDoes
<1>2. Jobs' = Jobs \ {p.req} /\ p.req \in Jobs
  BY <1>1 DEF Jobs, JobsInv
<1>3. Pool!Finish(p.req)
  BY ZenonT(60), <1>1, <1>2, JobsMapping DEF Pool!Finish
<1>4. QED
  BY SMTT(60), <1>2, <1>3, JobsMapping DEF Pool!PoolNext

LEMMA HandleInterruptPool == ASSUME HandleInterrupt PROVE Pool!PoolNext \/ UNCHANGED Pool!poolVars
<1>1. queue' \subseteq queue /\ UNCHANGED <<seen, refused, processes, parallel>>
  BY ZenonT(30) DEF HandleInterrupt
<1>2. CASE queue' = queue
  BY SMTT(60), <1>1, <1>2 DEF Pool!poolVars
<1>3. CASE queue' # queue
  <2>1. queue \ queue' # {} /\ queue' = queue \ (queue \ queue')
    BY SMTT(60), <1>1, <1>3
  <2>2. Pool!GiveUp(queue \ queue')
    BY <1>1, <2>1 DEF Pool!GiveUp
  <2>3. QED
    BY <2>2 DEF Pool!PoolNext
<1>4. QED
  BY <1>2, <1>3

LEMMA HandleParallelPool == ASSUME TypeInv, TypeInv', HandleParallel PROVE Pool!PoolNext
<1>1. UNCHANGED <<seen, refused, queue, processes>>
  BY DEF HandleParallel, ghostVars, jobVars
<1>2. parallel' >= 1
  BY DEF TypeInv, LoopType
<1>3. Pool!SetLimit(parallel')
  BY <1>1, <1>2 DEF Pool!SetLimit
<1>4. QED
  BY <1>3 DEF Pool!PoolNext

LEMMA OtherStepsPool ==
  ASSUME [Next]_vars,
         ~ScheduleNewJob, ~HandleRun, ~HandleChildEvent, ~HandleInterrupt, ~HandleParallel
  PROVE  UNCHANGED Pool!poolVars
<1>1. UNCHANGED <<queue, processes, seen, refused>>
  BY SMTT(60), OtherStepsJobs
<1>2. UNCHANGED parallel
  BY ZenonT(60) DEF Next, ServerStep, Kernel, Environment, ScheduleDone, AcceptClient, IgnorePacket, ReadPastArray,
         ReadMore, CloseClient, HaveWritten, ReadEnds, WriteEnds, ChildEnds, MemoryLimit,
         Connect, SendRun, SendControl, Close, vars, loopVars
<1>3. QED
  BY <1>1, <1>2 DEF Pool!poolVars

LEMMA PoolInitially == Init => Pool!PoolInit
BY LimitsAssumption DEF Init, Pool!PoolInit

LEMMA PoolStep ==
  ASSUME TypeInv, TypeInv', FiniteInv, JobsInv, [Next]_vars
  PROVE  Pool!PoolNext \/ UNCHANGED Pool!poolVars
BY SMTT(60), ScheduleNewJobPool, HandleRunPool, HandleChildEventPool, HandleInterruptPool,
   HandleParallelPool, OtherStepsPool

-----------------------------------------------------------------------------
(* What a step does to the packets about pipes: the notices of the job     *)
(* objects are of no account, so a step leaves the pipe packets as they    *)
(* are, or takes the first packet out, or adds one.                        *)
Kinds == {{"connect"}, {"read", "more"}, {"written"}, {"unwritten"}}

Same(s, t) ==
  \A k : /\ \A K \in Kinds : In(s, K, k) <=> In(t, K, k)
         /\ One(t, k) => One(s, k)

LEMMA SameNotice ==
  ASSUME NEW s \in Seq(Packet), NEW p \in Packet, p.kind \in Notices
  PROVE  Same(Append(s, p), s)
<1>1. \A K \in Kinds : p.kind \notin K
  BY DEF Kinds, Notices
<1>2. p.kind # "written"
  BY DEF Notices
<1>3. QED
  BY <1>1, <1>2, AppendIn DEF Same

LEMMA SameSelf == ASSUME NEW s, NEW t, s = t PROVE Same(s, t)
BY DEF Same

LEMMA SameTwice == ASSUME NEW s, NEW t, NEW u, Same(s, t), Same(t, u) PROVE Same(s, u)
BY DEF Same

LEMMA SpawnPort ==
  ASSUME TypeInv, NEW rest \in Seq(Packet),
         port' = rest \/ port' = Append(rest, [kind |-> "new", key |-> gen_key])
  PROVE  Same(port', rest)
<1> DEFINE p == [kind |-> "new", key |-> gen_key]
<1>1. p \in Packet /\ p.kind \in Notices
  BY Zenon, PacketTypes DEF TypeInv, KeyType, Notices
<1>2. port' = rest \/ port' = Append(rest, p)
  OBVIOUS
<1> HIDE DEF p
<1>3. QED
  BY Zenon, <1>1, <1>2, SameNotice, SameSelf

LEMMA RunPort ==
  ASSUME NEW r, NEW rest, RunRequest(r, rest)
  PROVE  port' = rest \/ port' = Append(rest, [kind |-> "new", key |-> gen_key])
BY DEF RunRequest, Spawns, SpawnFails

LEMMA QuietPort ==
  ASSUME TypeInv,
         \/ ScheduleNewJob \/ ScheduleDone \/ ReadPastArray \/ UNCHANGED vars
         \/ \E k \in alive : ChildEnds(k) \/ MemoryLimit(k)
         \/ \E c \in Conns : SendRun(c) \/ SendControl(c) \/ Close(c)
  PROVE  Same(port', port)
<1>0. port \in Seq(Packet)
  BY DEF TypeInv, Good
<1>1. CASE ScheduleNewJob
  BY Zenon, <1>0, <1>1, RunPort, SpawnPort DEF ScheduleNewJob
<1>2. CASE UNCHANGED port
  BY <1>2, SameSelf
<1>3. ASSUME NEW k \in alive, ChildEnds(k) \/ MemoryLimit(k) PROVE Same(port', port)
  <2>1. k \in Nat
    BY SMTT(60) DEF TypeInv, JobType, Keys, KeyType
  <2> DEFINE p(ev) == [kind |-> ev, key |-> k]
  <2>2. \A ev \in Notices : p(ev) \in Packet /\ p(ev).kind \in Notices
    BY ZenonT(60), <2>1, PacketTypes
  <2>3. \/ port' = port \o <<p("exit")>> \/ port' = port \o <<p("memory_limit")>>
        \/ port' = port \o <<p("time_limit"), p("exit")>>
    BY Zenon, <1>3 DEF ChildEnds, MemoryLimit, Post
  <2> HIDE DEF p
  <2>4. /\ p("exit") \in Packet /\ p("memory_limit") \in Packet /\ p("time_limit") \in Packet
        /\ p("exit").kind \in Notices /\ p("memory_limit").kind \in Notices
        /\ p("time_limit").kind \in Notices
    BY <2>2 DEF Notices
  <2>5. \/ port' = Append(port, p("exit")) \/ port' = Append(port, p("memory_limit"))
        \/ port' = Append(Append(port, p("time_limit")), p("exit"))
    BY <1>0, <2>3, <2>4, PostAppends
  <2>6. Append(port, p("time_limit")) \in Seq(Packet)
    BY SMTT(60), <1>0, <2>4, AppendFacts
  <2>7. QED
    BY Zenon, <1>0, <2>4, <2>5, <2>6, SameNotice, SameTwice
<1>4. CASE \E c \in Conns : SendRun(c) \/ SendControl(c) \/ Close(c)
  BY ZenonT(60), <1>2, <1>4 DEF SendRun, SendControl, Close
<1>5. CASE ScheduleDone \/ ReadPastArray \/ UNCHANGED vars
  BY <1>2, <1>5 DEF ScheduleDone, ReadPastArray, vars
<1>6. QED
  BY <1>1, <1>3, <1>4, <1>5

(* A turn of the loop takes the first packet.                              *)
Turn(K) == Packets(K) /\ Same(port', Tail(port))

LEMMA TurnTakes ==
  ASSUME TypeInv, NEW K, Packets(K),
         port' = Tail(port) \/ port' = Append(Tail(port), [kind |-> "new", key |-> gen_key])
  PROVE  Turn(K)
<1>1. Tail(port) \in Seq(Packet)
  BY Zenon, PacketTaken DEF Good
<1>2. QED
  BY Zenon, <1>1, SpawnPort DEF Turn

LEMMA HandleRunTurn == ASSUME TypeInv, HandleRun PROVE Turn({"read"})
BY Zenon, TurnTakes DEF HandleRun, Received, Spawns, SpawnFails

LEMMA TurnPort ==
  ASSUME TypeInv, NEW K, Turn(K), NEW k
  PROVE  /\ \A L \in Kinds : In(port', L, k) => In(port, L, k)
         /\ \A L \in Kinds :
              In(port, L, k) => In(port', L, k) \/ (Head(port).kind \in L /\ Head(port).key = k)
         /\ One(port, k) => One(port', k)
         /\ One(port, k) /\ Head(port).kind = "written" /\ Head(port).key = k
              => ~In(port', {"written"}, k)
<1>1. port # <<>> /\ port \in Seq(Packet)
  BY PacketTaken DEF Turn
<1>2. Same(port', Tail(port))
  BY DEF Turn
<1>3. {"written"} \in Kinds
  BY DEF Kinds
<1>4. QED
  BY ZenonT(60), <1>1, <1>2, <1>3, TailIn, TailOne DEF Same

LEMMA PostPort ==
  ASSUME TypeInv, NEW p \in Packet, Post(<<p>>), NEW k
  PROVE  /\ \A K : In(port', K, k) <=> In(port, K, k) \/ (p.kind \in K /\ p.key = k)
         /\ One(port, k) /\ (p.kind # "written" \/ p.key # k \/ ~In(port, {"written"}, k)) => One(port', k)
<1>1. port \in Seq(Packet)
  BY DEF TypeInv, Good
<1>2. port' = Append(port, p)
  BY <1>1, PostAppends DEF Post
<1>3. QED
  BY <1>1, <1>2, AppendIn

(* The packet a read that ends leaves.                                     *)
LEMMA ReadEndsPost ==
  ASSUME TypeInv, KeysInv, NEW c \in Conns, ReadEnds(c)
  PROVE  \E p \in Packet : /\ Post(<<p>>) /\ p.key = ckey[c] /\ p.kind \in {"broken", "more", "read"}
                           /\ p.kind = "broken" => c \notin open
<1>1. ckey[c] \in Keys /\ ckey[c] \in Nat
  BY ClientKeyGiven DEF KeysInv, ReadsLinked, ReadEnds
<1>2. sock[c] \in Seq(Line)
  BY DEF TypeInv, ClientType
<1> DEFINE p(kind) == [kind |-> kind, key |-> ckey[c]]
           q == [kind |-> "read", key |-> ckey[c], line |-> Head(sock[c])]
<1>3. /\ p("broken") \in Packet /\ p("more") \in Packet /\ p("broken").key = ckey[c] /\ p("more").key = ckey[c]
      /\ p("broken").kind = "broken" /\ p("more").kind = "more"
  BY <1>1, PacketTypes
<1>4. sock[c] # <<>> => q \in Packet /\ q.key = ckey[c] /\ q.kind = "read"
  BY <1>1, <1>2, PacketTypes, TailFacts
<1>5. \/ Post(<<p("broken")>>) /\ c \notin open
      \/ Post(<<p("more")>>)
      \/ sock[c] # <<>> /\ Post(<<q>>)
  BY DEF ReadEnds
<1> HIDE DEF p, q
<1>6. QED
  BY SMTT(60), <1>3, <1>4, <1>5

-----------------------------------------------------------------------------
(* Keys.                                                                   *)

LEMMA KeysFrame ==
  ASSUME KeysInv, UNCHANGED <<server_key, caller, ckey, clients, link>>,
         \A k : In(port', {"connect"}, k) => In(port, {"connect"}, k),
         \A c \in rpend' : link[c] \in {"accepted", "freed"},
         \A r \in seen' : r.key = ckey[r.owner] /\ r.key # 0
  PROVE  KeysInv'
<1>1. InstanceKeys' /\ KeyIfLinked' /\ ClientKeys' /\ ClientsLinked'
  BY Zenon DEF KeysInv, InstanceKeys, KeyIfLinked, ClientKeys, ClientsLinked
<1>2. CallersWait' /\ KeyOfCaller'
  BY Zenon DEF KeysInv, CallersWait, KeyOfCaller
<1>3. ConnectPending' /\ ReadsLinked' /\ SendersKeys'
  BY Zenon DEF KeysInv, ConnectPending, ReadsLinked, SendersKeys
<1>4. QED
  BY Zenon, <1>1, <1>2, <1>3 DEF KeysInv

LEMMA QuietKeys ==
  ASSUME TypeInv, KeysInv,
         \/ ScheduleNewJob \/ ScheduleDone \/ ReadPastArray \/ UNCHANGED vars
         \/ \E k \in alive : ChildEnds(k) \/ MemoryLimit(k)
         \/ \E c \in Conns : SendRun(c) \/ SendControl(c) \/ Close(c)
  PROVE  KeysInv'
<1>1. \A k : In(port', {"connect"}, k) => In(port, {"connect"}, k)
  BY QuietPort DEF Same, Kinds
<1>2. UNCHANGED <<server_key, caller, ckey, clients, link, rpend, seen>>
  BY Zenon DEF ScheduleNewJob, ScheduleDone, ReadPastArray, vars, ChildEnds, MemoryLimit,
         SendRun, SendControl, Close, keyVars, ghostVars
<1>3. QED
  BY Zenon, <1>1, <1>2, KeysFrame DEF KeysInv, ReadsLinked, SendersKeys

LEMMA DoReadKeys ==
  ASSUME KeysInv, NEW c \in clients, DoRead(c)
  PROVE  \A d \in rpend' : link[d] \in {"accepted", "freed"}
BY DEF KeysInv, ReadsLinked, ClientsLinked, DoRead

LEMMA TurnKeys ==
  ASSUME TypeInv, KeysInv,
         IgnorePacket \/ HandleInterrupt \/ HandleParallel \/ ReadMore \/ HaveWritten \/ HandleChildEvent
  PROVE  KeysInv'
<1>1. \E K : Packets(K) /\ port' = Tail(port)
  BY Zenon DEF IgnorePacket, HandleInterrupt, HandleParallel, ReadMore, HaveWritten, HandleChildEvent,
         Received, TurnDone
<1>2. \A k : In(port', {"connect"}, k) => In(port, {"connect"}, k)
  BY Zenon, <1>1, TurnTakes, TurnPort DEF Kinds
<1>3. UNCHANGED <<server_key, caller, ckey, clients, link, seen>>
  BY Zenon DEF IgnorePacket, HandleInterrupt, HandleParallel, ReadMore, HaveWritten, HandleChildEvent,
         keyVars, ghostVars
<1>4. UNCHANGED rpend \/ \E c \in clients : DoRead(c)
  BY Zenon DEF IgnorePacket, HandleInterrupt, HandleParallel, ReadMore, HaveWritten, HandleChildEvent,
         Received, ByKey
<1>5. \A c \in rpend' : link[c] \in {"accepted", "freed"}
  BY Zenon, <1>4, DoReadKeys DEF KeysInv, ReadsLinked
<1>6. QED
  BY Zenon, <1>2, <1>3, <1>5, KeysFrame DEF KeysInv, SendersKeys

LEMMA HandleRunKeys == ASSUME TypeInv, KeysInv, HandleRun PROVE KeysInv'
<1>1. \A k : In(port', {"connect"}, k) => In(port, {"connect"}, k)
  BY HandleRunTurn, TurnPort DEF Kinds
<1>2. UNCHANGED <<server_key, caller, ckey, clients, link>>
  BY Zenon DEF HandleRun
<1>3. \E c \in clients : DoRead(c)
  BY Zenon DEF HandleRun, Received, ByKey
<1>4. \A c \in rpend' : link[c] \in {"accepted", "freed"}
  BY <1>3, DoReadKeys
<1> DEFINE R(c) == [rid |-> Cardinality(seen) + 1, id |-> Head(port).line.arg,
                    key |-> Head(port).key, owner |-> c]
<1>5. PICK c \in ByKey(Head(port).key) : seen' = seen \cup {R(c)}
  BY ZenonT(60) DEF HandleRun
<1>6. R(c).key = Head(port).key /\ R(c).owner = c
  OBVIOUS
<1> HIDE DEF R
<1>7. Head(port).key \in Nat \ {0}
  BY Zenon, PacketTaken DEF HandleRun, Received
<1>8. ckey[c] = Head(port).key
  BY SMTT(60) DEF ByKey
<1>9. \A r \in seen' : r.key = ckey[r.owner] /\ r.key # 0
  BY <1>5, <1>6, <1>7, <1>8 DEF KeysInv, SendersKeys
<1>10. QED
  BY ZenonT(60), <1>1, <1>2, <1>4, <1>9, KeysFrame

LEMMA EndsKeys ==
  ASSUME TypeInv, KeysInv, WriteInv, NEW c \in Conns, ReadEnds(c) \/ WriteEnds(c)
  PROVE  KeysInv'
<1>1. \E p \in Packet : Post(<<p>>) /\ p.kind # "connect"
  <2>1. CASE ReadEnds(c)
    BY SMTT(60), <2>1, ReadEndsPost
  <2>2. CASE WriteEnds(c)
    <3>1. link[c] \in {"accepted", "freed"}
      BY <2>2 DEF WriteEnds, WriteInv, TypeInv, KeyType
    <3>2. ckey[c] \in Nat
      BY <3>1, ClientKeyGiven
    <3>3. QED
      BY SMTT(60), <2>2, <3>2, PacketTypes DEF WriteEnds
  <2>3. QED
    BY <2>1, <2>2
<1>2. \A k : In(port', {"connect"}, k) => In(port, {"connect"}, k)
  BY <1>1, PostPort
<1>3. UNCHANGED <<server_key, caller, ckey, clients, link, seen>> /\ rpend' \subseteq rpend
  BY DEF ReadEnds, WriteEnds, keyVars, ghostVars
<1>4. QED
  BY Zenon, <1>2, <1>3, KeysFrame DEF KeysInv, ReadsLinked, SendersKeys

LEMMA CloseClientKeys == ASSUME TypeInv, KeysInv, CloseClient PROVE KeysInv'
<1>1. \A k : In(port', {"connect"}, k) => In(port, {"connect"}, k)
  BY Zenon, TurnTakes, TurnPort DEF CloseClient, TurnDone, Kinds
<1>2. PICK c \in clients : clients' = clients \ {c} /\ link' = [link EXCEPT ![c] = "freed"]
  BY Zenon DEF CloseClient, ByKey
<1>3. UNCHANGED <<server_key, caller, ckey, rpend, seen>>
  BY DEF CloseClient, ghostVars
<1>4. c \in Conns /\ link[c] = "accepted" /\ \A d \in Conns : link'[d] = IF d = c THEN "freed" ELSE link[d]
  BY <1>2 DEF KeysInv, ClientsLinked, TypeInv, KeyType
<1>5. ClientsLinked'
  BY <1>2, <1>4 DEF KeysInv, ClientsLinked
<1>6. CallersWait'
  BY SMTT(60), <1>3, <1>4 DEF KeysInv, CallersWait, TypeInv, KeyType
<1>7. KeyIfLinked'
  BY <1>3, <1>4 DEF KeysInv, KeyIfLinked
<1>8. ReadsLinked'
  BY Zenon, <1>3, <1>4 DEF KeysInv, ReadsLinked, TypeInv, ClientType
<1>9. QED
  BY Zenon, <1>1, <1>3, <1>5, <1>6, <1>7, <1>8
  DEF KeysInv, InstanceKeys, ClientKeys, KeyOfCaller, ConnectPending, SendersKeys

(* The instance a connect packet is about, and its caller.                 *)
LEMMA AcceptFacts ==
  ASSUME TypeInv, KeysInv, AcceptClient
  PROVE  \E i \in Instances :
           /\ server_key[i] = Head(port).key /\ caller[i] \in Conns
           /\ link[caller[i]] = "waiting" /\ ckey[caller[i]] = server_key[i]
           /\ clients' = clients \cup {caller[i]}
           /\ link' = [link EXCEPT ![caller[i]] = "accepted"]
           /\ caller' = [caller EXCEPT ![i] = NoConn]
           /\ server_key' = [server_key EXCEPT ![i] = gen_key]
           /\ DoRead(caller[i])
<1>1. PICK i \in ServerNums(Head(port).key) :
        /\ clients' = clients \cup {caller[i]}
        /\ link' = [link EXCEPT ![caller[i]] = "accepted"]
        /\ caller' = [caller EXCEPT ![i] = NoConn]
        /\ server_key' = [server_key EXCEPT ![i] = gen_key]
        /\ DoRead(caller[i])
  BY ZenonT(60) DEF AcceptClient
<1>2. i \in Instances /\ server_key[i] = Head(port).key
  BY Zenon DEF ServerNums
<1>3. port # <<>> /\ port \in Seq(Packet) /\ Head(port).kind = "connect"
  BY PacketTaken DEF AcceptClient
<1>4. 1 \in 1..Len(port) /\ port[1] = Head(port)
  BY <1>3, TailFacts
<1>5. In(port, {"connect"}, server_key[i])
  BY <1>2, <1>3, <1>4 DEF In
<1>6. caller[i] # NoConn
  BY Zenon, <1>2, <1>5 DEF KeysInv, ConnectPending
<1>7. caller[i] \in Conns /\ link[caller[i]] = "waiting" /\ ckey[caller[i]] = server_key[i]
  BY <1>2, <1>6 DEF KeysInv, CallersWait, TypeInv, KeyType
<1>8. QED
  BY Zenon, <1>1, <1>2, <1>7

LEMMA NewKeyUnused ==
  ASSUME TypeInv
  PROVE  /\ \A i \in Instances : server_key[i] # gen_key /\ server_key[i] # 0
         /\ \A c \in Conns : ckey[c] # gen_key
         /\ \A K : ~In(port, K, gen_key)
<1>1. gen_key \in Nat \ {0} /\ gen_key \notin 1..(gen_key - 1) /\ 0 \notin 1..(gen_key - 1)
  BY DEF TypeInv, KeyType
<1>2. \A i \in Instances : server_key[i] \in 1..(gen_key - 1)
  BY DEF TypeInv, KeyType, Keys
<1>3. \A c \in Conns : ckey[c] \in 1..(gen_key - 1) \cup {0}
  BY DEF TypeInv, KeyType, Keys
<1>4. \A i \in 1..Len(port) : port[i].key \in 1..(gen_key - 1)
  BY DEF TypeInv, Good
<1>5. QED
  BY <1>1, <1>2, <1>3, <1>4 DEF In

LEMMA AcceptClientKeys == ASSUME TypeInv, KeysInv, AcceptClient PROVE KeysInv'
<1>1. PICK i \in Instances :
        /\ server_key[i] = Head(port).key /\ caller[i] \in Conns
        /\ link[caller[i]] = "waiting" /\ ckey[caller[i]] = server_key[i]
        /\ clients' = clients \cup {caller[i]}
        /\ link' = [link EXCEPT ![caller[i]] = "accepted"]
        /\ caller' = [caller EXCEPT ![i] = NoConn]
        /\ server_key' = [server_key EXCEPT ![i] = gen_key]
        /\ DoRead(caller[i])
  BY AcceptFacts
<1> DEFINE c == caller[i]
<1>2. UNCHANGED <<ckey, seen>>
  BY DEF AcceptClient, ghostVars
<1>3. \A k : In(port', {"connect"}, k) => In(port, {"connect"}, k)
  BY ZenonT(60), TurnTakes, TurnPort DEF AcceptClient, TurnDone, Kinds
<1>4. /\ c \in Conns /\ link[c] = "waiting" /\ ckey[c] = server_key[i]
      /\ \A d \in Conns : link'[d] = IF d = c THEN "accepted" ELSE link[d]
  BY <1>1 DEF TypeInv, KeyType
<1>5. /\ \A j \in Instances : server_key'[j] = IF j = i THEN gen_key ELSE server_key[j]
      /\ \A j \in Instances : caller'[j] = IF j = i THEN NoConn ELSE caller[j]
  BY SMTT(60), <1>1 DEF TypeInv, KeyType
<1>6. clients' = clients \cup {c} /\ DoRead(c)
  BY SMTT(60), <1>1
<1> HIDE DEF c
<1>7. InstanceKeys'
  BY SMTT(60), <1>5, NewKeyUnused DEF KeysInv, InstanceKeys
<1>8. KeyIfLinked'
  BY SMTT(60), <1>2, <1>4 DEF KeysInv, KeyIfLinked
<1>9. CallersWait'
  <2> SUFFICES ASSUME NEW j \in Instances, caller'[j] # NoConn
               PROVE  ckey'[caller'[j]] = server_key'[j] /\ link'[caller'[j]] = "waiting"
    BY DEF CallersWait
  <2>1. j # i /\ caller'[j] = caller[j] /\ server_key'[j] = server_key[j]
    BY SMTT(60), <1>5
  <2>2. caller[j] \in Conns /\ ckey[caller[j]] = server_key[j] /\ link[caller[j]] = "waiting"
    BY SMTT(60), <2>1 DEF KeysInv, CallersWait, TypeInv, KeyType
  <2>3. server_key[j] # server_key[i]
    BY SMTT(60), <2>1 DEF KeysInv, InstanceKeys
  <2>4. QED
    BY SMTT(60), <1>2, <1>4, <2>1, <2>2, <2>3
<1>10. KeyOfCaller'
  BY ZenonT(60), <1>2, <1>5, NewKeyUnused DEF KeysInv, KeyOfCaller
<1>11. ClientsLinked'
  BY <1>4, <1>6 DEF KeysInv, ClientsLinked
<1>12. ConnectPending'
  BY ZenonT(60), <1>3, <1>5, NewKeyUnused DEF KeysInv, ConnectPending
<1>13. ReadsLinked'
  <2>1. rpend' \subseteq rpend \cup {c}
    BY <1>6 DEF DoRead
  <2>2. \A d \in rpend : d \in Conns /\ link[d] \in {"accepted", "freed"}
    BY DEF KeysInv, ReadsLinked, TypeInv, ClientType
  <2>3. QED
    BY <1>4, <2>1, <2>2 DEF ReadsLinked
<1>14. QED
  BY ZenonT(60), <1>2, <1>7, <1>8, <1>9, <1>10, <1>11, <1>12, <1>13
  DEF KeysInv, ClientKeys, SendersKeys

(* What Connect of client c to instance i does, field by field.            *)
ConnectsTo(c, i) ==
  /\ link[c] = "none" /\ ckey[c] = 0 /\ caller[i] = NoConn
  /\ server_key[i] \in Nat /\ server_key[i] # 0
  /\ \A d \in Conns : link'[d] = IF d = c THEN "waiting" ELSE link[d]
  /\ \A d \in Conns : ckey'[d] = IF d = c THEN server_key[i] ELSE ckey[d]
  /\ \A j \in Instances : caller'[j] = IF j = i THEN c ELSE caller[j]
  /\ UNCHANGED <<server_key, clients, rpend, seen>>

LEMMA ConnectFields ==
  ASSUME TypeInv, KeysInv, NEW c \in Conns, Connect(c)
  PROVE  \E i \in Instances : ConnectsTo(c, i) /\ Post(<<[kind |-> "connect", key |-> server_key[i]]>>)
<1>1. PICK i \in Instances :
        /\ caller[i] = NoConn /\ caller' = [caller EXCEPT ![i] = c]
        /\ ckey' = [ckey EXCEPT ![c] = server_key[i]]
        /\ Post(<<[kind |-> "connect", key |-> server_key[i]]>>)
  BY Zenon DEF Connect
<1>2. /\ link[c] = "none" /\ ckey[c] = 0 /\ server_key[i] \in Nat /\ server_key[i] # 0
  BY NewKeyUnused DEF Connect, KeysInv, KeyIfLinked, TypeInv, KeyType, Keys
<1>3. /\ \A d \in Conns : link'[d] = IF d = c THEN "waiting" ELSE link[d]
      /\ \A d \in Conns : ckey'[d] = IF d = c THEN server_key[i] ELSE ckey[d]
      /\ \A j \in Instances : caller'[j] = IF j = i THEN c ELSE caller[j]
  BY <1>1 DEF Connect, TypeInv, KeyType
<1>4. UNCHANGED <<server_key, clients, rpend, seen>>
  BY Zenon DEF Connect, ghostVars
<1>5. QED
  BY Zenon, <1>1, <1>2, <1>3, <1>4 DEF ConnectsTo

LEMMA ConnectPort ==
  ASSUME TypeInv, KeysInv, NEW i \in Instances, server_key[i] \in Nat, server_key[i] # 0,
         Post(<<[kind |-> "connect", key |-> server_key[i]]>>)
  PROVE  \A k : In(port', {"connect"}, k) => In(port, {"connect"}, k) \/ k = server_key[i]
<1> DEFINE p == [kind |-> "connect", key |-> server_key[i]]
<1>1. p \in Packet /\ p.key = server_key[i] /\ Post(<<p>>)
  BY Zenon, PacketTypes
<1> HIDE DEF p
<1>2. QED
  BY Zenon, <1>1, PostPort

LEMMA ConnectLinked ==
  ASSUME KeyIfLinked, ClientsLinked, ReadsLinked, rpend \subseteq Conns,
         NEW c \in Conns, NEW i \in Instances, ConnectsTo(c, i)
  PROVE  KeyIfLinked' /\ ClientsLinked' /\ ReadsLinked'
<1>1. KeyIfLinked'
  BY Zenon DEF ConnectsTo, KeyIfLinked
<1>2. ClientsLinked'
  BY DEF ConnectsTo, ClientsLinked
<1>3. ReadsLinked'
  BY Zenon DEF ConnectsTo, ReadsLinked
<1>4. QED
  BY <1>1, <1>2, <1>3

(* The key of a free instance is no client's.                              *)
LEMMA ConnectClientKeys ==
  ASSUME ClientKeys, KeyOfCaller, NEW c \in Conns, NEW i \in Instances, ConnectsTo(c, i)
  PROVE  ClientKeys' /\ \A d \in Conns : ckey[d] # server_key[i]
<1>1. NoConn \notin Conns
  BY ConnsAssumption
<1>2. \A d \in Conns : ckey[d] # server_key[i]
  BY Zenon, <1>1 DEF ConnectsTo, KeyOfCaller
<1>3. ClientKeys'
  BY <1>2 DEF ConnectsTo, ClientKeys
<1>4. QED
  BY <1>2, <1>3

LEMMA ConnectCallersWait ==
  ASSUME CallersWait, caller \in [Instances -> Conns \cup {NoConn}],
         NEW c \in Conns, NEW i \in Instances, ConnectsTo(c, i)
  PROVE  CallersWait'
<1>1. ASSUME NEW j \in Instances, j # i, caller'[j] # NoConn
      PROVE  ckey'[caller'[j]] = server_key'[j] /\ link'[caller'[j]] = "waiting"
  BY <1>1 DEF ConnectsTo, CallersWait
<1>2. ckey'[caller'[i]] = server_key'[i] /\ link'[caller'[i]] = "waiting"
  BY DEF ConnectsTo
<1>3. QED
  BY Zenon, <1>1, <1>2 DEF CallersWait

LEMMA ConnectKeyOfCaller ==
  ASSUME InstanceKeys, ClientKeys, KeyOfCaller,
         NEW c \in Conns, NEW i \in Instances, ConnectsTo(c, i)
  PROVE  KeyOfCaller'
<1>1. \A d \in Conns : ckey[d] # server_key[i]
  BY Zenon, ConnectClientKeys
<1>2. ASSUME NEW j \in Instances, NEW d \in Conns, ckey'[d] = server_key[j] PROVE caller'[j] = d
  BY <1>1, <1>2 DEF ConnectsTo, InstanceKeys, KeyOfCaller
<1>3. QED
  BY Zenon, <1>2 DEF ConnectsTo, KeyOfCaller

LEMMA ConnectPendingKept ==
  ASSUME InstanceKeys, ConnectPending, NEW c \in Conns, NEW i \in Instances, ConnectsTo(c, i),
         \A k : In(port', {"connect"}, k) => In(port, {"connect"}, k) \/ k = server_key[i]
  PROVE  ConnectPending'
<1>1. c # NoConn
  BY ConnsAssumption
<1>2. \A j \in Instances : In(port', {"connect"}, server_key[j]) => caller'[j] # NoConn
  BY Zenon, <1>1 DEF ConnectsTo, InstanceKeys, ConnectPending
<1>3. QED
  BY Zenon, <1>2 DEF ConnectsTo, ConnectPending

LEMMA ConnectSenders ==
  ASSUME SendersKeys, seen \subseteq Request, NEW c \in Conns, NEW i \in Instances, ConnectsTo(c, i)
  PROVE  SendersKeys'
<1>1. \A r \in seen : r.owner \in Conns
  BY DEF Request
<1>2. QED
  BY Zenon, <1>1 DEF ConnectsTo, SendersKeys

LEMMA ConnectKeys == ASSUME TypeInv, KeysInv, NEW c \in Conns, Connect(c) PROVE KeysInv'
<1>1. PICK i \in Instances : ConnectsTo(c, i) /\ Post(<<[kind |-> "connect", key |-> server_key[i]]>>)
  BY Zenon, ConnectFields
<1>2. \A k : In(port', {"connect"}, k) => In(port, {"connect"}, k) \/ k = server_key[i]
  BY Zenon, <1>1, ConnectPort DEF ConnectsTo
<1>3. /\ caller \in [Instances -> Conns \cup {NoConn}] /\ rpend \subseteq Conns
      /\ seen \subseteq Request
  BY Zenon DEF TypeInv, KeyType, ClientType, SeenType
<1>4. InstanceKeys'
  BY Zenon, <1>1 DEF ConnectsTo, KeysInv, InstanceKeys
<1>5. QED
  BY Zenon, <1>1, <1>2, <1>3, <1>4, ConnectLinked, ConnectClientKeys, ConnectCallersWait,
     ConnectKeyOfCaller, ConnectPendingKept, ConnectSenders
  DEF KeysInv

LEMMA KeysStep ==
  ASSUME TypeInv, KeysInv, WriteInv, [Next]_vars
  PROVE  KeysInv'
BY QuietKeys, TurnKeys, HandleRunKeys, EndsKeys, CloseClientKeys, AcceptClientKeys, ConnectKeys
DEF Next, ServerStep, Kernel, Environment

-----------------------------------------------------------------------------
(* Writes.                                                                 *)

(* What WriteInv says of the write of one client.                          *)
OneWrite(c) ==
  /\ c \in is_writing <=> wpend[c] > 0 \/ In(port, {"written"}, ckey[c])
  /\ wpend[c] <= 1 /\ (wpend[c] > 0 => ~In(port, {"written"}, ckey[c]))
  /\ ~In(port, {"unwritten"}, ckey[c]) /\ One(port, ckey[c])

LEMMA WriteInvIs ==
  WriteInv <=>
    /\ \A c \in Conns : link[c] \in {"none", "waiting"} => wpend[c] = 0 /\ c \notin is_writing
    /\ \A i \in Instances : /\ ~In(port, {"written"}, server_key[i])
                            /\ ~In(port, {"unwritten"}, server_key[i])
    /\ \A c \in clients \cap open : OneWrite(c)
BY Zenon DEF WriteInv, OneWrite

(* Nothing about writes changes for client c.                              *)
LEMMA OneWriteKept ==
  ASSUME NEW c, OneWrite(c), wpend'[c] = wpend[c], c \in is_writing' <=> c \in is_writing,
         ckey'[c] = ckey[c],
         In(port', {"written"}, ckey[c]) <=> In(port, {"written"}, ckey[c]),
         In(port', {"unwritten"}, ckey[c]) => In(port, {"unwritten"}, ckey[c]),
         One(port, ckey[c]) => One(port', ckey[c])
  PROVE  OneWrite(c)'
BY Zenon DEF OneWrite

(* The same with the numbers of writes.                                    *)
LEMMA OneWriteHas ==
  ASSUME NEW c, OneWrite(c), wpend[c] \in Nat
  PROVE  /\ c \notin is_writing => wpend[c] = 0 /\ ~In(port, {"written"}, ckey[c])
         /\ wpend[c] # 0 => wpend[c] = 1 /\ c \in is_writing /\ ~In(port, {"written"}, ckey[c])
         /\ ~In(port, {"unwritten"}, ckey[c]) /\ One(port, ckey[c])
<1>1. wpend[c] <= 1
  BY Zenon DEF OneWrite
<1>2. (wpend[c] # 0 => wpend[c] = 1) /\ (wpend[c] > 0 <=> wpend[c] # 0)
  BY <1>1
<1>3. QED
  BY Zenon, <1>2 DEF OneWrite

LEMMA OneWriteIf ==
  ASSUME NEW c, NEW k, ckey'[c] = k, wpend'[c] \in {0, 1},
         c \in is_writing' <=> wpend'[c] = 1 \/ In(port', {"written"}, k),
         wpend'[c] = 1 => ~In(port', {"written"}, k),
         ~In(port', {"unwritten"}, k), One(port', k)
  PROVE  OneWrite(c)'
<1>1. wpend'[c] <= 1 /\ (wpend'[c] > 0 <=> wpend'[c] = 1)
  BY SMTT(60)
<1>2. QED
  BY ZenonT(60), <1>1 DEF OneWrite

(* An answer to a client: a WriteFile unless one is under way.             *)
LEMMA SendMsgWrites ==
  ASSUME TypeInv, NEW c \in Conns, NEW kind, NEW r, SendMsg(c, kind, r)
  PROVE  /\ \A d \in Conns : d # c => wpend'[d] = wpend[d] /\ (d \in is_writing' <=> d \in is_writing)
         /\ c \in open /\ c \in is_writing' /\ c \notin is_writing => wpend'[c] = wpend[c] + 1
         /\ c \in is_writing \/ c \notin is_writing' => wpend'[c] = wpend[c]
         /\ c \in is_writing => c \in is_writing'
<1>1. \/ is_writing' = is_writing /\ wpend' = wpend
      \/ c \notin is_writing /\ is_writing' = is_writing \cup {c}
         /\ wpend' = IF c \in open THEN [wpend EXCEPT ![c] = @ + 1] ELSE wpend
  BY DEF SendMsg, TryWrite
<1>2. wpend \in [Conns -> Nat]
  BY DEF TypeInv, BufType
<1>3. CASE is_writing' = is_writing /\ wpend' = wpend
  BY <1>3
<1>4. CASE /\ c \notin is_writing /\ is_writing' = is_writing \cup {c}
           /\ wpend' = IF c \in open THEN [wpend EXCEPT ![c] = @ + 1] ELSE wpend
  BY <1>2, <1>4
<1>5. QED
  BY <1>1, <1>3, <1>4

LEMMA WriteKinds == {"written"} \in Kinds /\ {"unwritten"} \in Kinds
BY DEF Kinds

(* WriteInv of the next state, part by part.                               *)
LEMMA WriteInvNext ==
  ASSUME \A d \in Conns : link'[d] \in {"none", "waiting"} => wpend'[d] = 0 /\ d \notin is_writing',
         \A i \in Instances : /\ ~In(port', {"written"}, server_key'[i])
                              /\ ~In(port', {"unwritten"}, server_key'[i]),
         \A d \in (clients \cap open)' : OneWrite(d)'
  PROVE  WriteInv'
BY Zenon DEF WriteInv, OneWrite

(* The write that SendMsg starts is the client's only one.                 *)
LEMMA WriteStarted ==
  ASSUME NEW c, OneWrite(c), wpend[c] \in Nat, ckey'[c] = ckey[c], c \notin is_writing, c \in is_writing',
         wpend'[c] = wpend[c] + 1,
         In(port', {"written"}, ckey[c]) => In(port, {"written"}, ckey[c]),
         In(port', {"unwritten"}, ckey[c]) => In(port, {"unwritten"}, ckey[c]),
         One(port, ckey[c]) => One(port', ckey[c])
  PROVE  OneWrite(c)'
<1>1. /\ wpend[c] = 0 /\ ~In(port, {"written"}, ckey[c])
      /\ ~In(port, {"unwritten"}, ckey[c]) /\ One(port, ckey[c])
  BY Zenon, OneWriteHas
<1>2. wpend'[c] = 1 /\ wpend'[c] \in {0, 1}
  BY <1>1
<1>3. QED
  BY Zenon, <1>1, <1>2, OneWriteIf

LEMMA SendMsgOneWrite ==
  ASSUME TypeInv, NEW c \in Conns, NEW kind, NEW r, SendMsg(c, kind, r), UNCHANGED ckey, c \in open,
         \A k : /\ In(port', {"written"}, k) <=> In(port, {"written"}, k)
                /\ In(port', {"unwritten"}, k) => In(port, {"unwritten"}, k)
                /\ One(port, k) => One(port', k),
         OneWrite(c)
  PROVE  OneWrite(c)'
<1>1. CASE c \in is_writing \/ c \notin is_writing'
  BY Zenon, <1>1, SendMsgWrites, OneWriteKept
<1>2. wpend[c] \in Nat
  BY DEF TypeInv, BufType
<1>3. CASE c \notin is_writing /\ c \in is_writing'
  BY Zenon, <1>2, <1>3, SendMsgWrites, WriteStarted
<1>4. QED
  BY <1>1, <1>3

LEMMA SendMsgWriteInv ==
  ASSUME TypeInv, KeysInv, WriteInv, NEW c \in clients, NEW kind, NEW r, SendMsg(c, kind, r),
         UNCHANGED <<server_key, ckey, clients, link, open>>,
         \A k : /\ In(port', {"written"}, k) <=> In(port, {"written"}, k)
                /\ In(port', {"unwritten"}, k) => In(port, {"unwritten"}, k)
                /\ One(port, k) => One(port', k)
  PROVE  WriteInv'
<1>1. c \in Conns /\ link[c] = "accepted" /\ clients \subseteq Conns
  BY Zenon DEF KeysInv, ClientsLinked
<1>2. \A d \in Conns : d # c => wpend'[d] = wpend[d] /\ (d \in is_writing' <=> d \in is_writing)
  BY Zenon, <1>1, SendMsgWrites
<1>3. \A d \in Conns : link'[d] \in {"none", "waiting"} => wpend'[d] = 0 /\ d \notin is_writing'
  BY Zenon, <1>1, <1>2 DEF WriteInv
<1>4. \A i \in Instances : /\ ~In(port', {"written"}, server_key'[i])
                           /\ ~In(port', {"unwritten"}, server_key'[i])
  BY Zenon DEF WriteInv
<1>5. \A d \in clients \cap open : d # c => OneWrite(d)'
  BY Zenon, <1>1, <1>2, WriteInvIs, OneWriteKept
<1>6. c \in open => OneWrite(c)'
  BY Zenon, <1>1, WriteInvIs, SendMsgOneWrite
<1>7. QED
  BY Zenon, <1>3, <1>4, <1>5, <1>6, WriteInvNext

LEMMA WriteFrame ==
  ASSUME WriteInv, UNCHANGED <<server_key, ckey, wpend, is_writing>>,
         \A c \in Conns : link'[c] \in {"none", "waiting"} => link[c] \in {"none", "waiting"},
         (clients \cap open)' \subseteq clients \cap open,
         \A k : /\ In(port', {"written"}, k) => In(port, {"written"}, k)
                /\ In(port', {"unwritten"}, k) => In(port, {"unwritten"}, k)
                /\ One(port, k) => One(port', k),
         \A c \in clients : In(port, {"written"}, ckey[c]) => In(port', {"written"}, ckey[c])
  PROVE  WriteInv'
<1>1. \A c \in Conns : link'[c] \in {"none", "waiting"} => wpend'[c] = 0 /\ c \notin is_writing'
  BY Zenon DEF WriteInv
<1>2. \A i \in Instances : /\ ~In(port', {"written"}, server_key'[i])
                           /\ ~In(port', {"unwritten"}, server_key'[i])
  BY Zenon DEF WriteInv
<1>3. ASSUME NEW c \in (clients \cap open)' PROVE OneWrite(c)'
  <2>1. c \in clients \cap open /\ OneWrite(c)
    BY Zenon, WriteInvIs
  <2>2. QED
    BY Zenon, <2>1, OneWriteKept
<1>4. QED
  BY Zenon, <1>1, <1>2, <1>3 DEF WriteInv, OneWrite

(* Packets about writes when a step neither takes nor posts one.           *)
LEMMA OtherTurn ==
  ASSUME TypeInv, NEW K, Turn(K), Head(port).kind \notin {"written", "unwritten"}
  PROVE  \A k : /\ In(port', {"written"}, k) <=> In(port, {"written"}, k)
                /\ In(port', {"unwritten"}, k) => In(port, {"unwritten"}, k)
                /\ One(port, k) => One(port', k)
<1>1. {"written"} \in Kinds /\ {"unwritten"} \in Kinds
  BY DEF Kinds
<1>2. Head(port).kind \notin {"written"}
  OBVIOUS
<1>3. QED
  BY Zenon, <1>1, <1>2, TurnPort

LEMMA QuietWrites ==
  ASSUME TypeInv, KeysInv, WriteInv,
         \/ ScheduleDone \/ ReadPastArray \/ UNCHANGED vars
         \/ \E k \in alive : ChildEnds(k) \/ MemoryLimit(k)
         \/ \E c \in Conns : SendRun(c) \/ SendControl(c) \/ Close(c)
  PROVE  WriteInv'
<1>1. \A k : /\ In(port', {"written"}, k) <=> In(port, {"written"}, k)
             /\ In(port', {"unwritten"}, k) => In(port, {"unwritten"}, k)
             /\ One(port, k) => One(port', k)
  BY QuietPort DEF Same, Kinds
<1>2. UNCHANGED <<server_key, ckey, clients, link, wpend, is_writing>> /\ open' \subseteq open
  BY Zenon DEF ScheduleDone, ReadPastArray, vars, ChildEnds, MemoryLimit,
         SendRun, SendControl, Close, keyVars, bufVars, clientVars
<1>3. QED
  BY <1>1, <1>2, WriteFrame

LEMMA OtherTurnsWrites ==
  ASSUME TypeInv, KeysInv, WriteInv, HandleInterrupt \/ HandleParallel \/ ReadMore \/ CloseClient
  PROVE  WriteInv'
<1>1. \E K : /\ Packets(K) /\ port' = Tail(port) /\ K \cap {"written", "unwritten"} = {}
  BY SMTT(60) DEF HandleInterrupt, HandleParallel, ReadMore, CloseClient, Received, TurnDone
<1>2. \A k : /\ In(port', {"written"}, k) <=> In(port, {"written"}, k)
             /\ In(port', {"unwritten"}, k) => In(port, {"unwritten"}, k)
             /\ One(port, k) => One(port', k)
  BY <1>1, TurnTakes, OtherTurn, PacketTaken
<1>3. UNCHANGED <<server_key, ckey, wpend, is_writing, open>>
  BY Zenon DEF HandleInterrupt, HandleParallel, ReadMore, CloseClient, keyVars, bufVars, clientVars
<1>4. clients' \subseteq clients
  BY Zenon DEF HandleInterrupt, HandleParallel, ReadMore, CloseClient, keyVars
<1>5. \A c \in Conns : link'[c] \in {"none", "waiting"} => link[c] \in {"none", "waiting"}
  <2>1. CASE UNCHANGED link
    BY <2>1
  <2>2. CASE CloseClient
    <3>1. PICK c \in Conns : link' = [link EXCEPT ![c] = "freed"]
      BY Zenon, <2>2 DEF CloseClient, ByKey, TypeInv, KeyType
    <3>2. QED
      BY <3>1 DEF TypeInv, KeyType
  <2>3. QED
    BY Zenon, <2>1, <2>2 DEF HandleInterrupt, HandleParallel, ReadMore, keyVars
<1>6. QED
  BY ZenonT(60), <1>2, <1>3, <1>4, <1>5, WriteFrame

LEMMA IgnorePacketWrites == ASSUME TypeInv, KeysInv, WriteInv, IgnorePacket PROVE WriteInv'
<1>1. \E K : Turn(K)
  BY Zenon, TurnTakes DEF IgnorePacket, TurnDone
<1>2. \A k : /\ In(port', {"written"}, k) => In(port, {"written"}, k)
             /\ In(port', {"unwritten"}, k) => In(port, {"unwritten"}, k)
             /\ One(port, k) => One(port', k)
             /\ In(port, {"written"}, k) =>
                  In(port', {"written"}, k) \/ (Head(port).kind \in {"written"} /\ Head(port).key = k)
  BY Zenon, <1>1, WriteKinds, TurnPort
<1>3. Head(port).kind \in {"written"} => \A c \in clients : ckey[c] # Head(port).key
  BY Zenon DEF IgnorePacket, Packets, Notices, ByKey
<1>4. \A c \in clients : In(port, {"written"}, ckey[c]) => In(port', {"written"}, ckey[c])
  BY Zenon, <1>2, <1>3
<1>5. UNCHANGED <<server_key, ckey, clients, link, wpend, is_writing, open>>
  BY Zenon DEF IgnorePacket, keyVars, bufVars, clientVars
<1>6. QED
  BY Zenon, <1>2, <1>4, <1>5, WriteFrame

LEMMA AnswersWrites ==
  ASSUME TypeInv, KeysInv, WriteInv, ScheduleNewJob \/ HandleRun \/ HandleChildEvent
  PROVE  WriteInv'
<1>1. \A k : /\ In(port', {"written"}, k) <=> In(port, {"written"}, k)
             /\ In(port', {"unwritten"}, k) => In(port, {"unwritten"}, k)
             /\ One(port, k) => One(port', k)
  <2>1. CASE ScheduleNewJob
    BY <2>1, QuietPort DEF Same, Kinds
  <2>2. CASE HandleRun
    <3>1. Turn({"read"}) /\ Head(port).kind = "read"
      BY <2>2, HandleRunTurn DEF Turn, Packets
    <3>2. QED
      BY <3>1, OtherTurn
  <2>3. CASE HandleChildEvent
    <3>1. Turn(Notices \ {"new"}) /\ Head(port).kind \in Notices
      BY Zenon, <2>3, TurnTakes DEF HandleChildEvent, TurnDone, Packets
    <3>2. QED
      BY <3>1, OtherTurn DEF Notices
  <2>4. QED
    BY <2>1, <2>2, <2>3
<1>2. UNCHANGED <<server_key, ckey, clients, link, open>>
  BY Zenon DEF ScheduleNewJob, HandleRun, HandleChildEvent, keyVars, clientVars
<1>3. UNCHANGED <<wpend, is_writing>> \/ \E c \in clients : \E kind, r : SendMsg(c, kind, r)
  <2>1. CASE ScheduleNewJob
    BY Zenon, <2>1 DEF ScheduleNewJob, RunRequest, Spawns, SpawnFails, ByKey, bufVars
  <2>2. CASE HandleRun
    BY Zenon, <2>2 DEF HandleRun, Spawns, SpawnFails, ByKey, bufVars
  <2>3. CASE HandleChildEvent
    BY ZenonT(60), <2>3 DEF HandleChildEvent, ByKey
  <2>4. QED
    BY <2>1, <2>2, <2>3
<1>4. CASE UNCHANGED <<wpend, is_writing>>
  BY SMTT(60), <1>1, <1>2, <1>4, WriteFrame
<1>5. CASE \E c \in clients : \E kind, r : SendMsg(c, kind, r)
  BY SMTT(60), <1>1, <1>2, <1>5, SendMsgWriteInv
<1>6. QED
  BY SMTT(60), <1>3, <1>4, <1>5

LEMMA ReadEndsWrites ==
  ASSUME TypeInv, KeysInv, WriteInv, NEW c \in Conns, ReadEnds(c)
  PROVE  WriteInv'
<1>1. \E p \in Packet : Post(<<p>>) /\ p.kind \in {"broken", "more", "read"}
  BY Zenon, ReadEndsPost
<1>2. \A k : /\ In(port', {"written"}, k) <=> In(port, {"written"}, k)
             /\ In(port', {"unwritten"}, k) => In(port, {"unwritten"}, k)
             /\ One(port, k) => One(port', k)
  BY <1>1, PostPort
<1>3. UNCHANGED <<server_key, ckey, clients, link, wpend, is_writing, open>>
  BY Zenon DEF ReadEnds, keyVars, bufVars
<1>4. QED
  BY SMTT(60), <1>2, <1>3, WriteFrame

LEMMA NoneIsOne == ASSUME NEW s, NEW k, ~In(s, {"written"}, k) PROVE One(s, k)
BY DEF In, One

LEMMA ConnectWrites ==
  ASSUME TypeInv, KeysInv, WriteInv, NEW c \in Conns, Connect(c)
  PROVE  WriteInv'
<1>1. PICK i \in Instances :
        /\ ckey' = [ckey EXCEPT ![c] = server_key[i]]
        /\ Post(<<[kind |-> "connect", key |-> server_key[i]]>>)
  BY ZenonT(60) DEF Connect
<1>2. server_key[i] \in Nat /\ link[c] = "none" /\ c \notin clients
  BY SMTT(60) DEF Connect, KeysInv, ClientsLinked, TypeInv, KeyType, Keys
<1>3. \A k : /\ In(port', {"written"}, k) <=> In(port, {"written"}, k)
             /\ In(port', {"unwritten"}, k) => In(port, {"unwritten"}, k)
             /\ One(port, k) => One(port', k)
  BY SMTT(60), <1>1, <1>2, PacketTypes, PostPort
<1>4. /\ UNCHANGED <<server_key, clients, wpend, is_writing>> /\ open' = open \cup {c}
      /\ \A d \in Conns : link'[d] = IF d = c THEN "waiting" ELSE link[d]
      /\ \A d \in Conns : d # c => ckey'[d] = ckey[d]
  BY <1>1 DEF Connect, bufVars, TypeInv, KeyType
<1>5. \A d \in Conns : link'[d] \in {"none", "waiting"} => wpend'[d] = 0 /\ d \notin is_writing'
  BY Zenon, <1>2, <1>4 DEF WriteInv
<1>6. \A j \in Instances : /\ ~In(port', {"written"}, server_key'[j])
                           /\ ~In(port', {"unwritten"}, server_key'[j])
  BY Zenon, <1>3, <1>4 DEF WriteInv
<1>7. ASSUME NEW d \in clients' \cap open' PROVE OneWrite(d)'
  <2>1. d \in clients \cap open /\ d \in Conns /\ d # c
    BY Zenon, <1>2, <1>4 DEF TypeInv, KeyType
  <2>2. QED
    BY Zenon, <1>3, <1>4, <2>1, OneWriteKept, WriteInvIs
<1>8. QED
  BY Zenon, <1>5, <1>6, <1>7 DEF WriteInv, OneWrite

LEMMA AcceptClientWrites == ASSUME TypeInv, KeysInv, WriteInv, AcceptClient PROVE WriteInv'
<1>1. PICK i \in Instances :
        /\ server_key[i] = Head(port).key /\ caller[i] \in Conns
        /\ link[caller[i]] = "waiting" /\ ckey[caller[i]] = server_key[i]
        /\ clients' = clients \cup {caller[i]}
        /\ link' = [link EXCEPT ![caller[i]] = "accepted"]
        /\ caller' = [caller EXCEPT ![i] = NoConn]
        /\ server_key' = [server_key EXCEPT ![i] = gen_key]
        /\ DoRead(caller[i])
  BY ZenonT(60), AcceptFacts
<1> DEFINE c == caller[i]
<1>2. /\ c \in Conns /\ link[c] = "waiting" /\ ckey[c] = server_key[i] /\ clients' = clients \cup {c}
      /\ \A d \in Conns : link'[d] = IF d = c THEN "accepted" ELSE link[d]
      /\ \A j \in Instances : server_key'[j] = IF j = i THEN gen_key ELSE server_key[j]
  BY SMTT(60), <1>1 DEF TypeInv, KeyType
<1> HIDE DEF c
<1>3. Turn({"connect"}) /\ Head(port).kind = "connect"
  BY SMTT(60), TurnTakes DEF AcceptClient, TurnDone, Packets
<1>4. \A k : /\ In(port', {"written"}, k) <=> In(port, {"written"}, k)
             /\ In(port', {"unwritten"}, k) => In(port, {"unwritten"}, k)
             /\ One(port, k) => One(port', k)
  BY SMTT(60), <1>3, OtherTurn
<1>5. UNCHANGED <<ckey, wpend, is_writing, open>>
  BY DEF AcceptClient, bufVars, clientVars
<1>6. \A d \in Conns : link'[d] \in {"none", "waiting"} => wpend'[d] = 0 /\ d \notin is_writing'
  BY Zenon, <1>2, <1>5 DEF WriteInv
<1>7. \A j \in Instances : /\ ~In(port', {"written"}, server_key'[j])
                           /\ ~In(port', {"unwritten"}, server_key'[j])
  BY Zenon, <1>2, <1>4, NewKeyUnused DEF WriteInv
<1>8. ASSUME NEW d \in clients' \cap open' PROVE OneWrite(d)'
  <2>1. CASE d = c
    <3>1. wpend[c] = 0 /\ c \notin is_writing
      BY ZenonT(60), <1>2 DEF WriteInv
    <3>2. ~In(port, {"written"}, ckey[c]) /\ ~In(port, {"unwritten"}, ckey[c])
      BY ZenonT(60), <1>2 DEF WriteInv
    <3>3. One(port, ckey[c])
      BY Zenon, <3>2, NoneIsOne
    <3>4. wpend'[c] \in {0, 1} /\ wpend'[c] # 1
      BY <1>5, <3>1
    <3>5. /\ ckey'[c] = ckey[c] /\ c \notin is_writing' /\ ~In(port', {"written"}, ckey[c])
          /\ ~In(port', {"unwritten"}, ckey[c]) /\ One(port', ckey[c])
      BY Zenon, <1>4, <1>5, <3>1, <3>2, <3>3
    <3>6. /\ wpend'[d] \in {0, 1} /\ wpend'[d] # 1 /\ ckey'[d] = ckey[d] /\ d \notin is_writing'
          /\ ~In(port', {"written"}, ckey[d]) /\ ~In(port', {"unwritten"}, ckey[d]) /\ One(port', ckey[d])
      BY Zenon, <2>1, <3>4, <3>5
    <3>7. QED
      BY ZenonT(60), <3>6, OneWriteIf
  <2>2. CASE d # c
    <3>1. d \in clients \cap open
      BY Zenon, <1>2, <1>5, <2>2
    <3>2. QED
      BY Zenon, <1>4, <1>5, <3>1, OneWriteKept, WriteInvIs
  <2>3. QED
    BY <2>1, <2>2
<1>9. QED
  BY Zenon, <1>6, <1>7, <1>8 DEF WriteInv, OneWrite

(* The end of a write of client c, seen from the port.                     *)
WriteEnded(c) ==
  \A k : /\ In(port', {"written"}, k) <=> In(port, {"written"}, k) \/ (c \in open /\ ckey[c] = k)
         /\ In(port', {"unwritten"}, k) <=> In(port, {"unwritten"}, k) \/ (c \notin open /\ ckey[c] = k)
         /\ One(port, k) /\ (ckey[c] # k \/ ~In(port, {"written"}, k)) => One(port', k)

LEMMA WriteEndsPort ==
  ASSUME TypeInv, NEW c \in Conns, WriteEnds(c), ckey[c] \in Nat, ckey[c] # 0
  PROVE  WriteEnded(c)
<1> DEFINE kind == IF c \in open THEN "written" ELSE "unwritten"
           p == [kind |-> kind, key |-> ckey[c]]
<1>1. p \in Packet /\ p.kind = kind /\ p.key = ckey[c] /\ Post(<<p>>)
  BY Zenon, PacketTypes DEF WriteEnds
<1> HIDE DEF p
<1>2. (p.kind \in {"written"} <=> c \in open) /\ (p.kind \in {"unwritten"} <=> c \notin open)
  BY <1>1
<1> HIDE DEF kind
<1>3. QED
  BY Zenon, <1>1, <1>2, PostPort DEF WriteEnded

LEMMA WriteEndsClient ==
  ASSUME TypeInv, KeysInv, WriteInv, NEW c \in Conns, WriteEnds(c)
  PROVE  /\ link[c] \in {"accepted", "freed"} /\ ckey[c] \in Nat /\ ckey[c] # 0
         /\ \A i \in Instances : server_key[i] # ckey[c]
<1>1. link[c] \in {"accepted", "freed"}
  BY DEF WriteEnds, WriteInv, TypeInv, KeyType, BufType
<1>2. ckey[c] \in Nat /\ ckey[c] # 0
  BY Zenon, <1>1, ClientKeyGiven DEF KeysInv, KeyIfLinked
<1>3. \A i \in Instances : server_key[i] # ckey[c]
  BY <1>1, ConnsAssumption DEF KeysInv, KeyOfCaller, CallersWait
<1>4. QED
  BY Zenon, <1>1, <1>2, <1>3

LEMMA WriteEndsCount ==
  ASSUME TypeInv, NEW c \in Conns, WriteEnds(c)
  PROVE  /\ wpend[c] \in Nat /\ wpend[c] # 0 /\ wpend'[c] = wpend[c] - 1
         /\ \A d \in Conns : d # c => wpend'[d] = wpend[d]
         /\ UNCHANGED <<server_key, ckey, clients, link, is_writing, open>>
<1>1. wpend \in [Conns -> Nat] /\ wpend[c] > 0 /\ wpend' = [wpend EXCEPT ![c] = @ - 1]
  BY DEF WriteEnds, TypeInv, BufType
<1>2. UNCHANGED <<server_key, ckey, clients, link, is_writing, open>>
  BY Zenon DEF WriteEnds, keyVars, clientVars
<1>3. QED
  BY <1>1, <1>2

LEMMA WriteEndsOneWrite ==
  ASSUME NEW c \in open, OneWrite(c), WriteEnded(c), wpend[c] \in Nat, wpend[c] # 0,
         wpend'[c] = wpend[c] - 1, ckey'[c] = ckey[c], is_writing' = is_writing
  PROVE  OneWrite(c)'
<1>1. wpend[c] = 1 /\ c \in is_writing /\ ~In(port, {"written"}, ckey[c])
      /\ ~In(port, {"unwritten"}, ckey[c]) /\ One(port, ckey[c])
  BY Zenon, OneWriteHas
<1>2. wpend'[c] = 0 /\ wpend'[c] # 1 /\ wpend'[c] \in {0, 1}
  BY <1>1
<1>3. In(port', {"written"}, ckey[c]) /\ ~In(port', {"unwritten"}, ckey[c]) /\ One(port', ckey[c])
  BY Zenon, <1>1 DEF WriteEnded
<1>4. QED
  BY Zenon, <1>1, <1>2, <1>3, OneWriteIf

LEMMA WriteEndsWrites ==
  ASSUME TypeInv, KeysInv, WriteInv, NEW c \in Conns, WriteEnds(c)
  PROVE  WriteInv'
<1>1. /\ link[c] \in {"accepted", "freed"} /\ ckey[c] \in Nat /\ ckey[c] # 0
      /\ \A i \in Instances : server_key[i] # ckey[c]
  BY Zenon, WriteEndsClient
<1>2. /\ wpend[c] \in Nat /\ wpend[c] # 0 /\ wpend'[c] = wpend[c] - 1
      /\ \A d \in Conns : d # c => wpend'[d] = wpend[d]
      /\ UNCHANGED <<server_key, ckey, clients, link, is_writing, open>>
  BY Zenon, WriteEndsCount
<1>3. WriteEnded(c)
  BY Zenon, <1>1, WriteEndsPort
<1>4. \A d \in Conns : link'[d] \in {"none", "waiting"} => wpend'[d] = 0 /\ d \notin is_writing'
  BY Zenon, <1>1, <1>2 DEF WriteInv
<1>5. \A i \in Instances : /\ ~In(port', {"written"}, server_key'[i])
                           /\ ~In(port', {"unwritten"}, server_key'[i])
  BY Zenon, <1>1, <1>2, <1>3 DEF WriteInv, WriteEnded
<1>6. \A d \in clients \cap open : d \in Conns /\ OneWrite(d) /\ (d # c => ckey[d] # ckey[c])
  BY Zenon, <1>1, WriteInvIs DEF KeysInv, ClientKeys, ClientsLinked
<1>7. \A d \in clients \cap open : d # c => OneWrite(d)'
  BY Zenon, <1>2, <1>3, <1>6, OneWriteKept DEF WriteEnded
<1>8. QED
  BY Zenon, <1>2, <1>3, <1>4, <1>5, <1>6, <1>7, WriteEndsOneWrite, WriteInvNext

(* The notice of a write, seen from the port.                              *)
NoticeTaken ==
  \A k : /\ In(port', {"written"}, k) => In(port, {"written"}, k)
         /\ In(port', {"unwritten"}, k) => In(port, {"unwritten"}, k)
         /\ In(port, {"written"}, k) =>
              In(port', {"written"}, k) \/ (Head(port).kind \in {"written"} /\ Head(port).key = k)
         /\ One(port, k) => One(port', k)
         /\ One(port, k) /\ Head(port).kind = "written" /\ Head(port).key = k
              => ~In(port', {"written"}, k)

LEMMA HaveWrittenPort ==
  ASSUME TypeInv, HaveWritten
  PROVE  /\ NoticeTaken /\ Head(port).kind \in {"written", "unwritten"} /\ Head(port).key # 0
         /\ 1 \in 1..Len(port) /\ port[1] = Head(port)
<1>1. Turn({"written", "unwritten"}) /\ Packets({"written", "unwritten"})
  BY TurnTakes DEF HaveWritten, TurnDone
<1>2. /\ port # <<>> /\ port \in Seq(Packet) /\ Head(port).kind \in {"written", "unwritten"}
      /\ Head(port).key # 0
  BY <1>1, PacketTaken
<1>3. NoticeTaken
  BY Zenon, <1>1, WriteKinds, TurnPort DEF NoticeTaken
<1>4. QED
  BY <1>2, <1>3, TailFacts

LEMMA HaveWrittenCount ==
  ASSUME TypeInv, NEW c \in Conns, TryWrite(c, is_writing \ {c})
  PROVE  /\ \A d \in Conns : d # c => wpend'[d] = wpend[d] /\ (d \in is_writing' <=> d \in is_writing)
         /\ c \in open => \/ c \notin is_writing' /\ wpend'[c] = wpend[c]
                          \/ c \in is_writing' /\ wpend'[c] = wpend[c] + 1
<1>1. \/ is_writing' = is_writing \ {c} /\ wpend' = wpend
      \/ is_writing' = is_writing \cup {c} /\ wpend' = [wpend EXCEPT ![c] = @ + 1]
      \/ is_writing' = is_writing \cup {c} /\ wpend' = wpend /\ c \notin open
  BY DEF TryWrite
<1>2. wpend \in [Conns -> Nat]
  BY DEF TypeInv, BufType
<1>3. QED
  BY <1>1, <1>2

(* The notice of a client that is served is of its one write: the next     *)
(* write, if any, is again the only one.                                   *)
LEMMA HaveWrittenOneWrite ==
  ASSUME NEW c, OneWrite(c), wpend[c] \in Nat, NoticeTaken, ckey'[c] = ckey[c],
         ckey[c] = Head(port).key, Head(port).kind \in {"written", "unwritten"},
         1 \in 1..Len(port), port[1] = Head(port),
         \/ c \notin is_writing' /\ wpend'[c] = wpend[c]
         \/ c \in is_writing' /\ wpend'[c] = wpend[c] + 1
  PROVE  OneWrite(c)'
<1>1. ~In(port, {"unwritten"}, ckey[c]) /\ One(port, ckey[c])
  BY Zenon DEF OneWrite
<1>2. Head(port).kind = "written"
  BY Zenon, <1>1 DEF In
<1>3. In(port, {"written"}, ckey[c])
  BY Zenon, <1>2 DEF In
<1>4. wpend[c] = 0
  BY <1>3 DEF OneWrite
<1>5. ~In(port', {"written"}, ckey[c]) /\ ~In(port', {"unwritten"}, ckey[c]) /\ One(port', ckey[c])
  BY Zenon, <1>1, <1>2 DEF NoticeTaken
<1>6. (c \in is_writing' <=> wpend'[c] > 0) /\ wpend'[c] <= 1
  BY <1>4
<1>7. QED
  BY Zenon, <1>5, <1>6 DEF OneWrite

LEMMA HaveWrittenWrites == ASSUME TypeInv, KeysInv, WriteInv, HaveWritten PROVE WriteInv'
<1>1. /\ NoticeTaken /\ Head(port).kind \in {"written", "unwritten"} /\ Head(port).key # 0
      /\ 1 \in 1..Len(port) /\ port[1] = Head(port)
  BY Zenon, HaveWrittenPort
<1>2. PICK c \in ByKey(Head(port).key) : TryWrite(c, is_writing \ {c})
  BY Zenon DEF HaveWritten
<1>3. c \in Conns /\ ckey[c] = Head(port).key /\ link[c] = "accepted"
  BY DEF ByKey, KeysInv, ClientsLinked
<1>4. /\ \A d \in Conns : d # c => wpend'[d] = wpend[d] /\ (d \in is_writing' <=> d \in is_writing)
      /\ c \in open => \/ c \notin is_writing' /\ wpend'[c] = wpend[c]
                       \/ c \in is_writing' /\ wpend'[c] = wpend[c] + 1
  BY Zenon, <1>2, <1>3, HaveWrittenCount
<1>5. UNCHANGED <<server_key, ckey, clients, link, open>>
  BY Zenon DEF HaveWritten, keyVars, clientVars
<1>6. \A d \in Conns : link'[d] \in {"none", "waiting"} => wpend'[d] = 0 /\ d \notin is_writing'
  BY Zenon, <1>3, <1>4, <1>5 DEF WriteInv
<1>7. \A i \in Instances : /\ ~In(port', {"written"}, server_key'[i])
                           /\ ~In(port', {"unwritten"}, server_key'[i])
  BY Zenon, <1>1, <1>5 DEF WriteInv, NoticeTaken
<1>8. \A d \in clients \cap open : d \in Conns /\ OneWrite(d) /\ (d # c => ckey[d] # Head(port).key)
  BY Zenon, <1>1, <1>3, WriteInvIs DEF KeysInv, ClientKeys, ClientsLinked
<1>9. \A d \in clients \cap open : d # c => OneWrite(d)'
  BY Zenon, <1>1, <1>4, <1>5, <1>8, OneWriteKept DEF NoticeTaken
<1>10. wpend[c] \in Nat
  BY <1>3 DEF TypeInv, BufType
<1>11. \A d \in (clients \cap open)' : OneWrite(d)'
  BY Zenon, <1>1, <1>3, <1>4, <1>5, <1>8, <1>9, <1>10, HaveWrittenOneWrite
<1>12. QED
  BY Zenon, <1>6, <1>7, <1>11, WriteInvNext

LEMMA WriteStep ==
  ASSUME TypeInv, KeysInv, WriteInv, [Next]_vars
  PROVE  WriteInv'
BY QuietWrites, OtherTurnsWrites, IgnorePacketWrites, AnswersWrites, ReadEndsWrites, ConnectWrites,
   AcceptClientWrites, WriteEndsWrites, HaveWrittenWrites
DEF Next, ServerStep, Kernel, Environment

-----------------------------------------------------------------------------
(* The invariant so far, and reads.                                        *)
PipesInv == TypeInv /\ KeysInv /\ WriteInv

LEMMA InitKeys ==
  ASSUME Init
  PROVE  /\ InitParallel \in Nat \ {0} /\ Keys = 1..InitParallel /\ gen_key \in Nat \ {0}
         /\ server_key \in [Instances -> Keys]
         /\ \A i \in Instances : server_key[i] = i + 1 /\ i \in Nat /\ i + 1 # 0
<1>1. InitParallel \in Nat \ {0} /\ Keys = 1..InitParallel /\ gen_key \in Nat \ {0}
  BY LimitsAssumption DEF Init, Keys
<1>2. \A i \in Instances : i + 1 \in 1..InitParallel /\ i \in Nat
  BY <1>1 DEF Instances
<1>3. QED
  BY <1>1, <1>2 DEF Init

LEMMA InitTypes == ASSUME Init PROVE TypeInv
<1>1. LoopType /\ KeyType
  BY Zenon, InitKeys DEF Init, LoopType, KeyType
<1>2. JobType /\ SeenType
  BY Zenon DEF Init, JobType, SeenType
<1>3. BufType /\ ClientType
  BY DEF Init, BufType, ClientType
<1>4. Good(port, gen_key)
  BY DEF Init, Good
<1>5. QED
  BY Zenon, <1>1, <1>2, <1>3, <1>4 DEF TypeInv

LEMMA InitKeysInv == ASSUME Init PROVE KeysInv
<1>1. \A i \in Instances : server_key[i] = i + 1 /\ i \in Nat /\ server_key[i] # 0
  BY Zenon, InitKeys
<1>2. \A K, k : ~In(port, K, k)
  BY DEF Init, In
<1>3. InstanceKeys
  BY <1>1 DEF InstanceKeys
<1>4. KeyIfLinked /\ ClientKeys /\ KeyOfCaller
  BY Zenon, <1>1 DEF Init, KeyIfLinked, ClientKeys, KeyOfCaller
<1>5. CallersWait /\ ClientsLinked /\ ReadsLinked /\ SendersKeys
  BY DEF Init, CallersWait, ClientsLinked, ReadsLinked, SendersKeys
<1>6. QED
  BY Zenon, <1>2, <1>3, <1>4, <1>5 DEF KeysInv, ConnectPending

LEMMA InitPipes == Init => PipesInv
<1>1. ASSUME Init PROVE WriteInv
  BY <1>1 DEF Init, WriteInv, In
<1>2. QED
  BY Zenon, <1>1, InitTypes, InitKeysInv DEF PipesInv

(* The number of requests seen is a number: they are finitely many.        *)
LEMMA PipesStep == PipesInv /\ Cardinality(seen) \in Nat /\ [Next]_vars => PipesInv'
BY Zenon, TypeStep, KeysStep, WriteStep DEF PipesInv

(* A client is listened to.                                                *)
Heard(c) == c \in rpend \/ In(port, {"read", "more"}, ckey[c])

LEMMA AlwaysReadingIs == AlwaysReading <=> \A c \in clients \cap open : Heard(c)
BY SMTT(60) DEF AlwaysReading, Heard, InPort, In

LEMMA KeepsReading ==
  ASSUME AlwaysReading, (clients \cap open)' \subseteq clients \cap open, UNCHANGED ckey,
         rpend \subseteq rpend',
         \A c \in clients \cap open :
           In(port, {"read", "more"}, ckey[c]) => c \in rpend' \/ In(port', {"read", "more"}, ckey[c])
  PROVE  AlwaysReading'
<1>1. \A c \in (clients \cap open)' : Heard(c)'
  BY Zenon, AlwaysReadingIs DEF Heard
<1>2. QED
  BY Zenon, <1>1 DEF AlwaysReading, Heard, InPort, In

LEMMA DoReadListens ==
  ASSUME NEW c, DoRead(c)
  PROVE  rpend \subseteq rpend' /\ (c \in open => c \in rpend')
BY SMTT(60) DEF DoRead

LEMMA QuietReads ==
  ASSUME PipesInv, AlwaysReading,
         \/ ScheduleNewJob \/ ScheduleDone \/ ReadPastArray \/ UNCHANGED vars
         \/ \E k \in alive : ChildEnds(k) \/ MemoryLimit(k)
         \/ \E c \in Conns : SendRun(c) \/ SendControl(c) \/ Close(c)
  PROVE  AlwaysReading'
<1>1. \A k : In(port, {"read", "more"}, k) => In(port', {"read", "more"}, k)
  BY QuietPort DEF PipesInv, Same, Kinds
<1>2. UNCHANGED <<ckey, clients, rpend>> /\ open' \subseteq open
  BY Zenon DEF ScheduleNewJob, ScheduleDone, ReadPastArray, vars, ChildEnds, MemoryLimit,
         SendRun, SendControl, Close, keyVars, clientVars
<1>3. QED
  BY SMTT(60), <1>1, <1>2, KeepsReading

LEMMA TurnReads ==
  ASSUME PipesInv, AlwaysReading, NEW K, Turn(K)
  PROVE  \A k : In(port, {"read", "more"}, k) =>
                  \/ In(port', {"read", "more"}, k)
                  \/ Head(port).kind \in {"read", "more"} /\ Head(port).key = k
<1>1. {"read", "more"} \in Kinds
  BY Zenon DEF Kinds
<1>2. QED
  BY Zenon, <1>1, TurnPort DEF PipesInv

LEMMA OtherTurnsReads ==
  ASSUME PipesInv, AlwaysReading, IgnorePacket \/ CloseClient \/ HaveWritten \/ HandleChildEvent
  PROVE  AlwaysReading'
<1>1. \E K : Turn(K)
  BY Zenon, TurnTakes DEF PipesInv, IgnorePacket, CloseClient, HaveWritten, HandleChildEvent, TurnDone
<1>2. Head(port).kind \in {"read", "more"} => ByKey(Head(port).key) = {}
  BY Zenon DEF IgnorePacket, CloseClient, HaveWritten, HandleChildEvent, Packets, Notices
<1>3. UNCHANGED <<ckey, open, rpend>> /\ clients' \subseteq clients
  BY ZenonT(60) DEF IgnorePacket, CloseClient, HaveWritten, HandleChildEvent, keyVars, clientVars
<1>4. \A c \in clients : In(port, {"read", "more"}, ckey[c]) => In(port', {"read", "more"}, ckey[c])
  BY ZenonT(60), <1>1, <1>2, TurnReads DEF ByKey
<1>5. QED
  BY <1>3, <1>4, KeepsReading

LEMMA AcceptClientReads == ASSUME PipesInv, AlwaysReading, AcceptClient PROVE AlwaysReading'
<1>1. PICK c : clients' = clients \cup {c} /\ DoRead(c)
  BY Zenon DEF AcceptClient
<1>2. Turn({"connect"}) /\ Head(port).kind = "connect"
  BY TurnTakes DEF PipesInv, AcceptClient, TurnDone, Packets
<1>3. \A k : In(port, {"read", "more"}, k) => In(port', {"read", "more"}, k)
  BY Zenon, <1>2, TurnReads
<1>4. UNCHANGED <<ckey, open>>
  BY DEF AcceptClient, clientVars
<1>5. rpend \subseteq rpend' /\ (c \in open => c \in rpend')
  BY Zenon, <1>1, DoReadListens
<1>6. \A d \in (clients \cap open)' : Heard(d)'
  BY SMTT(60), <1>1, <1>3, <1>4, <1>5, AlwaysReadingIs DEF Heard
<1>7. QED
  BY Zenon, <1>6 DEF AlwaysReading, Heard, InPort, In

LEMMA ReceivedReads ==
  ASSUME PipesInv, AlwaysReading, HandleRun \/ HandleInterrupt \/ HandleParallel \/ ReadMore
  PROVE  AlwaysReading'
<1>1. \E K : Turn(K)
  BY Zenon, TurnTakes, HandleRunTurn
  DEF PipesInv, HandleInterrupt, HandleParallel, ReadMore, Received, TurnDone
<1>2. PICK c \in ByKey(Head(port).key) : DoRead(c)
  BY Zenon DEF HandleRun, HandleInterrupt, HandleParallel, ReadMore, Received
<1>3. UNCHANGED <<ckey, open, clients>>
  BY Zenon DEF HandleRun, HandleInterrupt, HandleParallel, ReadMore, keyVars, clientVars
<1>4. rpend \subseteq rpend' /\ (c \in open => c \in rpend')
  BY <1>2, DoReadListens
<1>5. \E K : Packets(K)
  BY <1>1 DEF Turn
<1>6. Head(port).key # 0
  BY SMTT(60), <1>5, PacketTaken DEF PipesInv
<1>7. \A d \in clients : ckey[d] = Head(port).key => d = c
  BY <1>6 DEF ByKey, PipesInv, KeysInv, ClientsLinked, ClientKeys
<1>8. \A d \in clients \cap open :
        In(port, {"read", "more"}, ckey[d]) => d \in rpend' \/ In(port', {"read", "more"}, ckey[d])
  BY Zenon, <1>1, <1>4, <1>7, TurnReads
<1>9. QED
  BY <1>3, <1>4, <1>8, KeepsReading

LEMMA ReadEndsReads ==
  ASSUME PipesInv, AlwaysReading, NEW c \in Conns, ReadEnds(c)
  PROVE  AlwaysReading'
<1>1. PICK p \in Packet : /\ Post(<<p>>) /\ p.key = ckey[c] /\ p.kind \in {"broken", "more", "read"}
                          /\ p.kind = "broken" => c \notin open
  BY Zenon, ReadEndsPost DEF PipesInv
<1>2. \A k : In(port', {"read", "more"}, k) <=>
               In(port, {"read", "more"}, k) \/ (p.kind \in {"read", "more"} /\ p.key = k)
  BY Zenon, <1>1, PostPort DEF PipesInv
<1>3. UNCHANGED <<ckey, clients, open>> /\ rpend' = rpend \ {c}
  BY DEF ReadEnds, keyVars
<1>4. \A d \in (clients \cap open)' : Heard(d)'
  BY Zenon, <1>1, <1>2, <1>3, AlwaysReadingIs DEF Heard
<1>5. QED
  BY Zenon, <1>4 DEF AlwaysReading, Heard, InPort, In

LEMMA WriteEndsReads ==
  ASSUME PipesInv, AlwaysReading, NEW c \in Conns, WriteEnds(c)
  PROVE  AlwaysReading'
<1>1. ckey[c] \in Nat
  BY Zenon, WriteEndsClient DEF PipesInv
<1>2. \E p \in Packet : Post(<<p>>)
  BY Zenon, <1>1, PacketTypes DEF WriteEnds
<1>3. \A k : In(port, {"read", "more"}, k) => In(port', {"read", "more"}, k)
  BY Zenon, <1>2, PostPort DEF PipesInv
<1>4. UNCHANGED <<ckey, clients, open, rpend>>
  BY Zenon DEF WriteEnds, keyVars, clientVars
<1>5. QED
  BY <1>3, <1>4, KeepsReading

LEMMA ConnectReads ==
  ASSUME PipesInv, AlwaysReading, NEW c \in Conns, Connect(c)
  PROVE  AlwaysReading'
<1>1. PICK i \in Instances : ConnectsTo(c, i) /\ Post(<<[kind |-> "connect", key |-> server_key[i]]>>)
  BY Zenon, ConnectFields DEF PipesInv
<1>2. \E p \in Packet : Post(<<p>>)
  BY Zenon, <1>1, PacketTypes DEF ConnectsTo
<1>3. \A k : In(port, {"read", "more"}, k) => In(port', {"read", "more"}, k)
  BY Zenon, <1>2, PostPort DEF PipesInv
<1>4. /\ UNCHANGED <<clients, rpend>> /\ open' = open \cup {c}
      /\ \A d \in Conns : d # c => ckey'[d] = ckey[d]
  BY Zenon, <1>1 DEF Connect, ConnectsTo
<1>5. clients \subseteq Conns /\ c \notin clients
  BY <1>1 DEF ConnectsTo, PipesInv, KeysInv, ClientsLinked
<1>6. \A d \in (clients \cap open)' : Heard(d)'
  BY Zenon, <1>3, <1>4, <1>5, AlwaysReadingIs DEF Heard
<1>7. QED
  BY <1>6 DEF AlwaysReading, Heard, InPort, In

LEMMA PostsReads ==
  ASSUME PipesInv, AlwaysReading, NEW c \in Conns, ReadEnds(c) \/ WriteEnds(c) \/ Connect(c)
  PROVE  AlwaysReading'
BY Zenon, ReadEndsReads, WriteEndsReads, ConnectReads

-----------------------------------------------------------------------------
(* The facts about finite sets come from the library.                      *)
INSTANCE FiniteSetTheorems

LEMMA FiniteImageHolds == FiniteImage
<1> SUFFICES ASSUME NEW S, NEW f, IsFiniteSet(S)
             PROVE  IsFiniteSet({f[x] : x \in S}) /\ Cardinality({f[x] : x \in S}) <= Cardinality(S)
  BY Zenon DEF FiniteImage
<1> DEFINE g == [x \in S |-> f[x]]
<1>1. g \in Surjection(S, {f[x] : x \in S})
  BY Zenon DEF Surjection
<1>2. QED
  BY Zenon, <1>1, FS_Surjection

LEMMA FiniteSetFactsHold == FiniteSetFacts
<1>1. FiniteEmpty /\ FiniteCount /\ FiniteAdd
  BY FS_EmptySet, FS_CardinalityType, FS_AddElement DEF FiniteEmpty, FiniteCount, FiniteAdd
<1>2. FiniteSubset
  BY FS_Subset DEF FiniteSubset
<1>3. QED
  BY <1>1, <1>2, FiniteImageHolds DEF FiniteSetFacts

LEMMA PipesAlways == Spec => [](PipesInv /\ FiniteInv)
<1>1. Init => FiniteInv
  BY Zenon, FiniteSetFactsHold, FS_EmptySet DEF Init, FiniteInv
<1>2. FiniteInv => Cardinality(seen) \in Nat
  BY Zenon, FS_CardinalityType DEF FiniteInv
<1>3. PipesInv /\ FiniteInv /\ [Next]_vars => PipesInv' /\ FiniteInv'
  BY <1>2, PipesStep, FiniteStep DEF PipesInv
<1>4. QED
  BY <1>1, <1>3, InitPipes, PTL DEF Spec

(* Of the Windows server: at any time a client that is connected has at    *)
(* most one WriteFile of its write buffer under way, and the flag          *)
(* is_writing says so; the assertions of prepare_write and have_written    *)
(* (writebuf.c) never fail, whatever clients come and go.                  *)
THEOREM OneWriteAtATime == Spec => []WritesTakeTurns
<1>1. PipesInv => WritesTakeTurns
  BY Zenon DEF PipesInv, WriteInv, WritesTakeTurns, InPort, In
<1>2. QED
  BY <1>1, PipesAlways, PTL

(* Of the Windows server: a client that is connected is always listened    *)
(* to, with a ReadFile in the kernel or its packet in the port; no path    *)
(* through main, handle_msg and do_read forgets the next read.             *)
THEOREM AlwaysListening == Spec => []AlwaysReading
<1>1. Init => AlwaysReading
  BY Zenon DEF Init, AlwaysReading
<1>2. PipesInv /\ AlwaysReading /\ [Next]_vars => AlwaysReading'
  BY QuietReads, OtherTurnsReads, AcceptClientReads, ReceivedReads, PostsReads
  DEF Next, ServerStep, Kernel, Environment
<1>3. QED
  BY <1>1, <1>2, PipesAlways, PTL DEF Spec

(* Of the Windows server: when the loop blocks in                          *)
(* GetQueuedCompletionStatus no request waits, or all the slots `parallel' *)
(* allows are taken; neither the kernel nor a client changes that.         *)
THEOREM NoSlotIdle == Spec => []NoIdleSlot
<1>1. Init => NoIdleSlot
  BY Zenon DEF Init, NoIdleSlot
<1>2. PipesInv /\ FiniteInv /\ NoIdleSlot /\ [Next]_vars => NoIdleSlot'
  BY Zenon, NoIdleSlotStep DEF PipesInv
<1>3. QED
  BY <1>1, <1>2, PipesAlways, PTL DEF Spec

LEMMA AnswersAlways == Spec => [](PipesInv /\ FiniteInv /\ AnswerInv)
<1>1. PipesInv /\ FiniteInv /\ AnswerInv /\ [Next]_vars => AnswerInv'
  BY AnswersStep DEF PipesInv
<1>2. QED
  BY <1>1, AnswersInit, PipesAlways, PTL DEF Spec

(* Of the Windows server: every answer goes to the client that sent the    *)
(* request.  run_request and handle_child_event find the client by key,    *)
(* and a key, given out once, stays with one connection.                   *)
THEOREM AnswersReachTheirSender == Spec => []AnswersToSender
BY AnswersAlways, PTL DEF AnswerInv

(* Of the Windows server: a request is answered S at most once and F at    *)
(* most once, in this order, however many job events (a limit, an exit)    *)
(* announce the end of its prover; handle_child_event takes the process    *)
(* out of the list before it answers.                                      *)
THEOREM EndReportedOnce == Spec => []ReportedOnce
BY AnswersAlways, PTL DEF AnswerInv

(* Seen through the requests it accepts, the Windows server is the same    *)
(* pool of jobs as the Unix one: a request starts at most once, never      *)
(* after an interrupt, and only below the limit; the packet of an ended    *)
(* prover finishes one job.                                                *)
THEOREM WinImplementsJobPool == Spec => RefinesJobPool
<1>1. (PipesInv /\ FiniteInv /\ AnswerInv) /\ PipesInv' /\ [Next]_vars
        => [Pool!PoolNext]_(Pool!poolVars)
  BY PoolStep DEF PipesInv, AnswerInv
<1>2. QED
  BY <1>1, PoolInitially, AnswersAlways, PTL DEF Spec, RefinesJobPool, Pool!PoolSpec
=============================================================================

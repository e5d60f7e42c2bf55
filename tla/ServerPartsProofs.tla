-------------------------- MODULE ServerPartsProofs --------------------------
(***************************************************************************)
(* Theorems about the programs of src/server but the servers themselves.   *)
(* The ring buffer of requests and remove_from_queue, for every initial    *)
(* capacity, every set of ids and any number of requests; the pollfd array *)
(* and the list of clients, which the main loop changes while it walks     *)
(* over the array, for any set of descriptors and any size of the tables;  *)
(* and why3-cpulimit, on Unix (CpuLimit) and on Windows (CpuLimitWin), for *)
(* every set of limits, exit codes and signals and any number of console   *)
(* events.                                                                 *)
(***************************************************************************)
EXTENDS RingQueue, PollList, MCCpuLimit, Integers, SequenceTheorems, TLAPS

LEMMA EndsAreNotNone == \A e \in Ends : e # None
<1> SUFFICES ASSUME NEW e \in Ends PROVE e # None
  OBVIOUS
<1>1. "none" \in DOMAIN None
  BY DEF None
<1>2. \A n : "none" \notin DOMAIN Exit(n) /\ "none" \notin DOMAIN Signal(n)
  BY DEF Exit, Signal
<1>3. PICK n : e = Exit(n) \/ e = Signal(n)
  BY DEF Ends
<1>4. QED
  BY <1>1, <1>2, <1>3

LEMMA KillIsAnEnd == Signal("KILL") # None /\ Exit(Failure) # None
  BY EndsAreNotNone, SignalsAssumption DEF Ends

-----------------------------------------------------------------------------
(* Where the child is while main is at each of its points: forked and not  *)
(* waited for from fork to the end of waitpid, and dead when waitpid is    *)
(* called again after SIGKILL.                                             *)
ChildOfMain ==
  /\ parent \in {"start", "limits", "command"} => child = "none"
  /\ parent \in {"forked", "armed", "waiting", "killing"} => child \in {"limits", "command", "zombie"}
  /\ parent = "waiting again" => child = "zombie"
  /\ parent = "waited" => child = "reaped"
  /\ parent = "done" => child \in {"none", "reaped"}

(* The end of the command is known exactly when it has ended, and main     *)
(* says nothing of it before its last step.                                *)
EndKnown ==
  /\ child \in {"limits", "command"} => end = None
  /\ child \in {"zombie", "reaped"} => end # None
  /\ parent \in {"start", "limits", "command"} => end = None
  /\ parent # "done" => "neither" \notin said

UnixInv == ChildOfMain /\ EndKnown /\ EndsAsTheCommand

LEMMA UnixInitially == MCInit => UnixInv
  BY DEF MCInit, Init, UnixOver, UnixInv, ChildOfMain, EndKnown, EndsAsTheCommand

LEMMA UnixStep == UnixInv /\ [Next]_vars => UnixInv'
<1> SUFFICES ASSUME UnixInv, [Next]_vars PROVE UnixInv'
  OBVIOUS
<1> USE DEF UnixInv, ChildOfMain, EndKnown, EndsAsTheCommand
<1>1. CASE NoFork \/ SetAlarm \/ CallWaitpid \/ Waitpid
  BY <1>1 DEF NoFork, SetAlarm, CallWaitpid, Waitpid
<1>2. CASE Fork
  BY <1>2 DEF Fork
<1>3. CASE WallclockTimelimitReached
  BY <1>3 DEF WallclockTimelimitReached
<1>4. CASE KillCommand
  BY <1>4, KillIsAnEnd DEF KillCommand
<1>5. CASE Finish
  BY <1>5 DEF Finish, args
<1>6. CASE Exec
  BY <1>6, KillIsAnEnd DEF Exec
<1>7. CASE CommandEnds
  BY <1>7, EndsAreNotNone DEF CommandEnds
<1>8. CASE UNCHANGED vars
  BY <1>8 DEF vars
<1>9. QED
  BY <1>1, <1>2, <1>3, <1>4, <1>5, <1>6, <1>7, <1>8 DEF Next, Wrapper, Finished

(* Every step of the two programs side by side is one of each, or none.    *)
LEMMA StepOfEach == [MCNext]_<<vars, winVars>> => [Next]_vars /\ [Win!Next]_winVars
  BY DEF MCNext, vars, winVars, args

(* Whenever why3-cpulimit has ended on Unix, it ended as its command did.  *)
THEOREM EndOfCommandReturned == MCSpec => []EndsAsTheCommand
<1>1. UnixInv => EndsAsTheCommand
  BY DEF UnixInv
<1>2. QED
  BY <1>1, UnixInitially, UnixStep, StepOfEach, PTL DEF MCSpec

(* why3-cpulimit leaves no command behind, and kills only its own child.   *)
THEOREM NoCommandLeft == MCSpec => []NothingLeftRunning
<1>1. UnixInv => NothingLeftRunning
  BY DEF UnixInv, ChildOfMain, NothingLeftRunning
<1>2. QED
  BY <1>1, UnixInitially, UnixStep, StepOfEach, PTL DEF MCSpec

-----------------------------------------------------------------------------
(* A handle of the process, once closed, stays so, and is null only before *)
(* CreateProcess; main reads the exit code of a process that has ended, or *)
(* by a handle that is closed.                                             *)
HandleInv ==
  /\ pcWin \in {"start", "create"} => ex = Undefined /\ process = "none" /\ hProcess = "null"
  /\ pcWin \in {"assign", "resume", "wait", "waiting", "read", "close"} => hProcess # "null"
  /\ pcWin = "read" => process = "ended" \/ hProcess = "closed"
  /\ ex # Undefined => process = "ended" /\ ex = code

(* Without a console event nobody but main touches the handles.            *)
UndisturbedInv ==
  /\ events \in Nat
  /\ events = 0 => handler = "idle"
  /\ events = 0 /\ pcWin \in {"assign", "resume", "wait", "waiting", "read"} => hProcess = "open"
  /\ events = 0 /\ pcWin = "read" => process = "ended"
  /\ events = 0 /\ pcWin = "close" => ex = code
  /\ events = 0 /\ pcWin = "close" => process = "ended"
  /\ events = 0 /\ pcWin = "done" =>
       resultWin = Failure \/ (resultWin = code /\ process \in {"none", "ended"})

WinInv == HandleInv /\ UndisturbedInv

LEMMA WinInitially == MCInit => WinInv
  BY DEF MCInit, Win!Init, WinOver, WinInv, HandleInv, UndisturbedInv

LEMMA WinStep == WinInv /\ [Win!Next]_winVars => WinInv'
<1> SUFFICES ASSUME WinInv, [Win!Next]_winVars PROVE WinInv'
  OBVIOUS
<1> USE DEF WinInv, HandleInv, UndisturbedInv, Win!Return
<1>1. CASE Win!SetLimits \/ Win!CreateProcess
  BY <1>1 DEF Win!SetLimits, Win!CreateProcess
<1>2. CASE Win!AssignToJob \/ Win!Resume \/ Win!CallWait \/ Win!Wait
  BY <1>2 DEF Win!AssignToJob, Win!Resume, Win!CallWait, Win!Wait
<1>3. CASE Win!ReadExitCode \/ Win!CloseAndReturn
  BY <1>3 DEF Win!ReadExitCode, Win!CloseAndReturn
<1>4. CASE Win!CommandEnds
  BY <1>4 DEF Win!CommandEnds
<1>5. CASE Win!ConsoleEvent
  BY <1>5 DEF Win!ConsoleEvent
<1>6. CASE Win!ConsoleHandler
  BY <1>6 DEF Win!ConsoleHandler, Win!Terminate, Win!CloseProcess, Win!CloseThread, Win!CloseJob
<1>7. CASE UNCHANGED winVars
  BY <1>7 DEF winVars
<1>8. QED
  BY <1>1, <1>2, <1>3, <1>4, <1>5, <1>6, <1>7 DEF Win!Next, Win!Main

(* The exit code main has read on Windows is the final one, however the    *)
(* console handler interferes; undisturbed, it is the one returned.        *)
THEOREM FinalCodeRead == MCSpec => []CodeReadIsFinal
<1>1. WinInv => CodeReadIsFinal
  BY DEF WinInv, HandleInv, UndisturbedInv, CodeReadIsFinal, Win!CodeReadIsFinal
<1>2. QED
  BY <1>1, WinInitially, WinStep, StepOfEach, PTL DEF MCSpec

-----------------------------------------------------------------------------
Request == [n : Nat, id : Ids]

(* A queue is well formed: pointer and length are within the capacity, and *)
(* the slots in use were written.                                          *)
QueueOK(q) ==
  /\ q \in [data : [0..(q.capacity - 1) -> Request \cup {NoRequest}],
            pointer : Nat, len : Nat, capacity : Nat \ {0}]
  /\ q.pointer < q.capacity /\ q.len <= q.capacity
  /\ \A i \in 1..q.len : q.data[(q.pointer + i - 1) % q.capacity] \in Request

-----------------------------------------------------------------------------
(* Places in the ring, as queue_pop and queue_push compute them.           *)
LEMMA FirstPlace ==
  ASSUME NEW c \in Nat \ {0}, NEW p \in 0..(c - 1)
  PROVE  (p + 1 - 1) % c = p
  BY Z3

LEMMA NextPlace ==
  ASSUME NEW c \in Nat \ {0}, NEW p \in 0..(c - 1), NEW i \in 1..(c - 1)
  PROVE  (p + 1) % c \in 0..(c - 1) /\ (((p + 1) % c) + i - 1) % c = (p + (i + 1) - 1) % c
<1>1. CASE p + 1 < c
  BY <1>1, Z3
<1>2. CASE p + 1 = c
  BY <1>2, Z3
<1>3. QED
  BY <1>1, <1>2

LEMMA OtherPlace ==
  ASSUME NEW c \in Nat \ {0}, NEW p \in 0..(c - 1), NEW i \in 1..c, NEW j \in 1..c, i # j
  PROVE  (p + i - 1) % c # (p + j - 1) % c /\ (p + i - 1) % c \in 0..(c - 1)
  BY Z3

LEMMA ContentsType ==
  ASSUME NEW q, QueueOK(q)
  PROVE  /\ Contents(q) \in Seq(Request) /\ Len(Contents(q)) = q.len
         /\ \A i \in 1..q.len : Contents(q)[i] = q.data[(q.pointer + i - 1) % q.capacity]
         /\ q.len = 0 => Contents(q) = <<>>
<1>1. q.len \in Nat
  BY DEF QueueOK
<1>2. Contents(q) \in [1..q.len -> Request]
  BY DEF QueueOK, Contents
<1>3. Contents(q) \in Seq(Request)
  BY <1>1, <1>2, SeqDef
<1>4. Len(Contents(q)) = q.len
  BY <1>1, <1>2, <1>3, LenProperties
<1>5. \A i \in 1..q.len : Contents(q)[i] = q.data[(q.pointer + i - 1) % q.capacity]
  BY DEF Contents
<1>6. q.len = 0 => Contents(q) = <<>>
  BY <1>3, <1>4, EmptySeq
<1>7. QED
  BY <1>3, <1>4, <1>5, <1>6

(* init_queue gives an empty queue. *)
LEMMA InitQueueOK ==
  ASSUME NEW c \in Nat \ {0}
  PROVE  QueueOK(InitQueue(c)) /\ InitQueue(c).len = 0 /\ Contents(InitQueue(c)) = <<>>
<1>1. QueueOK(InitQueue(c)) /\ InitQueue(c).len = 0
  BY DEF QueueOK, InitQueue
<1>2. QED
  BY <1>1, ContentsType

(* queue_pop takes the oldest element. *)
LEMMA PopOK ==
  ASSUME NEW q, QueueOK(q), ~QueueIsEmpty(q)
  PROVE  /\ QueueOK(Pop(q)) /\ Contents(q) # <<>> /\ QueueFront(q) \in Request
         /\ QueueFront(q) = Head(Contents(q)) /\ Contents(Pop(q)) = Tail(Contents(q))
         /\ Contents(q) = <<QueueFront(q)>> \o Contents(Pop(q))
<1> DEFINE c == q.capacity
           p == q.pointer
           n == q.len
           m == (p + 1) % c
           r == Pop(q)
<1>1. /\ c \in Nat \ {0} /\ p \in 0..(c - 1) /\ n \in 1..c
      /\ q.data \in [0..(c - 1) -> Request \cup {NoRequest}]
      /\ \A i \in 1..n : q.data[(p + i - 1) % c] \in Request
  BY DEF QueueOK, QueueIsEmpty
<1>2. r = [data |-> q.data, pointer |-> m, len |-> n - 1, capacity |-> c]
  <2>1. q = [data |-> q.data, pointer |-> p, len |-> n, capacity |-> c]
    BY DEF QueueOK
  <2>2. r = [q EXCEPT !.len = n - 1, !.pointer = m]
    BY DEF Pop
  <2> HIDE DEF c, p, n, m, r
  <2>3. r = [[data |-> q.data, pointer |-> p, len |-> n, capacity |-> c]
               EXCEPT !.len = n - 1, !.pointer = m]
    BY Zenon, <2>1, <2>2
  <2>4. QED
    BY Zenon, <2>3
<1> HIDE DEF c, p, n, m, r
<1>3. m \in 0..(c - 1)
  BY <1>1, Z3 DEF m
<1>4. ASSUME NEW i \in 1..(n - 1)
      PROVE  (m + i - 1) % c = (p + (i + 1) - 1) % c
  <2>1. i \in 1..(c - 1)
    BY <1>1
  <2>2. QED
    BY Zenon, <1>1, <2>1, NextPlace DEF m
<1>5. QueueOK(r)
  <2>1. m \in 0..(c - 1) /\ n - 1 \in 0..c
    BY <1>1, <1>3
  <2>2. ASSUME NEW i \in 1..(n - 1) PROVE q.data[(m + i - 1) % c] \in Request
    <3>1. i + 1 \in 1..n
      BY <1>1
    <3>2. QED
      BY Zenon, <1>1, <1>4, <3>1
  <2>3. QED
    BY <1>1, <1>2, <2>1, <2>2 DEF QueueOK
<1>6. Contents(q) # <<>> /\ Contents(q)[1] = QueueFront(q) /\ QueueFront(q) \in Request
  <2>1. (p + 1 - 1) % c = p
    BY <1>1, FirstPlace
  <2>2. 1 \in 1..n
    BY <1>1
  <2>3. Contents(q)[1] = q.data[(p + 1 - 1) % c]
    BY Zenon, <2>2, ContentsType DEF p, c, n
  <2>4. Contents(q)[1] = QueueFront(q) /\ QueueFront(q) \in Request
    BY Zenon, <1>1, <2>1, <2>2, <2>3 DEF QueueFront, p
  <2>5. QED
    BY <1>1, <2>4, ContentsType, EmptySeq DEF n
<1>7. Contents(r) = Tail(Contents(q))
  <2>1. /\ Contents(q) \in Seq(Request) /\ Contents(r) \in Seq(Request)
        /\ Len(Contents(r)) = n - 1 /\ Len(Contents(q)) = n
    BY <1>2, <1>5, ContentsType DEF n
  <2>2. /\ Tail(Contents(q)) \in Seq(Request) /\ Len(Tail(Contents(q))) = n - 1
        /\ \A i \in 1..(n - 1) : Tail(Contents(q))[i] = Contents(q)[i + 1]
    BY <1>6, <2>1, HeadTailProperties
  <2>3. ASSUME NEW i \in 1..(n - 1) PROVE Contents(r)[i] = Contents(q)[i + 1]
    <3>1. i + 1 \in 1..n
      BY <1>1
    <3>2. Contents(q)[i + 1] = q.data[(p + (i + 1) - 1) % c]
      BY Zenon, <3>1, ContentsType DEF p, c, n
    <3>3. r.len = n - 1 /\ r.pointer = m /\ r.capacity = c /\ r.data = q.data
      BY <1>2
    <3>4. Contents(r)[i] = q.data[(m + i - 1) % c]
      BY Zenon, <1>5, <3>3, ContentsType
    <3>5. QED
      BY Zenon, <1>4, <3>2, <3>4
  <2>4. QED
    BY <2>1, <2>2, <2>3, SeqEqual
<1>8. Contents(q) = <<QueueFront(q)>> \o Contents(r)
  <2>1. Contents(q) \in Seq(Request) /\ Len(Contents(q)) \in Nat \ {0}
    BY <1>6, ContentsType, EmptySeq
  <2>2. SubSeq(Contents(q), 1, Len(Contents(q))) = Contents(q)
    BY <2>1, SubSeqFull
  <2>3. SubSeq(Contents(q), 1, Len(Contents(q)))
          = <<Contents(q)[1]>> \o SubSeq(Contents(q), 2, Len(Contents(q)))
    BY <2>1, SubSeqRecursiveFirst
  <2>4. Tail(Contents(q)) = SubSeq(Contents(q), 2, Len(Contents(q)))
    BY <1>6, <2>1, TailIsSubSeq
  <2>5. QED
    BY <1>6, <1>7, <2>2, <2>3, <2>4
<1>9. QueueFront(q) = Head(Contents(q))
  BY <1>6, ContentsType
<1>10. QED
  BY <1>5, <1>6, <1>7, <1>8, <1>9 DEF r

(* resize_queue keeps what the queue holds: the part above the pointer     *)
(* moves to the end of the larger array, the part below it stays.          *)
LEMMA PlaceAfterResize ==
  ASSUME NEW c \in Nat \ {0}, NEW p \in 0..(c - 1), NEW i \in 1..c
  PROVE  LET k == (c + p + i - 1) % (2 * c) IN
         /\ k \in 0..(2 * c - 1)
         /\ k >= c + p => k - c = (p + i - 1) % c
         /\ k < c + p => k = (p + i - 1) % c /\ k < c
<1>1. CASE p + i - 1 < c
  <2>1. (p + i - 1) % c = p + i - 1
    BY <1>1, Z3
  <2>2. (c + p + i - 1) % (2 * c) = c + p + i - 1
    BY <1>1, Z3
  <2>3. QED
    BY <1>1, <2>1, <2>2
<1>2. CASE p + i - 1 >= c
  <2>1. (p + i - 1) % c = p + i - 1 - c
    BY <1>2, Z3
  <2>2. (c + p + i - 1) % (2 * c) = p + i - 1 - c
    BY <1>2, Z3
  <2>3. QED
    BY <1>2, <2>1, <2>2
<1>3. QED
  BY <1>1, <1>2

LEMMA ResizeOK ==
  ASSUME NEW q, QueueOK(q), q.len = q.capacity
  PROVE  LET r == ResizeQueue(q) IN
         QueueOK(r) /\ Contents(r) = Contents(q) /\ r.len = q.len /\ r.len < r.capacity
<1> DEFINE c == q.capacity
           p == q.pointer
           d == [i \in 0..(2 * c - 1) |->
                   IF i >= c + p THEN q.data[i - c] ELSE IF i < c THEN q.data[i] ELSE NoRequest]
           r == ResizeQueue(q)
<1>1. /\ c \in Nat \ {0} /\ p \in 0..(c - 1)
      /\ q.data \in [0..(c - 1) -> Request \cup {NoRequest}]
      /\ \A i \in 1..c : q.data[(p + i - 1) % c] \in Request
  BY DEF QueueOK
<1>2. r = [data |-> d, pointer |-> c + p, len |-> c, capacity |-> 2 * c]
  BY DEF ResizeQueue
<1> HIDE DEF c, p, r
<1>3. d \in [0..(2 * c - 1) -> Request \cup {NoRequest}]
  <2>1. ASSUME NEW i \in 0..(2 * c - 1), i >= c + p PROVE i - c \in 0..(c - 1)
    BY <1>1, <2>1
  <2>2. ASSUME NEW i \in 0..(2 * c - 1), i < c PROVE i \in 0..(c - 1)
    BY <1>1, <2>2
  <2>3. QED
    BY <1>1, <2>1, <2>2
<1>4. ASSUME NEW i \in 1..c
      PROVE  d[(c + p + i - 1) % (2 * c)] = q.data[(p + i - 1) % c]
  <2> DEFINE k == (c + p + i - 1) % (2 * c)
             l == (p + i - 1) % c
  <2>1. /\ k \in 0..(2 * c - 1)
        /\ k >= c + p => k - c = l
        /\ k < c + p => k = l /\ k < c
    BY Zenon, <1>1, PlaceAfterResize
  <2> HIDE DEF k, l
  <2>2. d[k] = q.data[l]
    BY <1>1, <2>1
  <2>3. QED
    BY <2>2 DEF k, l
<1> HIDE DEF d
<1>5. QueueOK(r)
  <2>1. \A i \in 1..c : d[(c + p + i - 1) % (2 * c)] \in Request
    BY Zenon, <1>1, <1>4
  <2>2. r.len = c /\ r.pointer = c + p /\ r.capacity = 2 * c /\ r.data = d
    BY <1>2
  <2>3. r \in [data : [0..(r.capacity - 1) -> Request \cup {NoRequest}],
                pointer : Nat, len : Nat, capacity : Nat \ {0}]
    BY <1>1, <1>2, <1>3
  <2>4. r.pointer < r.capacity /\ r.len <= r.capacity
    BY <1>1, <2>2
  <2>5. QED
    BY Zenon, <2>1, <2>2, <2>3, <2>4 DEF QueueOK
<1>6. Contents(r) = Contents(q)
  <2>1. r.len = c /\ r.pointer = c + p /\ r.capacity = 2 * c /\ r.data = d
    BY <1>2
  <2>2. \A i \in 1..c : Contents(r)[i] = d[(c + p + i - 1) % (2 * c)]
    BY Zenon, <1>5, <2>1, ContentsType
  <2>3. \A i \in 1..c : Contents(q)[i] = q.data[(p + i - 1) % c]
    BY Zenon, ContentsType DEF p, c
  <2>4. \A i \in 1..c : Contents(r)[i] = Contents(q)[i]
    BY Zenon, <1>4, <2>2, <2>3
  <2>5. /\ Contents(r) \in Seq(Request) /\ Len(Contents(r)) = c
        /\ Contents(q) \in Seq(Request) /\ Len(Contents(q)) = c
    BY <1>5, <2>1, ContentsType DEF c
  <2>6. QED
    BY <2>4, <2>5, SeqEqual
<1>7. r.len = c /\ r.len < r.capacity
  BY <1>1, <1>2
<1>8. QED
  BY <1>5, <1>6, <1>7 DEF r, c

(* simple_push writes behind the youngest element. *)
LEMMA SimplePushOK ==
  ASSUME NEW q, QueueOK(q), q.len < q.capacity, NEW e \in Request
  PROVE  LET r == SimplePush(q, e) IN
         QueueOK(r) /\ Contents(r) = Append(Contents(q), e)
<1> DEFINE c == q.capacity
           p == q.pointer
           n == q.len
           k == (p + n) % c
           d == [q.data EXCEPT ![k] = e]
           r == SimplePush(q, e)
<1>1. /\ c \in Nat \ {0} /\ p \in 0..(c - 1) /\ n \in 0..(c - 1)
      /\ q.data \in [0..(c - 1) -> Request \cup {NoRequest}]
      /\ \A i \in 1..n : q.data[(p + i - 1) % c] \in Request
  BY DEF QueueOK
<1>2. r = [data |-> d, pointer |-> p, len |-> n + 1, capacity |-> c]
  <2>1. q = [data |-> q.data, pointer |-> p, len |-> n, capacity |-> c]
    BY DEF QueueOK
  <2>2. r = [q EXCEPT !.data[k] = e, !.len = n + 1]
    BY DEF SimplePush
  <2> DEFINE x == q.data
  <2>3. q = [data |-> x, pointer |-> p, len |-> n, capacity |-> c]
    BY <2>1
  <2>4. d = [x EXCEPT ![k] = e]
    OBVIOUS
  <2> HIDE DEF c, p, n, k, r, d, x
  <2>5. r = [[data |-> x, pointer |-> p, len |-> n, capacity |-> c]
               EXCEPT !.data[k] = e, !.len = n + 1]
    BY <2>2, <2>3
  <2>6. QED
    BY Zenon, <2>4, <2>5
<1> HIDE DEF c, p, n, k, r
<1>3. k = (p + (n + 1) - 1) % c /\ k \in 0..(c - 1)
  BY <1>1, Z3 DEF k
<1>4. ASSUME NEW i \in 1..n
      PROVE  (p + i - 1) % c # k /\ (p + i - 1) % c \in 0..(c - 1)
  <2>1. i \in 1..c /\ n + 1 \in 1..c /\ i # n + 1
    BY <1>1
  <2>2. QED
    BY Zenon, <1>1, <1>3, <2>1, OtherPlace
<1>5. d \in [0..(c - 1) -> Request \cup {NoRequest}] /\ d[k] = e
  BY <1>1, <1>3
<1>6. \A i \in 1..n : d[(p + i - 1) % c] = q.data[(p + i - 1) % c]
  <2> TAKE i \in 1..n
  <2> DEFINE j == (p + i - 1) % c
  <2>1. j # k /\ j \in 0..(c - 1)
    BY Zenon, <1>4
  <2> HIDE DEF j
  <2>2. d[j] = q.data[j]
    BY <1>1, <2>1
  <2>3. QED
    BY <2>2 DEF j
<1> HIDE DEF d
<1>7. ASSUME NEW i \in 1..(n + 1) PROVE i \in 1..n \/ i = n + 1
  BY <1>1
<1>8. r.len = n + 1 /\ r.pointer = p /\ r.capacity = c /\ r.data = d
  BY <1>2
<1>9. QueueOK(r)
  <2>1. \A i \in 1..(n + 1) : d[(p + i - 1) % c] \in Request
    BY Zenon, <1>1, <1>3, <1>5, <1>6, <1>7
  <2>2. r \in [data : [0..(r.capacity - 1) -> Request \cup {NoRequest}],
                pointer : Nat, len : Nat, capacity : Nat \ {0}]
    BY <1>1, <1>2, <1>5
  <2>3. r.pointer < r.capacity /\ r.len <= r.capacity
    BY <1>1, <1>8
  <2>4. QED
    BY Zenon, <1>8, <2>1, <2>2, <2>3 DEF QueueOK
<1>10. Contents(r) = Append(Contents(q), e)
  <2>1. \A i \in 1..(n + 1) : Contents(r)[i] = d[(p + i - 1) % c]
    BY Zenon, <1>8, <1>9, ContentsType
  <2>2. \A i \in 1..n : Contents(q)[i] = q.data[(p + i - 1) % c]
    BY Zenon, ContentsType DEF p, c, n
  <2>3. /\ Contents(r) \in Seq(Request) /\ Len(Contents(r)) = n + 1
        /\ Contents(q) \in Seq(Request) /\ Len(Contents(q)) = n
    BY <1>8, <1>9, ContentsType DEF n
  <2>4. /\ Append(Contents(q), e) \in Seq(Request) /\ Len(Append(Contents(q), e)) = n + 1
        /\ \A i \in 1..n : Append(Contents(q), e)[i] = Contents(q)[i]
        /\ Append(Contents(q), e)[n + 1] = e
    BY <2>3, AppendProperties
  <2>5. n + 1 \in 1..(n + 1) /\ \A i \in 1..n : i \in 1..(n + 1)
    BY <1>1
  <2>6. \A i \in 1..(n + 1) : Contents(r)[i] = Append(Contents(q), e)[i]
    BY Zenon, <1>3, <1>5, <1>6, <1>7, <2>1, <2>2, <2>4, <2>5
  <2>7. QED
    BY <2>3, <2>4, <2>6, SeqEqual
<1>11. QED
  BY <1>9, <1>10 DEF r

(* queue_push appends, whether or not the array has to grow. *)
LEMMA PushOK ==
  ASSUME NEW q, QueueOK(q), NEW e \in Request
  PROVE  QueueOK(Push(q, e)) /\ Contents(Push(q, e)) = Append(Contents(q), e)
<1>1. CASE q.len = q.capacity
  BY <1>1, ResizeOK, SimplePushOK DEF Push
<1>2. CASE q.len # q.capacity
  <2>1. q.len < q.capacity
    BY <1>2 DEF QueueOK
  <2>2. QED
    BY <1>2, <2>1, SimplePushOK DEF Push
<1>3. QED
  BY <1>1, <1>2

-----------------------------------------------------------------------------
(* No request in s has this id.                                            *)
NoneOf(s, id) == \A i \in 1..Len(s) : s[i].id # id

(* Both queues are well formed, and what remove_from_queue has poured into *)
(* the temporary queue, and from there back, has not the id it removes.    *)
RingInv ==
  /\ QueueOK(queue) /\ QueueOK(tmp)
  /\ pushed \in Nat /\ popped \in Seq(Request)
  /\ phase \in {"idle", "drain", "refill"}
  /\ phase # "idle" => removing \in Ids /\ NoneOf(Contents(tmp), removing)
  /\ phase = "refill" => NoneOf(Contents(queue), removing)

LEMMA NoneOfAppend ==
  ASSUME NEW s \in Seq(Request), NEW r \in Request, NEW id, NoneOf(s, id), r.id # id
  PROVE  NoneOf(Append(s, r), id)
  BY AppendProperties DEF NoneOf

LEMMA NoneOfConcat ==
  ASSUME NEW s \in Seq(Request), NEW t \in Seq(Request), NEW id, NoneOf(s, id), NoneOf(t, id)
  PROVE  NoneOf(s \o t, id)
  BY ConcatProperties, LenProperties DEF NoneOf

LEMMA NoneOfTail ==
  ASSUME NEW s \in Seq(Request), NEW id, NoneOf(s, id), s # <<>>
  PROVE  Head(s).id # id /\ NoneOf(Tail(s), id)
  BY HeadTailProperties, LenProperties, EmptySeq DEF NoneOf

LEMMA RingInitially ==
  QueueInit => RingInv
  BY InitQueueOK, InitCapAssumption, EmptySeq DEF QueueInit, RingInv

LEMMA RingStep ==
  ASSUME RingInv, [QueueNext]_queueVars
  PROVE  RingInv'
<1>1. CASE QueuePush
  <2>1. PICK id \in Ids : queue' = Push(queue, [n |-> pushed + 1, id |-> id])
    BY <1>1 DEF QueuePush
  <2>2. [n |-> pushed + 1, id |-> id] \in Request
    BY DEF RingInv, Request
  <2>3. QueueOK(queue')
    BY <2>1, <2>2, PushOK DEF RingInv
  <2>4. QED
    BY <1>1, <2>3 DEF RingInv, QueuePush
<1>2. CASE QueuePop
  <2>1. QueueOK(queue') /\ QueueFront(queue) \in Request
    BY Zenon, <1>2, PopOK DEF RingInv, QueuePop
  <2>2. popped' \in Seq(Request)
    BY <1>2, <2>1, AppendProperties DEF RingInv, QueuePop
  <2>3. QED
    BY <1>2, <2>1, <2>2 DEF RingInv, QueuePop
<1>3. CASE \E id \in Ids : RemoveFromQueue(id)
  <2>1. PICK id \in Ids : RemoveFromQueue(id)
    BY <1>3
  <2>2. QueueOK(tmp') /\ Contents(tmp') = <<>>
    BY Zenon, <2>1, InitQueueOK DEF RingInv, RemoveFromQueue, QueueOK
  <2>3. NoneOf(Contents(tmp'), removing')
    BY <2>2 DEF NoneOf
  <2>4. QED
    BY <2>1, <2>2, <2>3 DEF RingInv, RemoveFromQueue
<1>4. CASE DrainOne
  <2>1. QueueOK(queue') /\ QueueFront(queue) \in Request
    BY Zenon, <1>4, PopOK DEF RingInv, DrainOne
  <2>2. QueueOK(tmp') /\ NoneOf(Contents(tmp'), removing)
    <3>1. CASE QueueFront(queue).id # removing
      BY Zenon, <1>4, <2>1, <3>1, PushOK, ContentsType, NoneOfAppend DEF RingInv, DrainOne
    <3>2. CASE QueueFront(queue).id = removing
      BY <1>4, <3>2 DEF RingInv, DrainOne
    <3>3. QED
      BY <3>1, <3>2
  <2>3. QED
    BY <1>4, <2>1, <2>2 DEF RingInv, DrainOne
<1>5. CASE DrainDone
  <2>1. NoneOf(Contents(queue), removing)
    BY <1>5, ContentsType DEF RingInv, DrainDone, QueueIsEmpty, NoneOf
  <2>2. QED
    BY <1>5, <2>1 DEF RingInv, DrainDone
<1>6. CASE RefillOne
  <2>1. /\ QueueOK(tmp') /\ Contents(tmp') = Tail(Contents(tmp)) /\ Contents(tmp) # <<>>
        /\ QueueFront(tmp) \in Request /\ QueueFront(tmp) = Head(Contents(tmp))
    BY Zenon, <1>6, PopOK DEF RingInv, RefillOne
  <2>2. QueueOK(queue') /\ Contents(queue') = Append(Contents(queue), QueueFront(tmp))
    BY Zenon, <1>6, <2>1, PushOK DEF RingInv, RefillOne
  <2>3. QueueFront(tmp).id # removing /\ NoneOf(Contents(tmp'), removing)
    BY <1>6, <2>1, ContentsType, NoneOfTail DEF RingInv, RefillOne
  <2>4. NoneOf(Contents(queue'), removing)
    BY Zenon, <1>6, <2>1, <2>2, <2>3, ContentsType, NoneOfAppend DEF RingInv, RefillOne
  <2>5. QED
    BY <1>6, <2>1, <2>2, <2>3, <2>4 DEF RingInv, RefillOne
<1>7. CASE RefillDone
  BY <1>7, InitQueueOK, InitCapAssumption DEF RingInv, RefillDone
<1>8. CASE UNCHANGED queueVars
  BY <1>8 DEF RingInv, queueVars
<1>9. QED
  BY <1>1, <1>2, <1>3, <1>4, <1>5, <1>6, <1>7, <1>8 DEF QueueNext

LEMMA RingAlways ==
  QueueSpec => []RingInv
<1>1. RingInv /\ [QueueNext]_queueVars => RingInv'
  BY RingStep
<1>2. QED
  BY <1>1, RingInitially, PTL DEF QueueSpec

(* remove_from_queue(id) leaves no request of this id, whatever the queue  *)
(* held and wherever its pointer was.                                      *)
THEOREM RemovesAll ==
  QueueSpec => []RemovalComplete
<1>1. RingInv => RemovalComplete
  <2> SUFFICES ASSUME RingInv, phase = "refill" PROVE NoneOf(Held, removing)
    BY DEF RemovalComplete, NoneOf
  <2>1. Held = Contents(queue) \o Contents(tmp)
    BY DEF Held
  <2>2. QED
    BY <2>1, ContentsType, NoneOfConcat DEF RingInv
<1>2. QED
  BY <1>1, RingAlways, PTL

-----------------------------------------------------------------------------
(* Pouring from one queue into the other moves no request; leaving one out *)
(* takes it from its place.                                                *)
LEMMA Poured ==
  ASSUME NEW s \in Seq(Request), NEW t \in Seq(Request), NEW r \in Request
  PROVE  Append(s, r) \o t = s \o (<<r>> \o t)
<1>1. <<r>> \in Seq(Request)
  OBVIOUS
<1>2. QED
  BY <1>1, AppendIsConcat, ConcatAssociative

LEMMA LeftOut ==
  ASSUME NEW s \in Seq(Request), NEW t \in Seq(Request), NEW r \in Request
  PROVE  LET u == s \o (<<r>> \o t)
             i == Len(s) + 1
         IN  /\ i \in 1..Len(u) /\ u[i] = r
             /\ s \o t = SubSeq(u, 1, i - 1) \o SubSeq(u, i + 1, Len(u))
<1> DEFINE v == <<r>> \o t
           u == s \o v
           n == Len(s)
           k == Len(t)
<1>1. /\ v \in Seq(Request) /\ Len(v) = k + 1 /\ n \in Nat /\ k \in Nat
      /\ v[1] = r /\ \A j \in 1..k : v[j + 1] = t[j]
  <2>1. <<r>> \in Seq(Request) /\ Len(<<r>>) = 1 /\ <<r>>[1] = r
    OBVIOUS
  <2>2. QED
    BY <2>1, ConcatProperties, LenProperties
<1> HIDE DEF v
<1>2. /\ u \in Seq(Request) /\ Len(u) = n + k + 1
      /\ \A j \in 1..n : u[j] = s[j]
      /\ \A j \in 1..(k + 1) : u[n + j] = v[j]
  <2>1. /\ u \in Seq(Request) /\ Len(u) = n + (k + 1)
        /\ \A j \in 1..(n + (k + 1)) : u[j] = IF j <= n THEN s[j] ELSE v[j - n]
    <3>1. /\ u \in Seq(Request) /\ Len(u) = n + Len(v)
          /\ \A j \in 1..(n + Len(v)) : u[j] = IF j <= n THEN s[j] ELSE v[j - n]
      BY Zenon, <1>1, ConcatProperties
    <3>2. QED
      BY Zenon, <1>1, <3>1
  <2> HIDE DEF u, n, k
  <2>2. \A j \in 1..n : u[j] = s[j]
    BY <1>1, <2>1
  <2>3. ASSUME NEW j \in 1..(k + 1) PROVE u[n + j] = v[j]
    <3> DEFINE w == n + j
    <3>1. w \in 1..(n + (k + 1)) /\ ~(w <= n) /\ w - n = j
      BY <1>1
    <3> HIDE DEF w
    <3>2. u[w] = v[j]
      BY <2>1, <3>1
    <3>3. QED
      BY <3>2 DEF w
  <2>4. QED
    BY <1>1, <2>1, <2>2, <2>3
<1> HIDE DEF u
<1>3. u[n + 1] = r /\ n + 1 \in 1..Len(u)
  BY <1>1, <1>2
<1>4. SubSeq(u, 1, n + 1 - 1) = s
  <2>1. \A j \in 1..(n + 1 - 1) : u[j] \in Request
    BY <1>1, <1>2, ElementOfSeq
  <2>2. /\ SubSeq(u, 1, n + 1 - 1) \in Seq(Request) /\ Len(SubSeq(u, 1, n + 1 - 1)) = n
        /\ \A j \in 1..n : SubSeq(u, 1, n + 1 - 1)[j] = u[j]
    BY <1>1, <2>1, SubSeqProperties
  <2>3. QED
    BY <1>1, <1>2, <2>2, SeqEqual
<1>5. SubSeq(u, n + 1 + 1, Len(u)) = t
  <2>1. \A j \in (n + 2)..(n + k + 1) : u[j] \in Request
    BY <1>1, <1>2, ElementOfSeq
  <2>2. /\ SubSeq(u, n + 2, n + k + 1) \in Seq(Request) /\ Len(SubSeq(u, n + 2, n + k + 1)) = k
        /\ \A j \in 1..k : SubSeq(u, n + 2, n + k + 1)[j] = u[n + 2 + j - 1]
    BY <1>1, <2>1, SubSeqProperties
  <2>3. ASSUME NEW j \in 1..k PROVE u[n + 2 + j - 1] = t[j]
    <3> HIDE DEF n, k
    <3>1. j + 1 \in 1..(k + 1) /\ n + 2 + j - 1 = n + (j + 1)
      BY <1>1
    <3>2. u[n + (j + 1)] = v[j + 1] /\ v[j + 1] = t[j]
      BY <1>1, <1>2, <3>1, Zenon
    <3>3. QED
      BY <3>1, <3>2, Zenon
  <2>4. SubSeq(u, n + 2, n + k + 1) = t
    BY <1>1, <2>2, <2>3, SeqEqual
  <2>5. QED
    BY <1>1, <1>2, <2>4
<1>6. /\ n + 1 \in 1..Len(u) /\ u[n + 1] = r
      /\ s \o t = SubSeq(u, 1, n + 1 - 1) \o SubSeq(u, n + 1 + 1, Len(u))
  BY Zenon, <1>3, <1>4, <1>5
<1>7. QED
  BY <1>6 DEF u, v

LEMMA HeldType ==
  ASSUME RingInv
  PROVE  /\ Held \in Seq(Request)
         /\ phase = "idle" => Held = Contents(queue)
         /\ phase = "drain" => Held = Contents(tmp) \o Contents(queue)
         /\ phase = "refill" => Held = Contents(queue) \o Contents(tmp)
<1>1. Contents(queue) \in Seq(Request) /\ Contents(tmp) \in Seq(Request)
  BY ContentsType DEF RingInv
<1>2. QED
  BY <1>1, ConcatProperties DEF RingInv, Held

(* Every step of the ring buffer is one of the queue it implements, or     *)
(* leaves that as it is.                                                   *)
LEMMA RingRefines ==
  ASSUME RingInv, [QueueNext]_queueVars
  PROVE  [Fifo!FifoNext]_<<Held, popped>>
<1> DEFINE Q == Contents(queue)
           T == Contents(tmp)
<1>1. /\ Q \in Seq(Request) /\ T \in Seq(Request) /\ Held \in Seq(Request)
      /\ Q \o <<>> = Q /\ <<>> \o Q = Q /\ T \o <<>> = T /\ <<>> \o T = T
  BY ContentsType, HeldType, ConcatEmptySeq DEF RingInv
<1>2. RingInv'
  BY RingStep
<1>3. CASE QueuePush
  <2>1. PICK id \in Ids : queue' = Push(queue, [n |-> pushed + 1, id |-> id])
    BY <1>3 DEF QueuePush
  <2> DEFINE e == [n |-> pushed + 1, id |-> id]
  <2>2. e \in Request
    BY DEF RingInv, Request
  <2>3. Contents(queue') = Append(Q, e)
    BY <2>1, <2>2, PushOK DEF RingInv
  <2>4. Held = Q /\ Held' = Contents(queue')
    BY <1>3 DEF QueuePush, Held
  <2> HIDE DEF e
  <2>5. Held' = Append(Held, e) /\ Held' # <<>> /\ Held'[Len(Held')] = e
    BY <1>1, <2>2, <2>3, <2>4, AppendProperties, LenProperties
  <2>6. popped' = popped
    BY <1>3 DEF QueuePush
  <2>7. QED
    BY <2>5, <2>6 DEF Fifo!FifoNext, Fifo!Enqueue
<1>4. CASE QueuePop
  <2>1. Q # <<>> /\ QueueFront(queue) = Head(Q) /\ Contents(queue') = Tail(Q)
    BY Zenon, <1>4, PopOK DEF QueuePop, RingInv
  <2>2. Held = Q /\ Held' = Contents(queue') /\ popped' = Append(popped, QueueFront(queue))
    BY <1>4 DEF QueuePop, Held
  <2>3. QED
    BY <2>1, <2>2 DEF Fifo!FifoNext, Fifo!Dequeue
<1>5. CASE \E id \in Ids : RemoveFromQueue(id)
  <2>1. PICK id \in Ids : RemoveFromQueue(id)
    BY <1>5
  <2>2. Contents(tmp') = <<>>
    BY <2>1, InitQueueOK DEF RingInv, RemoveFromQueue, QueueOK
  <2>3. Held = Q /\ Held' = Contents(tmp') \o Q /\ popped' = popped
    BY <2>1 DEF RemoveFromQueue, Held
  <2>4. QED
    BY Zenon, <1>1, <2>2, <2>3
<1>6. CASE DrainOne
  <2>1. /\ QueueOK(queue') /\ QueueFront(queue) \in Request
        /\ Q = <<QueueFront(queue)>> \o Contents(queue')
    BY <1>6, PopOK DEF DrainOne, RingInv
  <2>2. Held = T \o Q /\ Held' = Contents(tmp') \o Contents(queue') /\ popped' = popped
    BY <1>6 DEF DrainOne, Held
  <2>3. Contents(queue') \in Seq(Request)
    BY <2>1, ContentsType
  <2>4. CASE QueueFront(queue).id # removing
    <3>1. Contents(tmp') = Append(T, QueueFront(queue))
      BY <1>6, <2>1, <2>4, PushOK DEF DrainOne, RingInv
    <3>2. Held' = Held
      BY <1>1, <2>1, <2>2, <2>3, <3>1, Poured
    <3>3. QED
      BY <2>2, <3>2
  <2>5. CASE QueueFront(queue).id = removing
    <3>1. tmp' = tmp /\ removing \in Ids
      BY <1>6, <2>5 DEF DrainOne, RingInv
    <3> DEFINE i == Len(T) + 1
               F == QueueFront(queue)
               C == Contents(queue')
    <3>a. Held = T \o (<<F>> \o C) /\ Held' = T \o C
      BY <2>1, <2>2, <3>1
    <3>b. T \in Seq(Request) /\ C \in Seq(Request) /\ F \in Request
      BY <1>1, <2>1, <2>3
    <3>2. /\ i \in 1..Len(Held) /\ Held[i] = F
          /\ Held' = SubSeq(Held, 1, i - 1) \o SubSeq(Held, i + 1, Len(Held))
      <4> HIDE DEF F, C, T
      <4>1. LET u == T \o (<<F>> \o C)
            IN  /\ i \in 1..Len(u) /\ u[i] = F
                /\ T \o C = SubSeq(u, 1, i - 1) \o SubSeq(u, i + 1, Len(u))
        BY Zenon, <3>b, LeftOut
      <4>2. QED
        BY <3>a, <4>1
    <3> HIDE DEF i
    <3>3. Fifo!Drop(removing)
      BY Zenon, <2>2, <2>5, <3>2 DEF Fifo!Drop
    <3>4. QED
      BY <3>1, <3>3 DEF Fifo!FifoNext
  <2>6. QED
    BY <2>4, <2>5
<1>7. CASE DrainDone
  <2>1. Q = <<>>
    BY <1>7, ContentsType DEF DrainDone, QueueIsEmpty, RingInv
  <2>2. Held = T \o Q /\ Held' = Q \o T /\ popped' = popped
    BY <1>7 DEF DrainDone, Held
  <2>3. QED
    BY Zenon, <1>1, <2>1, <2>2
<1>8. CASE RefillOne
  <2>1. /\ QueueOK(tmp') /\ QueueFront(tmp) \in Request
        /\ T = <<QueueFront(tmp)>> \o Contents(tmp')
    BY <1>8, PopOK DEF RefillOne, RingInv
  <2>2. Held = Q \o T /\ Held' = Contents(queue') \o Contents(tmp') /\ popped' = popped
    BY <1>8 DEF RefillOne, Held
  <2>3. Contents(tmp') \in Seq(Request)
    BY <2>1, ContentsType
  <2>4. Contents(queue') = Append(Q, QueueFront(tmp))
    BY Zenon, <1>8, <2>1, PushOK DEF RefillOne, RingInv
  <2>5. QED
    BY <1>1, <2>1, <2>2, <2>3, <2>4, Poured
<1>9. CASE RefillDone
  <2>1. T = <<>>
    BY <1>9, ContentsType DEF RefillDone, QueueIsEmpty, RingInv
  <2>2. Held = Q \o T /\ Held' = Q /\ popped' = popped
    BY <1>9 DEF RefillDone, Held
  <2>3. QED
    BY <1>1, <2>1, <2>2
<1>10. CASE UNCHANGED queueVars
  BY <1>10 DEF queueVars, Held
<1>11. QED
  BY Zenon, <1>3, <1>4, <1>5, <1>6, <1>7, <1>8, <1>9, <1>10 DEF QueueNext

(* The ring buffer with its resizing, used by push, pop and                *)
(* remove_from_queue, is a FIFO queue from which requests of one id are    *)
(* dropped: nothing else is lost, duplicated, reordered or made up.        *)
THEOREM ImplementsFifo ==
  QueueSpec => RefinesFifo
<1>1. QueueInit => Fifo!FifoInit
  BY InitQueueOK, InitCapAssumption DEF QueueInit, Held, Fifo!FifoInit
<1>2. RingInv /\ [QueueNext]_queueVars => [Fifo!FifoNext]_<<Held, popped>>
  BY RingRefines
<1>3. QED
  BY <1>1, <1>2, RingAlways, PTL DEF QueueSpec, RefinesFifo, Fifo!FifoSpec, Fifo!fifoVars


-----------------------------------------------------------------------------
PollEntry == [fd : Fds \cup {Sock, Pipe, Gone}, out : BOOLEAN, revents : BOOLEAN]

TypeInv ==
  /\ poll_list \in Seq(PollEntry) /\ clients \in Seq(Fds)
  /\ poll_len \in Nat \ {0} /\ capacity \in Nat \ {0}
  /\ pc \in {"clean", "loop"} /\ index \in Nat \ {0}

(* The first two entries stay what they are; no descriptor of a client has *)
(* two entries, no client is listed twice, and the same descriptors are in *)
(* both tables.                                                            *)
TablesInv ==
  /\ poll_num >= 2 /\ poll_list[1].fd = Sock /\ poll_list[2].fd = Pipe
  /\ \A j, k \in 1..poll_num :
       poll_list[j].fd = poll_list[k].fd /\ poll_list[j].fd # Gone => j = k
  /\ \A j, k \in 1..Len(clients) : clients[j] = clients[k] => j = k
  /\ \A fd \in Fds : (\E k \in 1..Len(clients) : clients[k] = fd)
                       <=> (\E k \in 1..poll_num : poll_list[k].fd = fd)
  /\ poll_num <= poll_len /\ Len(clients) <= capacity

(* Behind the index of poll_list_clean there is no removed entry.  In the  *)
(* loop, what poll() reported has been handled or is still ahead.          *)
LoopInv ==
  /\ pc = "clean" => \A k \in 1..poll_num : k < index => poll_list[k].fd # Gone
  /\ pc = "loop" =>
       \A fd : fd \in ready <=>
         \/ fd \in visited
         \/ \E k \in 1..poll_num : k >= index /\ poll_list[k].revents /\ poll_list[k].fd = fd

PollInv == TypeInv /\ TablesInv /\ LoopInv

-----------------------------------------------------------------------------
(* Filling a hole with the last element, as poll_list_clean and            *)
(* list_remove do.                                                         *)
LEMMA Filled ==
  ASSUME NEW S, NEW s \in Seq(S), NEW h \in 1..Len(s)
  PROVE  LET t == SubSeq([s EXCEPT ![h] = s[Len(s)]], 1, Len(s) - 1)
         IN  /\ t \in Seq(S) /\ Len(t) = Len(s) - 1
             /\ \A k \in 1..Len(t) : t[k] = IF k = h THEN s[Len(s)] ELSE s[k]
<1> DEFINE u == [s EXCEPT ![h] = s[Len(s)]]
           n == Len(s)
<1>1. /\ n \in Nat \ {0} /\ DOMAIN s = 1..n /\ h \in 1..n
      /\ \A k \in 1..n : s[k] \in S
  OBVIOUS
<1>2. \A k \in 1..n : u[k] \in S /\ u[k] = IF k = h THEN s[n] ELSE s[k]
  BY <1>1
<1> HIDE DEF u, n
<1>3. /\ SubSeq(u, 1, n - 1) \in Seq(S)
      /\ Len(SubSeq(u, 1, n - 1)) = n - 1
      /\ \A k \in 1..n - 1 : SubSeq(u, 1, n - 1)[k] = u[k]
  BY <1>1, <1>2, SubSeqProperties
<1>4. QED
  <2> DEFINE t == SubSeq(u, 1, n - 1)
  <2>1. t \in Seq(S) /\ Len(t) = n - 1
    BY <1>3
  <2>2. \A k \in 1..Len(t) : t[k] = IF k = h THEN s[n] ELSE s[k]
    BY <1>1, <1>2, <1>3
  <2>3. QED
    BY <2>1, <2>2 DEF u, n

(* list_remove takes out one key and keeps the others.                     *)
LEMMA ListRemoved ==
  ASSUME NEW s \in Seq(Fds), NEW h \in 1..Len(s),
         \A j, k \in 1..Len(s) : s[j] = s[k] => j = k
  PROVE  LET t == SubSeq([s EXCEPT ![h] = s[Len(s)]], 1, Len(s) - 1)
         IN  /\ t \in Seq(Fds) /\ Len(t) = Len(s) - 1
             /\ \A j, k \in 1..Len(t) : t[j] = t[k] => j = k
             /\ \A fd \in Fds : (\E k \in 1..Len(t) : t[k] = fd)
                                  <=> fd # s[h] /\ \E k \in 1..Len(s) : s[k] = fd
<1> DEFINE t == SubSeq([s EXCEPT ![h] = s[Len(s)]], 1, Len(s) - 1)
           n == Len(s)
<1>1. /\ t \in Seq(Fds) /\ Len(t) = n - 1
      /\ \A k \in 1..Len(t) : t[k] = IF k = h THEN s[n] ELSE s[k]
  BY Filled
<1>2. n \in Nat \ {0} /\ h \in 1..n /\ \A j, k \in 1..n : s[j] = s[k] => j = k
  OBVIOUS
<1> SUFFICES /\ t \in Seq(Fds) /\ Len(t) = n - 1
             /\ \A j, k \in 1..Len(t) : t[j] = t[k] => j = k
             /\ \A fd \in Fds : (\E k \in 1..Len(t) : t[k] = fd)
                                  <=> fd # s[h] /\ \E k \in 1..n : s[k] = fd
  OBVIOUS
<1> HIDE DEF t, n
<1>3. \A j, k \in 1..Len(t) : t[j] = t[k] => j = k
  BY <1>1, <1>2
<1>4. ASSUME NEW fd \in Fds
      PROVE  (\E k \in 1..Len(t) : t[k] = fd) <=> fd # s[h] /\ \E k \in 1..n : s[k] = fd
  <2>1. ASSUME NEW k \in 1..Len(t), t[k] = fd
        PROVE  fd # s[h] /\ \E m \in 1..n : s[m] = fd
    BY <1>1, <1>2, <2>1
  <2>2. ASSUME NEW m \in 1..n, s[m] = fd, fd # s[h]
        PROVE  \E k \in 1..Len(t) : t[k] = fd
    <3>1. CASE m = n
      BY <1>1, <1>2, <2>2, <3>1
    <3>2. CASE m # n
      BY <1>1, <1>2, <2>2, <3>2
    <3>3. QED
      BY <3>1, <3>2
  <2>3. QED
    BY <2>1, <2>2
<1>5. QED
  BY <1>1, <1>3, <1>4

-----------------------------------------------------------------------------
(* What the handlers change in an entry besides its descriptor and the     *)
(* events poll() reported does not matter.                                 *)
SameEntries ==
  /\ poll_list' \in Seq(PollEntry) /\ Len(poll_list') = poll_num
  /\ \A k \in 1..poll_num : /\ poll_list'[k].fd = poll_list[k].fd
                            /\ poll_list'[k].revents = poll_list[k].revents

LEMMA EntryType ==
  ASSUME TypeInv
  PROVE  /\ poll_num \in Nat /\ DOMAIN poll_list = 1..poll_num
         /\ \A k \in 1..poll_num : /\ poll_list[k] \in PollEntry
                                   /\ poll_list[k].fd \in Fds \cup {Sock, Pipe, Gone}
<1>1. poll_list \in Seq(PollEntry)
  BY DEF TypeInv
<1>2. poll_num \in Nat /\ DOMAIN poll_list = 1..poll_num /\ \A k \in 1..poll_num : poll_list[k] \in PollEntry
  BY <1>1 DEF poll_num
<1>3. QED
  BY <1>2 DEF PollEntry

LEMMA OutChanged ==
  ASSUME NEW e \in PollEntry, NEW b \in BOOLEAN
  PROVE  LET f == [e EXCEPT !.out = b]
         IN  f \in PollEntry /\ f.fd = e.fd /\ f.revents = e.revents
BY DEF PollEntry

LEMMA Tabulated ==
  ASSUME NEW S, NEW n \in Nat, NEW s \in [1..n -> S]
  PROVE  s \in Seq(S) /\ Len(s) = n
OBVIOUS

LEMMA Rewritten ==
  ASSUME TypeInv, NEW T, NEW s \in [1..poll_num -> T],
         \A k \in 1..poll_num : \/ s[k] = poll_list[k]
                                \/ \E b \in BOOLEAN : s[k] = [poll_list[k] EXCEPT !.out = b]
  PROVE  /\ s \in Seq(PollEntry) /\ Len(s) = poll_num
         /\ \A k \in 1..poll_num : /\ s[k].fd = poll_list[k].fd
                                   /\ s[k].revents = poll_list[k].revents
<1>1. ASSUME NEW k \in 1..poll_num
      PROVE  s[k] \in PollEntry /\ s[k].fd = poll_list[k].fd /\ s[k].revents = poll_list[k].revents
  <2>1. poll_list[k] \in PollEntry
    BY EntryType
  <2>2. QED
    BY ZenonT(30), <2>1, OutChanged
<1> DEFINE n == poll_num
<1>2. n \in Nat
  BY EntryType
<1> HIDE DEF n
<1>3. s \in [1..n -> PollEntry]
  BY <1>1 DEF n
<1>4. s \in Seq(PollEntry) /\ Len(s) = n
  BY <1>2, <1>3, Tabulated
<1>5. QED
  BY <1>1, <1>4 DEF n

LEMMA QueueWriteSame ==
  ASSUME TypeInv, NEW fd, QueueWrite(fd)
  PROVE  SameEntries
<1>1. \E T : poll_list' \in [1..poll_num -> T]
  <2>1. poll_list' \in [1..poll_num -> {poll_list'[k] : k \in 1..poll_num}]
    BY Zenon DEF QueueWrite
  <2>2. QED
    BY Zenon, <2>1
<1>2. ASSUME NEW k \in 1..poll_num
      PROVE  \/ poll_list'[k] = poll_list[k]
             \/ \E b \in BOOLEAN : poll_list'[k] = [poll_list[k] EXCEPT !.out = b]
  BY Zenon DEF QueueWrite
<1>3. QED
  BY Zenon, <1>1, <1>2, Rewritten DEF SameEntries

LEMMA ServeSame ==
  ASSUME TypeInv, NEW fd \in Fds, Serve(fd)
  PROVE  SameEntries
<1>1. CASE QueueWrite(fd)
  BY <1>1, QueueWriteSame
<1>2. CASE poll_list' = [poll_list EXCEPT ![index].out = FALSE]
  <2>1. DOMAIN poll_list = 1..poll_num
    BY EntryType
  <2>2. poll_list' \in [1..poll_num -> {poll_list'[k] : k \in 1..poll_num}]
    BY Zenon, <1>2, <2>1
  <2>3. \A k \in 1..poll_num : poll_list'[k] = IF k = index THEN [poll_list[k] EXCEPT !.out = FALSE] ELSE poll_list[k]
    BY Zenon, <1>2, <2>1
  <2>4. QED
    BY <2>2, <2>3, Rewritten, Zenon DEF SameEntries
<1>3. QED
  BY <1>1, <1>2 DEF Serve

-----------------------------------------------------------------------------
(* The tables only depend on the descriptors.                              *)
LEMMA SameTables ==
  ASSUME PollInv, SameEntries, UNCHANGED <<poll_len, clients, capacity>>
  PROVE  TablesInv'
<1> DEFINE n == poll_num
<1>1. n \in Nat /\ poll_num' = n
  BY EntryType DEF PollInv, SameEntries, poll_num
<1>2. \A k \in 1..n : poll_list'[k].fd = poll_list[k].fd
  BY DEF SameEntries
<1>3. QED
  BY <1>1, <1>2 DEF PollInv, TablesInv

(* A turn of the loop that leaves the descriptors alone.                   *)
LEMMA SameTurn ==
  ASSUME PollInv, SameEntries, UNCHANGED <<poll_len, clients, capacity>>,
         NEW fd, At(fd)
  PROVE  PollInv'
<1> DEFINE n == poll_num
<1>1. n \in Nat /\ poll_num' = n
  BY EntryType DEF PollInv, SameEntries, poll_num
<1>2. \A k \in 1..n : /\ poll_list'[k].fd = poll_list[k].fd
                      /\ poll_list'[k].revents = poll_list[k].revents
  BY DEF SameEntries
<1>3. TypeInv'
  BY DEF PollInv, TypeInv, SameEntries, At
<1>4. LoopInv'
  <2>1. /\ pc = "loop" /\ pc' = "loop" /\ index \in 1..n /\ index' = index + 1
        /\ poll_list[index].revents /\ poll_list[index].fd = fd
        /\ visited' = visited \cup {fd} /\ ready' = ready
    BY DEF PollInv, TypeInv, At
  <2> SUFFICES ASSUME NEW g
               PROVE  g \in ready <=>
                        \/ g \in visited \cup {fd}
                        \/ \E k \in 1..n : /\ k >= index + 1 /\ poll_list'[k].revents
                                           /\ poll_list'[k].fd = g
    BY <1>1, <2>1 DEF LoopInv
  <2>2. g \in ready <=> \/ g \in visited
                        \/ \E k \in 1..n : k >= index /\ poll_list[k].revents /\ poll_list[k].fd = g
    BY <2>1 DEF PollInv, LoopInv
  <2>3. QED
    BY <1>1, <1>2, <2>1, <2>2
<1>5. QED
  BY <1>3, <1>4, SameTables DEF PollInv

LEMMA UnchangedSame ==
  ASSUME TypeInv, UNCHANGED poll_list
  PROVE  SameEntries
BY DEF TypeInv, SameEntries, poll_num

LEMMA HandleChildEventsStep ==
  ASSUME PollInv, HandleChildEvents
  PROVE  PollInv'
<1>1. At(Pipe) /\ UNCHANGED <<poll_len, clients, capacity>>
  BY DEF HandleChildEvents
<1>2. SameEntries
  BY QueueWriteSame, UnchangedSame DEF HandleChildEvents, PollInv
<1>3. QED
  BY <1>1, <1>2, SameTurn

LEMMA ServeStep ==
  ASSUME PollInv, NEW fd \in Fds, Serve(fd)
  PROVE  PollInv'
<1>1. At(fd) /\ UNCHANGED <<poll_len, clients, capacity>>
  BY DEF Serve
<1>2. SameEntries
  BY ServeSame DEF PollInv
<1>3. QED
  BY <1>1, <1>2, SameTurn

LEMMA SkipStep ==
  ASSUME PollInv, Skip
  PROVE  PollInv'
<1>1. SameEntries
  BY UnchangedSame DEF PollInv, Skip
<1>2. TablesInv'
  BY <1>1, SameTables DEF Skip
<1>3. TypeInv'
  BY DEF PollInv, TypeInv, Skip
<1>4. LoopInv'
  <2> DEFINE n == poll_num
  <2>1. n \in Nat /\ poll_num' = n
    BY EntryType DEF PollInv, Skip, poll_num
  <2>2. /\ pc = "loop" /\ pc' = "loop" /\ index \in 1..n /\ index' = index + 1
        /\ ~poll_list[index].revents /\ UNCHANGED <<poll_list, visited, ready>>
    BY DEF PollInv, TypeInv, Skip
  <2>3. QED
    BY <2>1, <2>2 DEF PollInv, LoopInv
<1>5. QED
  BY <1>2, <1>3, <1>4 DEF PollInv

LEMMA EndOfLoopStep ==
  ASSUME PollInv, EndOfLoop
  PROVE  PollInv'
<1>1. SameEntries
  BY UnchangedSame DEF PollInv, EndOfLoop
<1>2. TablesInv'
  BY <1>1, SameTables DEF EndOfLoop
<1>3. TypeInv'
  BY DEF PollInv, TypeInv, EndOfLoop
<1>4. LoopInv'
  BY EntryType DEF PollInv, LoopInv, EndOfLoop, poll_num
<1>5. QED
  BY <1>2, <1>3, <1>4 DEF PollInv

LEMMA EventsChanged ==
  ASSUME NEW e \in PollEntry, NEW b \in BOOLEAN
  PROVE  LET f == [e EXCEPT !.revents = b]
         IN  f \in PollEntry /\ f.fd = e.fd /\ f.revents = b
BY DEF PollEntry

LEMMA PollStep ==
  ASSUME PollInv, Poll
  PROVE  PollInv'
<1> DEFINE n == poll_num
<1>1. n \in Nat /\ \A k \in 1..n : poll_list[k] \in PollEntry
  BY EntryType DEF PollInv
<1>2. ASSUME NEW k \in 1..n
      PROVE  /\ poll_list'[k] \in PollEntry /\ poll_list'[k].fd = poll_list[k].fd
             /\ (poll_list'[k].revents <=> poll_list[k].fd \in ready')
  <2>1. poll_list'[k] = [poll_list[k] EXCEPT !.revents = poll_list[k].fd \in ready']
    BY Zenon DEF Poll
  <2> DEFINE b == poll_list[k].fd \in ready'
             e == poll_list[k]
  <2>2. b \in BOOLEAN /\ e \in PollEntry
    BY <1>1
  <2>3. poll_list'[k] = [e EXCEPT !.revents = b]
    BY <2>1, Zenon
  <2> HIDE DEF b, e
  <2>4. poll_list'[k] \in PollEntry /\ poll_list'[k].fd = e.fd /\ poll_list'[k].revents = b
    <3>1. LET f == [e EXCEPT !.revents = b]
          IN  f \in PollEntry /\ f.fd = e.fd /\ f.revents = b
      BY <2>2, EventsChanged, Zenon
    <3>2. QED
      BY <2>3, <3>1, Zenon
  <2>5. QED
    BY <2>4, Zenon DEF b, e
<1>3. poll_list' \in [1..n -> PollEntry]
  <2>1. poll_list' \in [1..n -> {poll_list'[k] : k \in 1..n}]
    BY Zenon DEF Poll
  <2>2. QED
    BY <1>2, <2>1
<1>4. poll_list' \in Seq(PollEntry) /\ Len(poll_list') = n
  BY <1>1, <1>3, Tabulated
<1>5. UNCHANGED <<poll_len, clients, capacity>> /\ pc' = "loop" /\ index' = 1 /\ visited' = {}
  BY DEF Poll
<1>6. TypeInv'
  <2>1. 1 \in Nat \ {0}
    OBVIOUS
  <2>2. QED
    BY Zenon, <1>4, <1>5, <2>1 DEF PollInv, TypeInv
<1>7. TablesInv'
  <2>1. \A k \in 1..n : poll_list'[k].fd = poll_list[k].fd
    BY <1>2
  <2>2. poll_num' = n
    BY <1>4 DEF poll_num
  <2>3. QED
    BY <1>1, <1>5, <2>1, <2>2 DEF PollInv, TablesInv
<1>8. LoopInv'
  <2>1. ready' \subseteq {poll_list[k].fd : k \in 1..n}
    BY DEF Poll
  <2>2. ASSUME NEW g
        PROVE  g \in ready' <=> \E k \in 1..n : /\ k >= 1 /\ poll_list'[k].revents
                                                /\ poll_list'[k].fd = g
    BY <1>1, <1>2, <2>1
  <2>3. poll_num' = n
    BY <1>4 DEF poll_num
  <2>4. QED
    BY <1>5, <2>2, <2>3 DEF LoopInv
<1>9. QED
  BY <1>6, <1>7, <1>8 DEF PollInv

LEMMA PollListCleanStep ==
  ASSUME PollInv, PollListClean
  PROVE  PollInv'
<1> DEFINE n == poll_num
<1>1. n \in Nat /\ index \in 1..n /\ poll_list \in Seq(PollEntry) /\ pc = "clean"
  BY EntryType DEF PollInv, TypeInv, PollListClean
<1>2. UNCHANGED <<poll_len, clients, capacity, pc, ready, visited>>
  BY DEF PollListClean
<1>3. CASE poll_list[index].fd # Gone
  <2>1. index' = index + 1 /\ UNCHANGED poll_list
    BY <1>3 DEF PollListClean
  <2>2. TypeInv' /\ TablesInv'
    BY <1>2, <2>1, SameTables, UnchangedSame DEF PollInv, TypeInv
  <2>3. LoopInv'
    BY <1>1, <1>2, <1>3, <2>1 DEF PollInv, LoopInv, poll_num
  <2>4. QED
    BY <2>2, <2>3 DEF PollInv
<1>4. CASE poll_list[index].fd = Gone
  <2>1. /\ poll_list' = SubSeq([poll_list EXCEPT ![index] = poll_list[n]], 1, n - 1)
        /\ UNCHANGED index
    BY <1>4 DEF PollListClean
  <2>2. /\ poll_list' \in Seq(PollEntry) /\ Len(poll_list') = n - 1
        /\ \A k \in 1..n - 1 : poll_list'[k] = IF k = index THEN poll_list[n] ELSE poll_list[k]
    BY <1>1, <2>1, Filled DEF poll_num
  <2>3. poll_num' = n - 1
    BY <2>2 DEF poll_num
  <2> HIDE DEF n
  <2>4. TypeInv'
    BY Zenon, <1>2, <2>1, <2>2 DEF PollInv, TypeInv
  <2>5. LoopInv'
    BY <1>1, <1>2, <2>1, <2>2, <2>3 DEF PollInv, LoopInv, n
  <2>6. TablesInv'
    <3>1. index >= 3
      BY <1>1, <1>4, ConstantsAssumption DEF PollInv, TablesInv, n
    <3>2. \A k \in 1..n - 1 : poll_list'[k].fd = IF k = index THEN poll_list[n].fd ELSE poll_list[k].fd
      BY Zenon, <2>2
    <3>3. \A j, k \in 1..n - 1 :
            poll_list'[j].fd = poll_list'[k].fd /\ poll_list'[j].fd # Gone => j = k
      BY <1>1, <3>2 DEF PollInv, TablesInv, n
    <3>4. ASSUME NEW fd \in Fds
          PROVE  (\E k \in 1..n : poll_list[k].fd = fd) <=> (\E k \in 1..n - 1 : poll_list'[k].fd = fd)
      <4>1. ASSUME NEW k \in 1..n, poll_list[k].fd = fd
            PROVE  \E m \in 1..n - 1 : poll_list'[m].fd = fd
        <5>1. k # index
          BY <1>4, <4>1, ConstantsAssumption
        <5>2. CASE k = n
          <6>1. index \in 1..n - 1
            BY <1>1, <5>1, <5>2
          <6>2. poll_list'[index].fd = fd
            BY <3>2, <4>1, <5>2, <6>1, Zenon
          <6>3. QED
            BY <6>1, <6>2, Zenon
        <5>3. CASE k # n
          BY <1>1, <3>2, <4>1, <5>1, <5>3
        <5>4. QED
          BY <5>2, <5>3
      <4>2. ASSUME NEW k \in 1..n - 1, poll_list'[k].fd = fd
            PROVE  \E m \in 1..n : poll_list[m].fd = fd
        BY <1>1, <3>2, <4>2
      <4>3. QED
        BY <4>1, <4>2
    <3>5. QED
      <4>1. n - 1 >= 2 /\ poll_list'[1].fd = Sock /\ poll_list'[2].fd = Pipe
        BY <1>1, <3>1, <3>2 DEF PollInv, TablesInv, n
      <4>2. n - 1 <= poll_len /\ Len(clients) <= capacity
        BY <1>1 DEF PollInv, TablesInv, TypeInv, n
      <4>3. \A fd \in Fds : (\E k \in 1..Len(clients) : clients[k] = fd)
                               <=> (\E k \in 1..n - 1 : poll_list'[k].fd = fd)
        BY Zenon, <3>4 DEF PollInv, TablesInv, n
      <4>4. \A j, k \in 1..Len(clients) : clients[j] = clients[k] => j = k
        BY Zenon DEF PollInv, TablesInv
      <4>5. QED
        BY Zenon, <1>2, <2>3, <3>3, <4>1, <4>2, <4>3, <4>4 DEF TablesInv
  <2>7. QED
    BY <2>4, <2>5, <2>6 DEF PollInv
<1>5. QED
  BY <1>3, <1>4

LEMMA ClientsRange ==
  ASSUME TypeInv, NEW fd
  PROVE  fd \in Range(clients) <=> \E k \in 1..Len(clients) : clients[k] = fd
<1>1. DOMAIN clients = 1..Len(clients)
  BY DEF TypeInv
<1>2. QED
  BY <1>1 DEF Range

LEMMA Appended ==
  ASSUME NEW S, NEW s \in Seq(S), NEW e \in S
  PROVE  /\ Append(s, e) \in Seq(S) /\ Len(Append(s, e)) = Len(s) + 1
         /\ Append(s, e)[Len(s) + 1] = e
         /\ \A k \in 1..Len(s) : Append(s, e)[k] = s[k]
BY AppendProperties

LEMMA ServerAcceptClientStep ==
  ASSUME PollInv, ServerAcceptClient
  PROVE  PollInv'
<1> DEFINE n == poll_num
           m == Len(clients)
<1>1. /\ n \in Nat /\ m \in Nat /\ poll_list \in Seq(PollEntry) /\ clients \in Seq(Fds)
      /\ index \in 1..n /\ poll_len \in Nat \ {0} /\ capacity \in Nat \ {0}
  BY EntryType DEF PollInv, TypeInv, ServerAcceptClient, At
<1>2. PICK fd \in Fds : /\ fd \notin Range(clients) /\ clients' = Append(clients, fd)
                        /\ capacity' = IF m = capacity THEN 2 * capacity ELSE capacity
                        /\ AddToPollList(fd)
  BY Zenon DEF ServerAcceptClient
<1>3. /\ Entry(fd, FALSE) \in PollEntry /\ Entry(fd, FALSE).fd = fd
      /\ ~Entry(fd, FALSE).revents
  BY Zenon, <1>2 DEF Entry, PollEntry
<1>4. /\ poll_list' \in Seq(PollEntry) /\ poll_num' = n + 1 /\ poll_list'[n + 1] = Entry(fd, FALSE)
      /\ \A k \in 1..n : poll_list'[k] = poll_list[k]
  <2>1. poll_list' = Append(poll_list, Entry(fd, FALSE))
    BY <1>2 DEF AddToPollList
  <2> DEFINE e == Entry(fd, FALSE)
  <2>2. e \in PollEntry
    BY Zenon, <1>3
  <2> HIDE DEF e
  <2>3. /\ poll_list' \in Seq(PollEntry) /\ Len(poll_list') = Len(poll_list) + 1
        /\ poll_list'[Len(poll_list) + 1] = e
        /\ \A k \in 1..Len(poll_list) : poll_list'[k] = poll_list[k]
    <3>1. poll_list' = Append(poll_list, e) /\ poll_list \in Seq(PollEntry)
      BY <1>1, <2>1 DEF e
    <3>2. QED
      BY <2>2, <3>1, Appended, ZenonT(30)
  <2>4. QED
    BY <2>3 DEF poll_num, e
<1>5. /\ clients' \in Seq(Fds) /\ Len(clients') = m + 1 /\ clients'[m + 1] = fd
      /\ \A k \in 1..m : clients'[k] = clients[k]
  BY <1>1, <1>2, AppendProperties
<1>6. /\ pc = "loop" /\ pc' = "loop" /\ index' = index + 1 /\ visited' = visited \cup {Sock}
      /\ ready' = ready /\ poll_list[index].revents /\ poll_list[index].fd = Sock
  BY Zenon DEF ServerAcceptClient, At
<1>7. /\ poll_len' = (IF n = poll_len THEN 2 * poll_len ELSE poll_len)
      /\ capacity' = IF m = capacity THEN 2 * capacity ELSE capacity
  BY Zenon, <1>2 DEF AddToPollList
<1>8. /\ \A k \in 1..n : poll_list[k].fd # fd
      /\ \A k \in 1..m : clients[k] # fd
  BY <1>2, ClientsRange DEF PollInv, TablesInv
<1>9. /\ \A k \in 1..n + 1 : k = n + 1 \/ k \in 1..n
      /\ \A k \in 1..m + 1 : k = m + 1 \/ k \in 1..m
      /\ poll_list'[n + 1].fd = fd /\ \A k \in 1..n : poll_list'[k].fd = poll_list[k].fd
  <2>1. poll_list'[n + 1].fd = fd /\ \A k \in 1..n : poll_list'[k].fd = poll_list[k].fd
    BY <1>3, <1>4, Zenon
  <2> HIDE DEF n, m
  <2>2. \A k \in 1..n + 1 : k = n + 1 \/ k \in 1..n
    BY <1>1
  <2>3. \A k \in 1..m + 1 : k = m + 1 \/ k \in 1..m
    BY <1>1
  <2>4. QED
    BY <2>1, <2>2, <2>3, Zenon
<1>10. n >= 2 /\ n <= poll_len /\ m <= capacity
  BY Zenon DEF PollInv, TablesInv
<1>11. TypeInv'
  <2>1. poll_len' \in Nat \ {0} /\ capacity' \in Nat \ {0} /\ index' \in Nat \ {0}
    BY ONLY <1>1, <1>6, <1>7
  <2>2. QED
    BY Zenon, <1>4, <1>5, <1>6, <2>1 DEF TypeInv
<1>12. TablesInv'
  <2>1. n + 1 >= 2 /\ poll_list'[1].fd = Sock /\ poll_list'[2].fd = Pipe
    <3>1. poll_list[1].fd = Sock /\ poll_list[2].fd = Pipe
      BY DEF PollInv, TablesInv
    <3> HIDE DEF n
    <3>2. n + 1 >= 2 /\ 1 \in 1..n /\ 2 \in 1..n
      BY <1>1, <1>10
    <3>3. QED
      BY <1>9, <3>1, <3>2, Zenon
  <2>2. n + 1 <= poll_len' /\ m + 1 <= capacity'
    BY <1>1, <1>7, <1>10
  <2>3. \A j, k \in 1..n + 1 :
          poll_list'[j].fd = poll_list'[k].fd /\ poll_list'[j].fd # Gone => j = k
    <3>1. \A j, k \in 1..n : poll_list[j].fd = poll_list[k].fd /\ poll_list[j].fd # Gone => j = k
      BY DEF PollInv, TablesInv
    <3> HIDE DEF n
    <3>2. QED
      BY <1>8, <1>9, <3>1, Zenon
  <2>4. \A j, k \in 1..m + 1 : clients'[j] = clients'[k] => j = k
    <3>1. \A j, k \in 1..m : clients[j] = clients[k] => j = k
      BY Zenon DEF PollInv, TablesInv
    <3> HIDE DEF m
    <3>2. QED
      BY <1>5, <1>8, <1>9, <3>1, Zenon
  <2>5. ASSUME NEW g \in Fds
        PROVE  (\E k \in 1..m + 1 : clients'[k] = g) <=> (\E k \in 1..n + 1 : poll_list'[k].fd = g)
    <3>1. (\E k \in 1..m + 1 : clients'[k] = g) <=> (g = fd \/ \E k \in 1..m : clients[k] = g)
      BY <1>1, <1>5
    <3>2. (\E k \in 1..n + 1 : poll_list'[k].fd = g) <=> (g = fd \/ \E k \in 1..n : poll_list[k].fd = g)
      BY ONLY <1>1, <1>9
    <3>3. QED
      BY <3>1, <3>2 DEF PollInv, TablesInv
  <2>6. QED
    BY Zenon, <1>4, <1>5, <2>1, <2>2, <2>3, <2>4, <2>5 DEF TablesInv
<1>13. LoopInv'
  <2> SUFFICES ASSUME NEW g
               PROVE  g \in ready <=>
                        \/ g \in visited \cup {Sock}
                        \/ \E k \in 1..n + 1 : /\ k >= index + 1 /\ poll_list'[k].revents
                                               /\ poll_list'[k].fd = g
    BY <1>4, <1>6 DEF LoopInv
  <2>1. g \in ready <=> \/ g \in visited
                        \/ \E k \in 1..n : k >= index /\ poll_list[k].revents /\ poll_list[k].fd = g
    BY <1>6 DEF PollInv, LoopInv
  <2>2. (\E k \in 1..n + 1 : k >= index + 1 /\ poll_list'[k].revents /\ poll_list'[k].fd = g)
          <=> \E k \in 1..n : k >= index + 1 /\ poll_list[k].revents /\ poll_list[k].fd = g
    <3>1. ~poll_list'[n + 1].revents
      BY Zenon, <1>3, <1>4
    <3>2. \A k \in 1..n : k \in 1..n + 1
      BY <1>1
    <3> HIDE DEF n
    <3>3. QED
      BY <1>4, <1>9, <3>1, <3>2, Zenon
  <2>3. QED
    BY <1>1, <1>6, <2>1, <2>2
<1>14. QED
  BY Zenon, <1>11, <1>12, <1>13 DEF PollInv

LEMMA EntryGone ==
  ASSUME NEW e \in PollEntry
  PROVE  LET f == [[e EXCEPT !.fd = Gone] EXCEPT !.revents = FALSE]
         IN  f \in PollEntry /\ f.fd = Gone /\ ~f.revents
BY Zenon DEF PollEntry

(* poll_list_remove changes the entry the loop is at, and no other.        *)
LEMMA PollListRemoved ==
  ASSUME PollInv, NEW fd \in Fds, At(fd), PollListRemove(fd)
  PROVE  /\ poll_list' \in Seq(PollEntry) /\ Len(poll_list') = poll_num
         /\ poll_list'[index].fd = Gone /\ ~poll_list'[index].revents
         /\ \A k \in 1..poll_num : k # index => poll_list'[k] = poll_list[k]
<1> DEFINE n == poll_num
<1>1. n \in Nat /\ DOMAIN poll_list = 1..n /\ \A k \in 1..n : poll_list[k] \in PollEntry
  BY EntryType DEF PollInv
<1>2. PICK h \in 1..n : /\ poll_list[h].fd = fd
                        /\ poll_list' = [poll_list EXCEPT ![h].fd = Gone, ![h].revents = FALSE]
  BY Zenon DEF PollListRemove, Indices
<1>3. h = index
  BY <1>1, <1>2, ConstantsAssumption DEF PollInv, TypeInv, TablesInv, At
<1> DEFINE e == poll_list[index]
<1>4. /\ index \in 1..n /\ poll_list'[index] = [[e EXCEPT !.fd = Gone] EXCEPT !.revents = FALSE]
      /\ DOMAIN poll_list' = 1..n /\ \A k \in 1..n : k # index => poll_list'[k] = poll_list[k]
  BY <1>1, <1>2, <1>3
<1>5. poll_list'[index] \in PollEntry /\ poll_list'[index].fd = Gone /\ ~poll_list'[index].revents
  <2>1. e \in PollEntry
    BY <1>1, <1>4
  <2> HIDE DEF e
  <2>2. QED
    BY <1>4, <2>1, EntryGone, Zenon
<1>6. poll_list' \in [1..n -> PollEntry]
  BY <1>1, <1>2, <1>4, <1>5
<1>7. poll_list' \in Seq(PollEntry) /\ Len(poll_list') = n
  BY <1>1, <1>6, Tabulated
<1>8. QED
  BY <1>4, <1>5, <1>7

LEMMA CloseClientStep ==
  ASSUME PollInv, NEW fd \in Fds, CloseClient(fd)
  PROVE  PollInv'
<1> DEFINE n == poll_num
           m == Len(clients)
<1>1. /\ n \in Nat /\ m \in Nat /\ clients \in Seq(Fds)
      /\ index \in 1..n /\ poll_len \in Nat \ {0} /\ capacity \in Nat \ {0}
  BY EntryType DEF PollInv, TypeInv, CloseClient, At
<1>2. /\ poll_list' \in Seq(PollEntry) /\ poll_num' = n
      /\ poll_list'[index].fd = Gone /\ ~poll_list'[index].revents
      /\ \A k \in 1..n : k # index => poll_list'[k] = poll_list[k]
  BY PollListRemoved DEF CloseClient, poll_num
<1>3. /\ pc = "loop" /\ pc' = "loop" /\ index' = index + 1 /\ visited' = visited \cup {fd}
      /\ ready' = ready /\ poll_list[index].revents /\ poll_list[index].fd = fd
      /\ UNCHANGED <<poll_len, capacity>>
  BY DEF CloseClient, At
<1>4. PICK h \in 1..m : /\ clients[h] = fd
                        /\ clients' = SubSeq([clients EXCEPT ![h] = clients[m]], 1, m - 1)
  BY Zenon DEF CloseClient, ListRemove
<1>5. \A j, k \in 1..m : clients[j] = clients[k] => j = k
  BY DEF PollInv, TablesInv
<1>6. /\ clients' \in Seq(Fds) /\ Len(clients') = m - 1
      /\ \A j, k \in 1..Len(clients') : clients'[j] = clients'[k] => j = k
      /\ \A g \in Fds : (\E k \in 1..Len(clients') : clients'[k] = g)
                          <=> g # fd /\ \E k \in 1..m : clients[k] = g
  <2> DEFINE t == SubSeq([clients EXCEPT ![h] = clients[Len(clients)]], 1, Len(clients) - 1)
  <2>1. /\ t \in Seq(Fds) /\ Len(t) = Len(clients) - 1
        /\ \A j, k \in 1..Len(t) : t[j] = t[k] => j = k
        /\ \A g \in Fds : (\E k \in 1..Len(t) : t[k] = g)
                            <=> g # clients[h] /\ \E k \in 1..Len(clients) : clients[k] = g
    BY <1>1, <1>5, ListRemoved, Zenon
  <2>2. clients' = t /\ clients[h] = fd
    BY Zenon, <1>4
  <2> HIDE DEF t
  <2>3. QED
    BY <2>1, <2>2, Zenon
<1>7. TypeInv'
  <2>1. index' \in Nat \ {0}
    BY ONLY <1>1, <1>3
  <2>2. QED
    BY Zenon, <1>1, <1>2, <1>3, <1>6, <2>1 DEF TypeInv
<1>8. \A j, k \in 1..n : poll_list[j].fd = poll_list[k].fd /\ poll_list[j].fd # Gone => j = k
  BY Zenon DEF PollInv, TablesInv
<1>9. TablesInv'
  <2>1. n >= 2 /\ poll_list'[1].fd = Sock /\ poll_list'[2].fd = Pipe
    <3>1. n >= 2 /\ poll_list[1].fd = Sock /\ poll_list[2].fd = Pipe
      BY DEF PollInv, TablesInv
    <3> HIDE DEF n
    <3>2. index # 1 /\ index # 2
      BY <1>3, <3>1, ConstantsAssumption, Zenon
    <3>3. 1 \in 1..n /\ 2 \in 1..n
      BY ONLY <1>1, <3>1
    <3>4. QED
      BY <1>2, <3>1, <3>2, <3>3, Zenon
  <2>2. n <= poll_len' /\ m - 1 <= capacity'
    <3>1. n <= poll_len /\ m <= capacity
      BY Zenon DEF PollInv, TablesInv
    <3>2. QED
      BY ONLY <1>1, <1>3, <3>1
  <2>3. \A j, k \in 1..n :
          poll_list'[j].fd = poll_list'[k].fd /\ poll_list'[j].fd # Gone => j = k
    BY SMTT(60), <1>1, <1>2, <1>8
  <2>4. ASSUME NEW g \in Fds
        PROVE  (\E k \in 1..n : poll_list'[k].fd = g)
                 <=> g # fd /\ \E k \in 1..n : poll_list[k].fd = g
    <3>1. g # Gone /\ fd # Gone
      BY Zenon, ConstantsAssumption
    <3> HIDE DEF n
    <3>2. QED
      BY <1>1, <1>2, <1>3, <1>8, <3>1, Zenon
  <2>5. \A g \in Fds : (\E k \in 1..Len(clients') : clients'[k] = g)
                         <=> (\E k \in 1..n : poll_list'[k].fd = g)
    BY <1>6, <2>4 DEF PollInv, TablesInv
  <2>6. QED
    BY <1>2, <1>6, <2>1, <2>2, <2>3, <2>5 DEF TablesInv
<1>10. LoopInv'
  <2> SUFFICES ASSUME NEW g
               PROVE  g \in ready <=>
                        \/ g \in visited \cup {fd}
                        \/ \E k \in 1..n : /\ k >= index + 1 /\ poll_list'[k].revents
                                           /\ poll_list'[k].fd = g
    BY <1>2, <1>3 DEF LoopInv
  <2>1. g \in ready <=> \/ g \in visited
                        \/ \E k \in 1..n : k >= index /\ poll_list[k].revents /\ poll_list[k].fd = g
    BY <1>3 DEF PollInv, LoopInv
  <2>2. \A k \in 1..n : k >= index <=> k = index \/ k >= index + 1
    BY <1>1
  <2>3. ~(index >= index + 1)
    BY <1>1
  <2> HIDE DEF n
  <2>4. QED
    BY <1>1, <1>2, <1>3, <2>1, <2>2, <2>3, Zenon
<1>11. QED
  BY Zenon, <1>7, <1>9, <1>10 DEF PollInv

-----------------------------------------------------------------------------
LEMMA PollInitially == PollListInit => PollInv
<1> SUFFICES ASSUME PollListInit PROVE PollInv
  OBVIOUS
<1>1. /\ Entry(Sock, FALSE) \in PollEntry /\ Entry(Sock, FALSE).fd = Sock
      /\ Entry(Pipe, FALSE) \in PollEntry /\ Entry(Pipe, FALSE).fd = Pipe
  BY DEF Entry, PollEntry
<1> DEFINE a == Entry(Sock, FALSE)
           b == Entry(Pipe, FALSE)
<1> HIDE DEF a, b
<1>2. /\ poll_list = <<a, b>> /\ a \in PollEntry /\ b \in PollEntry /\ a.fd = Sock /\ b.fd = Pipe
      /\ clients = <<>> /\ poll_len = 2 + Parallel /\ capacity = Parallel /\ pc = "clean" /\ index = 1
  BY Zenon, <1>1 DEF PollListInit, a, b
<1>3. poll_list \in Seq(PollEntry) /\ poll_num = 2 /\ poll_list[1] = a /\ poll_list[2] = b
  BY <1>2 DEF poll_num
<1>4. TypeInv
  BY <1>2, <1>3, ConstantsAssumption DEF TypeInv
<1>5. TablesInv
  BY <1>2, <1>3, ConstantsAssumption DEF TablesInv
<1>6. LoopInv
  BY <1>2, <1>3 DEF LoopInv
<1>7. QED
  BY <1>4, <1>5, <1>6 DEF PollInv

LEMMA PollAlways ==
  PollListSpec => []PollInv
<1>1. PollListInit => PollInv
  BY PollInitially
<1>2. PollInv /\ [PollListNext]_pollVars => PollInv'
  <2> SUFFICES ASSUME PollInv, [PollListNext]_pollVars PROVE PollInv'
    OBVIOUS
  <2>1. CASE UNCHANGED pollVars
    BY Zenon, <2>1 DEF pollVars, PollInv, TypeInv, TablesInv, LoopInv, poll_num
  <2>2. QED
    BY Zenon, <2>1, PollListCleanStep, PollStep, SkipStep, EndOfLoopStep, HandleChildEventsStep,
       ServerAcceptClientStep, ServeStep, CloseClientStep DEF PollListNext
<1>3. QED
  BY <1>1, <1>2, PTL DEF PollListSpec

INSTANCE FiniteSetTheorems

(* Whatever the main loop does to the array it walks over, every client    *)
(* keeps exactly one entry, both tables have room for what is put into     *)
(* them, poll() never sees a removed entry, and the listening socket and   *)
(* the self-pipe stay in front.                                            *)
THEOREM EveryClientHasItsEntry ==
  PollListSpec => []OneEntryPerClient
<1>1. PollInv => OneEntryPerClient
  <2> SUFFICES ASSUME PollInv PROVE OneEntryPerClient
    OBVIOUS
  <2>1. ASSUME NEW fd \in Fds
        PROVE  Cardinality(Indices(fd)) = IF fd \in Range(clients) THEN 1 ELSE 0
    <3>1. fd \in Range(clients) <=> \E k \in 1..poll_num : poll_list[k].fd = fd
      BY ClientsRange DEF PollInv, TablesInv
    <3>2. CASE fd \in Range(clients)
      <4>1. PICK k \in 1..poll_num : poll_list[k].fd = fd
        BY Zenon, <3>1, <3>2
      <4>2. Indices(fd) = {k}
        BY <4>1, ConstantsAssumption DEF Indices, PollInv, TablesInv
      <4>3. QED
        BY Zenon, <3>2, <4>2, FS_Singleton
    <3>3. CASE fd \notin Range(clients)
      <4>1. Indices(fd) = {}
        BY Zenon, <3>1, <3>3 DEF Indices
      <4>2. QED
        BY <3>3, <4>1, FS_EmptySet
    <3>4. QED
      BY Zenon, <3>2, <3>3
  <2>2. pc = "clean" /\ index > poll_num => Indices(Gone) = {}
    BY EntryType DEF PollInv, TypeInv, LoopInv, Indices
  <2>3. QED
    BY <2>1, <2>2 DEF OneEntryPerClient, PollInv, TablesInv
<1>2. QED
  BY <1>1, PollAlways, PTL

(* When a turn of the loop is over it has handled exactly the descriptors  *)
(* poll() reported, although entries were added and marked on the way.     *)
THEOREM EveryReportHandled ==
  PollListSpec => []NobodySkipped
<1>1. PollInv => NobodySkipped
  <2> SUFFICES ASSUME PollInv, pc = "loop", index > poll_num PROVE visited = ready
    BY DEF NobodySkipped
  <2>1. \A k \in 1..poll_num : ~(k >= index)
    BY EntryType DEF PollInv, TypeInv
  <2>2. \A fd : fd \in ready <=> fd \in visited
    BY <2>1, Zenon DEF PollInv, LoopInv
  <2>3. QED
    BY <2>2
<1>2. QED
  BY <1>1, PollAlways, PTL
=============================================================================

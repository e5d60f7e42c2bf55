---------------------------- MODULE MCServerParts ----------------------------
(* Instance for TLC of the programs and parts of src/server around the     *)
(* main loop of the server: the queue of requests (RingQueue), the pollfd  *)
(* array with the list of clients (PollList), the bytes of requests and    *)
(* answers (Wire), with lines longer than some of the reads, the command a *)
(* request carries (CommandLine), for all short arguments over a letter, a *)
(* space, a quote, a backslash and, once, a semicolon, and why3-cpulimit   *)
(* (MCCpuLimit).  They share no state: a behaviour is one of a single      *)
(* part, and the others are over, or rest, from the start.                 *)
EXTENDS Wire, RingQueue, PollList, MCCpuLimit

CONSTANTS Cmds, ArgLists, Files, Limits, CmdSize

VARIABLES command, at, line, req, argv, stdin,
          part   \* the part that is at work

CL == INSTANCE CommandLine WITH pc <- at
clVars == <<command, at, line, req, argv, stdin>>
cpuVars == <<vars, winVars>>

MCReqLen == <<5, 2, 4>>
MCAnsLen == <<4, 2, 3>>
MCFds == {5, 6, 7}

Words(C, n) == UNION {[1..k -> C] : k \in 0..n}
MCCmds == {<<"a">>, <<"b", "\\">>}
MCFiles == {<<"f">>}
MCArgLists ==
  {<<>>} \cup {<<w>> : w \in Words({"x", " ", "\"", "\\"}, 5) \cup Words({"x", ";"}, 3)}
         \cup {<<v, w>> : v, w \in Words({"x", " ", "\"", "\\"}, 2)}

WireOver ==
  /\ nsent = MaxReq /\ out = <<>> /\ c2s = <<>> /\ readbuf = InitReadbuf(ReadOnce)
  /\ handled = [n \in 1..MaxReq |-> Body(Request(n))]
  /\ writebuf = InitWritebuf /\ pollout = FALSE /\ s2c = <<>> /\ recv_buf = <<>>
  /\ received = [n \in 1..MaxReq |-> Body(Answer(n))]
CommandOver ==
  command = <<>> /\ at = "over" /\ line = <<>> /\ req = <<>> /\ argv = <<>> /\ stdin = <<>>

PartsInit ==
  /\ part \in {"queue", "poll list", "bytes", "command", "cpulimit"}
  /\ QueueInit /\ PollListInit
  /\ IF part = "bytes" THEN WireInit ELSE WireOver
  /\ IF part = "command" THEN CL!Init ELSE CommandOver
  /\ IF part = "cpulimit" THEN MCInit ELSE UnixOver /\ WinOver
PartsNext ==
  \/ part = "queue" /\ QueueNext /\ UNCHANGED <<wireVars, clVars, pollVars, cpuVars, part>>
  \/ part = "poll list" /\ PollListNext /\ UNCHANGED <<wireVars, clVars, queueVars, cpuVars, part>>
  \/ part = "bytes" /\ WireNext /\ UNCHANGED <<clVars, queueVars, pollVars, cpuVars, part>>
  \/ part = "command" /\ CL!Next /\ UNCHANGED <<wireVars, queueVars, pollVars, cpuVars, part>>
  \/ part = "cpulimit" /\ MCNext /\ UNCHANGED <<wireVars, clVars, queueVars, pollVars, part>>

(* The fairness of Wire and of MCCpuLimit; no step of a part that is over  *)
(* is enabled.                                                             *)
PartsSpec ==
  /\ PartsInit /\ [][PartsNext]_<<wireVars, clVars, queueVars, pollVars, cpuVars, part>>
  /\ WF_wireVars(ServerStep) /\ WF_wireVars(SendRequestString) /\ WF_wireVars(ReadLines)
  /\ WF_vars(Wrapper) /\ WF_vars(Exec) /\ WF_vars(WallclockTimelimitReached)
  /\ WF_winVars(Win!Main) /\ WF_winVars(Win!ConsoleHandler)

(* The program is called with the arguments and limits the driver asked    *)
(* for, on Unix, on Windows and under why3-cpulimit, and on Unix with the  *)
(* file it is to read as stdin.                                            *)
CommandArrives == CL!CommandArrives

(* The file of a runstdin request is what the prover reads as its stdin,   *)
(* on both systems.                                                        *)
StdinArrives == CL!StdinArrives
=============================================================================

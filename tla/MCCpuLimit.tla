----------------------------- MODULE MCCpuLimit -----------------------------
(* Instance for TLC of the two versions of why3-cpulimit.  They share no   *)
(* state: a behaviour runs one of them, and the other is over from the     *)
(* start.                                                                  *)
EXTENDS CpuLimit

CONSTANTS Killed, StillActive, Undefined, MaxEvents

VARIABLES limited, pcWin, hProcess, hThread, job, process, code, ex, resultWin, handler, events

Win == INSTANCE CpuLimitWin WITH pc <- pcWin, result <- resultWin
winVars == <<limited, pcWin, hProcess, hThread, job, process, code, ex, resultWin, handler, events>>

MCSignals == {"ALRM", "KILL", "TERM", "XCPU"}

UnixOver ==
  /\ timelimit = 0 /\ memlimit = 0 /\ showtime = FALSE
  /\ parent = "done" /\ child = "none" /\ rlimits = {} /\ end = None
  /\ alarm = "off" /\ result = None /\ said = {}
WinOver ==
  /\ limited = FALSE /\ pcWin = "done" /\ hProcess = "null" /\ hThread = "null" /\ job = "open"
  /\ process = "none" /\ code = Undefined /\ ex = Undefined /\ resultWin = Undefined
  /\ handler = "idle" /\ events = 0

MCInit == (Init /\ WinOver) \/ (UnixOver /\ Win!Init)
MCNext == (Next /\ UNCHANGED winVars) \/ (Win!Next /\ UNCHANGED vars)

(* The fairness of both models; no step of the one that is over is enabled. *)
MCSpec ==
  /\ MCInit /\ [][MCNext]_<<vars, winVars>>
  /\ WF_vars(Wrapper) /\ WF_vars(Exec) /\ WF_vars(WallclockTimelimitReached)
  /\ WF_winVars(Win!Main) /\ WF_winVars(Win!ConsoleHandler)

(* The exit code main has read is the final one of the command, also when  *)
(* the console handler closes the handle before, during or after the wait. *)
CodeReadIsFinal == Win!CodeReadIsFinal

(* Once the command has ended why3-cpulimit does, whatever the console     *)
(* handler does meanwhile.                                                 *)
EndsWithTheCommand == Win!EndsWithTheCommand
=============================================================================

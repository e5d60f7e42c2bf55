------------------------------ MODULE CpuLimit ------------------------------
(***************************************************************************)
(* why3-cpulimit on Unix (cpulimit-unix.c): it runs a command under a CPU  *)
(* and a memory limit, waits for it with a wall clock alarm as last        *)
(* resort, and ends the way the command ended.  The parent, the child, the *)
(* command and the alarm clock interleave.                                 *)
(***************************************************************************)
EXTENDS Naturals, FiniteSets

CONSTANTS
  TimeLimits, MemLimits, \* command line, 0 for no limit
  Codes,                 \* exit codes of the command
  Signals,               \* signals that can kill it
  Failure                \* EXIT_FAILURE

ASSUME LimitsAssumption == TimeLimits \subseteq Nat /\ MemLimits \subseteq Nat
ASSUME SignalsAssumption == {"ALRM", "KILL", "TERM", "XCPU"} \subseteq Signals

VARIABLES
  timelimit, memlimit, showtime,
  parent,  \* where main is in the process started first
  child,   \* the forked process: none, limits, command, zombie, reaped
  rlimits, \* the limits set in the process that becomes the command
  end,     \* how the command ended, or "none"
  alarm,   \* off, set, or where it found the parent when it rang
  result,  \* how the process started first ended, or "none"
  said     \* messages printed

vars == <<timelimit, memlimit, showtime, parent, child, rlimits, end, alarm, result, said>>
args == <<timelimit, memlimit, showtime>>

Exit(n) == [exit |-> n]
Signal(s) == [signal |-> s]
None == [none |-> TRUE]
Ends == {Exit(n) : n \in Codes} \cup {Signal(s) : s \in Signals} \cup {Exit(Failure)}

Init ==
  /\ timelimit \in TimeLimits /\ memlimit \in MemLimits /\ showtime \in BOOLEAN
  /\ parent = "start" /\ child = "none" /\ rlimits = {} /\ end = None
  /\ alarm = "off" /\ result = None /\ said = {}

(* Without a time limit and -s main becomes the command itself.            *)
NoFork ==
  /\ parent = "start" /\ ~(showtime \/ timelimit > 0)
  /\ parent' = "limits"
  /\ UNCHANGED <<args, child, rlimits, end, alarm, result, said>>

Fork ==
  /\ parent = "start" /\ (showtime \/ timelimit > 0)
  /\ \/ parent' = "forked" /\ child' = "limits" /\ UNCHANGED <<result, said>>
     \/ /\ parent' = "done" /\ result' = Exit(Failure) /\ said' = said \cup {"fork"}
        /\ UNCHANGED child
  /\ UNCHANGED <<args, rlimits, end, alarm>>

SetAlarm ==
  /\ parent = "forked"
  /\ alarm' = IF timelimit > 0 THEN "set" ELSE "off"
  /\ parent' = "armed"
  /\ UNCHANGED <<args, child, rlimits, end, result, said>>

(* SIGALRM is handled: a message, and waitpid, if main is in it, fails     *)
(* with EINTR since sa_flags is 0.                                         *)
WallclockTimelimitReached ==
  /\ alarm = "set" /\ parent # "done"
  /\ said' = said \cup {"wallclock"}
  /\ alarm' = IF parent = "waiting" THEN "interrupted" ELSE IF parent = "armed" THEN "early" ELSE "late"
  /\ parent' = IF parent = "waiting" THEN "killing" ELSE parent
  /\ UNCHANGED <<args, child, rlimits, end, result>>

CallWaitpid ==
  /\ parent = "armed"
  /\ parent' = "waiting"
  /\ UNCHANGED <<args, child, rlimits, end, alarm, result, said>>

Waitpid ==
  /\ parent \in {"waiting", "waiting again"} /\ child = "zombie"
  /\ child' = "reaped" /\ parent' = "waited"
  /\ UNCHANGED <<args, rlimits, end, alarm, result, said>>

(* Mutant: kill without waiting for the end. *)
KillOnly ==
  /\ parent = "killing"
  /\ parent' = "waited"
  /\ IF child = "zombie" THEN UNCHANGED <<child, end>>
     ELSE child' = "zombie" /\ end' = Signal("KILL")
  /\ UNCHANGED <<args, rlimits, alarm, result, said>>

(* Mutant: no kill before the second waitpid. *)
WaitAgainOnly ==
  /\ parent = "killing"
  /\ parent' = "waiting again"
  /\ UNCHANGED <<args, child, end, rlimits, alarm, result, said>>

(* kill(pid, SIGKILL) and the second call of waitpid.                      *)
KillCommand ==
  /\ parent = "killing"
  /\ parent' = "waiting again"
  /\ IF child = "zombie" THEN UNCHANGED <<child, end>>
     ELSE child' = "zombie" /\ end' = Signal("KILL")
  /\ UNCHANGED <<args, rlimits, alarm, result, said>>

(* Mutant: a signal becomes an exit code. *)
FinishWithCode ==
  /\ parent = "waited"
  /\ result' = IF "exit" \in DOMAIN end THEN end ELSE Exit(Failure)
  /\ said' = (IF showtime THEN said \cup {"time"} ELSE said)
  /\ parent' = "done"
  /\ UNCHANGED <<args, child, rlimits, end, alarm>>

(* After waitpid main exits as the command did or sends itself the signal  *)
(* that killed it.  SIGALRM has a handler if there is a time limit: then   *)
(* main goes on to the last message and SIGTERM.                           *)
Finish ==
  /\ parent = "waited"
  /\ LET caught == end = Signal("ALRM") /\ timelimit > 0
     IN  /\ result' = IF caught THEN Signal("TERM") ELSE end
         /\ said' = said \cup (IF showtime THEN {"time"} ELSE {})
                         \cup (IF caught THEN {"wallclock", "neither"} ELSE {})
  /\ parent' = "done"
  /\ UNCHANGED <<args, child, rlimits, end, alarm>>

LimitsSet ==
  (IF timelimit > 0 THEN {"cpu"} ELSE {}) \cup (IF memlimit > 0 THEN {"mem"} ELSE {})
    \cup (IF timelimit > 0 \/ memlimit > 0 THEN {"core"} ELSE {})

(* setrlimit and execvp, in the child or in main; execvp may fail.         *)
Exec ==
  /\ rlimits' = LimitsSet
  /\ \/ /\ child = "limits"
        /\ \/ child' = "command" /\ UNCHANGED <<end, said>>
           \/ child' = "zombie" /\ end' = Exit(Failure) /\ said' = said \cup {"exec"}
        /\ UNCHANGED <<parent, result>>
     \/ /\ parent = "limits"
        /\ \/ parent' = "command" /\ UNCHANGED <<end, result, said>>
           \/ parent' = "done" /\ end' = Exit(Failure) /\ result' = Exit(Failure) /\ said' = said \cup {"exec"}
        /\ UNCHANGED child
  /\ UNCHANGED <<args, alarm>>

(* The command ends when and how it likes; SIGXCPU comes with a limit.     *)
CommandEnds ==
  \E e \in Ends \ {Signal("KILL")} :
    /\ e = Signal("XCPU") => "cpu" \in rlimits
    /\ end' = e
    /\ \/ child = "command" /\ child' = "zombie" /\ UNCHANGED <<parent, result>>
       \/ parent = "command" /\ parent' = "done" /\ result' = e /\ UNCHANGED child
    /\ UNCHANGED <<args, rlimits, alarm, said>>

Finished == parent = "done" /\ UNCHANGED vars

Wrapper == NoFork \/ Fork \/ SetAlarm \/ CallWaitpid \/ Waitpid \/ KillCommand \/ Finish \/ Exec

Next == Wrapper \/ WallclockTimelimitReached \/ CommandEnds \/ Finished

(* The processes are scheduled and the alarm rings; nothing makes the      *)
(* command end.                                                            *)
FairSpec == Init /\ [][Next]_vars /\ WF_vars(Wrapper) /\ WF_vars(Exec) /\ WF_vars(WallclockTimelimitReached)

-----------------------------------------------------------------------------
(* why3-cpulimit ends as the command ended: same exit code or same signal, *)
(* SIGKILL if the alarm cut it off.  The exception is a command that died  *)
(* by SIGALRM under a time limit: the wrapper's own handler catches the    *)
(* signal it then sends itself, and only then it says that the command     *)
(* "exited neither normally nor because of a signal" and ends by SIGTERM.  *)
EndsAsTheCommand ==
  parent = "done" /\ end # None =>
    \/ result = end /\ "neither" \notin said
    \/ /\ end = Signal("ALRM") /\ timelimit > 0
       /\ result = Signal("TERM") /\ "neither" \in said

(* When why3-cpulimit has ended the command has ended too and was waited   *)
(* for, and it is killed only while it has not been waited for: its        *)
(* process number is still its own.                                        *)
NothingLeftRunning ==
  /\ parent = "done" => child \in {"none", "reaped"}
  /\ parent = "killing" => child \in {"limits", "command", "zombie"}

(* Under a time limit why3-cpulimit ends even if the command does not,     *)
(* provided the alarm finds main in waitpid.                               *)
EndsInTime == timelimit > 0 ~> parent = "done" \/ alarm = "early"
=============================================================================

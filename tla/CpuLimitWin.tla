---------------------------- MODULE CpuLimitWin ----------------------------
(***************************************************************************)
(* why3-cpulimit on Windows (cpulimit-win.c).  The console handler runs in *)
(* a thread of its own and uses the same handles as main.                  *)
(***************************************************************************)
EXTENDS Naturals

CONSTANTS
  Codes,     \* exit codes of the command
  Failure,   \* EXIT_FAILURE
  Killed,    \* exit code given to TerminateProcess
  StillActive, \* what GetExitCodeProcess says of a running process
  Undefined, \* what is in ex before it is assigned
  MaxEvents  \* bound on the console events

VARIABLES
  limited,       \* a time or memory limit is asked for
  pc,            \* where main is
  hProcess, hThread, job, \* the handles: null, open, closed
  process, code, \* the process of the command, and how it ended
  ex, result,    \* the code main read, and the one it returns
  handler,       \* where the console handler is
  events         \* console events so far

vars == <<limited, pc, hProcess, hThread, job, process, code, ex, result, handler, events>>

Init ==
  /\ limited \in BOOLEAN
  /\ pc = "start" /\ hProcess = "null" /\ hThread = "null" /\ job = "open"
  /\ process = "none" /\ code = Undefined /\ ex = Undefined /\ result = Undefined
  /\ handler = "idle" /\ events = 0

Return(n) == pc' = "done" /\ result' = n

(* SetInformationJobObject *)
SetLimits ==
  /\ pc = "start"
  /\ IF limited /\ job = "closed" THEN Return(Failure) ELSE pc' = "create" /\ UNCHANGED result
  /\ UNCHANGED <<limited, hProcess, hThread, job, process, code, ex, handler, events>>

(* CreateProcess, suspended, or its failure.                               *)
CreateProcess ==
  /\ pc = "create"
  /\ \/ /\ process' = "suspended" /\ hProcess' = "open" /\ hThread' = "open"
        /\ pc' = "assign" /\ UNCHANGED result
     \/ Return(Failure) /\ UNCHANGED <<process, hProcess, hThread>>
  /\ UNCHANGED <<limited, job, code, ex, handler, events>>

AssignToJob ==
  /\ pc = "assign"
  /\ IF job = "closed" \/ hProcess = "closed" \/ process = "ended" THEN Return(Failure)
     ELSE pc' = "resume" /\ UNCHANGED result
  /\ UNCHANGED <<limited, hProcess, hThread, job, process, code, ex, handler, events>>

Resume ==
  /\ pc = "resume"
  /\ process' = (IF process = "suspended" /\ hThread = "open" THEN "running" ELSE process)
  /\ pc' = "wait"
  /\ UNCHANGED <<limited, hProcess, hThread, job, code, ex, result, handler, events>>

(* WaitForSingleObject fails at once on a closed handle.                   *)
CallWait ==
  /\ pc = "wait"
  /\ pc' = IF hProcess = "closed" THEN "read" ELSE "waiting"
  /\ UNCHANGED <<limited, hProcess, hThread, job, process, code, ex, result, handler, events>>

(* Mutant: main does not wait. *)
WaitNot ==
  /\ pc = "waiting"
  /\ pc' = "read"
  /\ UNCHANGED <<limited, hProcess, hThread, job, process, code, ex, result, handler, events>>

(* Mutant: the wait does not outlive the handle. *)
WaitOnHandle ==
  /\ pc = "waiting" /\ process = "ended" /\ hProcess = "open"
  /\ pc' = "read"
  /\ UNCHANGED <<limited, hProcess, hThread, job, process, code, ex, result, handler, events>>

Wait ==
  /\ pc = "waiting" /\ process = "ended"
  /\ pc' = "read"
  /\ UNCHANGED <<limited, hProcess, hThread, job, process, code, ex, result, handler, events>>

(* GetExitCodeProcess leaves ex alone when it fails.                       *)
ReadExitCode ==
  /\ pc = "read"
  /\ ex' = (IF hProcess # "open" THEN ex ELSE IF process = "ended" THEN code ELSE StillActive)
  /\ pc' = "close"
  /\ UNCHANGED <<limited, hProcess, hThread, job, process, code, result, handler, events>>

CloseAndReturn ==
  /\ pc = "close"
  /\ hProcess' = "closed" /\ hThread' = "closed" /\ job' = "closed" /\ Return(ex)
  /\ UNCHANGED <<limited, process, code, ex, handler, events>>

-----------------------------------------------------------------------------
(* The command, which starts when it is resumed.                           *)
CommandEnds ==
  /\ process = "running"
  /\ process' = "ended" /\ code' \in Codes
  /\ UNCHANGED <<limited, pc, hProcess, hThread, job, ex, result, handler, events>>

(* ConsoleHandler in its thread, which ends with the process of main.      *)
ConsoleEvent ==
  /\ handler = "idle" /\ events < MaxEvents /\ pc # "done"
  /\ handler' = "terminate" /\ events' = events + 1
  /\ UNCHANGED <<limited, pc, hProcess, hThread, job, process, code, ex, result>>

Terminate ==
  /\ handler = "terminate" /\ pc # "done"
  /\ IF hProcess = "open" /\ process # "ended"
       THEN process' = "ended" /\ code' = Killed
       ELSE UNCHANGED <<process, code>>
  /\ handler' = "close"
  /\ UNCHANGED <<limited, pc, hProcess, hThread, job, ex, result, events>>

CloseProcess ==
  /\ handler = "close" /\ pc # "done"
  /\ hProcess' = (IF hProcess = "open" THEN "closed" ELSE hProcess)
  /\ handler' = "close thread"
  /\ UNCHANGED <<limited, pc, hThread, job, process, code, ex, result, events>>

CloseThread ==
  /\ handler = "close thread" /\ pc # "done"
  /\ hThread' = (IF hThread = "open" THEN "closed" ELSE hThread)
  /\ handler' = "close job"
  /\ UNCHANGED <<limited, pc, hProcess, job, process, code, ex, result, events>>

CloseJob ==
  /\ handler = "close job" /\ pc # "done"
  /\ job' = "closed" /\ handler' = "idle"
  /\ UNCHANGED <<limited, pc, hProcess, hThread, process, code, ex, result, events>>

Main ==
  SetLimits \/ CreateProcess \/ AssignToJob \/ Resume \/ CallWait \/ Wait \/ ReadExitCode \/ CloseAndReturn

ConsoleHandler == Terminate \/ CloseProcess \/ CloseThread \/ CloseJob

Next == Main \/ CommandEnds \/ ConsoleEvent \/ ConsoleHandler

(* main and a handler that has been started are scheduled; the command     *)
(* need not end.                                                           *)
FairSpec == Init /\ [][Next]_vars /\ WF_vars(Main) /\ WF_vars(ConsoleHandler)

-----------------------------------------------------------------------------
(* A code main has read is the final one of the command, also when the     *)
(* handler closes the handle before, during or after the wait.             *)
(* Without a console event it is also what why3-cpulimit returns, never    *)
(* the uninitialized ex.                                                   *)
CodeReadIsFinal ==
  /\ ex # Undefined => process = "ended" /\ ex = code
  /\ pc = "done" /\ events = 0 => result \in {code, Failure}

(* Once the command has ended why3-cpulimit does, whatever the handler     *)
(* does meanwhile.                                                         *)
EndsWithTheCommand == process = "ended" ~> pc = "done"
=============================================================================

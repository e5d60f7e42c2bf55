---------------------------- MODULE MCController ----------------------------
(* Instance for TLC of the scheduler of proof attempts with its session    *)
(* and the server (Controller), and of the files the session is saved in   *)
(* (SessionFile).  They share no state: a behaviour is one of either, and  *)
(* the other rests.  The strategy calls the prover, splits the goal and    *)
(* begins again with each part, or halts.                                  *)
EXTENDS Controller, SessionFile

VARIABLE part   \* the part that is at work

MCStrategy == <<[op |-> "prove"], [op |-> "transform", to |-> 1], [op |-> "goto", to |-> 5]>>

MCInit == Init /\ FilesInit /\ part \in {"scheduler", "files"}
MCNext == \/ part = "scheduler" /\ Next /\ UNCHANGED <<fileVars, part>>
          \/ part = "files" /\ FilesNext /\ UNCHANGED <<vars, part>>
MCSpec == /\ MCInit /\ [][MCNext]_<<vars, fileVars, part>>
          /\ WF_vars(idle_handler) /\ WF_vars(TimeoutHandler) /\ WF_vars(Server)
=============================================================================

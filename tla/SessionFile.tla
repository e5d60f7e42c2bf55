---------------------------- MODULE SessionFile ----------------------------
(***************************************************************************)
(* The files of a session (session_itp.ml): why3session.xml and the file   *)
(* of shapes beside it, each with its .bak.  save_session moves the old    *)
(* files away and writes new ones in place; between any two of its system  *)
(* calls the program may end, or a call fails and the program goes on.  A  *)
(* file is Absent, Partial (opened, and not written to its end), or the    *)
(* number of the save that wrote it.                                       *)
(***************************************************************************)
EXTENDS Integers, Sequences

CONSTANT MaxSaves   \* bound: saves ever begun

VARIABLES
  disk,    \* the files: db, shapes and their backups
  step,    \* of save_session: the next of Steps, 0 when none is under way
  begun,   \* saves begun
  done,    \* the last save that returned, 0 before the first
  over,    \* history: a save began over the file a failed one left, none returned since
  up       \* the program runs, with a session loaded
fileVars == <<disk, step, begun, done, over, up>>

Absent == 0
Partial == -1
Backup(f) == IF f = "db" THEN "db.bak" ELSE "shapes.bak"

FilesInit ==
  /\ disk = [f \in {"db", "db.bak", "shapes", "shapes.bak"} |-> Absent]
  /\ step = 0 /\ begun = 0 /\ done = 0 /\ over = FALSE /\ up = TRUE

(* One system call of backup_file f: the old backup goes, then the file is *)
(* renamed; a file that does not exist is not touched.                     *)
DropBackup(f) == IF disk[f] = Absent THEN disk ELSE [disk EXCEPT ![Backup(f)] = Absent]

Rename(f) ==
  IF disk[f] = Absent THEN disk
  ELSE [disk EXCEPT ![Backup(f)] = disk[f], ![f] = Absent]

OpenOut(f) == [disk EXCEPT ![f] = Partial]
CloseOut(f) == [disk EXCEPT ![f] = begun]

(* Mutant: the file is opened before the old one is moved away.            *)
OpensFirst ==
  <<DropBackup("db"), OpenOut("db"), DropBackup("shapes"), Rename("shapes"),
    Rename("db"), OpenOut("shapes"), CloseOut("db"), CloseOut("shapes")>>

(* What each step of save_session makes of the disk.                       *)
Steps ==
  <<DropBackup("db"), Rename("db"), DropBackup("shapes"), Rename("shapes"),
    OpenOut("db"), OpenOut("shapes"), CloseOut("db"), CloseOut("shapes")>>

save_session ==
  /\ up /\ step = 0 /\ begun < MaxSaves
  /\ begun' = begun + 1 /\ step' = 1
  /\ over' = (over \/ disk["db"] = Partial)
  /\ UNCHANGED <<disk, done, up>>

SaveStep ==
  /\ up /\ step # 0
  /\ disk' = Steps[step]
  /\ step' = (step + 1) % (Len(Steps) + 1)
  /\ done' = IF step' = 0 THEN begun ELSE done
  /\ over' = (over /\ step' # 0)
  /\ UNCHANGED <<begun, up>>

(* A call fails: Sys_error leaves save_session, treat_request tells the    *)
(* user and goes on.  Nothing puts the files back.                         *)
SaveFails == up /\ step # 0 /\ step' = 0 /\ UNCHANGED <<disk, begun, done, over, up>>

Crash == up /\ up' = FALSE /\ step' = 0 /\ UNCHANGED <<disk, begun, done, over>>

(* load_session: without the file an empty session; a file that does not   *)
(* parse raises SessionFileError, and the program stops.                   *)
load_session == ~up /\ up' = (disk["db"] # Partial) /\ UNCHANGED <<disk, step, begun, done, over>>

FilesNext == save_session \/ SaveStep \/ SaveFails \/ Crash \/ load_session

FilesSpec == FilesInit /\ [][FilesNext]_fileVars

-----------------------------------------------------------------------------

(* Wherever a save fails and whenever the program ends, the last session   *)
(* saved, or one newer, is complete on the disk, as why3session.xml or its *)
(* backup, with one exception: a failed save has left an incomplete file,  *)
(* and the next save, which takes that file for the backup and removes the *)
(* complete one, has not returned.  And a complete session is never beside *)
(* the shapes of another save, which read_sum_and_shape would hand to its  *)
(* goals.                                                                  *)
SavedSurvives ==
  /\ done # 0 /\ ~over => disk["db"] >= done \/ disk["db.bak"] >= done
  /\ disk["db"] > 0 => disk["shapes"] \in {Absent, Partial, disk["db"]}
=============================================================================

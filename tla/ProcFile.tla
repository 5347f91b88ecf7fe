------------------------------ MODULE ProcFile ------------------------------
(***************************************************************************)
(* project1/hello.c, jiffies.c, seconds.c and project2/pid.c: kernel       *)
(* modules with a file in /proc.  A program reads the file by calling      *)
(* proc_read() until it returns 0, unless it stops before; for that end,   *)
(* each module has ONE static variable "completed", which all readers      *)
(* share and no lock guards.                                               *)
(*                                                                         *)
(* The texts that are read are left out (r_jiffies and fl_jiffies with     *)
(* them); of l_pid the model keeps whether it is the pid of a process.     *)
(***************************************************************************)
CONSTANT Procs

VARIABLES
  file,        \* whose file this is: "hello", "jiffies", "seconds" or "pid"
  loaded,      \* is the module loaded?
  completed,
  given_up,    \* history, for FlagReset of Osh: since completed was last
               \* reset, did a reader stop that saw or left it set?
  l_pid,       \* pid.c: "live" or "none"
  at           \* where each process is in its use of the file

Places == {"out", "open", "reset", "fill", "lookup", "answer", "eof"}
InCall(p) == at[p] \in {"reset", "fill", "lookup", "answer"}

FileTypeOK ==
  /\ file \in {"hello", "jiffies", "seconds", "pid"}
  /\ loaded \in BOOLEAN
  /\ completed \in {0, 1} /\ given_up \in BOOLEAN
  /\ l_pid \in {"live", "none"}
  /\ at \in [Procs -> Places]

FileInit ==
  /\ file \in {"hello", "jiffies", "seconds", "pid"}
  /\ loaded = FALSE /\ completed = 0 /\ given_up = FALSE /\ l_pid = "none"
  /\ at = [p \in Procs |-> "out"]

(* insmod: proc_init() creates the entry; the statics have their initial   *)
(* values again.                                                           *)
Load ==
  /\ ~loaded /\ loaded' = TRUE
  /\ completed' = 0 /\ given_up' = FALSE /\ l_pid' = "none"
  /\ UNCHANGED <<file, at>>

(* rmmod: proc_exit() removes the entry, for which the kernel waits until  *)
(* nobody is in a call; a process that has the file open can do no more    *)
(* than close it.                                                          *)
Unload ==
  /\ loaded /\ ~\E p \in Procs : InCall(p)
  /\ loaded' = FALSE
  /\ at' = [p \in Procs |-> IF at[p] = "open" THEN "eof" ELSE at[p]]
  /\ UNCHANGED <<file, completed, given_up, l_pid>>

Moves(p, from, to) == at[p] = from /\ at' = [at EXCEPT ![p] = to]

Open(p) ==
  /\ Moves(p, "out", IF loaded THEN "open" ELSE "eof")
  /\ UNCHANGED <<file, loaded, completed, given_up, l_pid>>

(* proc_read(): if (completed) ...                                         *)
Test(p) ==
  /\ Moves(p, "open", IF completed = 1 THEN "reset"
                       ELSE IF file = "pid" THEN "lookup" ELSE "fill")
  /\ UNCHANGED <<file, loaded, completed, given_up, l_pid>>

\* MUTANT: completed is not reset.
KeepCompleted(p) ==
  /\ Moves(p, "reset", "eof")
  /\ UNCHANGED <<file, loaded, completed, given_up, l_pid>>

(* ... completed = 0 and the end of the file: the reader stops.            *)
Reset(p) ==
  /\ Moves(p, "reset", "eof")
  /\ completed' = 0 /\ given_up' = FALSE
  /\ UNCHANGED <<file, loaded, l_pid>>

\* MUTANT: completed is not set.
ReturnsAgain(p) ==
  /\ Moves(p, "fill", "open")
  /\ UNCHANGED <<file, loaded, completed, given_up, l_pid>>

(* completed = 1, and the reader, that has got the text, will call again.  *)
Completes(p, from) ==
  /\ Moves(p, from, "open")
  /\ completed' = 1
  /\ UNCHANGED <<file, loaded, given_up, l_pid>>

hello_read(p) == file = "hello" /\ Completes(p, "fill")
jiffies_read(p) == file = "jiffies" /\ Completes(p, "fill")
seconds_read(p) == file = "seconds" /\ Completes(p, "fill")

(* pid.c looks its process up first; if there is none the read is at its   *)
(* end and completed stays as it is.                                       *)
pid_task(p) ==
  /\ Moves(p, "lookup", IF l_pid = "live" THEN "answer" ELSE "eof")
  /\ UNCHANGED <<file, loaded, completed, given_up, l_pid>>

pid_read(p) == file = "pid" /\ Completes(p, "answer")

(* When copy_to_user() fails pid.c, the only one that looks, returns -1:   *)
(* an error, at which the reader stops, with completed at 1.               *)
CopyFails(p) ==
  /\ file = "pid" /\ Moves(p, "answer", "eof")
  /\ completed' = 1 /\ given_up' = TRUE
  /\ UNCHANGED <<file, loaded, l_pid>>

(* A program may stop reading whenever it likes, as "head" does.           *)
Quit(p) ==
  /\ Moves(p, "open", "eof")
  /\ given_up' = (given_up \/ completed = 1)
  /\ UNCHANGED <<file, loaded, completed, l_pid>>

(* proc_write(), which only pid.c has: l_pid becomes the number written,   *)
(* or stays when it is no number.                                          *)
Write(p) ==
  /\ Moves(p, "open", "eof")
  /\ l_pid' \in (IF file = "pid" THEN {"live", "none"} ELSE {l_pid})
  /\ UNCHANGED <<file, loaded, completed, given_up>>

(* The process that l_pid names ends.                                      *)
Vanish == l_pid = "live" /\ l_pid' = "none" /\ UNCHANGED <<file, loaded, completed, given_up, at>>

ReadStep(p) ==
  \/ Test(p) \/ Reset(p) \/ hello_read(p) \/ jiffies_read(p) \/ seconds_read(p)
  \/ pid_task(p) \/ pid_read(p) \/ CopyFails(p) \/ Quit(p)

(* The next process to run as p has not opened the file.                   *)
Close(p) ==
  /\ at' = [at EXCEPT ![p] = "out"]
  /\ UNCHANGED <<file, loaded, completed, given_up, l_pid>>
=============================================================================

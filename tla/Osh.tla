-------------------------------- MODULE Osh ---------------------------------
(***************************************************************************)
(* The shell of project2 (Shell) on a machine whose file in /proc is one   *)
(* of the kernel modules of projects 1 and 2 (ProcFile): the programs that *)
(* the shell runs read the file, as "cat /proc/pid" does, write it, as     *)
(* "echo n > /proc/pid" does, or leave it alone.  Because of "&", and      *)
(* because wait() takes any child, several of them run at a time.          *)
(***************************************************************************)
EXTENDS Shell

CONSTANT Verbose    \* programs that write more than a pipe holds

ASSUME OshAssumption ==
  /\ Procs \subseteq Nat \ {0} /\ Procs # {} /\ IsFiniteSet(Procs)
  /\ Lines \subseteq Seq(STRING) /\ \A line \in Lines : Len(line) <= MaxWords
  /\ MaxLines \in Nat /\ MaxWords \in Nat \ {0}
  /\ Verbose \subseteq Installed

VARIABLES file, completed, given_up, l_pid, at

F == INSTANCE ProcFile

fileVars == <<file, completed, given_up, l_pid, at>>
vars == <<proc, typed, loaded, fileVars>>

Init == ShellInit /\ F!FileInit

-----------------------------------------------------------------------------
Running(p) == proc[p].pc = "run"

(* A program sees its arguments up to the first null pointer.              *)
Operands(p) ==
  {proc[p].args[k] : k \in {i \in Slots : i > 0 /\ \A h \in 0 .. i : proc[p].args[h] # NULL}}

Writes(p) == Running(p) /\ proc[p].out = ProcFileName
Reads(p) == Running(p) /\ ~Writes(p) /\ ProcFileName \in Operands(p) \cup {proc[p].in}

(* The pipe is full, and nobody reads it before this program ends.         *)
Blocked(p) == Running(p) /\ proc[p].out = "pipe" /\ proc[p].args[0] \in Verbose

Finished(p) == IF Reads(p) \/ Writes(p) THEN at[p] = "eof" ELSE Running(p) /\ ~Blocked(p)

Redirected(p) == proc'[p].pc = "run" /\ ProcFileName \in {proc'[p].in, proc'[p].out}

(* The shell opens the file for its child, a program opens its operand.    *)
OpenStep(p) ==
  \/ Redirect(p) /\ Redirected(p) /\ F!Open(p)
  \/ Reads(p) /\ F!Open(p) /\ UNCHANGED <<proc, typed>>

UsesFile(p) ==
  /\ (Reads(p) /\ F!ReadStep(p)) \/ (Writes(p) /\ F!Write(p))
  /\ UNCHANGED <<proc, typed>>

Type == \E p \in Procs : ReadLine(p) /\ UNCHANGED fileVars
Machine == (F!Load \/ F!Unload \/ F!Vanish) /\ UNCHANGED <<proc, typed>>

ProcessStep(p) ==
  \/ ShellStep(p) /\ ~Redirected(p) /\ UNCHANGED fileVars
  \/ OpenStep(p) \/ UsesFile(p)
  \/ Finished(p) /\ Exit(p) /\ F!Close(p)

SomeStep == \E p \in Procs : ProcessStep(p)

Next == Type \/ Machine \/ SomeStep

(* The kernel runs some process that can run; nobody has to type a line,   *)
(* to load or to unload a module.                                          *)
Spec == Init /\ [][Next]_vars /\ WF_vars(SomeStep)

-----------------------------------------------------------------------------
Places == {"none", "prompt", "wait", "clear", "child", "pipewait", "run", "zombie"}

(* Every wait() of a shell takes one child away, and there is one to take: *)
(* at its prompt a shell has as many children, running or not waited for,  *)
(* as it has started with "&", and no others - so without them it has      *)
(* waited for its command, whatever ran meanwhile in other shells.         *)
ProcessTable ==
  /\ F!FileTypeOK
  /\ \A p \in Procs :
       /\ proc[p].pc \in Places
       /\ proc[p].args_ \in Slots /\ proc[p].pipe_pos \in Slots
       /\ proc[p].parent \in {0} \cup {q \in Procs : proc[q].pc \notin {"none", "zombie"}}
       /\ proc[p].pc \in {"prompt", "clear"} => Cardinality(Children(p)) = proc[p].left
       /\ proc[p].pc = "wait" => Cardinality(Children(p)) = proc[p].left + 1
       /\ proc[p].pc \in {"child", "run", "zombie"} => Children(p) = {}
       /\ proc[p].pc = "pipewait" => Cardinality(Children(p)) = 1

(* "there must be logic that ensures it ultimately returns 0 once it has   *)
(* collected the data": however many readers share the flag, unlocked, it  *)
(* is 0 again when the last of them has stopped, or the next reader would  *)
(* get nothing.  Sharing it does no harm; the one way to leave it set is a *)
(* reader that stops while it is, before its end of the file, as pid.c's   *)
(* own return of -1 makes it do.                                           *)
FlagReset ==
  loaded /\ completed = 1 /\ (\A p \in Procs : at[p] \in {"out", "eof"}) => given_up

(* Whenever nothing is typed for long enough, the shells come to their     *)
(* prompts and the programs to their ends, except what is held up by a     *)
(* subshell at its prompt or by a program that wrote more into a pipe than *)
(* it holds.  In particular every reader of the file comes to its end,     *)
(* though others set and reset the flag under it.  (At most MaxLines lines *)
(* come.)                                                                  *)
Busy(p) == proc[p].pc \in {"wait", "clear", "child", "pipewait", "run"}
Held(p) ==
  \E held \in SUBSET Procs : p \in held /\ \A q \in held :
    \/ proc[q].pc = "prompt" \/ Blocked(q)
    \/ proc[q].pc \in {"wait", "pipewait"} /\ Children(q) \subseteq held
CommandsEnd == []<>(\A p \in Procs : Busy(p) => Held(p))
=============================================================================

------------------------------- MODULE Shell --------------------------------
(***************************************************************************)
(* project2/simple-shell.c, one loop from prompt to prompt, with the       *)
(* processes it forks.  A child whose execvp() or open() fails goes on in  *)
(* the loop as a second shell on the same terminal.  Child processes have  *)
(* copies of all variables, so the locals of main() are fields of the      *)
(* process.                                                                *)
(*                                                                         *)
(* A line is the sequence of its words, "|" a word of its own; words       *)
(* longer than 19 characters, lines of more than MaxWords words and the    *)
(* end of stdin are left out.                                              *)
(* Memory that was freed and is still pointed to is the word "freed".  Of  *)
(* the second command of a pipe the model keeps the program only.          *)
(***************************************************************************)
EXTENDS Integers, Sequences, FiniteSets, FiniteSetsExt

CONSTANTS Procs,      \* process identifiers
          Lines,      \* what can be typed
          MaxLines,   \* bound: lines typed
          MaxWords,   \* bound: words of a line
          Installed,  \* what execvp() finds
          Files,      \* what open() can open, besides the file in /proc
          NULL

VARIABLES
  proc,     \* the process table
  typed,    \* lines typed so far
  loaded    \* can the file in /proc be opened? (ProcFile)

Slots == 0 .. MaxWords - 1
ProcFileName == "proc"

(* pc is "none" for an identifier not in use.  in and out are the standard *)
(* input and output of a running program, and left counts the commands     *)
(* that a shell has started with &.                                        *)
NoProc == [pc |-> "none", parent |-> 0, args |-> [k \in Slots |-> NULL], args_ |-> 0,
           pipe_exist |-> FALSE, pipe_pos |-> 0, pipe_args |-> NULL, history |-> <<>>,
           in |-> "terminal", out |-> "terminal", left |-> 0]

Zombie(parent) == [NoProc EXCEPT !.pc = "zombie", !.parent = parent]

First == CHOOSE p \in Procs : \A q \in Procs : p <= q

ShellInit ==
  /\ proc = [p \in Procs |-> IF p = First THEN [NoProc EXCEPT !.pc = "prompt"] ELSE NoProc]
  /\ typed = 0

Children(p) == {q \in Procs : proc[q].pc # "none" /\ proc[q].parent = p}
Unused == {p \in Procs : proc[p].pc = "none"}

(* Process p ends.  Its zombies are gone, and its other children belong to *)
(* init, process 0, as does the first shell.                               *)
Ends(p) ==
  proc' = [q \in Procs |->
    CASE q = p /\ proc[p].parent = 0 -> NoProc
      [] q = p /\ proc[p].parent # 0 -> Zombie(proc[p].parent)
      [] q \in Children(p) /\ proc[q].pc = "zombie" -> NoProc
      [] q \in Children(p) /\ proc[q].pc # "zombie" -> [proc[q] EXCEPT !.parent = 0]
      [] OTHER -> proc[q]]

Continues(p, place) == proc' = [proc EXCEPT ![p].pc = place]

-----------------------------------------------------------------------------
Background(line) == line[Len(line)] = "&"
Bars(line) == {k \in 1 .. Len(line) : line[k] = "|"}
Piped(me, line) == me.pipe_exist \/ Bars(line) # {}
PipePos(me, line) == IF Bars(line) = {} THEN me.pipe_pos ELSE Max(Bars(line)) - 1

(* The words behind "|" that are moved to pipe_args: i counts up while     *)
(* args_ counts down, so it is not all of them.                            *)
Moved(me, line) ==
  LET pos == PipePos(me, line)
  IN  {i \in pos + 1 .. Len(line) - 1 : Piped(me, line) /\ 2 * i <= Len(line) + pos}

(* The words of the line over what the slots held before, "&" taken off.   *)
Split(me, line) ==
  [k \in Slots |-> IF k >= Len(line) THEN me.args[k]
                   ELSE IF k = Len(line) - 1 /\ Background(line) THEN NULL ELSE line[k + 1]]

(* The process when the line is in args and, once any line had a "|", the  *)
(* pipe has been prepared.                                                 *)
Parsed(me, line) ==
  LET words == Split(me, line)
      pos == PipePos(me, line)
      moved == Moved(me, line)
      gone == moved \cup (IF Piped(me, line) THEN {pos} ELSE {})
  IN  [me EXCEPT !.args = [k \in Slots |-> IF k \in gone THEN NULL ELSE words[k]],
                 !.args_ = Len(line) - 1 - Cardinality(moved),
                 !.pipe_exist = Piped(me, line), !.pipe_pos = pos,
                 !.pipe_args = IF moved = {} THEN NULL ELSE words[pos + 1],
                 !.history = line]

\* MUTANT: parent_wait stays 1.
ForkAndWait(p, me, background) ==
  LET q == Min(Unused)
  IN  proc' = [proc EXCEPT
        ![p] = [me EXCEPT !.pc = "wait", !.left = IF background THEN @ + 1 ELSE @],
        ![q] = [me EXCEPT !.pc = "child", !.parent = p, !.left = 0]]

(* The child starts with a copy of all variables; the parent waits, or     *)
(* goes on at once if the line ended in "&".                               *)
Fork(p, me, background) ==
  LET q == Min(Unused)
  IN  proc' = [proc EXCEPT
        ![p] = [me EXCEPT !.pc = IF background THEN "clear" ELSE "wait",
                          !.left = IF background THEN @ + 1 ELSE @],
        ![q] = [me EXCEPT !.pc = "child", !.parent = p, !.left = 0]]

(* A line that is not empty and not "!!".  main() returns after "exit" and *)
(* when the table of processes is full, so that fork() fails; it crashes   *)
(* when it moves the slot that "&" has left empty.                         *)
Command(p, line) ==
  IF \/ line[1] = "exit" \/ Unused = {}
     \/ Background(line) /\ Len(line) - 1 \in Moved(proc[p], line)
  THEN Ends(p)
  ELSE Fork(p, Parsed(proc[p], line), Background(line))

(* A shell at its prompt gets the next line, whichever shell it is.        *)
ReadLine(p) ==
  /\ proc[p].pc = "prompt" /\ typed < MaxLines
  /\ typed' = typed + 1
  /\ \E line \in Lines :
       IF line = <<"!!">> /\ proc[p].history # <<>> THEN Command(p, proc[p].history)
       ELSE IF line \in {<<>>, <<"!!">>} THEN UNCHANGED proc
       ELSE Command(p, line)
  /\ UNCHANGED loaded

(* wait(NULL): a child that has ended, not always the one just started.    *)
Wait(p) ==
  /\ proc[p].pc = "wait"
  /\ \E q \in Children(p) :
       /\ proc[q].pc = "zombie"
       /\ proc' = [proc EXCEPT ![p].pc = "clear", ![q] = NoProc]
  /\ UNCHANGED <<typed, loaded>>

(* Every slot of args that is not NULL is freed and keeps its pointer.     *)
(* What was freed before is freed twice: the library aborts the process or *)
(* does not notice.                                                        *)
Clear(p) ==
  /\ proc[p].pc = "clear"
  /\ \/ \E k \in Slots : proc[p].args[k] = "freed" /\ Ends(p)
     \/ proc' = [proc EXCEPT ![p].pc = "prompt",
                   ![p].args = [k \in Slots |-> IF @[k] = NULL THEN NULL ELSE "freed"]]
  /\ UNCHANGED <<typed, loaded>>

-----------------------------------------------------------------------------
(* The child, between fork() and execvp().  mark is the last word but one, *)
(* as far as args_ is right.                                               *)
Mark(p) == IF proc[p].args_ >= 1 THEN proc[p].args[proc[p].args_ - 1] ELSE "none"
Redirects(p) == Mark(p) \in {">", "<"}
Pipes(p) == proc[p].args_ >= 1 /\ ~Redirects(p) /\ proc[p].pipe_exist

IsChild(p) == proc[p].pc = "child" /\ UNCHANGED <<typed, loaded>>

(* strcmp() of a null pointer: "a | b c" leaves one there.                 *)
ChildCrash(p) == IsChild(p) /\ Mark(p) = NULL /\ Ends(p)

(* execvp(args[0], args) replaces the program; if it fails the child comes *)
(* to the end of the loop.                                                 *)
Exec(p) ==
  /\ IsChild(p) /\ Mark(p) # NULL /\ ~Redirects(p) /\ ~Pipes(p)
  /\ Continues(p, IF proc[p].args[0] \in Installed THEN "run" ELSE "clear")

(* "> name" and "< name": no file, back to the prompt; no program, exit.   *)
Redirect(p) ==
  LET name == proc[p].args[proc[p].args_]
      mark == proc[p].args_ - 1
  IN  /\ IsChild(p) /\ Redirects(p)
      /\ IF name \notin Files /\ ~(name = ProcFileName /\ loaded) THEN Continues(p, "prompt")
         ELSE IF mark = 0 \/ proc[p].args[0] \notin Installed THEN Ends(p)
         ELSE proc' = [proc EXCEPT ![p].pc = "run",
                         ![p].in = IF Mark(p) = "<" THEN name ELSE "terminal",
                         ![p].out = IF Mark(p) = ">" THEN name ELSE "terminal",
                         ![p].args = [@ EXCEPT ![mark] = NULL, ![mark + 1] = NULL]]

(* A pipe: a second child runs the first command, or exits, and this one   *)
(* waits for its END before it reads.                                      *)
Pipe(p) ==
  LET q == Min(Unused)
      known == proc[p].args[0] \in Installed
  IN  /\ IsChild(p) /\ Mark(p) # NULL /\ Pipes(p)
      /\ IF Unused = {} THEN Ends(p)
         ELSE proc' = [proc EXCEPT ![p].pc = "pipewait",
                         ![q] = IF known THEN [proc[p] EXCEPT !.pc = "run", !.parent = p,
                                                              !.out = "pipe"]
                                ELSE Zombie(p)]

(* The first command has ended; the second one replaces this process, or   *)
(* it goes on in the loop.                                                 *)
PipeWait(p) ==
  /\ proc[p].pc = "pipewait"
  /\ \E q \in Children(p) :
       /\ proc[q].pc = "zombie"
       /\ proc' = [proc EXCEPT
            ![p].pc = IF proc[p].pipe_args \in Installed THEN "run" ELSE "clear",
            ![p].args = IF proc[p].pipe_args \in Installed
                          THEN [k \in Slots |-> IF k = 0 THEN proc[p].pipe_args ELSE NULL] ELSE @,
            ![p].in = IF proc[p].pipe_args \in Installed THEN "pipe" ELSE @,
            ![q] = NoProc]
  /\ UNCHANGED <<typed, loaded>>

(* A program ends.                                                         *)
Exit(p) == proc[p].pc = "run" /\ Ends(p) /\ UNCHANGED <<typed, loaded>>

ShellStep(p) ==
  \/ Wait(p) \/ Clear(p) \/ ChildCrash(p) \/ Exec(p) \/ Redirect(p) \/ Pipe(p) \/ PipeWait(p)
=============================================================================

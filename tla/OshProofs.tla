----------------------------- MODULE OshProofs ------------------------------
(***************************************************************************)
(* Proofs about Osh, for every number of processes, every set of lines and *)
(* every set of programs.                                                  *)
(*                                                                         *)
(* ProcessTable is not inductive: that a parent exists when its child      *)
(* forks, or that a child before its execvp() has no commands of its own   *)
(* behind it, is needed and not said.  Table says it.  Every step does one *)
(* of four things to the families: nothing (NoChange), p gets a child      *)
(* (Adopts), p takes one of its zombies away (Reaps), or p ends (EndsTable)*)
(* - so the count of children is argued about once, and the lemma of a     *)
(* step only shows which of the four it is.                                *)
(*                                                                         *)
(* FlagReset follows from FlagHeld, which names the process that will reset*)
(* the flag when none has given up.  It needs that no step of another      *)
(* process changes what makes a program a reader (Keeps), although         *)
(* processes are forked from, and adopted and taken away by, others all    *)
(* the time.                                                               *)
(***************************************************************************)
EXTENDS Osh, FiniteSetTheorems, TLAPS

\* The literals are strings too, but the provers do not know.
Word == STRING \cup {NULL, "terminal", "pipe", "freed"}
Process == [pc : Places, parent : {0} \cup Procs, args : [Slots -> Word], args_ : Slots,
            pipe_exist : BOOLEAN, pipe_pos : Slots, pipe_args : Word, history : Seq(STRING),
            in : Word, out : Word, left : Nat]

-----------------------------------------------------------------------------
(* A set of naturals has a smallest element, so Min is what it says.       *)
LEMMA MinOf ==
  ASSUME NEW S \in SUBSET Nat, S # {}
  PROVE  Min(S) \in S
<1>1. PICK m \in S : \A k \in S : ~ (<<k, m>> \in OpToRel(<, Nat))
  BY NatLessThanWellFounded, WFMin
<1>2. \A k \in S : ~ (k < m)
  BY <1>1 DEF OpToRel
<1>3. \A k \in S : m <= k
  BY <1>2
<1> QED BY <1>3 DEF Min

LEMMA ProcsAssumption == Procs \subseteq Nat /\ 0 \notin Procs
BY OshAssumption

(* A free entry of the process table.                                      *)
LEMMA FreeEntry ==
  ASSUME Unused # {}
  PROVE  Min(Unused) \in Procs /\ proc[Min(Unused)].pc = "none"
<1>1. Unused \subseteq Nat /\ Unused \subseteq Procs
  BY ProcsAssumption DEF Unused
<1>2. Min(Unused) \in Unused
  BY <1>1, MinOf
<1> QED BY <1>1, <1>2 DEF Unused

(* The position of the last "|" of a line.                                 *)
LEMMA MaxOf ==
  ASSUME NEW n \in Nat, NEW S \in SUBSET (1 .. n), S # {}
  PROVE  Max(S) \in S
<1> DEFINE T == {n - x : x \in S}
<1>1. T \subseteq Nat /\ T # {}
  <2>1. \A x \in S : n - x \in Nat
    OBVIOUS
  <2> QED BY <2>1
<1>2. PICK m \in T : \A k \in T : ~ (<<k, m>> \in OpToRel(<, Nat))
  BY <1>1, NatLessThanWellFounded, WFMin
<1>3. ASSUME NEW k \in T PROVE m <= k
  <2>1. ~ (k < m) /\ k \in Nat /\ m \in Nat
    BY <1>1, <1>2 DEF OpToRel
  <2> QED BY <2>1
<1>4. n - m \in S /\ \A x \in S : n - m >= x
  BY <1>3
<1> QED BY <1>4 DEF Max

-----------------------------------------------------------------------------
(* What is typed.                                                          *)
GoodLine(line) == line \in Seq(STRING) /\ Len(line) \in 1 .. MaxWords

LEMMA PipePosType ==
  ASSUME NEW me \in Process, NEW line, GoodLine(line)
  PROVE  PipePos(me, line) \in Slots
<1>1. CASE Bars(line) = {}
  BY <1>1 DEF PipePos, Process
<1>2. CASE Bars(line) # {}
  <2>1. Bars(line) \in SUBSET (1 .. Len(line)) /\ Len(line) \in Nat
    BY DEF Bars, GoodLine
  <2>2. Max(Bars(line)) \in 1 .. Len(line)
    BY <1>2, <2>1, MaxOf
  <2> QED BY <1>2, <2>2, OshAssumption DEF PipePos, GoodLine, Slots
<1> QED BY <1>1, <1>2

LEMMA MovedSize ==
  ASSUME NEW me \in Process, NEW line, GoodLine(line)
  PROVE  /\ Cardinality(Moved(me, line)) \in 0 .. Len(line) - 1
         /\ Moved(me, line) # {} => PipePos(me, line) + 1 \in 0 .. Len(line) - 1
<1>1. PipePos(me, line) \in Nat
  BY PipePosType DEF Slots
<1>2. Moved(me, line) \subseteq 1 .. Len(line) - 1
  BY <1>1 DEF Moved, GoodLine
<1>3. IsFiniteSet(1 .. Len(line) - 1) /\ Cardinality(1 .. Len(line) - 1) = Len(line) - 1
  <2>1. 1 \in Int /\ Len(line) - 1 \in Int /\ Len(line) >= 1
    BY DEF GoodLine
  <2>2. Cardinality(1 .. Len(line) - 1) = IF 1 > Len(line) - 1 THEN 0 ELSE (Len(line) - 1) - 1 + 1
    BY <2>1, FS_Interval
  <2> QED BY <2>1, <2>2, FS_Interval
<1>4. Cardinality(Moved(me, line)) \in Nat /\ Cardinality(Moved(me, line)) <= Len(line) - 1
  BY <1>2, <1>3, FS_Subset, FS_CardinalityType
<1>5. Moved(me, line) # {} => PipePos(me, line) + 1 <= Len(line) - 1
  BY <1>1 DEF Moved, GoodLine
<1> QED BY <1>1, <1>4, <1>5 DEF GoodLine

LEMMA ParsedType ==
  ASSUME NEW me \in Process, NEW line, GoodLine(line)
  PROVE  /\ Parsed(me, line) \in Process /\ Parsed(me, line).history = line
         /\ Parsed(me, line).parent = me.parent /\ Parsed(me, line).left = me.left
<1> DEFINE words == Split(me, line)
           pos == PipePos(me, line)
           moved == Moved(me, line)
           gone == moved \cup (IF Piped(me, line) THEN {pos} ELSE {})
<1>1. words \in [Slots -> Word]
  <2>1. \A k \in Slots : k < Len(line) => line[k + 1] \in STRING
    BY DEF GoodLine, Slots
  <2> QED BY <2>1, OshAssumption DEF Split, Word, Slots, Process, GoodLine
<1>2. pos \in Slots /\ Cardinality(moved) \in 0 .. Len(line) - 1
      /\ (moved # {} => pos + 1 \in 0 .. Len(line) - 1)
  BY PipePosType, MovedSize
<1>3. Piped(me, line) \in BOOLEAN
  BY DEF Piped, Process
<1> HIDE DEF words, pos, moved
<1>4. [k \in Slots |-> IF k \in gone THEN NULL ELSE words[k]] \in [Slots -> Word]
  BY <1>1 DEF Word
<1>5. Len(line) - 1 - Cardinality(moved) \in Slots
  BY <1>2, OshAssumption DEF GoodLine, Slots
<1>6. (IF moved = {} THEN NULL ELSE words[pos + 1]) \in Word
  BY <1>1, <1>2, OshAssumption DEF Word, GoodLine, Slots
<1>7. Parsed(me, line) = [me EXCEPT !.args = [k \in Slots |-> IF k \in gone THEN NULL ELSE words[k]],
                                   !.args_ = Len(line) - 1 - Cardinality(moved),
                                   !.pipe_exist = Piped(me, line), !.pipe_pos = pos,
                                   !.pipe_args = IF moved = {} THEN NULL ELSE words[pos + 1],
                                   !.history = line]
  BY DEF Parsed, words, pos, moved
<1> HIDE DEF gone
<1>8. line \in Seq(STRING)
  BY DEF GoodLine
<1> QED BY <1>2, <1>3, <1>4, <1>5, <1>6, <1>7, <1>8 DEF Process

-----------------------------------------------------------------------------
Here(p) == proc[p].pc \notin {"none", "zombie"}

(* The families of the process table: the parent of a process is there.    *)
HasParent ==
  \A p \in Procs : /\ proc[p].parent # p /\ proc[p].parent \in {0} \cup {q \in Procs : Here(q)}
                   /\ proc[p].pc = "none" => proc[p].parent = 0

Counted(p) ==
  /\ proc[p].pc \in {"prompt", "clear"} => Cardinality(Children(p)) = proc[p].left
  /\ proc[p].pc = "wait" => Cardinality(Children(p)) = proc[p].left + 1
  /\ proc[p].pc \in {"child", "run", "zombie"} => Children(p) = {}
  /\ proc[p].pc = "pipewait" => Cardinality(Children(p)) = 1
  /\ proc[p].pc \in {"child", "pipewait"} => proc[p].left = 0

Typed == proc \in [Procs -> Process] /\ \A p \in Procs : Len(proc[p].history) <= MaxWords

Table == Typed /\ HasParent /\ \A p \in Procs : Counted(p)

LEMMA NoProcType == /\ NoProc \in Process /\ NoProc.pc = "none" /\ NoProc.parent = 0
                    /\ Len(NoProc.history) <= MaxWords
<1>1. 0 \in Slots /\ 0 \in Nat /\ <<>> \in Seq(STRING) /\ Len(<<>>) <= MaxWords
  BY OshAssumption DEF Slots
<1>2. [k \in Slots |-> NULL] \in [Slots -> Word] /\ NULL \in Word
  BY DEF Word
<1>4. "terminal" \in Word
  BY DEF Word
<1>3. "none" \in Places /\ FALSE \in BOOLEAN
  BY DEF Places
<1> QED BY <1>1, <1>2, <1>3, <1>4 DEF NoProc, Process

LEMMA ZombieType ==
  ASSUME NEW q \in {0} \cup Procs
  PROVE  /\ Zombie(q) \in Process /\ Zombie(q).pc = "zombie" /\ Zombie(q).parent = q
         /\ Len(Zombie(q).history) <= MaxWords
BY NoProcType DEF Zombie, NoProc, Process, Places

LEMMA ChildrenFinite == ASSUME NEW p PROVE IsFiniteSet(Children(p)) /\ Cardinality(Children(p)) \in Nat
<1>1. IsFiniteSet(Procs) /\ Children(p) \subseteq Procs
  BY OshAssumption DEF Children
<1> QED BY <1>1, FS_Subset, FS_CardinalityType

(* What the end of p does to each process.                                 *)
LEMMA EndsEffect ==
  ASSUME Typed, HasParent, NEW p \in Procs, Ends(p)
  PROVE  /\ Typed'
         /\ proc[p].parent = 0 => proc'[p].pc = "none" /\ proc'[p].parent = 0
         /\ proc[p].parent # 0 => proc'[p].pc = "zombie" /\ proc'[p].parent = proc[p].parent
         /\ \A q \in Procs \ {p} :
              /\ q \notin Children(p) => proc'[q] = proc[q]
              /\ q \in Children(p) /\ proc[q].pc = "zombie" => proc'[q].pc = "none" /\ proc'[q].parent = 0
              /\ q \in Children(p) /\ proc[q].pc # "zombie" => proc'[q] = [proc[q] EXCEPT !.parent = 0]
<1>1. proc \in [Procs -> Process] /\ \A q \in Procs : proc[q].parent \in {0} \cup Procs
  BY DEF Typed, Process
<1>2. /\ proc[p].parent = 0 => proc'[p] = NoProc
      /\ proc[p].parent # 0 => proc'[p] = Zombie(proc[p].parent)
  <2> DEFINE New(q) == CASE q = p /\ proc[p].parent = 0 -> NoProc
                         [] q = p /\ proc[p].parent # 0 -> Zombie(proc[p].parent)
                         [] q \in Children(p) /\ proc[q].pc = "zombie" -> NoProc
                         [] q \in Children(p) /\ proc[q].pc # "zombie" -> [proc[q] EXCEPT !.parent = 0]
                         [] OTHER -> proc[q]
  <2>1. proc' = [q \in Procs |-> New(q)]
    BY DEF Ends
  <2>2. proc'[p] = New(p)
    BY <2>1
  <2>3. proc[p].parent # p /\ p \notin Children(p)
    BY DEF HasParent, Children
  <2>4. proc[p].parent = 0 => New(p) = NoProc
    BY <2>3
  <2>5. proc[p].parent # 0 => New(p) = Zombie(proc[p].parent)
    BY <2>3
  <2> QED BY <2>2, <2>4, <2>5
<1>3. \A q \in Procs \ {p} :
        /\ q \notin Children(p) => proc'[q] = proc[q]
        /\ q \in Children(p) /\ proc[q].pc = "zombie" => proc'[q] = NoProc
        /\ q \in Children(p) /\ proc[q].pc # "zombie" => proc'[q] = [proc[q] EXCEPT !.parent = 0]
  BY DEF Ends
<1>4. \A q \in Procs : /\ [proc[q] EXCEPT !.parent = 0] \in Process
                       /\ [proc[q] EXCEPT !.parent = 0].history = proc[q].history
  BY <1>1 DEF Process
<1>5. proc' \in [Procs -> Process]
  <2>1. DOMAIN proc' = Procs /\ proc' = [q \in Procs |-> proc'[q]]
    BY DEF Ends
  <2>2. \A q \in Procs : proc'[q] \in Process
    <3> SUFFICES ASSUME NEW q \in Procs PROVE proc'[q] \in Process
      OBVIOUS
    <3>1. CASE q = p
      BY <1>1, <1>2, <3>1, NoProcType, ZombieType
    <3>2. CASE q # p
      BY <1>1, <1>3, <1>4, <3>2, NoProcType
    <3> QED BY <3>1, <3>2
  <2> QED BY <2>1, <2>2
<1>6. ASSUME NEW q \in Procs PROVE Len(proc'[q].history) <= MaxWords
  <2>1. CASE q = p
    BY <1>1, <1>2, <2>1, NoProcType, ZombieType
  <2>2. CASE q # p
    BY <1>1, <1>3, <1>4, <2>2, NoProcType DEF Typed
  <2> QED BY <2>1, <2>2
<1> QED BY <1>1, <1>2, <1>3, <1>5, <1>6, NoProcType, ZombieType DEF Typed

(* p ends: it has no children any more, and the others have theirs.        *)
LEMMA EndsTable ==
  ASSUME Table, NEW p \in Procs, Here(p), Ends(p)
  PROVE  Table'
<1>1. Typed /\ HasParent /\ proc \in [Procs -> Process]
  BY DEF Table, Typed
<1>2. /\ Typed'
      /\ proc[p].parent = 0 => proc'[p].pc = "none" /\ proc'[p].parent = 0
      /\ proc[p].parent # 0 => proc'[p].pc = "zombie" /\ proc'[p].parent = proc[p].parent
      /\ \A q \in Procs \ {p} :
           /\ q \notin Children(p) => proc'[q] = proc[q]
           /\ q \in Children(p) /\ proc[q].pc = "zombie" => proc'[q].pc = "none" /\ proc'[q].parent = 0
           /\ q \in Children(p) /\ proc[q].pc # "zombie" => proc'[q] = [proc[q] EXCEPT !.parent = 0]
  BY <1>1, EndsEffect
<1>3. \A q \in Procs : [proc[q] EXCEPT !.parent = 0].pc = proc[q].pc
                    /\ [proc[q] EXCEPT !.parent = 0].parent = 0
                    /\ [proc[q] EXCEPT !.parent = 0].left = proc[q].left
  BY <1>1 DEF Process
<1>4. \A q \in Procs : q \in Children(p) <=> proc[q].pc # "none" /\ proc[q].parent = p
  BY DEF Children
<1>0. \A q \in Procs \ {p} : q \in Children(p) =>
        /\ proc'[q].parent = 0 /\ proc'[q].left \in Nat
        /\ proc'[q].pc = IF proc[q].pc = "zombie" THEN "none" ELSE proc[q].pc
  <2> SUFFICES ASSUME NEW q \in Procs \ {p}, q \in Children(p)
               PROVE  /\ proc'[q].parent = 0 /\ proc'[q].left \in Nat
                      /\ proc'[q].pc = IF proc[q].pc = "zombie" THEN "none" ELSE proc[q].pc
    OBVIOUS
  <2>1. proc'[q].left \in Nat
    BY <1>2 DEF Typed, Process
  <2>2. CASE proc[q].pc = "zombie"
    BY <1>2, <2>1, <2>2
  <2>3. CASE proc[q].pc # "zombie"
    <3>1. proc'[q] = [proc[q] EXCEPT !.parent = 0]
      BY <1>2, <2>3
    <3> QED BY <1>3, <2>1, <2>3, <3>1
  <2> QED BY <2>2, <2>3
<1>5. /\ Children(p)' = {}
      /\ \A x \in Procs \ {p} : Children(x)' = Children(x)
  <2>1. p # 0 /\ \A x \in Procs : x # 0
    BY ProcsAssumption
  <2>2. ASSUME NEW q \in Procs, proc'[q].pc # "none", proc'[q].parent = p PROVE FALSE
    <3>1. CASE q = p
      BY <1>1, <1>2, <2>1, <2>2, <3>1 DEF HasParent
    <3>2. CASE q # p
      BY <1>0, <1>2, <1>4, <2>1, <2>2, <3>2
    <3> QED BY <3>1, <3>2
  <2>3. ASSUME NEW x \in Procs \ {p}, NEW q \in Procs
        PROVE  proc'[q].pc # "none" /\ proc'[q].parent = x <=> proc[q].pc # "none" /\ proc[q].parent = x
    <3>1. CASE q = p
      BY <1>2, <2>1, <3>1 DEF Here
    <3>2. CASE q # p /\ q \notin Children(p)
      BY <1>2, <3>2
    <3>3. CASE q # p /\ q \in Children(p)
      BY <1>0, <1>4, <2>1, <3>3
    <3> QED BY <3>1, <3>2, <3>3
  <2> QED BY <2>2, <2>3 DEF Children
<1>6. HasParent'
  <2> SUFFICES ASSUME NEW q \in Procs
               PROVE  /\ proc'[q].parent # q /\ proc'[q].parent \in {0} \cup {x \in Procs : Here(x)'}
                      /\ proc'[q].pc = "none" => proc'[q].parent = 0
    BY DEF HasParent
  <2>1. CASE proc'[q].parent = 0
    BY <2>1, ProcsAssumption
  <2>2. CASE proc'[q].parent # 0
    <3>1. proc'[q].parent = proc[q].parent /\ proc[q].parent # p
      <4>1. CASE q = p
        BY <1>1, <1>2, <2>2, <4>1 DEF HasParent
      <4>2. CASE q # p
        <5>1. q \notin Children(p) /\ proc'[q] = proc[q]
          BY <1>0, <1>2, <2>2, <4>2
        <5>2. proc[q].pc # "none"
          BY <1>1, <2>2, <5>1 DEF HasParent
        <5> QED BY <1>4, <5>1, <5>2
      <4> QED BY <4>1, <4>2
    <3>2. PICK x \in Procs : x = proc[q].parent /\ Here(x) /\ x # q /\ x # p
      BY <1>1, <2>2, <3>1 DEF HasParent
    <3>3. proc'[x].pc = proc[x].pc
      BY <1>2, <1>3, <3>2 DEF Here
    <3>4. proc'[q].pc # "none"
      <4>1. CASE q = p
        BY <1>2, <2>2, <4>1
      <4>2. CASE q # p
        <5>1. proc'[q] = proc[q]
          BY <1>0, <1>2, <2>2, <4>2
        <5> QED BY <1>1, <2>2, <5>1 DEF HasParent
      <4> QED BY <4>1, <4>2
    <3> QED BY <3>1, <3>2, <3>3, <3>4 DEF Here
  <2> QED BY <2>1, <2>2
<1>7. ASSUME NEW q \in Procs PROVE Counted(q)'
  <2>1. CASE q = p \/ proc'[q].pc = "none"
    BY <1>2, <1>5, <2>1 DEF Counted
  <2>2. CASE q # p /\ proc'[q].pc # "none"
    <3>1. Children(q)' = Children(q) /\ proc'[q].pc = proc[q].pc /\ proc'[q].left = proc[q].left
      BY <1>2, <1>3, <1>5, <2>2
    <3> QED BY <3>1 DEF Table, Counted
  <2> QED BY <2>1, <2>2
<1> QED BY <1>2, <1>6, <1>7 DEF Table

(* What the steps do to the families: nothing, p gets a child, or one of   *)
(* p's zombies is taken away.                                              *)
SameFamily(x) == proc'[x].parent = proc[x].parent /\ (Here(x)' <=> Here(x))
                                                  /\ (proc'[x].pc = "none" <=> proc[x].pc = "none")

LEMMA NoChange ==
  ASSUME HasParent, \A x \in Procs : SameFamily(x)
  PROVE  HasParent' /\ \A x \in Procs : Children(x)' = Children(x)
BY DEF HasParent, SameFamily, Children

LEMMA Adopts ==
  ASSUME HasParent, NEW p \in Procs, NEW q \in Procs \ {p}, Here(p), proc[q].pc = "none",
         proc'[q].pc # "none", proc'[q].parent = p, \A x \in Procs \ {q} : SameFamily(x)
  PROVE  /\ HasParent' /\ Children(p)' = Children(p) \cup {q}
         /\ Cardinality(Children(p)') = Cardinality(Children(p)) + 1
         /\ \A x \in Procs \ {p} : Children(x)' = Children(x)
         /\ Children(q)' = {}
<1>1. \A x \in Procs : proc[x].parent # q
  BY ProcsAssumption DEF HasParent, Here
<1>2. /\ Children(p)' = Children(p) \cup {q} /\ q \notin Children(p)
      /\ \A x \in Procs \ {p} : Children(x)' = Children(x)
  BY DEF SameFamily, Children, Here
<1>3. Children(q)' = {}
  BY <1>1, <1>2 DEF Children
<1>4. HasParent'
  BY DEF HasParent, SameFamily, Here
<1>5. Cardinality(Children(p) \cup {q}) = Cardinality(Children(p)) + 1
  BY <1>2, ChildrenFinite, FS_AddElement
<1> QED BY <1>2, <1>3, <1>4, <1>5

LEMMA Reaps ==
  ASSUME HasParent, NEW p \in Procs, NEW q \in Procs, q \in Children(p), proc[q].pc = "zombie",
         Here(p), proc'[q] = NoProc, \A x \in Procs \ {q} : SameFamily(x)
  PROVE  /\ HasParent' /\ Children(p)' = Children(p) \ {q}
         /\ Cardinality(Children(p)') = Cardinality(Children(p)) - 1
         /\ \A x \in Procs \ {p} : Children(x)' = Children(x)
<1>1. proc'[q].pc = "none" /\ proc'[q].parent = 0 /\ q # 0
  BY NoProcType, ProcsAssumption
<1>2. /\ Children(p)' = Children(p) \ {q}
      /\ \A x \in Procs \ {p} : Children(x)' = Children(x)
  BY <1>1 DEF SameFamily, Children
<1>3. HasParent'
  BY <1>1 DEF HasParent, SameFamily, Here
<1>4. Cardinality(Children(p) \ {q}) = Cardinality(Children(p)) - 1
  BY ChildrenFinite, FS_RemoveElement
<1> QED BY <1>2, <1>3, <1>4

LEMMA ForkTable ==
  ASSUME Table, NEW p \in Procs, proc[p].pc = "prompt", Unused # {}, NEW background \in BOOLEAN,
         NEW me \in Process, me.parent = proc[p].parent, me.left = proc[p].left,
         Len(me.history) <= MaxWords, Fork(p, me, background)
  PROVE  Table'
<1>1. PICK q \in Procs : q = Min(Unused) /\ proc[q].pc = "none" /\ q # p
  BY FreeEntry
<1> DEFINE mine == [me EXCEPT !.pc = IF background THEN "clear" ELSE "wait",
                              !.left = IF background THEN me.left + 1 ELSE me.left]
           its == [me EXCEPT !.pc = "child", !.parent = p, !.left = 0]
<1>2. Typed /\ HasParent /\ proc \in [Procs -> Process] /\ me.left \in Nat
  BY DEF Table, Typed, Process
<1>3. /\ mine \in Process /\ mine.parent = me.parent /\ mine.history = me.history
      /\ mine.pc = (IF background THEN "clear" ELSE "wait")
      /\ mine.left = (IF background THEN me.left + 1 ELSE me.left)
  <2>1. /\ (IF background THEN "clear" ELSE "wait") \in Places
        /\ (IF background THEN me.left + 1 ELSE me.left) \in Nat
    BY <1>2 DEF Places
  <2> QED BY <2>1 DEF Process
<1>4. /\ its \in Process /\ its.parent = p /\ its.history = me.history
      /\ its.pc = "child" /\ its.left = 0
  BY DEF Process, Places
<1>5. proc' = [proc EXCEPT ![p] = mine, ![q] = its]
  BY <1>1 DEF Fork
<1> HIDE DEF mine, its
<1>6. /\ proc' \in [Procs -> Process] /\ proc'[p] = mine /\ proc'[q] = its
      /\ \A x \in Procs \ {p, q} : proc'[x] = proc[x]
  BY <1>1, <1>2, <1>3, <1>4, <1>5
<1>7. Typed'
  BY <1>2, <1>3, <1>4, <1>6 DEF Typed
<1>8. /\ HasParent' /\ Cardinality(Children(p)') = Cardinality(Children(p)) + 1
      /\ \A x \in Procs \ {p} : Children(x)' = Children(x)
      /\ Children(q)' = {}
  <2>1. Here(p) /\ proc'[q].pc # "none" /\ proc'[q].parent = p
    BY <1>4, <1>6 DEF Here
  <2>2. \A x \in Procs \ {q} : SameFamily(x)
    BY <1>3, <1>6 DEF SameFamily, Here
  <2> QED BY <1>1, <1>2, <2>1, <2>2, Adopts
<1>9. Cardinality(Children(p)) = me.left
  BY DEF Table, Counted
<1>10. \A x \in Procs : Counted(x)'
  <2>1. Counted(p)'
    BY <1>2, <1>3, <1>6, <1>8, <1>9 DEF Counted
  <2>2. Counted(q)'
    BY <1>4, <1>6, <1>8 DEF Counted
  <2>3. \A x \in Procs \ {p, q} : Counted(x)'
    BY <1>6, <1>8 DEF Table, Counted
  <2> QED BY <2>1, <2>2, <2>3
<1> QED BY <1>7, <1>8, <1>10 DEF Table

-----------------------------------------------------------------------------
LEMMA InitTable == Init => Table
<1> SUFFICES ASSUME Init PROVE Table
  OBVIOUS
<1> DEFINE shell == [NoProc EXCEPT !.pc = "prompt"]
<1>1. /\ shell \in Process /\ shell.pc = "prompt" /\ shell.parent = 0 /\ Len(shell.history) <= MaxWords
      /\ shell.left = 0
  BY NoProcType DEF Process, Places, NoProc
<1>2. proc = [p \in Procs |-> IF p = First THEN shell ELSE NoProc]
  BY DEF Init, ShellInit
<1> HIDE DEF shell
<1>3. Typed
  BY <1>1, <1>2, NoProcType DEF Typed
<1>4. \A p \in Procs : proc[p].parent = 0 /\ Children(p) = {}
  BY <1>1, <1>2, NoProcType, ProcsAssumption DEF Children
<1>5. HasParent
  BY <1>4, ProcsAssumption DEF HasParent
<1>6. \A p \in Procs : Counted(p)
  BY <1>1, <1>2, <1>4, NoProcType, FS_EmptySet DEF Counted
<1> QED BY <1>3, <1>5, <1>6 DEF Table

LEMMA SameTable == ASSUME Table, UNCHANGED proc PROVE Table'
<1>1. \A p \in Procs : Children(p)' = Children(p)
  BY DEF Children
<1>2. \A p \in Procs : Counted(p)'
  BY <1>1 DEF Table, Counted
<1> QED BY <1>2 DEF Table, Typed, HasParent, Here

(* A line that is typed.                                                   *)
LEMMA ReadLineTable == ASSUME Table, NEW p \in Procs, ReadLine(p) PROVE Table'
<1>1. proc \in [Procs -> Process] /\ proc[p] \in Process /\ proc[p].pc = "prompt" /\ Here(p)
  BY DEF Table, Typed, ReadLine, Here
<1>2. ASSUME NEW line, GoodLine(line), Command(p, line) PROVE Table'
  <2>1. CASE Ends(p)
    BY <1>1, <2>1, EndsTable
  <2>2. CASE Unused # {} /\ Fork(p, Parsed(proc[p], line), Background(line))
    <3>1. Background(line) \in BOOLEAN
      BY DEF Background
    <3>2. PICK me : me = Parsed(proc[p], line)
      OBVIOUS
    <3>3. /\ me \in Process /\ me.parent = proc[p].parent /\ me.left = proc[p].left
          /\ Len(me.history) <= MaxWords
      BY <1>1, <1>2, <3>2, ParsedType DEF GoodLine
    <3> QED BY <1>1, <2>2, <3>1, <3>2, <3>3, ForkTable
  <2> QED BY <1>2, <2>1, <2>2 DEF Command
<1>3. CASE UNCHANGED proc
  BY <1>3, SameTable
<1>4. PICK line \in Lines :
        IF line = <<"!!">> /\ proc[p].history # <<>> THEN Command(p, proc[p].history)
        ELSE IF line \in {<<>>, <<"!!">>} THEN UNCHANGED proc
        ELSE Command(p, line)
  BY DEF ReadLine
<1>5. /\ line \in Seq(STRING) /\ Len(line) <= MaxWords
      /\ proc[p].history \in Seq(STRING) /\ Len(proc[p].history) <= MaxWords
  BY <1>1, OshAssumption DEF Table, Typed, Process
<1>6. \A l \in Seq(STRING) : l # <<>> /\ Len(l) <= MaxWords => GoodLine(l)
  BY OshAssumption DEF GoodLine
<1>7. CASE line = <<"!!">> /\ proc[p].history # <<>>
  BY <1>2, <1>4, <1>5, <1>6, <1>7
<1>8. CASE line \notin {<<>>, <<"!!">>}
  BY <1>2, <1>4, <1>5, <1>6, <1>8
<1>9. CASE line \in {<<>>, <<"!!">>} /\ ~(line = <<"!!">> /\ proc[p].history # <<>>)
  BY <1>3, <1>4, <1>9
<1> QED BY <1>7, <1>8, <1>9

(* Only the place of a process changes, or what it is about to execute.    *)
LEMMA MovesTable ==
  ASSUME Table, NEW p \in Procs, Here(p), NEW new \in Process, proc' = [proc EXCEPT ![p] = new],
         new.parent = proc[p].parent, new.left = proc[p].left, new.history = proc[p].history,
         new.pc \in Places \ {"none", "zombie", "pipewait"},
         new.pc \in {"prompt", "clear"} => Cardinality(Children(p)) = proc[p].left,
         new.pc = "wait" => Cardinality(Children(p)) = proc[p].left + 1,
         new.pc = "run" => Children(p) = {},
         new.pc # "child"
  PROVE  Table'
<1>1. proc \in [Procs -> Process] /\ HasParent
  BY DEF Table, Typed
<1>2. /\ proc' \in [Procs -> Process] /\ proc'[p] = new /\ \A x \in Procs \ {p} : proc'[x] = proc[x]
  BY <1>1
<1>3. Typed'
  BY <1>1, <1>2 DEF Table, Typed
<1>4. HasParent' /\ \A x \in Procs : Children(x)' = Children(x)
  <2>1. \A x \in Procs : SameFamily(x)
    BY <1>2 DEF SameFamily, Here
  <2> QED BY <1>1, <2>1, NoChange
<1>5. \A x \in Procs : Counted(x)'
  BY <1>2, <1>4 DEF Table, Counted
<1> QED BY <1>3, <1>4, <1>5 DEF Table

LEMMA ReapTable ==
  ASSUME Table, NEW p \in Procs, NEW q \in Procs \ {p}, q \in Children(p), proc[q].pc = "zombie",
         proc[p].pc \in {"wait", "pipewait"}, NEW new \in Process,
         proc' = [proc EXCEPT ![p] = new, ![q] = NoProc],
         new.parent = proc[p].parent, new.left = proc[p].left, new.history = proc[p].history,
         new.pc = "clear" \/ (proc[p].pc = "pipewait" /\ new.pc = "run")
  PROVE  Table'
<1>1. proc \in [Procs -> Process] /\ HasParent /\ Here(p) /\ proc[p].left \in Nat
  BY DEF Table, Typed, Here, Process
<1>2. /\ proc' \in [Procs -> Process] /\ proc'[p] = new /\ proc'[q] = NoProc
      /\ \A x \in Procs \ {p, q} : proc'[x] = proc[x]
  BY <1>1, NoProcType
<1>3. Typed'
  BY <1>1, <1>2, NoProcType DEF Table, Typed
<1>4. /\ HasParent' /\ Cardinality(Children(p)') = Cardinality(Children(p)) - 1
      /\ \A x \in Procs \ {p} : Children(x)' = Children(x)
      /\ IsFiniteSet(Children(p)')
  <2>1. \A x \in Procs \ {q} : SameFamily(x)
    BY <1>1, <1>2 DEF SameFamily, Here
  <2>2. Children(p)' = Children(p) \ {q}
    BY <1>1, <1>2, <2>1, Reaps
  <2> QED BY <1>1, <1>2, <2>1, <2>2, Reaps, ChildrenFinite, FS_RemoveElement
<1>5. Cardinality(Children(p)') = proc[p].left /\ (proc[p].pc = "pipewait" => Children(p)' = {})
  BY <1>1, <1>4, FS_EmptySet DEF Table, Counted
<1>6. \A x \in Procs : Counted(x)'
  <2>1. Counted(p)'
    BY <1>2, <1>5 DEF Counted
  <2>2. Counted(q)'
    BY <1>2, NoProcType DEF Counted
  <2>3. \A x \in Procs \ {p, q} : Counted(x)'
    BY <1>2, <1>4 DEF Table, Counted
  <2> QED BY <2>1, <2>2, <2>3
<1> QED BY <1>3, <1>4, <1>6 DEF Table

LEMMA WaitTable == ASSUME Table, NEW p \in Procs, Wait(p) PROVE Table'
<1>1. PICK q \in Children(p) : /\ proc[q].pc = "zombie"
                               /\ proc' = [proc EXCEPT ![p].pc = "clear", ![q] = NoProc]
  BY DEF Wait
<1> DEFINE new == [proc[p] EXCEPT !.pc = "clear"]
<1>2. proc \in [Procs -> Process] /\ proc[p].pc = "wait" /\ q \in Procs \ {p}
  BY <1>1 DEF Table, Typed, Wait, Children
<1>3. /\ new \in Process /\ new.parent = proc[p].parent /\ new.left = proc[p].left
      /\ new.history = proc[p].history /\ new.pc = "clear"
  BY <1>2 DEF Process, Places
<1>4. proc' = [proc EXCEPT ![p] = new, ![q] = NoProc]
  BY <1>1, <1>2
<1>5. q \in Children(p) /\ proc[q].pc = "zombie" /\ proc[p].pc \in {"wait", "pipewait"}
  BY <1>1, <1>2
<1> HIDE DEF new
<1> QED BY <1>2, <1>3, <1>4, <1>5, ReapTable

LEMMA PipeWaitTable == ASSUME Table, NEW p \in Procs, PipeWait(p) PROVE Table'
<1> DEFINE found == proc[p].pipe_args \in Installed
           args == IF found THEN [k \in Slots |-> IF k = 0 THEN proc[p].pipe_args ELSE NULL] ELSE proc[p].args
           in == IF found THEN "pipe" ELSE proc[p].in
           place == IF found THEN "run" ELSE "clear"
           new == [proc[p] EXCEPT !.pc = place, !.args = args, !.in = in]
<1>1. PICK q \in Children(p) :
        /\ proc[q].pc = "zombie"
        /\ proc' = [proc EXCEPT ![p].pc = place, ![p].args = args, ![p].in = in, ![q] = NoProc]
  BY DEF PipeWait
<1>2. proc \in [Procs -> Process] /\ proc[p].pc = "pipewait" /\ q \in Procs \ {p}
  BY <1>1 DEF Table, Typed, PipeWait, Children
<1>3. args \in [Slots -> Word] /\ in \in Word /\ place \in Places /\ place \in {"run", "clear"}
  BY <1>2 DEF Process, Word, Places
<1> HIDE DEF args, in, place
<1>0. proc[p] \in Process
  BY <1>2
<1>4. /\ new \in Process /\ new.parent = proc[p].parent /\ new.left = proc[p].left
      /\ new.history = proc[p].history /\ new.pc = place
  BY <1>0, <1>3 DEF Process
<1>5. proc' = [proc EXCEPT ![p] = new, ![q] = NoProc]
  BY <1>1, <1>2
<1>6. /\ q \in Children(p) /\ proc[q].pc = "zombie" /\ proc[p].pc \in {"wait", "pipewait"}
      /\ new.pc = "clear" \/ (proc[p].pc = "pipewait" /\ new.pc = "run")
  BY <1>1, <1>2, <1>3, <1>4
<1> HIDE DEF new
<1> QED BY <1>2, <1>4, <1>5, <1>6, ReapTable

LEMMA ClearTable == ASSUME Table, NEW p \in Procs, Clear(p) PROVE Table'
<1> DEFINE args == [k \in Slots |-> IF proc[p].args[k] = NULL THEN NULL ELSE "freed"]
           new == [proc[p] EXCEPT !.pc = "prompt", !.args = args]
<1>1. proc \in [Procs -> Process] /\ proc[p].pc = "clear" /\ Here(p)
  BY DEF Table, Typed, Clear, Here
<1>2. CASE Ends(p)
  BY <1>1, <1>2, EndsTable
<1>3. CASE proc' = [proc EXCEPT ![p].pc = "prompt", ![p].args = args]
  <2>1. args \in [Slots -> Word]
    BY DEF Word
  <2> HIDE DEF args
  <2>2. /\ new \in Process /\ new.parent = proc[p].parent /\ new.left = proc[p].left
        /\ new.history = proc[p].history /\ new.pc = "prompt" /\ new.pc \in Places
    BY <1>1, <2>1 DEF Process, Places
  <2>3. proc' = [proc EXCEPT ![p] = new]
    BY <1>1, <1>3
  <2>4. Cardinality(Children(p)) = proc[p].left
    BY <1>1 DEF Table, Counted
  <2> HIDE DEF new
  <2> QED BY <1>1, <2>2, <2>3, <2>4, MovesTable
<1> QED BY <1>2, <1>3 DEF Clear

LEMMA ChildFacts ==
  ASSUME Table, NEW p \in Procs, IsChild(p)
  PROVE  /\ proc \in [Procs -> Process] /\ proc[p].pc = "child" /\ Here(p)
         /\ Children(p) = {} /\ Cardinality(Children(p)) = 0 /\ proc[p].left = 0
BY FS_EmptySet DEF Table, Typed, Counted, IsChild, Here

LEMMA ExecTable == ASSUME Table, NEW p \in Procs, Exec(p) PROVE Table'
<1>1. /\ proc \in [Procs -> Process] /\ proc[p] \in Process /\ Here(p)
      /\ Children(p) = {} /\ Cardinality(Children(p)) = 0 /\ proc[p].left = 0
  BY ChildFacts DEF Exec
<1> DEFINE place == IF proc[p].args[0] \in Installed THEN "run" ELSE "clear"
           new == [proc[p] EXCEPT !.pc = place]
<1>2. place \in Places /\ place \in {"run", "clear"}
  BY DEF Places
<1>3. proc' = [proc EXCEPT ![p].pc = place]
  BY DEF Exec, Continues
<1> HIDE DEF place
<1>4. /\ new \in Process /\ new.parent = proc[p].parent /\ new.left = proc[p].left
      /\ new.history = proc[p].history /\ new.pc = place
  BY <1>1, <1>2 DEF Process
<1>5. proc' = [proc EXCEPT ![p] = new]
  BY <1>1, <1>3
<1>6. /\ new.pc \in Places \ {"none", "zombie", "pipewait"} /\ new.pc # "child"
      /\ new.pc \in {"prompt", "clear"} => Cardinality(Children(p)) = proc[p].left
      /\ new.pc = "wait" => Cardinality(Children(p)) = proc[p].left + 1
      /\ new.pc = "run" => Children(p) = {}
  BY <1>1, <1>2, <1>4
<1> HIDE DEF new
<1> QED BY <1>1, <1>4, <1>5, <1>6, MovesTable

LEMMA RedirectTable == ASSUME Table, NEW p \in Procs, Redirect(p) PROVE Table'
<1>1. /\ proc \in [Procs -> Process] /\ proc[p] \in Process /\ Here(p)
      /\ Children(p) = {} /\ Cardinality(Children(p)) = 0 /\ proc[p].left = 0
  BY ChildFacts DEF Redirect
<1> DEFINE name == proc[p].args[proc[p].args_]
           mark == proc[p].args_ - 1
           in == IF Mark(p) = "<" THEN name ELSE "terminal"
           out == IF Mark(p) = ">" THEN name ELSE "terminal"
           args == [proc[p].args EXCEPT ![mark] = NULL, ![mark + 1] = NULL]
           reads == [proc[p] EXCEPT !.pc = "run", !.in = in, !.out = out, !.args = args]
           fails == [proc[p] EXCEPT !.pc = "prompt"]
<1>2. name \in Word
  BY <1>1 DEF Process
<1>3. in \in Word /\ out \in Word
  BY <1>2 DEF Word
<1>4. args \in [Slots -> Word]
  BY <1>1 DEF Process, Word
<1>5. CASE Continues(p, "prompt")
  <2>1. /\ fails \in Process /\ fails.parent = proc[p].parent /\ fails.left = proc[p].left
        /\ fails.history = proc[p].history /\ fails.pc = "prompt" /\ fails.pc \in Places
    BY <1>1 DEF Process, Places
  <2>2. proc' = [proc EXCEPT ![p] = fails]
    BY <1>1, <1>5 DEF Continues
  <2> HIDE DEF fails
  <2> QED BY <1>1, <2>1, <2>2, MovesTable
<1>6. CASE Ends(p)
  BY <1>1, <1>6, EndsTable
<1>7. CASE proc' = [proc EXCEPT ![p].pc = "run", ![p].in = in, ![p].out = out, ![p].args = args]
  <2> HIDE DEF in, out, args
  <2>1. /\ reads \in Process /\ reads.parent = proc[p].parent /\ reads.left = proc[p].left
        /\ reads.history = proc[p].history /\ reads.pc = "run" /\ reads.pc \in Places
    BY <1>1, <1>3, <1>4 DEF Process, Places
  <2>2. proc' = [proc EXCEPT ![p] = reads]
    BY <1>1, <1>7
  <2> HIDE DEF reads
  <2> QED BY <1>1, <2>1, <2>2, MovesTable
<1> QED BY <1>1, <1>5, <1>6, <1>7 DEF Redirect

LEMMA PipeTable == ASSUME Table, NEW p \in Procs, Pipe(p) PROVE Table'
<1>1. /\ proc \in [Procs -> Process] /\ proc[p] \in Process /\ Here(p) /\ proc[p].pc = "child"
      /\ Children(p) = {} /\ Cardinality(Children(p)) = 0 /\ proc[p].left = 0
      /\ Typed /\ HasParent
  BY ChildFacts DEF Pipe, Table
<1>2. CASE Unused = {}
  BY <1>1, <1>2, EndsTable DEF Pipe
<1>3. CASE Unused # {}
  <2>1. PICK q \in Procs : q = Min(Unused) /\ proc[q].pc = "none" /\ q # p
    BY <1>1, <1>3, FreeEntry
  <2> DEFINE mine == [proc[p] EXCEPT !.pc = "pipewait"]
             runs == [proc[p] EXCEPT !.pc = "run", !.parent = p, !.out = "pipe"]
             its == IF proc[p].args[0] \in Installed THEN runs ELSE Zombie(p)
  <2>2. /\ mine \in Process /\ mine.parent = proc[p].parent /\ mine.history = proc[p].history
        /\ mine.pc = "pipewait" /\ mine.left = 0
    BY <1>1 DEF Process, Places
  <2>3. /\ runs \in Process /\ runs.parent = p /\ runs.history = proc[p].history /\ runs.pc = "run"
    BY <1>1 DEF Process, Places, Word
  <2>4. /\ its \in Process /\ its.parent = p /\ its.pc \in {"run", "zombie"}
        /\ Len(its.history) <= MaxWords
    <3> HIDE DEF runs
    <3>1. Len(proc[p].history) <= MaxWords
      BY <1>1 DEF Typed
    <3> QED BY <2>3, <3>1, ZombieType
  <2>5. proc' = [proc EXCEPT ![p] = mine, ![q] = its]
    BY <1>1, <1>3, <2>1 DEF Pipe
  <2> HIDE DEF mine, runs, its
  <2>6. /\ proc' \in [Procs -> Process] /\ proc'[p] = mine /\ proc'[q] = its
        /\ \A x \in Procs \ {p, q} : proc'[x] = proc[x]
    BY <1>1, <2>1, <2>2, <2>4, <2>5
  <2>7. Typed'
    BY <1>1, <2>2, <2>4, <2>6 DEF Typed
  <2>8. /\ HasParent' /\ Cardinality(Children(p)') = 1
        /\ \A x \in Procs \ {p} : Children(x)' = Children(x)
        /\ Children(q)' = {}
    <3>1. Here(p) /\ proc'[q].pc # "none" /\ proc'[q].parent = p
      BY <1>1, <2>4, <2>6
    <3>2. \A x \in Procs \ {q} : SameFamily(x)
      BY <1>1, <2>2, <2>6 DEF SameFamily, Here
    <3>3. /\ HasParent' /\ Cardinality(Children(p)') = Cardinality(Children(p)) + 1
          /\ \A x \in Procs \ {p} : Children(x)' = Children(x)
          /\ Children(q)' = {}
      BY <1>1, <2>1, <3>1, <3>2, Adopts
    <3> QED BY <1>1, <3>3
  <2>9. \A x \in Procs : Counted(x)'
    <3>1. Counted(p)'
      BY <2>2, <2>6, <2>8 DEF Counted
    <3>2. Counted(q)'
      BY <2>4, <2>6, <2>8, FS_EmptySet DEF Counted
    <3>3. \A x \in Procs \ {p, q} : Counted(x)'
      BY <2>6, <2>8 DEF Table, Counted
    <3> QED BY <3>1, <3>2, <3>3
  <2> QED BY <2>7, <2>8, <2>9 DEF Table
<1> QED BY <1>2, <1>3

LEMMA ShellTable == ASSUME Table, NEW p \in Procs, ShellStep(p) PROVE Table'
<1>1. CASE ChildCrash(p)
  BY <1>1, ChildFacts, EndsTable DEF ChildCrash
<1> QED BY <1>1, WaitTable, ClearTable, ExecTable, RedirectTable, PipeTable, PipeWaitTable
        DEF ShellStep

LEMMA ExitTable == ASSUME Table, NEW p \in Procs, Exit(p) PROVE Table'
BY EndsTable DEF Exit, Here

LEMMA TableStep == ASSUME Table, [Next]_vars PROVE Table'
<1>1. CASE Type
  BY <1>1, ReadLineTable DEF Type
<1>2. CASE UNCHANGED proc
  BY <1>2, SameTable
<1>3. CASE SomeStep
  <2>1. PICK p \in Procs : ProcessStep(p)
    BY <1>3 DEF SomeStep
  <2>2. CASE ShellStep(p)
    BY <2>2, ShellTable
  <2>3. CASE OpenStep(p)
    BY <1>2, <2>3, ShellTable DEF OpenStep, ShellStep
  <2>4. CASE UsesFile(p)
    BY <1>2, <2>4 DEF UsesFile
  <2>5. CASE Exit(p)
    BY <2>5, ExitTable
  <2> QED BY <2>1, <2>2, <2>3, <2>4, <2>5 DEF ProcessStep
<1> QED BY <1>1, <1>2, <1>3 DEF Next, Machine, vars

-----------------------------------------------------------------------------
(* The steps of the file in /proc.                                         *)
LEMMA FileTypeStep == ASSUME F!FileTypeOK, [Next]_vars PROVE F!FileTypeOK'
<1>1. /\ file \in {"hello", "jiffies", "seconds", "pid"} /\ loaded \in BOOLEAN
      /\ completed \in {0, 1} /\ given_up \in BOOLEAN
      /\ l_pid \in {"live", "none"} /\ at \in [Procs -> F!Places]
  BY DEF F!FileTypeOK
<1>2. \A p : \A from : \A to \in F!Places : F!Moves(p, from, to) => at' \in [Procs -> F!Places]
  BY <1>1 DEF F!Moves
<1>3. {"out", "open", "reset", "fill", "lookup", "answer", "eof"} = F!Places
  BY DEF F!Places
<1>4. CASE UNCHANGED <<loaded, fileVars>>
  BY <1>1, <1>4 DEF F!FileTypeOK, fileVars
<1>5. CASE F!Load \/ F!Unload \/ F!Vanish
  <2>1. at' \in [Procs -> F!Places]
    BY <1>1, <1>3, <1>5 DEF F!Load, F!Unload, F!Vanish
  <2> QED BY <1>1, <1>5, <2>1 DEF F!FileTypeOK, F!Load, F!Unload, F!Vanish
<1>6. ASSUME NEW p \in Procs, F!Open(p) PROVE F!FileTypeOK'
  BY <1>1, <1>2, <1>3, <1>6 DEF F!FileTypeOK, F!Open
<1>7. ASSUME NEW p \in Procs, F!ReadStep(p) PROVE F!FileTypeOK'
  <2>1. CASE F!Test(p)
    <3>1. (IF completed = 1 THEN "reset" ELSE IF file = "pid" THEN "lookup" ELSE "fill") \in F!Places
      BY <1>3
    <3> QED BY <1>1, <1>2, <2>1, <3>1 DEF F!FileTypeOK, F!Test
  <2>2. CASE F!Reset(p)
    BY <1>1, <1>2, <1>3, <2>2 DEF F!FileTypeOK, F!Reset
  <2>3. CASE \E from : F!Completes(p, from)
    BY <1>1, <1>2, <1>3, <2>3 DEF F!FileTypeOK, F!Completes
  <2>4. CASE F!pid_task(p)
    BY <1>1, <1>2, <1>3, <2>4 DEF F!FileTypeOK, F!pid_task
  <2>5. CASE F!CopyFails(p) \/ F!Quit(p)
    <3>1. at' \in [Procs -> F!Places]
      BY <1>2, <1>3, <2>5 DEF F!CopyFails, F!Quit
    <3>2. given_up' \in BOOLEAN /\ completed' \in {0, 1} /\ UNCHANGED <<file, loaded, l_pid>>
      BY <1>1, <2>5 DEF F!CopyFails, F!Quit
    <3> QED BY <1>1, <3>1, <3>2 DEF F!FileTypeOK
  <2> QED BY <1>7, <2>1, <2>2, <2>3, <2>4, <2>5
          DEF F!ReadStep, F!hello_read, F!jiffies_read, F!seconds_read, F!pid_read
<1>8. ASSUME NEW p \in Procs, F!Write(p) PROVE F!FileTypeOK'
  BY <1>1, <1>2, <1>3, <1>8 DEF F!FileTypeOK, F!Write
<1>9. ASSUME NEW p \in Procs, F!Close(p), UNCHANGED loaded PROVE F!FileTypeOK'
  BY <1>1, <1>3, <1>9 DEF F!FileTypeOK, F!Close
<1>10. ASSUME NEW p \in Procs, ShellStep(p) PROVE UNCHANGED loaded
  BY <1>10 DEF ShellStep, Wait, Clear, ChildCrash, Exec, Redirect, Pipe, PipeWait, IsChild
<1>11. CASE SomeStep
  <2>1. PICK p \in Procs : ProcessStep(p)
    BY <1>11 DEF SomeStep
  <2> QED BY <1>4, <1>6, <1>7, <1>8, <1>9, <1>10, <2>1
          DEF ProcessStep, OpenStep, UsesFile, Exit
<1>12. CASE Type
  BY <1>4, <1>12 DEF Type, ReadLine
<1> QED BY <1>4, <1>5, <1>11, <1>12 DEF Next, Machine, vars, fileVars

-----------------------------------------------------------------------------
(* Wherever the processes are, the table of processes is a forest in which *)
(* every shell has the children its own counters say: for any number of    *)
(* processes, any lines and any programs.                                  *)
THEOREM TableHolds == Spec => []ProcessTable
<1> DEFINE Inv == Table /\ F!FileTypeOK
<1>1. Init => Inv
  <2>1. Init => F!FileTypeOK
    BY DEF Init, F!FileInit, F!FileTypeOK, F!Places
  <2> QED BY <2>1, InitTable
<1>2. Inv /\ [Next]_vars => Inv'
  BY TableStep, FileTypeStep
<1>3. Inv => ProcessTable
  BY DEF Table, Typed, Process, HasParent, Counted, Here, ProcessTable
<1> QED BY <1>1, <1>2, <1>3, PTL DEF Spec

-----------------------------------------------------------------------------
(* While the flag is set and nobody has given up, a reader is on its way   *)
(* to reset it: the one that set it last, if nobody else.                  *)
FlagHeld ==
  loaded /\ completed = 1 /\ ~given_up =>
    \E p \in Procs : Reads(p) /\ at[p] \in {"open", "reset"}

(* What decides whether a program reads the file, which only its own end   *)
(* changes.                                                                *)
Keeps(p) ==
  /\ proc'[p].pc = proc[p].pc /\ proc'[p].args = proc[p].args
  /\ proc'[p].in = proc[p].in /\ proc'[p].out = proc[p].out

LEMMA KeepsReading ==
  ASSUME NEW p \in Procs, Reads(p), Keeps(p)
  PROVE  Reads(p)'
<1>1. Operands(p)' = Operands(p)
  BY DEF Keeps, Operands
<1> QED BY <1>1 DEF Keeps, Reads, Writes, Running

LEMMA EndsKeeps ==
  ASSUME Typed, HasParent, NEW x \in Procs, Ends(x), NEW p \in Procs \ {x}, Running(p)
  PROVE  Keeps(p)
<1>1. \/ proc'[p] = proc[p]
      \/ proc'[p] = [proc[p] EXCEPT !.parent = 0]
  BY EndsEffect DEF Running
<1>2. proc[p] \in Process
  BY DEF Typed
<1> QED BY <1>1, <1>2 DEF Keeps, Process

LEMMA CommandKeeps ==
  ASSUME Typed, HasParent, NEW x \in Procs, NEW line, Command(x, line),
         NEW p \in Procs \ {x}, Running(p)
  PROVE  Keeps(p)
<1>1. CASE Ends(x)
  BY <1>1, EndsKeeps
<1>2. CASE Unused # {} /\ Fork(x, Parsed(proc[x], line), Background(line))
  <2>1. PICK q \in Procs : q = Min(Unused) /\ proc[q].pc = "none"
    BY <1>2, FreeEntry
  <2>2. p # q
    BY <2>1 DEF Running
  <2>3. proc'[p] = proc[p]
    BY <1>2, <2>1, <2>2 DEF Fork, Typed
  <2> QED BY <2>3 DEF Keeps
<1> QED BY <1>1, <1>2 DEF Command

LEMMA ShellKeeps ==
  ASSUME Table, NEW x \in Procs, ShellStep(x), NEW p \in Procs, Running(p)
  PROVE  p # x /\ Keeps(p)
<1>1. Typed /\ HasParent /\ proc \in [Procs -> Process]
  BY DEF Table, Typed
<1>2. p # x
  BY DEF ShellStep, Wait, Clear, ChildCrash, Exec, Redirect, Pipe, PipeWait, IsChild, Running
<1>3. CASE Ends(x)
  BY <1>1, <1>2, <1>3, EndsKeeps
<1>4. CASE proc'[p] = proc[p]
  BY <1>2, <1>4 DEF Keeps
<1>5. CASE Wait(x) \/ PipeWait(x)
  <2>1. PICK q \in Procs : proc[q].pc = "zombie" /\ (q # p /\ p # x => proc'[p] = proc[p])
    BY <1>1, <1>5 DEF Wait, PipeWait, Children
  <2> QED BY <1>2, <1>4, <2>1 DEF Running
<1>6. CASE Clear(x) \/ ChildCrash(x) \/ Exec(x)
  BY <1>1, <1>2, <1>3, <1>4, <1>6 DEF Clear, ChildCrash, Exec, Continues
<1>7. CASE Redirect(x)
  BY <1>1, <1>2, <1>3, <1>4, <1>7 DEF Redirect, Continues
<1>8. CASE Pipe(x)
  <2>1. CASE Unused = {}
    BY <1>2, <1>3, <1>8, <2>1 DEF Pipe
  <2>2. CASE Unused # {}
    <3>1. PICK q \in Procs : q = Min(Unused) /\ proc[q].pc = "none"
      BY <2>2, FreeEntry
    <3>2. p # q
      BY <3>1 DEF Running
    <3> QED BY <1>1, <1>2, <1>4, <1>8, <2>2, <3>1, <3>2 DEF Pipe
  <2> QED BY <2>1, <2>2
<1> QED BY <1>2, <1>5, <1>6, <1>7, <1>8 DEF ShellStep

LEMMA FlagStep ==
  ASSUME Table, F!FileTypeOK, FlagHeld, [Next]_vars
  PROVE  FlagHeld'
<1> SUFFICES ASSUME loaded', completed' = 1, ~given_up'
             PROVE  \E p \in Procs : Reads(p)' /\ at'[p] \in {"open", "reset"}
  BY DEF FlagHeld
<1>1. at \in [Procs -> F!Places] /\ completed \in {0, 1} /\ Typed /\ HasParent
  BY DEF F!FileTypeOK, Table
<1>2. ASSUME NEW p \in Procs, Reads(p), at[p] \in {"open", "reset"},
             Keeps(p), at'[p] = at[p]
      PROVE  \E r \in Procs : Reads(r)' /\ at'[r] \in {"open", "reset"}
  BY <1>2, KeepsReading
<1>3. CASE UNCHANGED <<proc, loaded, completed, given_up, at>>
  <2>1. PICK p \in Procs : Reads(p) /\ at[p] \in {"open", "reset"}
    BY <1>3 DEF FlagHeld
  <2> QED BY <1>2, <1>3, <2>1 DEF Keeps
<1>4. CASE Type
  <2>1. PICK x \in Procs : ReadLine(x) /\ UNCHANGED fileVars
    BY <1>4 DEF Type
  <2>2. PICK p \in Procs : Reads(p) /\ at[p] \in {"open", "reset"}
    BY <2>1 DEF FlagHeld, fileVars, ReadLine
  <2>3. p # x /\ Running(p)
    BY <2>1, <2>2 DEF ReadLine, Reads, Running
  <2>4. UNCHANGED proc \/ \E line : Command(x, line)
    BY <2>1 DEF ReadLine
  <2>5. Keeps(p)
    BY <1>1, <2>3, <2>4, CommandKeeps DEF Keeps
  <2> QED BY <1>2, <2>1, <2>2, <2>5 DEF fileVars
<1>5. CASE Machine
  <2>1. CASE F!Load \/ F!Unload
    BY <2>1 DEF F!Load, F!Unload
  <2>2. CASE F!Vanish
    BY <1>3, <1>5, <2>2 DEF F!Vanish, Machine
  <2> QED BY <1>5, <2>1, <2>2 DEF Machine
<1>6. CASE SomeStep
  <2>1. PICK x \in Procs : ProcessStep(x)
    BY <1>6 DEF SomeStep
  <2>2. CASE ShellStep(x) /\ UNCHANGED fileVars
    <3>1. UNCHANGED loaded
      BY <2>2 DEF ShellStep, Wait, Clear, ChildCrash, Exec, Redirect, Pipe, PipeWait, IsChild
    <3>2. PICK p \in Procs : Reads(p) /\ at[p] \in {"open", "reset"}
      BY <2>2, <3>1 DEF FlagHeld, fileVars
    <3>3. Keeps(p)
      BY <2>2, <3>2, ShellKeeps DEF Reads
    <3> QED BY <1>2, <2>2, <3>2, <3>3 DEF fileVars
  <2>3. CASE OpenStep(x)
    <3>1. F!Open(x) /\ (ShellStep(x) \/ UNCHANGED proc)
      BY <2>3 DEF OpenStep, ShellStep
    <3>2. PICK p \in Procs : Reads(p) /\ at[p] \in {"open", "reset"}
      BY <3>1 DEF FlagHeld, F!Open
    <3>3. Keeps(p)
      BY <3>1, <3>2, ShellKeeps DEF Reads, Keeps
    <3>4. at'[p] = at[p]
      BY <1>1, <3>1, <3>2 DEF F!Open, F!Moves
    <3> QED BY <1>2, <3>2, <3>3, <3>4
  <2>4. CASE Reads(x) /\ F!ReadStep(x) /\ UNCHANGED proc
    <3>1. Reads(x)'
      BY <2>4, KeepsReading DEF Keeps
    <3>2. CASE F!Test(x)
      <4>1. PICK p \in Procs : Reads(p) /\ at[p] \in {"open", "reset"} /\ completed = 1
        BY <3>2 DEF FlagHeld, F!Test
      <4>2. at' = [at EXCEPT ![x] = "reset"]
        BY <3>2, <4>1 DEF F!Test, F!Moves
      <4> QED BY <1>1, <3>1, <4>2
    <3>3. CASE F!Reset(x)
      BY <3>3 DEF F!Reset
    <3>4. CASE \E from : F!Completes(x, from)
      BY <1>1, <3>1, <3>4 DEF F!Completes, F!Moves
    <3>5. CASE F!pid_task(x)
      <4>1. PICK p \in Procs : Reads(p) /\ at[p] \in {"open", "reset"}
        BY <3>5 DEF FlagHeld, F!pid_task
      <4>2. at'[p] = at[p]
        BY <1>1, <3>5, <4>1 DEF F!pid_task, F!Moves
      <4> QED BY <1>2, <2>4, <4>1, <4>2 DEF Keeps
    <3>6. CASE F!CopyFails(x)
      BY <3>6 DEF F!CopyFails
    <3>7. CASE F!Quit(x)
      BY <3>7 DEF F!Quit
    <3> QED BY <2>4, <3>2, <3>3, <3>4, <3>5, <3>6, <3>7
            DEF F!ReadStep, F!hello_read, F!jiffies_read, F!seconds_read, F!pid_read
  <2>5. CASE Writes(x) /\ F!Write(x) /\ UNCHANGED proc
    <3>1. PICK p \in Procs : Reads(p) /\ at[p] \in {"open", "reset"}
      BY <2>5 DEF FlagHeld, F!Write
    <3>2. p # x
      BY <2>5, <3>1 DEF Reads
    <3>3. at'[p] = at[p]
      BY <1>1, <2>5, <3>2 DEF F!Write, F!Moves
    <3> QED BY <1>2, <2>5, <3>1, <3>3 DEF Keeps
  <2>6. CASE Finished(x) /\ Exit(x) /\ F!Close(x)
    <3>1. PICK p \in Procs : Reads(p) /\ at[p] \in {"open", "reset"}
      BY <2>6 DEF FlagHeld, F!Close, Exit
    <3>2. p # x
      BY <2>6, <3>1 DEF Finished
    <3>3. at'[p] = at[p]
      BY <1>1, <2>6, <3>2 DEF F!Close
    <3>4. Keeps(p)
      BY <1>1, <2>6, <3>1, <3>2, EndsKeeps DEF Exit, Reads
    <3> QED BY <1>2, <3>1, <3>3, <3>4
  <2> QED BY <2>1, <2>2, <2>3, <2>4, <2>5, <2>6 DEF ProcessStep, UsesFile
<1> QED BY <1>3, <1>4, <1>5, <1>6 DEF Next, vars, fileVars

(* The flag that all readers share is 0 again when the last of them has    *)
(* stopped, whichever of them set and reset it, for any number of readers  *)
(* and any order of their calls, unless one of them stopped at an error of *)
(* its own or before its end of the file while the flag was set: sharing   *)
(* it without a lock, as project1/hello.c and the other modules do, is not *)
(* what leaves it set.                                                     *)
THEOREM FlagIsReset == Spec => []FlagReset
<1> DEFINE Inv == Table /\ F!FileTypeOK /\ FlagHeld
<1>1. Init => Inv
  <2>1. Init => F!FileTypeOK /\ FlagHeld
    BY DEF Init, F!FileInit, F!FileTypeOK, F!Places, FlagHeld
  <2> QED BY <2>1, InitTable
<1>2. Inv /\ [Next]_vars => Inv'
  BY TableStep, FileTypeStep, FlagStep
<1>3. Inv => FlagReset
  BY DEF F!FileTypeOK, FlagHeld, FlagReset
<1> QED BY <1>1, <1>2, <1>3, PTL DEF Spec
=============================================================================

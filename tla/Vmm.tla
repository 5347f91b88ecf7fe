-------------------------------- MODULE Vmm --------------------------------
(***************************************************************************)
(* project8/vmm.c: a virtual memory manager.  Each address of the input    *)
(* file is split into a page and an offset; the page is looked up in the   *)
(* TLB, then in the page table; a page that is not in memory is read from  *)
(* BACKING_STORE.bin into the frame used longest ago.  The program is      *)
(* sequential, so a step is one turn of the loop of main().                *)
(*                                                                         *)
(* The data of a frame is represented by the page it was read from: a page *)
(* is always read as a whole, and nothing is ever written.  The variable   *)
(* pc of the program equals "time" between two turns and is left out.      *)
(***************************************************************************)
EXTENDS Integers, Sequences, FiniteSets, SequencesExt

CONSTANTS SIZE_OF_PAGE,
          NUM_OF_PAGE,
          SIZE_OF_TLB,
          NUM_OF_FRAME,
          Addresses,    \* the integers that the input file may contain
          MaxTime       \* bound: the length of the input file

ASSUME SizesAssumption ==
  /\ SIZE_OF_PAGE \in Nat \ {0}
  /\ NUM_OF_PAGE \in Nat \ {0}
  /\ SIZE_OF_TLB \in Nat \ {0}
  /\ NUM_OF_FRAME \in Nat \ {0}
  /\ Addresses \subseteq Int
  /\ MaxTime \in Nat

SIZE_OF_MEM == NUM_OF_PAGE * SIZE_OF_PAGE
NOT_BE_USED == -1

Pages == 0 .. NUM_OF_PAGE - 1
Frames == 0 .. NUM_OF_FRAME - 1
TlbIndex == 0 .. SIZE_OF_TLB - 1

VARIABLES
  TLB,              \* its entries: page_num, frame_num, last_used_time
  page_table,       \* for each page: frame_num, valid
  physical_memory,  \* for each frame: the page in it, last_used_time
  page_fault,       \* statistics
  TLB_hit,
  time,             \* one per access
  output            \* the last line of output.txt, << >> before the first

vars == <<TLB, page_table, physical_memory, page_fault, TLB_hit, time, output>>

Times == NOT_BE_USED .. MaxTime - 1

TypeOK ==
  /\ TLB \in [TlbIndex -> [page_num : Pages \cup {NOT_BE_USED},
                           frame_num : Frames \cup {NOT_BE_USED},
                           last_used_time : Times]]
  /\ page_table \in [Pages -> [frame_num : Frames \cup {NOT_BE_USED}, valid : BOOLEAN]]
  /\ physical_memory \in [Frames -> [page : Pages \cup {NOT_BE_USED}, last_used_time : Times]]
  /\ page_fault \in 0 .. time
  /\ TLB_hit \in 0 .. time
  /\ time \in 0 .. MaxTime

UnusedEntry ==
  [page_num |-> NOT_BE_USED, frame_num |-> NOT_BE_USED, last_used_time |-> NOT_BE_USED]

Init ==
  /\ TLB = [i \in TlbIndex |-> UnusedEntry]
  /\ page_table = [p \in Pages |-> [frame_num |-> NOT_BE_USED, valid |-> FALSE]]
  /\ physical_memory = [f \in Frames |-> [page |-> NOT_BE_USED, last_used_time |-> NOT_BE_USED]]
  /\ page_fault = 0
  /\ TLB_hit = 0
  /\ time = 0
  /\ output = << >>

-----------------------------------------------------------------------------
(* The two masks and the shift, on an address of any sign.                 *)
page_number_in(address) == (address % SIZE_OF_MEM) \div SIZE_OF_PAGE
offset_in(address) == (address % SIZE_OF_MEM) % SIZE_OF_PAGE

(* The search for the earliest last_used_time that both replacements make: *)
(* the first index among those with the least time, which must be before   *)
(* now; index 0 when there is none.                                        *)
Earliest(table, i) ==
  LET used(j) == table[j].last_used_time IN
  IF \E j \in DOMAIN table : used(j) < time
    THEN /\ used(i) < time
         /\ \A j \in DOMAIN table : used(i) < used(j) \/ (used(i) = used(j) /\ i <= j)
    ELSE i = 0

\* MUTANT: the frame number is read before page_replacement().
StaleEntry(p, f) ==
  [page_num |-> p, frame_num |-> page_table[p].frame_num, last_used_time |-> time]

(* TLB_replacement(): the entry that goes into the slot it chose.          *)
Entry(p, f) == [page_num |-> p, frame_num |-> f, last_used_time |-> time]

(* page_replacement() on frame v: whoever used the frame loses it.         *)
Invalidated(v) ==
  [p \in Pages |-> IF page_table[p].frame_num = v
                     THEN [page_table[p] EXCEPT !.valid = FALSE]
                     ELSE page_table[p]]

(* The TLB forgets the frame as well.                                     *)
Flushed(v) == [i \in TlbIndex |-> IF TLB[i].frame_num = v THEN UnusedEntry ELSE TLB[i]]

\* MUTANT: the page is read into the frame only when the frame was empty.
LoadedIfEmpty(v, p) ==
  IF physical_memory[v].page = NOT_BE_USED
    THEN [physical_memory EXCEPT ![v].page = p] ELSE physical_memory

Loaded(v, p) == [physical_memory EXCEPT ![v].page = p]

\* MUTANT: the time of the last use is not recorded (first in, first out).
access_untimed(memory, f, address) ==
  /\ physical_memory' =
       [memory EXCEPT ![f].last_used_time = IF @ = NOT_BE_USED THEN time ELSE @]
  /\ output' = [address |-> address,
                physical |-> f * SIZE_OF_PAGE + offset_in(address),
                value |-> <<memory[f].page, offset_in(address)>>]
  /\ time' = time + 1

\* MUTANT: the clock advances before the access.
access_late(memory, f, address) ==
  /\ physical_memory' = [memory EXCEPT ![f].last_used_time = time + 1]
  /\ output' = [address |-> address,
                physical |-> f * SIZE_OF_PAGE + offset_in(address),
                value |-> <<memory[f].page, offset_in(address)>>]
  /\ time' = time + 1

(* access_memory(), then the line that main() prints.                      *)
access_memory(memory, f, address) ==
  /\ physical_memory' = [memory EXCEPT ![f].last_used_time = time]
  /\ output' = [address |-> address,
                physical |-> f * SIZE_OF_PAGE + offset_in(address),
                value |-> <<memory[f].page, offset_in(address)>>]
  /\ time' = time + 1

-----------------------------------------------------------------------------
Cached(p) == {i \in TlbIndex : TLB[i].page_num = p}

(* get_frame_num(): the first entry of the TLB for the page.               *)
Hit(address) ==
  \E i \in Cached(page_number_in(address)) :
    /\ \A j \in Cached(page_number_in(address)) : i <= j
    /\ TLB' = [TLB EXCEPT ![i].last_used_time = time]
    /\ TLB_hit' = TLB_hit + 1
    /\ access_memory(physical_memory, TLB[i].frame_num, address)
    /\ UNCHANGED <<page_table, page_fault>>

(* get_frame_num(): not in the TLB, in memory.                             *)
Miss(address) ==
  LET p == page_number_in(address)
      f == page_table[p].frame_num
  IN
  /\ Cached(p) = {}
  /\ page_table[p].valid
  /\ \E i \in TlbIndex :
       Earliest(TLB, i) /\ TLB' = [TLB EXCEPT ![i] = Entry(p, f)]
  /\ access_memory(physical_memory, f, address)
  /\ UNCHANGED <<page_table, page_fault, TLB_hit>>

(* get_frame_num(): not in memory, page_replacement() finds a frame.       *)
Fault(address) ==
  LET p == page_number_in(address) IN
  /\ Cached(p) = {}
  /\ ~page_table[p].valid
  /\ page_fault' = page_fault + 1
  /\ \E v \in Frames :
       /\ Earliest(physical_memory, v)
       /\ page_table' = [Invalidated(v) EXCEPT ![p] = [frame_num |-> v, valid |-> TRUE]]
       /\ \E i \in TlbIndex :
            Earliest(Flushed(v), i) /\ TLB' = [Flushed(v) EXCEPT ![i] = Entry(p, v)]
       /\ access_memory(Loaded(v, p), v, address)
  /\ UNCHANGED TLB_hit

(* The end of the input file.                                              *)
Finished == time = MaxTime /\ UNCHANGED vars

Access(address) == time < MaxTime /\ (Hit(address) \/ Miss(address) \/ Fault(address))

Next == (\E address \in Addresses : Access(address)) \/ Finished

Spec == Init /\ [][Next]_vars

-----------------------------------------------------------------------------
(* A TLB entry agrees with the page table, and a page has one entry at     *)
(* most: a frame that page_replacement() gave away is not reached any more *)
(* through the TLB.                                                        *)
TlbCoherent ==
  \A i \in TlbIndex :
    LET e == TLB[i] IN
    e.page_num # NOT_BE_USED =>
      /\ page_table[e.page_num] = [frame_num |-> e.frame_num, valid |-> TRUE]
      /\ Cached(e.page_num) = {i}

(* A valid page is in the frame the page table names, so no two valid      *)
(* pages share a frame; and a frame that holds a page is known as such.    *)
PageTableCoherent ==
  /\ \A p \in Pages : page_table[p].valid =>
       page_table[p].frame_num \in Frames /\ physical_memory[page_table[p].frame_num].page = p
  /\ \A f \in Frames : physical_memory[f].page # NOT_BE_USED =>
       page_table[physical_memory[f].page] = [frame_num |-> f, valid |-> TRUE]

(* Every line of output.txt shows the byte that the backing store has at   *)
(* the address, and the physical address where the page is now.            *)
ReadsBackingStore ==
  output # << >> =>
    LET p == page_number_in(output.address)
        o == offset_in(output.address)
    IN /\ output.value = <<p, o>>
       /\ page_table[p].valid
       /\ output.physical = page_table[p].frame_num * SIZE_OF_PAGE + o

(* The resident pages in the order of their last use, the last one first.  *)
RecencyOrder ==
  LET resident == {f \in Frames : physical_memory[f].page # NOT_BE_USED}
      used(f) == physical_memory[f].last_used_time
      latest == CHOOSE s \in SetToSeqs(resident) :
                  \A i, j \in DOMAIN s : i < j => used(s[i]) > used(s[j])
  IN [i \in DOMAIN latest |-> physical_memory[latest[i]].page]

(* Memory and TLB are exact LRU caches of their sizes, together with the   *)
(* statistics the program reports ("use LRU strategy").                    *)
Lru == INSTANCE LruMemory WITH
  NumFrames <- NUM_OF_FRAME,
  TlbSize <- SIZE_OF_TLB,
  PageOf <- page_number_in,
  OffsetOf <- offset_in,
  order <- RecencyOrder,
  faults <- page_fault,
  hits <- TLB_hit,
  answer <- IF output = << >> THEN << >> ELSE output.value

IsLru == Lru!Spec
=============================================================================

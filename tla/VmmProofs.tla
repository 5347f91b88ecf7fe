----------------------------- MODULE VmmProofs -----------------------------
(***************************************************************************)
(* For every size of page, page table, TLB and memory and every sequence   *)
(* of addresses, the TLB agrees with the page table, the page table with   *)
(* the frames, and an access reads the byte of the backing store.          *)
(*                                                                         *)
(* The conjunction Inv of the four invariants is inductive: the TLB can    *)
(* only be trusted because page_replacement() clears the page table        *)
(* entries and the TLB entries of the frame that it gives away.            *)
(*                                                                         *)
(* The second half shows that memory and TLB are exact LRU caches.  The    *)
(* frames in use have one order by their last use; an access moves one     *)
(* frame to its front (ToFront), and this is what LruMemory does with the  *)
(* pages.  LruInv says that an entry of the TLB has the time of its frame  *)
(* and that the TLB has the pages of the first frames of the order: this   *)
(* is why the two replacements, each looking at its own times only, agree. *)
(***************************************************************************)
EXTENDS Vmm, FiniteSetTheorems, SequenceTheorems, WellFoundedInduction, TLAPS

Inv == TypeOK /\ TlbCoherent /\ PageTableCoherent /\ ReadsBackingStore

(* The masked and shifted address is a page number, whatever its sign.     *)
LEMMA PageInRange ==
  ASSUME NEW a \in Int
  PROVE  page_number_in(a) \in Pages
<1> DEFINE m == a % SIZE_OF_MEM
           q == m \div SIZE_OF_PAGE
           r == m % SIZE_OF_PAGE
<1>1. SIZE_OF_MEM \in Nat \ {0}
  BY SizesAssumption DEF SIZE_OF_MEM
<1>2. m \in Nat /\ m < NUM_OF_PAGE * SIZE_OF_PAGE
  BY <1>1 DEF SIZE_OF_MEM
<1>3. q \in Int /\ r \in 0 .. SIZE_OF_PAGE - 1 /\ m = SIZE_OF_PAGE * q + r
  BY <1>2, SizesAssumption
<1>4. q >= 0 /\ q < NUM_OF_PAGE
  <2> HIDE DEF m, q, r
  <2>1. CASE q < 0
    <3>1. SIZE_OF_PAGE * q <= -SIZE_OF_PAGE
      BY <2>1, <1>3, SizesAssumption
    <3> QED BY <3>1, <1>2, <1>3, SizesAssumption
  <2>2. CASE q >= NUM_OF_PAGE
    <3>1. SIZE_OF_PAGE * q >= SIZE_OF_PAGE * NUM_OF_PAGE
      BY <2>2, <1>3, SizesAssumption
    <3> QED BY <3>1, <1>2, <1>3, SizesAssumption
  <2> QED BY <2>1, <2>2, <1>3, SizesAssumption
<1> QED BY <1>3, <1>4, SizesAssumption DEF Pages, page_number_in

(* The offset is an offset, so the physical address is inside its frame.   *)
LEMMA OffsetInRange ==
  ASSUME NEW a \in Int
  PROVE  offset_in(a) \in 0 .. SIZE_OF_PAGE - 1
<1>1. SIZE_OF_MEM \in Nat \ {0}
  BY SizesAssumption DEF SIZE_OF_MEM
<1>2. a % SIZE_OF_MEM \in Nat
  BY <1>1
<1> QED BY <1>2, SizesAssumption DEF offset_in

LEMMA InitInv == Init => Inv
<1> SUFFICES ASSUME Init PROVE Inv
  OBVIOUS
<1> USE SizesAssumption DEF Init
<1>1. TypeOK
  BY DEF TypeOK, Times, UnusedEntry, NOT_BE_USED
<1>2. TlbCoherent
  BY DEF TlbCoherent, UnusedEntry, NOT_BE_USED
<1>3. PageTableCoherent
  BY DEF PageTableCoherent, NOT_BE_USED
<1>4. ReadsBackingStore
  BY DEF ReadsBackingStore
<1> QED BY <1>1, <1>2, <1>3, <1>4 DEF Inv

(* A TLB hit changes no translation, only the times.                       *)
LEMMA HitInv ==
  ASSUME Inv, NEW a \in Int, time < MaxTime, Hit(a)
  PROVE  Inv'
<1> DEFINE p == page_number_in(a)
<1>1. p \in Pages
  BY PageInRange
<1>2. PICK i \in Cached(p) :
        /\ TLB' = [TLB EXCEPT ![i].last_used_time = time]
        /\ TLB_hit' = TLB_hit + 1
        /\ access_memory(physical_memory, TLB[i].frame_num, a)
        /\ UNCHANGED <<page_table, page_fault>>
  BY DEF Hit
<1> DEFINE f == TLB[i].frame_num
<1>3. i \in TlbIndex /\ TLB[i].page_num = p /\ p # NOT_BE_USED
  BY <1>1, <1>2 DEF Cached, Pages, NOT_BE_USED
<1>4. page_table[p] = [frame_num |-> f, valid |-> TRUE]
  BY <1>3 DEF Inv, TlbCoherent
<1>5. f \in Frames /\ physical_memory[f].page = p
  BY <1>1, <1>4 DEF Inv, PageTableCoherent
<1>6. /\ physical_memory' = [physical_memory EXCEPT ![f].last_used_time = time]
      /\ output' = [address |-> a, physical |-> f * SIZE_OF_PAGE + offset_in(a),
                    value |-> <<p, offset_in(a)>>]
      /\ time' = time + 1
  BY <1>2, <1>5 DEF access_memory
<1> HIDE DEF p, f
<1>7. TypeOK'
  BY <1>2, <1>3, <1>5, <1>6, SizesAssumption DEF Inv, TypeOK, Times, NOT_BE_USED
<1>8. TlbCoherent'
  <2>1. \A j \in TlbIndex : /\ TLB'[j].page_num = TLB[j].page_num
                            /\ TLB'[j].frame_num = TLB[j].frame_num
    BY <1>2, <1>3 DEF Inv, TypeOK
  <2>2. \A x : Cached(x)' = Cached(x)
    BY <2>1 DEF Cached
  <2> QED BY <2>1, <2>2, <1>2 DEF Inv, TlbCoherent
<1>9. PageTableCoherent'
  <2>1. \A g \in Frames : physical_memory'[g].page = physical_memory[g].page
    BY <1>5, <1>6 DEF Inv, TypeOK
  <2> QED BY <2>1, <1>2 DEF Inv, PageTableCoherent
<1>10. ReadsBackingStore'
  BY <1>2, <1>4, <1>6 DEF ReadsBackingStore, p
<1> QED BY <1>7, <1>8, <1>9, <1>10 DEF Inv

(* A TLB miss adds the translation of the page table to the TLB.           *)
LEMMA MissInv ==
  ASSUME Inv, NEW a \in Int, time < MaxTime, Miss(a)
  PROVE  Inv'
<1> DEFINE p == page_number_in(a)
           f == page_table[p].frame_num
<1>1. p \in Pages /\ p # NOT_BE_USED
  BY PageInRange DEF Pages, NOT_BE_USED
<1>2. Cached(p) = {} /\ page_table[p].valid
  BY DEF Miss
<1>3. PICK i \in TlbIndex : TLB' = [TLB EXCEPT ![i] = Entry(p, f)]
  BY DEF Miss
<1>4. UNCHANGED <<page_table, page_fault, TLB_hit>>
  BY DEF Miss
<1>5. f \in Frames /\ physical_memory[f].page = p
  BY <1>1, <1>2 DEF Inv, PageTableCoherent
<1>6. /\ physical_memory' = [physical_memory EXCEPT ![f].last_used_time = time]
      /\ output' = [address |-> a, physical |-> f * SIZE_OF_PAGE + offset_in(a),
                    value |-> <<p, offset_in(a)>>]
      /\ time' = time + 1
  BY <1>5 DEF Miss, access_memory
<1>7. page_table[p] = [frame_num |-> f, valid |-> TRUE]
  BY <1>1, <1>2 DEF Inv, TypeOK
<1> HIDE DEF p, f
<1>8. TypeOK'
  BY <1>1, <1>3, <1>4, <1>5, <1>6, SizesAssumption
  DEF Inv, TypeOK, Times, NOT_BE_USED, Entry
<1>9. TlbCoherent'
  <2>1. /\ \A j \in TlbIndex \ {i} : TLB'[j] = TLB[j]
        /\ TLB'[i] = Entry(p, f)
    BY <1>3 DEF Inv, TypeOK
  <2>2. Cached(p)' = {i}
    BY <2>1, <1>2 DEF Cached, Entry
  <2>3. \A x : x # p => Cached(x)' = Cached(x) \ {i}
    BY <2>1 DEF Cached, Entry
  <2> SUFFICES ASSUME NEW j \in TlbIndex, TLB'[j].page_num # NOT_BE_USED
               PROVE  /\ page_table[TLB'[j].page_num] =
                           [frame_num |-> TLB'[j].frame_num, valid |-> TRUE]
                      /\ {k \in TlbIndex : TLB'[k].page_num = TLB'[j].page_num} = {j}
    BY <1>4 DEF TlbCoherent, Cached
  <2>4. CASE j = i
    <3>1. TLB'[j].page_num = p /\ TLB'[j].frame_num = f
      BY <2>1, <2>4 DEF Entry
    <3>2. {k \in TlbIndex : TLB'[k].page_num = p} = {j}
      BY <2>2, <2>4 DEF Cached
    <3> QED BY <3>1, <3>2, <1>7
  <2>5. CASE j # i
    <3>1. TLB'[j] = TLB[j]
      BY <2>1, <2>5
    <3>2. TLB[j].page_num # p
      BY <1>2 DEF Cached
    <3>3. Cached(TLB[j].page_num) = {j}
      BY <3>1 DEF Inv, TlbCoherent
    <3> QED BY <3>1, <3>2, <3>3, <2>3, <2>5 DEF Inv, TlbCoherent, Cached
  <2> QED BY <2>4, <2>5
<1>10. PageTableCoherent'
  <2>1. \A g \in Frames : physical_memory'[g].page = physical_memory[g].page
    BY <1>5, <1>6 DEF Inv, TypeOK
  <2> QED BY <2>1, <1>4 DEF Inv, PageTableCoherent
<1>11. ReadsBackingStore'
  BY <1>4, <1>6, <1>7 DEF ReadsBackingStore, p
<1> QED BY <1>8, <1>9, <1>10, <1>11 DEF Inv

(* A page fault takes the frame v from the page that had it: the page      *)
(* table and the TLB forget that page before they name the new one.        *)
LEMMA FaultInv ==
  ASSUME Inv, NEW a \in Int, time < MaxTime, Fault(a)
  PROVE  Inv'
<1> DEFINE p == page_number_in(a)
<1>1. p \in Pages /\ p # NOT_BE_USED
  BY PageInRange DEF Pages, NOT_BE_USED
<1>2. Cached(p) = {} /\ ~page_table[p].valid
  BY DEF Fault
<1>3. PICK v \in Frames :
        /\ page_table' = [Invalidated(v) EXCEPT ![p] = [frame_num |-> v, valid |-> TRUE]]
        /\ \E i \in TlbIndex : TLB' = [Flushed(v) EXCEPT ![i] = Entry(p, v)]
        /\ access_memory(Loaded(v, p), v, a)
  BY DEF Fault
<1>4. PICK i \in TlbIndex : TLB' = [Flushed(v) EXCEPT ![i] = Entry(p, v)]
  BY <1>3
<1>5. page_fault' = page_fault + 1 /\ TLB_hit' = TLB_hit
  BY DEF Fault
<1>6. /\ Loaded(v, p) \in [Frames -> [page : Pages \cup {NOT_BE_USED}, last_used_time : Times]]
      /\ Loaded(v, p)[v].page = p
      /\ \A g \in Frames \ {v} : Loaded(v, p)[g] = physical_memory[g]
  BY <1>1 DEF Loaded, Inv, TypeOK
<1>7. /\ physical_memory' = [Loaded(v, p) EXCEPT ![v].last_used_time = time]
      /\ output' = [address |-> a, physical |-> v * SIZE_OF_PAGE + offset_in(a),
                    value |-> <<p, offset_in(a)>>]
      /\ time' = time + 1
  BY <1>3, <1>6 DEF access_memory
<1>8. /\ physical_memory'[v].page = p
      /\ \A g \in Frames \ {v} : physical_memory'[g].page = physical_memory[g].page
  BY <1>6, <1>7
<1> HIDE DEF p
<1>9. /\ page_table'[p] = [frame_num |-> v, valid |-> TRUE]
      /\ \A x \in Pages \ {p} : page_table[x].frame_num # v => page_table'[x] = page_table[x]
      /\ \A x \in Pages \ {p} : page_table[x].frame_num = v => ~page_table'[x].valid
  BY <1>1, <1>3 DEF Invalidated, Inv, TypeOK
<1>10. /\ TLB'[i] = Entry(p, v)
       /\ \A j \in TlbIndex \ {i} : \/ TLB'[j] = TLB[j] /\ TLB[j].frame_num # v
                                    \/ TLB'[j] = UnusedEntry
  BY <1>4 DEF Flushed
<1>11. TypeOK'
  <2>1. Invalidated(v) \in [Pages -> [frame_num : Frames \cup {NOT_BE_USED}, valid : BOOLEAN]]
    BY DEF Invalidated, Inv, TypeOK
  <2>2. Entry(p, v) \in [page_num : Pages \cup {NOT_BE_USED},
                         frame_num : Frames \cup {NOT_BE_USED}, last_used_time : Times]
    BY <1>1, SizesAssumption DEF Entry, Inv, TypeOK, Times, NOT_BE_USED
  <2>3. Flushed(v) \in [TlbIndex -> [page_num : Pages \cup {NOT_BE_USED},
                         frame_num : Frames \cup {NOT_BE_USED}, last_used_time : Times]]
    BY SizesAssumption DEF Flushed, UnusedEntry, Inv, TypeOK, Times, NOT_BE_USED
  <2>4. page_table' \in [Pages -> [frame_num : Frames \cup {NOT_BE_USED}, valid : BOOLEAN]]
    BY <2>1, <1>1, <1>3
  <2>5. TLB' \in [TlbIndex -> [page_num : Pages \cup {NOT_BE_USED},
                         frame_num : Frames \cup {NOT_BE_USED}, last_used_time : Times]]
    BY <2>2, <2>3, <1>4
  <2>6. time \in Times
    BY SizesAssumption DEF Times, Inv, TypeOK, NOT_BE_USED
  <2>7. physical_memory' \in [Frames -> [page : Pages \cup {NOT_BE_USED}, last_used_time : Times]]
    BY <2>6, <1>6, <1>7
  <2>8. /\ page_fault' \in 0 .. time'
        /\ TLB_hit' \in 0 .. time'
        /\ time' \in 0 .. MaxTime
    BY <1>5, <1>7, SizesAssumption DEF Inv, TypeOK
  <2> QED BY <2>4, <2>5, <2>7, <2>8 DEF TypeOK
<1>12. TlbCoherent'
  <2> SUFFICES ASSUME NEW j \in TlbIndex, TLB'[j].page_num # NOT_BE_USED
               PROVE  /\ page_table'[TLB'[j].page_num] =
                           [frame_num |-> TLB'[j].frame_num, valid |-> TRUE]
                      /\ {k \in TlbIndex : TLB'[k].page_num = TLB'[j].page_num} = {j}
    BY DEF TlbCoherent, Cached
  <2>1. CASE j = i
    <3>1. \A k \in TlbIndex \ {i} : TLB'[k].page_num # p
      BY <1>1, <1>2, <1>10 DEF Cached, UnusedEntry
    <3>2. Cached(p)' = {i}
      BY <3>1, <1>10 DEF Cached, Entry
    <3> QED BY <3>2, <2>1, <1>9, <1>10 DEF Entry, Cached
  <2>2. CASE j # i
    <3>1. TLB'[j] = TLB[j] /\ TLB[j].frame_num # v
      BY <2>2, <1>10 DEF UnusedEntry
    <3>2. /\ page_table[TLB[j].page_num] = [frame_num |-> TLB[j].frame_num, valid |-> TRUE]
          /\ Cached(TLB[j].page_num) = {j}
      BY <3>1 DEF Inv, TlbCoherent
    <3>3. TLB[j].page_num \in Pages \ {p}
      BY <3>1, <1>2 DEF Cached, Inv, TypeOK
    <3>4. page_table'[TLB[j].page_num] = page_table[TLB[j].page_num]
      BY <3>1, <3>2, <3>3, <1>9
    <3>5. \A k \in TlbIndex \ {j} : TLB[k].page_num # TLB[j].page_num
      BY <3>2 DEF Cached
    <3>6. \A k \in TlbIndex \ {j} : TLB'[k].page_num # TLB[j].page_num
      BY <3>1, <3>3, <3>5, <1>10 DEF UnusedEntry, Entry
    <3> QED BY <3>1, <3>2, <3>4, <3>6 DEF Cached
  <2> QED BY <2>1, <2>2
<1>13. PageTableCoherent'
  <2>1. ASSUME NEW x \in Pages, page_table'[x].valid
        PROVE  /\ page_table'[x].frame_num \in Frames
               /\ physical_memory'[page_table'[x].frame_num].page = x
    <3>1. CASE x = p
      BY <3>1, <1>8, <1>9
    <3>2. CASE x # p
      <4>1. page_table[x].frame_num # v /\ page_table'[x] = page_table[x]
        BY <2>1, <3>2, <1>9
      <4> QED BY <2>1, <4>1, <1>8 DEF Inv, PageTableCoherent
    <3> QED BY <3>1, <3>2
  <2>2. ASSUME NEW g \in Frames, physical_memory'[g].page # NOT_BE_USED
        PROVE  page_table'[physical_memory'[g].page] = [frame_num |-> g, valid |-> TRUE]
    <3>1. CASE g = v
      BY <3>1, <1>8, <1>9
    <3>2. CASE g # v
      <4> DEFINE x == physical_memory[g].page
      <4>1. physical_memory'[g].page = x
        BY <3>2, <1>8
      <4>2. page_table[x] = [frame_num |-> g, valid |-> TRUE]
        BY <2>2, <4>1 DEF Inv, PageTableCoherent
      <4>3. x \in Pages \ {p}
        BY <2>2, <4>1, <4>2, <1>2 DEF Inv, TypeOK
      <4> QED BY <3>2, <4>1, <4>2, <4>3, <1>9
    <3> QED BY <3>1, <3>2
  <2> QED BY <2>1, <2>2 DEF PageTableCoherent
<1>14. ReadsBackingStore'
  BY <1>7, <1>9 DEF ReadsBackingStore, p
<1> QED BY <1>11, <1>12, <1>13, <1>14 DEF Inv

LEMMA NextInv == Inv /\ [Next]_vars => Inv'
<1> SUFFICES ASSUME Inv, [Next]_vars PROVE Inv'
  OBVIOUS
<1>1. ASSUME NEW a \in Addresses, Access(a) PROVE Inv'
  <2>1. a \in Int /\ time < MaxTime
    BY <1>1, SizesAssumption DEF Access
  <2> QED BY <1>1, <2>1, HitInv, MissInv, FaultInv DEF Access
<1>2. CASE UNCHANGED vars
  BY <1>2 DEF vars, Inv, TypeOK, TlbCoherent, PageTableCoherent, ReadsBackingStore, Cached
<1> QED BY <1>1, <1>2 DEF Next, Finished

(* Each invariant of the run, for every value of the constants.            *)
THEOREM InvHolds == Spec => []Inv
BY InitInv, NextInv, PTL DEF Spec

(* The variables keep their types, and the statistics never exceed the     *)
(* number of accesses.                                                     *)
THEOREM TypeCorrect == Spec => []TypeOK
<1>1. Inv => TypeOK
  BY DEF Inv
<1> QED BY <1>1, InvHolds, PTL

(* The TLB never serves a translation that page_replacement() revoked.     *)
THEOREM TlbIsCoherent == Spec => []TlbCoherent
<1>1. Inv => TlbCoherent
  BY DEF Inv
<1> QED BY <1>1, InvHolds, PTL

(* Two valid pages are never in one frame.                                 *)
THEOREM PageTableIsCoherent == Spec => []PageTableCoherent
<1>1. Inv => PageTableCoherent
  BY DEF Inv
<1> QED BY <1>1, InvHolds, PTL

(* The byte an access prints is the byte of the backing store.             *)
THEOREM ReadsAreCorrect == Spec => []ReadsBackingStore
<1>1. Inv => ReadsBackingStore
  BY DEF Inv
<1> QED BY <1>1, InvHolds, PTL

-----------------------------------------------------------------------------
(* The frames in use, sorted by their last use: one sequence does it.      *)
Memories == [Frames -> [page : Pages \cup {NOT_BE_USED}, last_used_time : Times]]

InOrder(memory, s) ==
  \A i, j \in 1 .. Len(s) :
    i < j => memory[s[i]].last_used_time > memory[s[j]].last_used_time

Lists(memory, s) ==
  \A f \in Frames : memory[f].page # NOT_BE_USED <=> \E i \in 1 .. Len(s) : s[i] = f

Recent(memory, s) == s \in Seq(Frames) /\ InOrder(memory, s) /\ Lists(memory, s)

LEMMA LeastOf ==
  ASSUME NEW S \in SUBSET Nat, S # {}
  PROVE  \E m \in S : \A k \in S : m <= k
<1>1. PICK m \in S : \A k \in S : ~ (<<k, m>> \in OpToRel(<, Nat))
  BY NatLessThanWellFounded, WFMin
<1>2. \A k \in S : ~ (k < m)
  BY <1>1 DEF OpToRel
<1>3. \A a, b \in Nat : ~ (a < b) => b <= a
  OBVIOUS
<1> QED BY <1>2, <1>3

(* Where one sequence has a frame, the other has it too: by the least      *)
(* index where this is wrong.                                              *)
LEMMA RecentPrefix ==
  ASSUME NEW memory \in Memories, NEW s, NEW u, Recent(memory, s), Recent(memory, u)
  PROVE  \A i \in 1 .. Len(s) : i \in 1 .. Len(u) /\ u[i] = s[i]
<1> DEFINE bad == {i \in 1 .. Len(s) : ~ (i \in 1 .. Len(u) /\ u[i] = s[i])}
<1>1. SUFFICES ASSUME bad # {} PROVE FALSE
  OBVIOUS
<1>2. Len(s) \in Nat /\ Len(u) \in Nat
  BY DEF Recent
<1>3. PICK i \in bad : \A k \in bad : i <= k
  <2>1. bad \in SUBSET Nat
    BY <1>2
  <2> HIDE DEF bad
  <2> QED BY <1>1, <2>1, LeastOf
<1>4. i \in 1 .. Len(s) /\ ~ (i \in 1 .. Len(u) /\ u[i] = s[i])
  OBVIOUS
<1>5. \A k \in 1 .. Len(s) : k < i => k \in 1 .. Len(u) /\ u[k] = s[k]
  <2> SUFFICES ASSUME NEW k \in 1 .. Len(s), k < i PROVE k \notin bad
    OBVIOUS
  <2> HIDE DEF bad
  <2>1. ~ (i <= k)
    BY <1>2, <1>4
  <2> QED BY <1>3, <2>1
<1> HIDE DEF bad
<1>6. \A k \in 1 .. Len(s) : s[k] \in Frames
  BY DEF Recent
<1>7. \A k \in 1 .. Len(u) : u[k] \in Frames
  BY DEF Recent
<1>8. \A f \in Frames : memory[f].last_used_time \in Int
  BY SizesAssumption DEF Memories, Times, NOT_BE_USED
<1>9. PICK j \in 1 .. Len(u) : u[j] = s[i]
  BY <1>4, <1>6 DEF Recent, Lists
<1>10. j >= i
  <2> SUFFICES ASSUME j < i PROVE FALSE
    BY <1>2, <1>4
  <2>1. j \in 1 .. Len(s) /\ s[j] = s[i]
    BY <1>2, <1>4, <1>5, <1>9
  <2>2. memory[s[j]].last_used_time > memory[s[i]].last_used_time
    BY <1>4, <2>1 DEF Recent, InOrder
  <2> QED BY <1>4, <1>6, <1>8, <2>1, <2>2
<1>11. i \in 1 .. Len(u) /\ j > i
  BY <1>2, <1>4, <1>9, <1>10
<1>12. PICK l \in 1 .. Len(s) : s[l] = u[i]
  BY <1>7, <1>11 DEF Recent, Lists
<1>13. l > i
  <2> SUFFICES ASSUME l < i PROVE FALSE
    BY <1>2, <1>4, <1>11, <1>12
  <2>1. l \in 1 .. Len(u) /\ u[l] = u[i]
    BY <1>5, <1>12
  <2>2. memory[u[l]].last_used_time > memory[u[i]].last_used_time
    BY <1>11, <2>1 DEF Recent, InOrder
  <2> QED BY <1>7, <1>8, <1>11, <2>1, <2>2
<1>14. memory[s[i]].last_used_time > memory[s[l]].last_used_time
  BY <1>4, <1>12, <1>13 DEF Recent, InOrder
<1>15. memory[u[i]].last_used_time > memory[u[j]].last_used_time
  BY <1>11, <1>9 DEF Recent, InOrder
<1> QED BY <1>4, <1>6, <1>7, <1>8, <1>9, <1>11, <1>12, <1>14, <1>15

OrderOf(memory) ==
  LET resident == {f \in Frames : memory[f].page # NOT_BE_USED}
      used(f) == memory[f].last_used_time
      latest == CHOOSE s \in SetToSeqs(resident) :
                  \A i, j \in DOMAIN s : i < j => used(s[i]) > used(s[j])
  IN [i \in DOMAIN latest |-> memory[latest[i]].page]

LEMMA FiniteFrames == IsFiniteSet(Frames) /\ Cardinality(Frames) = NUM_OF_FRAME
BY SizesAssumption, FS_Interval DEF Frames

LEMMA OrderIs ==
  ASSUME NEW memory \in Memories, NEW s, Recent(memory, s)
  PROVE  OrderOf(memory) = [i \in 1 .. Len(s) |-> memory[s[i]].page]
<1> DEFINE resident == {f \in Frames : memory[f].page # NOT_BE_USED}
           P(u) == \A i, j \in DOMAIN u :
                     i < j => memory[u[i]].last_used_time > memory[u[j]].last_used_time
           latest == CHOOSE u \in SetToSeqs(resident) : P(u)
           n == Cardinality(resident)
<1>1. OrderOf(memory) = [i \in DOMAIN latest |-> memory[latest[i]].page]
  BY DEF OrderOf
<1>2. s \in Seq(Frames) /\ Len(s) \in Nat /\ DOMAIN s = 1 .. Len(s)
  BY DEF Recent
<1>3. \A i \in 1 .. Len(s) : s[i] \in resident
  BY <1>2 DEF Recent, Lists
<1>4. \A f \in resident : \E i \in 1 .. Len(s) : s[i] = f
  BY DEF Recent, Lists
<1>5. \A f \in Frames : memory[f].last_used_time \in Int
  BY SizesAssumption DEF Memories, Times, NOT_BE_USED
<1>6. \A i, j \in 1 .. Len(s) : i # j => s[i] # s[j]
  <2> SUFFICES ASSUME NEW i \in 1 .. Len(s), NEW j \in 1 .. Len(s), i < j PROVE s[i] # s[j]
    BY <1>2
  <2>1. memory[s[i]].last_used_time > memory[s[j]].last_used_time
    BY DEF Recent, InOrder
  <2> QED BY <1>3, <1>5, <2>1
<1> HIDE DEF resident
<1>7. s \in [1 .. Len(s) -> resident]
  BY <1>2, <1>3
<1>8. n = Len(s)
  <2>1. s \in Bijection(1 .. Len(s), resident)
    BY <1>4, <1>6, <1>7 DEF Bijection, Injection, Surjection, IsInjective
  <2>2. ExistsBijection(1 .. Len(s), resident)
    BY <2>1 DEF ExistsBijection
  <2> QED BY <1>2, <2>2, FS_CountingElements
<1>9. s \in SetToSeqs(resident) /\ P(s)
  BY <1>2, <1>6, <1>7, <1>8 DEF SetToSeqs, Recent, InOrder
<1>10. latest \in SetToSeqs(resident) /\ P(latest)
  <2> HIDE DEF P
  <2> QED BY <1>9
<1> HIDE DEF latest
<1>11. latest \in [1 .. Len(s) -> resident] /\ \A i, j \in 1 .. Len(s) : i # j => latest[i] # latest[j]
  BY <1>8, <1>10 DEF SetToSeqs
<1>12. Recent(memory, latest)
  <2>1. latest \in Seq(Frames) /\ Len(latest) = Len(s)
    BY <1>2, <1>11 DEF resident
  <2>2. InOrder(memory, latest)
    BY <2>1, <1>10, <1>11 DEF InOrder
  <2>3. latest \in Surjection(1 .. Len(s), resident)
    <3>1. latest \in Injection(1 .. Len(s), resident)
      BY <1>11 DEF Injection, IsInjective
    <3>2. IsFiniteSet(resident)
      BY FiniteFrames, FS_Subset DEF resident
    <3>3. Cardinality(1 .. Len(s)) = Cardinality(resident)
      <4>1. Cardinality(1 .. Len(s)) = IF 1 > Len(s) THEN 0 ELSE Len(s) - 1 + 1
        BY <1>2, FS_Interval
      <4>2. Cardinality(1 .. Len(s)) = Len(s)
        BY <1>2, <4>1
      <4> QED BY <1>8, <4>2
    <3> QED BY <3>1, <3>2, <3>3, FS_Injection
  <2>4. Lists(memory, latest)
    <3>1. \A f \in resident : \E i \in 1 .. Len(latest) : latest[i] = f
      BY <2>1, <2>3 DEF Surjection
    <3>2. \A i \in 1 .. Len(latest) : latest[i] \in resident
      BY <1>11, <2>1
    <3> QED BY <3>1, <3>2 DEF Lists, resident
  <2> QED BY <2>1, <2>2, <2>4 DEF Recent
<1>13. \A i \in 1 .. Len(s) : latest[i] = s[i]
  BY <1>12, RecentPrefix
<1>14. DOMAIN latest = 1 .. Len(s)
  BY <1>11
<1> QED BY <1>1, <1>13, <1>14

-----------------------------------------------------------------------------
(* s with x in front: x was the k-th, or is new if k is one more than the  *)
(* length.                                                                 *)
ToFront(s, k, x) ==
  [i \in 1 .. (IF k <= Len(s) THEN Len(s) ELSE k) |->
     IF i = 1 THEN x ELSE IF i <= k THEN s[i - 1] ELSE s[i]]

Shifted(t, s, k) ==
  /\ \A i \in 2 .. k : i - 1 \in 1 .. Len(s) /\ t[i] = s[i - 1]
  /\ \A i \in k + 1 .. Len(s) : t[i] = s[i]

LEMMA ToFrontFacts ==
  ASSUME NEW S, NEW s \in Seq(S), NEW k \in 1 .. Len(s) + 1, NEW x \in S
  PROVE  /\ ToFront(s, k, x) \in Seq(S)
         /\ Len(ToFront(s, k, x)) = IF k <= Len(s) THEN Len(s) ELSE Len(s) + 1
         /\ ToFront(s, k, x)[1] = x
         /\ Shifted(ToFront(s, k, x), s, k)
<1> DEFINE n == IF k <= Len(s) THEN Len(s) ELSE k
           t == ToFront(s, k, x)
<1>1. Len(s) \in Nat /\ k \in Nat /\ 1 <= k /\ k <= Len(s) + 1 /\ \A i \in 1 .. Len(s) : s[i] \in S
  OBVIOUS
<1>2. n \in Nat /\ 1 <= n /\ k <= n /\ Len(s) <= n /\ n = IF k <= Len(s) THEN Len(s) ELSE Len(s) + 1
  BY <1>1
<1>3. \A i \in 1 .. n : \/ i = 1
                        \/ i # 1 /\ i <= k /\ i - 1 \in 1 .. Len(s)
                        \/ i # 1 /\ ~ (i <= k) /\ i \in 1 .. Len(s)
  BY <1>1, <1>2
<1>4. t = [i \in 1 .. n |-> IF i = 1 THEN x ELSE IF i <= k THEN s[i - 1] ELSE s[i]]
  BY DEF ToFront
<1> HIDE DEF n, t
<1>5. \A i \in 1 .. n : t[i] \in S
  BY <1>1, <1>3, <1>4
<1>6. t \in [1 .. n -> S]
  BY <1>4, <1>5
<1>7. t \in Seq(S) /\ Len(t) = n
  BY <1>2, <1>6
<1>8. t[1] = x
  BY <1>2, <1>4
<1>9. \A i \in 2 .. k : i \in 1 .. n /\ i # 1 /\ i <= k /\ i - 1 \in 1 .. Len(s)
  BY <1>1, <1>2
<1>10. \A i \in k + 1 .. Len(s) : i \in 1 .. n /\ i # 1 /\ ~ (i <= k)
  BY <1>1, <1>2
<1>11. Shifted(t, s, k)
  <2>1. \A i \in 2 .. k : i - 1 \in 1 .. Len(s) /\ t[i] = s[i - 1]
    BY <1>4, <1>9
  <2>2. \A i \in k + 1 .. Len(s) : t[i] = s[i]
    BY <1>4, <1>10
  <2> QED BY <2>1, <2>2 DEF Shifted
<1> QED BY <1>2, <1>7, <1>8, <1>11 DEF t

(* Every element after the first is another one of s, in the same order.   *)
LEMMA Behind ==
  ASSUME NEW S, NEW s \in Seq(S), NEW k \in 1 .. Len(s) + 1, NEW x \in S,
         NEW i \in 2 .. Len(ToFront(s, k, x))
  PROVE  LET l == IF i <= k THEN i - 1 ELSE i
         IN  l \in 1 .. Len(s) /\ l # k /\ ToFront(s, k, x)[i] = s[l]
<1>1. Len(s) \in Nat /\ k \in Nat /\ 1 <= k /\ k <= Len(s) + 1
  OBVIOUS
<1>2. Len(ToFront(s, k, x)) = IF k <= Len(s) THEN Len(s) ELSE Len(s) + 1
  BY ToFrontFacts
<1>3. CASE i <= k
  <2>1. i \in 2 .. k /\ i - 1 # k
    BY <1>1, <1>2, <1>3
  <2> QED BY <1>3, <2>1, ToFrontFacts DEF Shifted
<1>4. CASE ~ (i <= k)
  <2>1. i \in k + 1 .. Len(s) /\ i \in 1 .. Len(s) /\ i # k
    BY <1>1, <1>2, <1>4
  <2> QED BY <1>4, <2>1, ToFrontFacts DEF Shifted
<1> QED BY <1>3, <1>4

(* An access moves the frame to the front of the order.                    *)
LEMMA RecentMoves ==
  ASSUME NEW memory \in Memories, NEW s, Recent(memory, s),
         NEW now \in Int, \A f \in Frames : memory[f].last_used_time < now,
         NEW k \in 1 .. Len(s) + 1, NEW f \in Frames, NEW p \in Pages,
         k <= Len(s) => s[k] = f,
         k = Len(s) + 1 => memory[f].page = NOT_BE_USED,
         NEW more \in Memories,
         more[f] = [page |-> p, last_used_time |-> now],
         \A g \in Frames \ {f} : more[g] = memory[g]
  PROVE  Recent(more, ToFront(s, k, f))
<1> DEFINE t == ToFront(s, k, f)
<1>1. s \in Seq(Frames) /\ Len(s) \in Nat /\ \A i \in 1 .. Len(s) : s[i] \in Frames
  BY DEF Recent
<1>2. /\ t \in Seq(Frames) /\ t[1] = f
      /\ Len(t) = IF k <= Len(s) THEN Len(s) ELSE Len(s) + 1
      /\ \A i \in 2 .. k : i - 1 \in 1 .. Len(s) /\ t[i] = s[i - 1]
      /\ \A i \in k + 1 .. Len(s) : t[i] = s[i]
  <2> HIDE DEF t
  <2>1. t = ToFront(s, k, f)
    BY DEF t
  <2>2. t \in Seq(Frames) /\ t[1] = f
    BY <1>1, <2>1, ToFrontFacts
  <2>3. Len(t) = IF k <= Len(s) THEN Len(s) ELSE Len(s) + 1
    BY <1>1, <2>1, ToFrontFacts
  <2>4. Shifted(t, s, k)
    BY <1>1, <2>1, ToFrontFacts
  <2> QED BY <2>2, <2>3, <2>4 DEF Shifted
<1> DEFINE from(i) == IF i <= k THEN i - 1 ELSE i
<1>3. \A i \in 2 .. Len(t) : from(i) \in 1 .. Len(s) /\ from(i) # k /\ t[i] = s[from(i)]
  BY <1>1, Behind
<1> HIDE DEF t
<1>4. \A g \in Frames : memory[g].last_used_time \in Int /\ more[g].last_used_time \in Int
  BY SizesAssumption DEF Memories, Times, NOT_BE_USED
<1>5. \A i, j \in 1 .. Len(s) : i # j => s[i] # s[j]
  <2> SUFFICES ASSUME NEW i \in 1 .. Len(s), NEW j \in 1 .. Len(s), i < j PROVE s[i] # s[j]
    BY <1>1
  <2>1. memory[s[i]].last_used_time > memory[s[j]].last_used_time
    BY DEF Recent, InOrder
  <2> QED BY <1>1, <1>4, <2>1
<1>6. \A i \in 1 .. Len(s) : i # k => s[i] # f
  <2> SUFFICES ASSUME NEW i \in 1 .. Len(s), i # k PROVE s[i] # f
    OBVIOUS
  <2>1. CASE k <= Len(s)
    <3>1. k \in 1 .. Len(s)
      BY <1>1, <2>1
    <3> QED BY <3>1, <1>5
  <2>2. CASE k = Len(s) + 1
    BY <2>2 DEF Recent, Lists
  <2> QED BY <2>1, <2>2, <1>1
<1>7. \A i \in 2 .. Len(t) : t[i] # f /\ t[i] \in Frames /\ more[t[i]] = memory[t[i]]
  BY <1>1, <1>3, <1>6
<1>8. InOrder(more, t)
  <2> SUFFICES ASSUME NEW i \in 1 .. Len(t), NEW j \in 1 .. Len(t), i < j
               PROVE  more[t[i]].last_used_time > more[t[j]].last_used_time
    BY DEF InOrder
  <2>1. j \in 2 .. Len(t)
    BY <1>2
  <2>2. CASE i = 1
    <3>1. more[t[j]].last_used_time < now
      BY <2>1, <1>7
    <3> QED BY <2>2, <3>1, <2>1, <1>2, <1>4, <1>7
  <2>3. CASE i # 1
    <3>1. i \in 2 .. Len(t)
      BY <1>2, <2>3
    <3>2. from(i) < from(j)
      BY <3>1, <2>1, <1>2
    <3>3. from(i) \in 1 .. Len(s) /\ from(j) \in 1 .. Len(s)
          /\ t[i] = s[from(i)] /\ t[j] = s[from(j)]
      BY <3>1, <2>1, <1>3
    <3> HIDE DEF from
    <3>4. memory[s[from(i)]].last_used_time > memory[s[from(j)]].last_used_time
      BY <3>2, <3>3 DEF Recent, InOrder
    <3> QED BY <3>1, <3>3, <3>4, <2>1, <1>7
  <2> QED BY <2>2, <2>3
<1>9. Lists(more, t)
  <2> SUFFICES ASSUME NEW g \in Frames
               PROVE  more[g].page # NOT_BE_USED <=> \E i \in 1 .. Len(t) : t[i] = g
    BY DEF Lists
  <2>1. CASE g = f
    <3>1. more[g].page = p /\ p # NOT_BE_USED /\ 1 \in 1 .. Len(t)
      BY <2>1, <1>1, <1>2 DEF Pages, NOT_BE_USED
    <3> QED BY <2>1, <3>1, <1>2
  <2>2. CASE g # f
    <3>1. more[g].page # NOT_BE_USED <=> \E i \in 1 .. Len(s) : s[i] = g
      BY <2>2 DEF Recent, Lists
    <3>2. ASSUME NEW i \in 1 .. Len(s), s[i] = g PROVE \E j \in 1 .. Len(t) : t[j] = g
      <4>1. i # k
        BY <2>2, <3>2, <1>1
      <4>2. CASE i < k
        <5>1. i + 1 \in 2 .. k /\ (i + 1) - 1 = i /\ i + 1 \in 1 .. Len(t)
          BY <4>2, <1>1, <1>2
        <5> QED BY <5>1, <3>2, <1>2
      <4>3. CASE i > k
        <5>1. i \in k + 1 .. Len(s) /\ i \in 1 .. Len(t)
          BY <4>3, <1>1, <1>2
        <5> QED BY <5>1, <3>2, <1>2
      <4> QED BY <4>1, <4>2, <4>3, <1>1
    <3>3. ASSUME NEW i \in 1 .. Len(t), t[i] = g PROVE \E j \in 1 .. Len(s) : s[j] = g
      <4>1. i # 1
        BY <2>2, <3>3, <1>2
      <4>2. i \in 2 .. Len(t)
        BY <4>1, <1>2
      <4>3. from(i) \in 1 .. Len(s) /\ t[i] = s[from(i)]
        BY <4>2, <1>3
      <4> QED BY <4>3, <3>3
    <3> QED BY <3>1, <3>2, <3>3
  <2> QED BY <2>1, <2>2
<1> QED BY <1>2, <1>8, <1>9 DEF Recent, t

-----------------------------------------------------------------------------
(* The same on the side of LruMemory: what its operators make of a list of *)
(* distinct pages.                                                         *)
LEMMA RemovedAt ==
  ASSUME NEW S, NEW s \in Seq(S), NEW i \in DOMAIN s
  PROVE  /\ Lru!RemoveAt(s, i) \in Seq(S)
         /\ Len(Lru!RemoveAt(s, i)) = Len(s) - 1
         /\ \A k \in 1 .. Len(s) - 1 : Lru!RemoveAt(s, i)[k] = s[IF k < i THEN k ELSE k + 1]
<1> DEFINE front == SubSeq(s, 1, i - 1)
           rest == SubSeq(s, i + 1, Len(s))
<1>1. i \in 1 .. Len(s) /\ Len(s) \in Nat
  BY LenProperties
<1>2. /\ front \in Seq(S) /\ Len(front) = i - 1
      /\ \A k \in 1 .. i - 1 : front[k] = s[k]
  BY <1>1
<1>3. /\ rest \in Seq(S) /\ Len(rest) = Len(s) - i
      /\ \A k \in 1 .. Len(s) - i : rest[k] = s[i + k]
  BY <1>1
<1> HIDE DEF front, rest
<1>4. /\ front \o rest \in Seq(S)
      /\ Len(front \o rest) = Len(s) - 1
      /\ \A k \in 1 .. Len(s) - 1 :
           (front \o rest)[k] = IF k <= i - 1 THEN front[k] ELSE rest[k - (i - 1)]
  <2>1. /\ front \o rest \in Seq(S) /\ Len(front \o rest) = Len(front) + Len(rest)
        /\ \A k \in 1 .. Len(front) + Len(rest) :
             (front \o rest)[k] = IF k <= Len(front) THEN front[k] ELSE rest[k - Len(front)]
    BY <1>2, <1>3, ConcatProperties
  <2>2. Len(front) + Len(rest) = Len(s) - 1
    BY <1>1, <1>2, <1>3
  <2> QED BY <1>2, <2>1, <2>2
<1>5. ASSUME NEW k \in 1 .. Len(s) - 1
      PROVE  (front \o rest)[k] = s[IF k < i THEN k ELSE k + 1]
  <2>1. CASE k < i
    BY <1>1, <1>2, <1>4, <2>1
  <2>2. CASE ~(k < i)
    <3>1. k - (i - 1) \in 1 .. Len(s) - i /\ i + (k - (i - 1)) = k + 1
      BY <1>1, <2>2
    <3>2. (front \o rest)[k] = rest[k - (i - 1)]
      BY <1>1, <1>4, <2>2
    <3>3. rest[k - (i - 1)] = s[i + (k - (i - 1))]
      BY <1>3, <3>1
    <3> QED BY <2>2, <3>1, <3>2, <3>3
  <2> QED BY <2>1, <2>2
<1> QED BY <1>4, <1>5 DEF Lru!RemoveAt, front, rest

Distinct(o) == \A i, j \in 1 .. Len(o) : o[i] = o[j] => i = j

LEMMA PutFirst ==
  ASSUME NEW S, NEW r \in Seq(S), NEW p \in S
  PROVE  /\ <<p>> \o r \in Seq(S)
         /\ Len(<<p>> \o r) = Len(r) + 1
         /\ \A i \in 1 .. Len(r) + 1 : (<<p>> \o r)[i] = IF i = 1 THEN p ELSE r[i - 1]
<1>1. <<p>> \in Seq(S) /\ Len(<<p>>) = 1 /\ <<p>>[1] = p /\ Len(r) \in Nat
  OBVIOUS
<1> QED BY <1>1, ConcatProperties

LEMMA KnownToFront ==
  ASSUME NEW S, NEW o \in Seq(S), Distinct(o), NEW k \in 1 .. Len(o)
  PROVE  <<o[k]>> \o Lru!RemoveFirst(o, o[k]) = ToFront(o, k, o[k])
<1> DEFINE p == o[k]
           r == Lru!RemoveAt(o, k)
<1>1. Len(o) \in Nat /\ k \in 1 .. Len(o) /\ k \in DOMAIN o /\ p \in S
  OBVIOUS
<1>2. Lru!RemoveFirst(o, p) = r
  <2>1. {i \in 1 .. Len(o) : o[i] = p} = {k}
    BY DEF Distinct
  <2>2. Lru!Min({k}) = k
    <3>1. k <= k
      BY <1>1
    <3> QED BY <3>1 DEF Lru!Min
  <2> QED BY <2>1, <2>2 DEF Lru!RemoveFirst, Lru!SelectInSeq
<1>3. /\ r \in Seq(S) /\ Len(r) = Len(o) - 1
      /\ \A i \in 1 .. Len(o) - 1 : r[i] = o[IF i < k THEN i ELSE i + 1]
  BY <1>1, RemovedAt
<1> HIDE DEF r
<1>4. /\ <<p>> \o r \in Seq(S) /\ Len(<<p>> \o r) = Len(r) + 1
      /\ \A i \in 1 .. Len(r) + 1 : (<<p>> \o r)[i] = IF i = 1 THEN p ELSE r[i - 1]
  BY <1>1, <1>3, PutFirst
<1>5. /\ ToFront(o, k, p) \in Seq(S)
      /\ Len(ToFront(o, k, p)) = Len(o)
  <2>1. k \in 1 .. Len(o) + 1 /\ k <= Len(o)
    BY <1>1
  <2> HIDE DEF p
  <2> QED BY <1>1, <2>1, ToFrontFacts
<1>6. ASSUME NEW i \in 1 .. Len(o) PROVE (<<p>> \o r)[i] = ToFront(o, k, p)[i]
  <2> HIDE DEF p
  <2>1. ToFront(o, k, p)[i] = IF i = 1 THEN p ELSE IF i <= k THEN o[i - 1] ELSE o[i]
    BY <1>1 DEF ToFront
  <2>2. i \in 1 .. Len(r) + 1
    BY <1>1, <1>3
  <2>3. (<<p>> \o r)[i] = IF i = 1 THEN p ELSE r[i - 1]
    BY <2>2, <1>4
  <2>4. CASE i # 1
    <3>1. i - 1 \in 1 .. Len(o) - 1 /\ (i - 1 < k <=> i <= k) /\ (i - 1) + 1 = i
      BY <1>1, <2>4
    <3>2. r[i - 1] = o[IF i - 1 < k THEN i - 1 ELSE (i - 1) + 1]
      BY <1>3, <3>1
    <3>3. r[i - 1] = IF i <= k THEN o[i - 1] ELSE o[i]
      BY <3>1, <3>2
    <3> QED BY <2>1, <2>3, <2>4, <3>3
  <2> QED BY <2>1, <2>3, <2>4
<1>7. Len(<<p>> \o r) = Len(o)
  BY <1>1, <1>3, <1>4
<1>8. <<p>> \o r = ToFront(o, k, p)
  BY <1>1, <1>4, <1>5, <1>6, <1>7, SeqEqual
<1> QED BY <1>2, <1>8

LEMMA NewToFront ==
  ASSUME NEW S, NEW o \in Seq(S), NEW p \in S, \A i \in 1 .. Len(o) : o[i] # p
  PROVE  <<p>> \o Lru!RemoveFirst(o, p) = ToFront(o, Len(o) + 1, p)
<1> DEFINE n == Len(o) + 1
<1>1. Len(o) \in Nat /\ n \in 1 .. Len(o) + 1 /\ ~ (n <= Len(o))
  OBVIOUS
<1>2. Lru!RemoveFirst(o, p) = o
  BY DEF Lru!RemoveFirst
<1>3. /\ <<p>> \o o \in Seq(S) /\ Len(<<p>> \o o) = n
      /\ \A i \in 1 .. n : (<<p>> \o o)[i] = IF i = 1 THEN p ELSE o[i - 1]
  BY PutFirst
<1>4. ToFront(o, n, p) \in Seq(S) /\ Len(ToFront(o, n, p)) = n
  <2> HIDE DEF n
  <2>1. ToFront(o, n, p) \in Seq(S) /\ Len(ToFront(o, n, p)) = IF n <= Len(o) THEN Len(o) ELSE Len(o) + 1
    BY <1>1, ToFrontFacts
  <2> QED BY <1>1, <2>1 DEF n
<1>5. \A i \in 1 .. n : ToFront(o, n, p)[i] = IF i = 1 THEN p ELSE o[i - 1]
  BY <1>1 DEF ToFront
<1>6. <<p>> \o o = ToFront(o, n, p)
  BY <1>3, <1>4, <1>5, SeqEqual
<1> QED BY <1>2, <1>6

-----------------------------------------------------------------------------
(* The times agree: what was never used has the time -1, a TLB entry was   *)
(* used when its frame was, and nothing was used later than now.           *)
Stamped(tlb, memory, now) ==
  /\ \A f \in Frames : memory[f].last_used_time < now
  /\ \A f \in Frames : memory[f].page = NOT_BE_USED <=> memory[f].last_used_time = NOT_BE_USED
  /\ \A i \in TlbIndex :
       IF tlb[i].page_num = NOT_BE_USED
         THEN tlb[i] = UnusedEntry
         ELSE tlb[i].last_used_time = memory[tlb[i].frame_num].last_used_time

(* The TLB has the pages of the frames used last, as many as it can hold.  *)
InTlb(tlb, p) == \E i \in TlbIndex : tlb[i].page_num = p
TopInTlb(tlb, memory, s) ==
  \A k \in 1 .. Len(s) : InTlb(tlb, memory[s[k]].page) <=> k <= SIZE_OF_TLB

Exact(s) == Recent(physical_memory, s) /\ TopInTlb(TLB, physical_memory, s)

LruInv == Stamped(TLB, physical_memory, time) /\ \E s : Exact(s)

PagesOf(memory, s) == [i \in 1 .. Len(s) |-> memory[s[i]].page]

(* A page is in one frame only, and a frame in one place of the order.     *)
LEMMA PlacesDiffer ==
  ASSUME Inv, NEW s, Recent(physical_memory, s)
  PROVE  /\ s \in Seq(Frames) /\ Len(s) \in Nat /\ \A i \in 1 .. Len(s) : s[i] \in Frames
         /\ \A i \in 1 .. Len(s) : /\ physical_memory[s[i]].page \in Pages
                                   /\ page_table[physical_memory[s[i]].page]
                                        = [frame_num |-> s[i], valid |-> TRUE]
         /\ Distinct(s)
         /\ Distinct(PagesOf(physical_memory, s)) /\ PagesOf(physical_memory, s) \in Seq(Pages)
         /\ Len(PagesOf(physical_memory, s)) = Len(s)
<1>1. s \in Seq(Frames) /\ Len(s) \in Nat /\ \A i \in 1 .. Len(s) : s[i] \in Frames
  BY DEF Recent
<1>2. \A f \in Frames : /\ physical_memory[f].last_used_time \in Int
                        /\ physical_memory[f].page \in Pages \cup {NOT_BE_USED}
  BY SizesAssumption DEF Inv, TypeOK, Times, NOT_BE_USED
<1>3. \A i \in 1 .. Len(s) : physical_memory[s[i]].page # NOT_BE_USED
  BY <1>1 DEF Recent, Lists
<1>4. \A i \in 1 .. Len(s) : /\ physical_memory[s[i]].page \in Pages
                             /\ page_table[physical_memory[s[i]].page]
                                  = [frame_num |-> s[i], valid |-> TRUE]
  BY <1>1, <1>2, <1>3 DEF Inv, PageTableCoherent
<1>5. Distinct(s)
  <2> SUFFICES ASSUME NEW i \in 1 .. Len(s), NEW j \in 1 .. Len(s), i < j PROVE s[i] # s[j]
    BY <1>1 DEF Distinct
  <2>1. physical_memory[s[i]].last_used_time > physical_memory[s[j]].last_used_time
    BY DEF Recent, InOrder
  <2> QED BY <1>1, <1>2, <2>1
<1>6. PagesOf(physical_memory, s) \in Seq(Pages) /\ Len(PagesOf(physical_memory, s)) = Len(s)
  <2>1. \A i \in 1 .. Len(s) : physical_memory[s[i]].page \in Pages
    BY <1>4
  <2>2. PagesOf(physical_memory, s) \in [1 .. Len(s) -> Pages]
    BY <2>1 DEF PagesOf
  <2> QED BY <1>1, <2>2
<1>7. Distinct(PagesOf(physical_memory, s))
  <2> SUFFICES ASSUME NEW i \in 1 .. Len(s), NEW j \in 1 .. Len(s),
                      physical_memory[s[i]].page = physical_memory[s[j]].page
               PROVE  i = j
    BY <1>6 DEF Distinct, PagesOf
  <2>1. page_table[physical_memory[s[i]].page] = [frame_num |-> s[i], valid |-> TRUE]
    BY <1>4, Zenon
  <2>2. page_table[physical_memory[s[j]].page] = [frame_num |-> s[j], valid |-> TRUE]
    BY <1>4, Zenon
  <2>3. [frame_num |-> s[i], valid |-> TRUE] = [frame_num |-> s[j], valid |-> TRUE]
    BY <2>1, <2>2, Zenon
  <2>4. \A x, y : [frame_num |-> x, valid |-> TRUE] = [frame_num |-> y, valid |-> TRUE] => x = y
    OBVIOUS
  <2>5. s[i] = s[j]
    BY <2>3, <2>4, Zenon
  <2> QED BY <2>5, <1>5 DEF Distinct
<1> QED BY <1>1, <1>4, <1>5, <1>6, <1>7

LEMMA TlbSize == IsFiniteSet(TlbIndex) /\ Cardinality(TlbIndex) = SIZE_OF_TLB
BY SizesAssumption, FS_Interval DEF TlbIndex

LEMMA IntervalSize ==
  ASSUME NEW n \in Nat
  PROVE  IsFiniteSet(1 .. n) /\ Cardinality(1 .. n) = n
<1>1. IsFiniteSet(1 .. n) /\ Cardinality(1 .. n) = IF 1 > n THEN 0 ELSE n - 1 + 1
  BY FS_Interval
<1> QED BY <1>1

(* A used entry of the TLB names a frame of the order.                     *)
LEMMA EntryPlace ==
  ASSUME Inv, NEW s, Exact(s), NEW i \in TlbIndex, TLB[i].page_num # NOT_BE_USED
  PROVE  \E k \in 1 .. Len(s) : /\ s[k] = TLB[i].frame_num /\ k <= SIZE_OF_TLB
                                /\ physical_memory[s[k]].page = TLB[i].page_num
<1>1. TLB[i].page_num \in Pages
  BY DEF Inv, TypeOK
<1>2. page_table[TLB[i].page_num] = [frame_num |-> TLB[i].frame_num, valid |-> TRUE]
  BY DEF Inv, TlbCoherent
<1>3. /\ TLB[i].frame_num \in Frames
      /\ physical_memory[TLB[i].frame_num].page = TLB[i].page_num
  BY <1>1, <1>2 DEF Inv, PageTableCoherent
<1>4. PICK k \in 1 .. Len(s) : s[k] = TLB[i].frame_num
  BY <1>3 DEF Exact, Recent, Lists
<1>5. InTlb(TLB, physical_memory[s[k]].page)
  BY <1>3, <1>4 DEF InTlb
<1> QED BY <1>3, <1>4, <1>5 DEF Exact, TopInTlb

(* The TLB is full exactly when that many frames are in use.               *)
LEMMA FullTlb ==
  ASSUME Inv, NEW s, Exact(s), Len(s) >= SIZE_OF_TLB
  PROVE  \A i \in TlbIndex : TLB[i].page_num # NOT_BE_USED
<1> DEFINE entry == [k \in 1 .. SIZE_OF_TLB |->
                       CHOOSE i \in TlbIndex : TLB[i].page_num = physical_memory[s[k]].page]
<1>1. SIZE_OF_TLB \in Nat /\ Len(s) \in Nat /\ \A k \in 1 .. SIZE_OF_TLB : k \in 1 .. Len(s)
  BY SizesAssumption, PlacesDiffer DEF Exact
<1>2. \A k \in 1 .. SIZE_OF_TLB : InTlb(TLB, physical_memory[s[k]].page)
  BY <1>1 DEF Exact, TopInTlb
<1>3. \A k \in 1 .. SIZE_OF_TLB : /\ entry[k] \in TlbIndex
                                  /\ TLB[entry[k]].page_num = physical_memory[s[k]].page
  BY <1>2 DEF InTlb
<1>4. entry \in [1 .. SIZE_OF_TLB -> TlbIndex]
  BY <1>3
<1> HIDE DEF entry
<1>5. \A k, l \in 1 .. SIZE_OF_TLB : entry[k] = entry[l] => k = l
  <2>1. \A k, l \in 1 .. Len(s) : physical_memory[s[k]].page = physical_memory[s[l]].page => k = l
    BY PlacesDiffer DEF Exact, Distinct, PagesOf
  <2> QED BY <1>1, <1>3, <2>1
<1>6. entry \in Surjection(1 .. SIZE_OF_TLB, TlbIndex)
  <2>1. entry \in Injection(1 .. SIZE_OF_TLB, TlbIndex)
    BY <1>4, <1>5 DEF Injection, IsInjective
  <2>2. Cardinality(1 .. SIZE_OF_TLB) = Cardinality(TlbIndex)
    BY <1>1, IntervalSize, TlbSize
  <2> QED BY <2>1, <2>2, TlbSize, FS_Injection
<1> SUFFICES ASSUME NEW i \in TlbIndex PROVE TLB[i].page_num # NOT_BE_USED
  OBVIOUS
<1>7. PICK k \in 1 .. SIZE_OF_TLB : entry[k] = i
  BY <1>6 DEF Surjection
<1>8. physical_memory[s[k]].page \in Pages
  BY <1>1, PlacesDiffer DEF Exact
<1> QED BY <1>3, <1>7, <1>8 DEF Pages, NOT_BE_USED

LEMMA RoomInTlb ==
  ASSUME Inv, NEW s, Exact(s), Len(s) < SIZE_OF_TLB
  PROVE  \E i \in TlbIndex : TLB[i].page_num = NOT_BE_USED
<1> SUFFICES ASSUME \A i \in TlbIndex : TLB[i].page_num # NOT_BE_USED PROVE FALSE
  OBVIOUS
<1> DEFINE place == [i \in TlbIndex |->
             CHOOSE k \in 1 .. Len(s) : physical_memory[s[k]].page = TLB[i].page_num]
<1>1. SIZE_OF_TLB \in Nat /\ Len(s) \in Nat
  BY SizesAssumption, PlacesDiffer DEF Exact
<1>2. \A i \in TlbIndex : \E k \in 1 .. Len(s) : physical_memory[s[k]].page = TLB[i].page_num
  BY EntryPlace
<1>3. \A i \in TlbIndex : /\ place[i] \in 1 .. Len(s)
                          /\ physical_memory[s[place[i]]].page = TLB[i].page_num
  BY <1>2
<1>4. place \in [TlbIndex -> 1 .. Len(s)]
  BY <1>3
<1> HIDE DEF place
<1>5. \A i, j \in TlbIndex : place[i] = place[j] => i = j
  <2> SUFFICES ASSUME NEW i \in TlbIndex, NEW j \in TlbIndex, place[i] = place[j] PROVE i = j
    OBVIOUS
  <2>1. TLB[i].page_num = TLB[j].page_num
    BY <1>3
  <2>2. Cached(TLB[i].page_num) = {i}
    BY DEF Inv, TlbCoherent
  <2>3. j \in Cached(TLB[i].page_num)
    BY <2>1 DEF Cached
  <2> QED BY <2>2, <2>3
<1>6. place \in Injection(TlbIndex, 1 .. Len(s))
  BY <1>4, <1>5 DEF Injection, IsInjective
<1>7. IsFiniteSet(1 .. Len(s)) /\ Cardinality(1 .. Len(s)) = Len(s)
  BY <1>1, IntervalSize
<1>8. Cardinality(TlbIndex) <= Cardinality(1 .. Len(s))
  BY <1>6, <1>7, FS_Injection
<1> QED BY <1>1, <1>7, <1>8, TlbSize

(* Memory is full exactly when the order has all frames.                   *)
LEMMA FullMemory ==
  ASSUME Inv, NEW s, Recent(physical_memory, s)
  PROVE  /\ Len(s) <= NUM_OF_FRAME
         /\ Len(s) = NUM_OF_FRAME <=> \A f \in Frames : physical_memory[f].page # NOT_BE_USED
<1>1. s \in [1 .. Len(s) -> Frames] /\ Len(s) \in Nat
  BY PlacesDiffer
<1>2. s \in Injection(1 .. Len(s), Frames)
  BY <1>1, PlacesDiffer DEF Injection, IsInjective, Distinct
<1>3. IsFiniteSet(1 .. Len(s)) /\ Cardinality(1 .. Len(s)) = Len(s)
  BY <1>1, IntervalSize
<1>4. /\ Cardinality(1 .. Len(s)) <= Cardinality(Frames)
      /\ Cardinality(1 .. Len(s)) = Cardinality(Frames) <=> s \in Surjection(1 .. Len(s), Frames)
  BY <1>2, FiniteFrames, FS_Injection
<1>5. s \in Surjection(1 .. Len(s), Frames) <=> \A f \in Frames : \E i \in 1 .. Len(s) : s[i] = f
  BY <1>1 DEF Surjection
<1>6. (\A f \in Frames : \E i \in 1 .. Len(s) : s[i] = f)
        <=> \A f \in Frames : physical_memory[f].page # NOT_BE_USED
  BY DEF Recent, Lists
<1> QED BY <1>3, <1>4, <1>5, <1>6, FiniteFrames

-----------------------------------------------------------------------------
(* An access on both sides: the frame in front of the frames, its page in  *)
(* front of the pages.                                                     *)
LEMMA PagesMove ==
  ASSUME NEW memory, NEW more, NEW s \in Seq(Frames), NEW k \in 1 .. Len(s) + 1,
         NEW f \in Frames, \A i \in 1 .. Len(s) : i # k => s[i] # f,
         \A g \in Frames \ {f} : more[g] = memory[g]
  PROVE  PagesOf(more, ToFront(s, k, f)) = ToFront(PagesOf(memory, s), k, more[f].page)
<1> DEFINE t == ToFront(s, k, f)
           o == PagesOf(memory, s)
           p == more[f].page
           n == IF k <= Len(s) THEN Len(s) ELSE k
<1>1. Len(s) \in Nat /\ k \in Nat /\ 1 <= k /\ k <= Len(s) + 1 /\ \A i \in 1 .. Len(s) : s[i] \in Frames
  OBVIOUS
<1>2. Len(o) = Len(s) /\ \A i \in 1 .. Len(s) : o[i] = memory[s[i]].page
  BY <1>1 DEF PagesOf
<1>3. Len(t) = n
  <2>1. Len(t) = IF k <= Len(s) THEN Len(s) ELSE Len(s) + 1
    BY <1>1, ToFrontFacts
  <2> QED BY <1>1, <2>1
<1>4. PagesOf(more, t) = [i \in 1 .. n |-> more[t[i]].page]
  BY <1>3 DEF PagesOf
<1>5. ToFront(o, k, p) =
        [i \in 1 .. n |-> IF i = 1 THEN p ELSE IF i <= k THEN o[i - 1] ELSE o[i]]
  BY <1>2 DEF ToFront
<1>6. \A i \in 1 .. n : t[i] = IF i = 1 THEN f ELSE IF i <= k THEN s[i - 1] ELSE s[i]
  BY DEF ToFront
<1> HIDE DEF t, o, p
<1>7. ASSUME NEW i \in 1 .. n
      PROVE  more[t[i]].page = IF i = 1 THEN p ELSE IF i <= k THEN o[i - 1] ELSE o[i]
  <2>1. CASE i = 1
    <3>1. t[i] = f
      BY <1>6, <2>1
    <3> QED BY <2>1, <3>1 DEF p
  <2>2. CASE i # 1 /\ i <= k
    <3>1. i - 1 \in 1 .. Len(s) /\ i - 1 # k
      BY <1>1, <2>2
    <3>2. t[i] = s[i - 1]
      BY <1>6, <2>2
    <3>3. more[s[i - 1]] = memory[s[i - 1]]
      BY <1>1, <3>1
    <3>4. o[i - 1] = memory[s[i - 1]].page
      BY <1>2, <3>1
    <3> QED BY <2>2, <3>2, <3>3, <3>4
  <2>3. CASE i # 1 /\ ~ (i <= k)
    <3>1. i \in 1 .. Len(s) /\ i # k
      BY <1>1, <2>3
    <3>2. t[i] = s[i]
      BY <1>6, <2>3
    <3>3. more[s[i]] = memory[s[i]]
      BY <1>1, <3>1
    <3>4. o[i] = memory[s[i]].page
      BY <1>2, <3>1
    <3> QED BY <2>3, <3>2, <3>3, <3>4
  <2> QED BY <2>1, <2>2, <2>3
<1>8. PagesOf(more, t) = ToFront(o, k, p)
  BY <1>4, <1>5, <1>7
<1> QED BY <1>8 DEF t, o, p

(* Where the page accessed stands: in the order, or behind it, or, when    *)
(* memory is full, in the place of the page that has to go.                *)
Place(o, p, k) ==
  \/ k \in 1 .. Len(o) /\ o[k] = p
  \/ /\ \A i \in 1 .. Len(o) : o[i] # p
     /\ k = IF Len(o) < NUM_OF_FRAME THEN Len(o) + 1 ELSE NUM_OF_FRAME

LEMMA OrderAfter ==
  ASSUME NEW o \in Seq(Pages), Distinct(o), Len(o) <= NUM_OF_FRAME,
         NEW p \in Pages, NEW k, Place(o, p, k)
  PROVE  Lru!Truncate(<<p>> \o Lru!RemoveFirst(o, p), NUM_OF_FRAME) = ToFront(o, k, p)
<1> DEFINE u == <<p>> \o Lru!RemoveFirst(o, p)
           N == NUM_OF_FRAME
<1>1. Len(o) \in Nat /\ N \in Nat /\ 1 <= N
  BY SizesAssumption
<1>2. \A w \in Seq(Pages) : Len(w) <= N => Lru!Truncate(w, N) = w
  <2> SUFFICES ASSUME NEW w \in Seq(Pages), Len(w) <= N PROVE Lru!Truncate(w, N) = w
    OBVIOUS
  <2>1. Len(w) \in Nat
    OBVIOUS
  <2>2. (IF Len(w) < N THEN Len(w) ELSE N) = Len(w)
    BY <1>1, <2>1
  <2>3. SubSeq(w, 1, Len(w)) = w
    OBVIOUS
  <2> QED BY <2>2, <2>3 DEF Lru!Truncate
<1>3. CASE k \in 1 .. Len(o) /\ o[k] = p
  <2>1. u = ToFront(o, k, p)
    BY <1>3, KnownToFront
  <2>2. k \in 1 .. Len(o) + 1 /\ k <= Len(o)
    BY <1>1, <1>3
  <2>3. ToFront(o, k, p) \in Seq(Pages) /\ Len(ToFront(o, k, p)) = Len(o)
    BY <2>2, ToFrontFacts
  <2> QED BY <1>2, <2>1, <2>3
<1>4. CASE /\ \A i \in 1 .. Len(o) : o[i] # p
           /\ k = IF Len(o) < N THEN Len(o) + 1 ELSE N
  <2>1. u = ToFront(o, Len(o) + 1, p)
    BY <1>4, NewToFront
  <2> DEFINE n == Len(o) + 1
  <2>2. n \in 1 .. Len(o) + 1 /\ ~ (n <= Len(o))
    BY <1>1
  <2>3. ToFront(o, n, p) \in Seq(Pages) /\ Len(ToFront(o, n, p)) = n
    <3> HIDE DEF n
    <3>1. ToFront(o, n, p) \in Seq(Pages)
          /\ Len(ToFront(o, n, p)) = IF n <= Len(o) THEN Len(o) ELSE Len(o) + 1
      BY <2>2, ToFrontFacts
    <3> QED BY <2>2, <3>1 DEF n
  <2>4. CASE Len(o) < N
    <3>1. k = n /\ n <= N
      BY <1>1, <1>4, <2>4
    <3> QED BY <1>2, <2>1, <2>3, <3>1
  <2>5. CASE ~ (Len(o) < N)
    <3>1. k = N /\ Len(o) = N /\ N < n /\ N \in 1 .. Len(o) /\ N \in 1 .. Len(o) + 1
      BY <1>1, <1>4, <2>5
    <3>2. Lru!Truncate(u, N) = SubSeq(ToFront(o, n, p), 1, N)
      BY <2>1, <2>3, <3>1, <1>1 DEF Lru!Truncate
    <3>3. /\ ToFront(o, N, p) \in Seq(Pages)
          /\ Len(ToFront(o, N, p)) = IF N <= Len(o) THEN Len(o) ELSE Len(o) + 1
      BY <3>1, ToFrontFacts
    <3>4. Len(ToFront(o, N, p)) = N
      BY <3>1, <3>3, <1>1
    <3> DEFINE w == ToFront(o, n, p)
               x == ToFront(o, N, p)
    <3>5. \A i \in 1 .. N : w[i] = x[i]
      <4> SUFFICES ASSUME NEW i \in 1 .. N PROVE w[i] = x[i]
        OBVIOUS
      <4>1. w[i] = IF i = 1 THEN p ELSE IF i <= n THEN o[i - 1] ELSE o[i]
        BY <1>1, <2>2, <3>1 DEF ToFront
      <4>2. x[i] = IF i = 1 THEN p ELSE IF i <= N THEN o[i - 1] ELSE o[i]
        BY <1>1, <3>1 DEF ToFront
      <4>3. i <= n /\ i <= N
        BY <1>1, <3>1
      <4> QED BY <4>1, <4>2, <4>3
    <3>6. w \in Seq(Pages) /\ Len(w) = n /\ x \in Seq(Pages) /\ Len(x) = N
      BY <2>3, <3>3, <3>4
    <3> HIDE DEF w, x
    <3>7. /\ SubSeq(w, 1, N) \in Seq(Pages) /\ Len(SubSeq(w, 1, N)) = N
          /\ \A i \in 1 .. N : SubSeq(w, 1, N)[i] = w[i]
      <4>1. N \in 1 .. Len(w) + 1 /\ N <= Len(w) /\ N \in Nat
        BY <1>1, <3>1, <3>6
      <4>2. SubSeq(w, 1, N) = [i \in 1 .. N |-> w[i]]
        BY <4>1, <3>6
      <4>3. \A i \in 1 .. N : w[i] \in Pages
        BY <3>6, <3>1, <1>1
      <4> QED BY <4>1, <4>2, <4>3
    <3>8. SubSeq(w, 1, N) = x
      BY <3>5, <3>6, <3>7, SeqEqual
    <3> QED BY <3>1, <3>2, <3>8 DEF w, x
  <2> QED BY <2>4, <2>5
<1> QED BY <1>3, <1>4 DEF Place

-----------------------------------------------------------------------------
(* What the two replacements choose.                                       *)
LEMMA EarliestIsLeast ==
  ASSUME NEW table, NEW i, Earliest(table, i),
         \E j \in DOMAIN table : table[j].last_used_time < time
  PROVE  /\ table[i].last_used_time < time
         /\ \A j \in DOMAIN table : \/ table[i].last_used_time < table[j].last_used_time
                                    \/ table[i].last_used_time = table[j].last_used_time
BY DEF Earliest

(* A frame never used, or else the last one of the order.                  *)
LEMMA VictimFrame ==
  ASSUME Inv, Stamped(TLB, physical_memory, time), NEW s, Recent(physical_memory, s),
         NEW v \in Frames, Earliest(physical_memory, v)
  PROVE  \/ Len(s) < NUM_OF_FRAME /\ physical_memory[v].page = NOT_BE_USED
         \/ Len(s) = NUM_OF_FRAME /\ v = s[Len(s)] /\ Len(s) \in 1 .. Len(s)
<1> DEFINE used(f) == physical_memory[f].last_used_time
<1>1. \A f \in Frames : used(f) \in Int /\ used(f) >= -1
  BY SizesAssumption DEF Inv, TypeOK, Times, NOT_BE_USED
<1>2. DOMAIN physical_memory = Frames
  BY DEF Inv, TypeOK
<1>3. \A f \in Frames : used(f) < time
  BY DEF Stamped
<1>4. \A f \in Frames : used(v) <= used(f)
  <2>1. \A f \in Frames : used(v) < used(f) \/ used(v) = used(f)
    BY <1>2, <1>3, EarliestIsLeast
  <2> QED BY <1>1, <2>1
<1>5. Len(s) <= NUM_OF_FRAME
      /\ (Len(s) = NUM_OF_FRAME <=> \A f \in Frames : physical_memory[f].page # NOT_BE_USED)
  BY FullMemory
<1>6. Len(s) \in Nat /\ NUM_OF_FRAME \in Nat \ {0} /\ \A i \in 1 .. Len(s) : s[i] \in Frames
  BY PlacesDiffer, SizesAssumption
<1>7. CASE \E f \in Frames : physical_memory[f].page = NOT_BE_USED
  <2>1. PICK f \in Frames : physical_memory[f].page = NOT_BE_USED
    BY <1>7
  <2>2. used(f) = -1
    BY <2>1 DEF Stamped, NOT_BE_USED
  <2>3. used(v) = -1
    BY <1>1, <1>4, <2>2
  <2>4. physical_memory[v].page = NOT_BE_USED
    BY <2>3 DEF Stamped, NOT_BE_USED
  <2> QED BY <1>5, <1>6, <1>7, <2>4
<1>8. CASE \A f \in Frames : physical_memory[f].page # NOT_BE_USED
  <2>1. Len(s) = NUM_OF_FRAME /\ Len(s) \in 1 .. Len(s)
    BY <1>5, <1>6, <1>8
  <2>2. PICK i \in 1 .. Len(s) : s[i] = v
    BY <1>8 DEF Recent, Lists
  <2>3. i = Len(s)
    <3> SUFFICES ASSUME i < Len(s) PROVE FALSE
      BY <1>6
    <3>1. used(s[i]) > used(s[Len(s)])
      BY <2>1 DEF Recent, InOrder
    <3> QED BY <3>1, <2>1, <2>2, <1>1, <1>4, <1>6
  <2> QED BY <2>1, <2>2, <2>3
<1> QED BY <1>7, <1>8

(* The entry with the time of the frame's last use.                        *)
LEMMA EntryTime ==
  ASSUME Inv, Stamped(TLB, physical_memory, time), NEW i \in TlbIndex
  PROVE  /\ TLB[i].last_used_time \in Int /\ TLB[i].last_used_time < time
         /\ TLB[i].page_num = NOT_BE_USED => TLB[i].last_used_time = -1
         /\ TLB[i].page_num # NOT_BE_USED => TLB[i].last_used_time >= 0
<1>1. time \in Nat /\ TLB[i].last_used_time \in Int /\ TLB[i].last_used_time >= -1
  BY SizesAssumption DEF Inv, TypeOK, Times, NOT_BE_USED
<1>2. CASE TLB[i].page_num = NOT_BE_USED
  <2>1. TLB[i] = UnusedEntry
    BY <1>2 DEF Stamped
  <2> QED BY <1>1, <1>2, <2>1 DEF UnusedEntry, NOT_BE_USED
<1>3. CASE TLB[i].page_num # NOT_BE_USED
  <2> DEFINE f == TLB[i].frame_num
  <2>1. TLB[i].page_num \in Pages
    BY <1>3 DEF Inv, TypeOK
  <2>2. page_table[TLB[i].page_num] = [frame_num |-> f, valid |-> TRUE]
    BY <1>3 DEF Inv, TlbCoherent
  <2>3. f \in Frames /\ physical_memory[f].page = TLB[i].page_num
    BY <2>1, <2>2 DEF Inv, PageTableCoherent
  <2>4. TLB[i].last_used_time = physical_memory[f].last_used_time
    BY <1>3 DEF Stamped
  <2>5. physical_memory[f].last_used_time < time /\ physical_memory[f].last_used_time # -1
    BY <2>3, <1>3 DEF Stamped, NOT_BE_USED
  <2> QED BY <1>1, <1>3, <2>4, <2>5
<1> QED BY <1>2, <1>3

(* An entry never used or flushed, when there is one ...                   *)
LEMMA UnusedVictim ==
  ASSUME Inv, Stamped(TLB, physical_memory, time), NEW B, DOMAIN B = TlbIndex,
         \A i \in TlbIndex : B[i] = TLB[i] \/ B[i] = UnusedEntry,
         \E i \in TlbIndex : B[i].page_num = NOT_BE_USED,
         NEW j \in TlbIndex, Earliest(B, j)
  PROVE  B[j].page_num = NOT_BE_USED
<1>1. \A i \in TlbIndex : /\ B[i].last_used_time \in Int
                          /\ B[i].page_num = NOT_BE_USED => B[i].last_used_time = -1
                          /\ B[i].page_num # NOT_BE_USED => B[i].last_used_time >= 0
  BY EntryTime DEF UnusedEntry, NOT_BE_USED
<1>2. time \in Nat
  BY DEF Inv, TypeOK
<1>3. PICK i \in TlbIndex : B[i].page_num = NOT_BE_USED
  OBVIOUS
<1>4. B[i].last_used_time = -1 /\ B[i].last_used_time < time
  BY <1>1, <1>2, <1>3
<1>5. \/ B[j].last_used_time < B[i].last_used_time
      \/ B[j].last_used_time = B[i].last_used_time
  BY <1>4, EarliestIsLeast
<1> QED BY <1>1, <1>4, <1>5

(* ... or else the entry of the last page that the TLB has.                *)
LEMMA UsedVictim ==
  ASSUME Inv, Stamped(TLB, physical_memory, time), NEW s, Exact(s),
         \A i \in TlbIndex : TLB[i].page_num # NOT_BE_USED,
         NEW j \in TlbIndex, Earliest(TLB, j)
  PROVE  /\ SIZE_OF_TLB \in 1 .. Len(s)
         /\ TLB[j].page_num = physical_memory[s[SIZE_OF_TLB]].page
<1> DEFINE T == SIZE_OF_TLB
           used(f) == physical_memory[f].last_used_time
<1>1. /\ T \in Nat \ {0} /\ Len(s) \in Nat /\ \A i \in 1 .. Len(s) : s[i] \in Frames
      /\ \A f \in Frames : used(f) \in Int
  BY PlacesDiffer, SizesAssumption DEF Exact, Inv, TypeOK, Times, NOT_BE_USED
<1>2. T \in 1 .. Len(s)
  BY <1>1, RoomInTlb
<1>3. DOMAIN TLB = TlbIndex
  BY DEF Inv, TypeOK
<1>4. \A i \in TlbIndex : \/ TLB[j].last_used_time < TLB[i].last_used_time
                          \/ TLB[j].last_used_time = TLB[i].last_used_time
  <2>1. \E i \in DOMAIN TLB : TLB[i].last_used_time < time
    BY <1>3, EntryTime
  <2> QED BY <1>3, <2>1, EarliestIsLeast
<1>5. PICK k \in 1 .. Len(s) : /\ s[k] = TLB[j].frame_num /\ k <= T
                               /\ physical_memory[s[k]].page = TLB[j].page_num
  BY EntryPlace
<1>6. PICK i \in TlbIndex : TLB[i].page_num = physical_memory[s[T]].page
  <2>1. InTlb(TLB, physical_memory[s[T]].page)
    BY <1>1, <1>2 DEF Exact, TopInTlb
  <2> QED BY <2>1 DEF InTlb
<1>7. TLB[i].frame_num = s[T]
  <2>1. PICK l \in 1 .. Len(s) : /\ s[l] = TLB[i].frame_num
                                 /\ physical_memory[s[l]].page = TLB[i].page_num
    BY EntryPlace
  <2>2. l = T
    BY <1>2, <1>6, <2>1, PlacesDiffer DEF Exact, Distinct, PagesOf
  <2> QED BY <2>1, <2>2
<1>8. TLB[j].last_used_time = used(s[k]) /\ TLB[i].last_used_time = used(s[T])
  BY <1>5, <1>7 DEF Stamped
<1>9. k = T
  <2> SUFFICES ASSUME k < T PROVE FALSE
    BY <1>1, <1>5
  <2>1. used(s[k]) > used(s[T])
    BY <1>2 DEF Exact, Recent, InOrder
  <2> QED BY <1>1, <1>2, <1>4, <1>8, <2>1
<1> QED BY <1>2, <1>5, <1>9

-----------------------------------------------------------------------------
(* The times after an access of page p, in frame f.                        *)
LEMMA StampStep ==
  ASSUME Inv, Stamped(TLB, physical_memory, time),
         NEW f \in Frames, NEW p \in Pages, NEW tlb, NEW more \in Memories,
         more[f] = [page |-> p, last_used_time |-> time],
         \A g \in Frames \ {f} : more[g] = physical_memory[g],
         \A i \in TlbIndex : \/ tlb[i] = UnusedEntry
                             \/ tlb[i] = Entry(p, f)
                             \/ tlb[i] = TLB[i] /\ TLB[i].frame_num # f
  PROVE  Stamped(tlb, more, time + 1)
<1>1. time \in Nat
  BY DEF Inv, TypeOK
<1>2. \A g \in Frames : physical_memory[g].last_used_time \in Int
  BY SizesAssumption DEF Inv, TypeOK, Times, NOT_BE_USED
<1>3. \A g \in Frames : more[g].last_used_time < time + 1
  <2> SUFFICES ASSUME NEW g \in Frames PROVE more[g].last_used_time < time + 1
    OBVIOUS
  <2>1. CASE g = f
    BY <2>1, <1>1
  <2>2. CASE g # f
    <3>1. more[g].last_used_time < time /\ more[g].last_used_time \in Int
      BY <2>2, <1>2 DEF Stamped
    <3> QED BY <1>1, <3>1
  <2> QED BY <2>1, <2>2
<1>4. \A g \in Frames : more[g].page = NOT_BE_USED <=> more[g].last_used_time = NOT_BE_USED
  <2> SUFFICES ASSUME NEW g \in Frames
               PROVE  more[g].page = NOT_BE_USED <=> more[g].last_used_time = NOT_BE_USED
    OBVIOUS
  <2>1. CASE g = f
    BY <2>1, <1>1 DEF Pages, NOT_BE_USED
  <2>2. CASE g # f
    BY <2>2 DEF Stamped
  <2> QED BY <2>1, <2>2
<1>5. ASSUME NEW i \in TlbIndex
      PROVE  IF tlb[i].page_num = NOT_BE_USED
               THEN tlb[i] = UnusedEntry
               ELSE tlb[i].last_used_time = more[tlb[i].frame_num].last_used_time
  <2>1. CASE tlb[i] = UnusedEntry
    BY <2>1 DEF UnusedEntry
  <2>2. CASE tlb[i] = Entry(p, f)
    <3>1. tlb[i].page_num = p /\ tlb[i].frame_num = f /\ tlb[i].last_used_time = time
      BY <2>2 DEF Entry
    <3>2. p # NOT_BE_USED
      BY DEF Pages, NOT_BE_USED
    <3>3. more[f].last_used_time = time
      OBVIOUS
    <3> QED BY <3>1, <3>2, <3>3
  <2>3. CASE tlb[i] = TLB[i] /\ TLB[i].frame_num # f
    <3>1. CASE TLB[i].page_num = NOT_BE_USED
      BY <2>3, <3>1 DEF Stamped
    <3>2. CASE TLB[i].page_num # NOT_BE_USED
      <4>1. TLB[i].page_num \in Pages
        BY <3>2 DEF Inv, TypeOK
      <4>2. page_table[TLB[i].page_num] = [frame_num |-> TLB[i].frame_num, valid |-> TRUE]
        BY <3>2 DEF Inv, TlbCoherent
      <4>3. TLB[i].frame_num \in Frames
        BY <4>1, <4>2 DEF Inv, PageTableCoherent
      <4>4. more[TLB[i].frame_num] = physical_memory[TLB[i].frame_num]
        BY <4>3, <2>3
      <4>5. TLB[i].last_used_time = physical_memory[TLB[i].frame_num].last_used_time
        BY <3>2 DEF Stamped
      <4> QED BY <2>3, <3>2, <4>4, <4>5
    <3> QED BY <3>1, <3>2
  <2> QED BY <2>1, <2>2, <2>3
<1> QED BY <1>3, <1>4, <1>5 DEF Stamped

(* The TLB after an access that put page p into it: the first T pages of   *)
(* the new order, if it kept those before place T (after a hit at place k, *)
(* those up to T).                                                         *)
LEMMA TopStep ==
  ASSUME NEW memory, NEW more, NEW s \in Seq(Frames), NEW k \in 1 .. Len(s) + 1,
         NEW f \in Frames, NEW tlb, InTlb(tlb, more[f].page),
         \A i \in 1 .. Len(s) : i # k => s[i] # f,
         \A g \in Frames \ {f} : more[g] = memory[g],
         \/ /\ k <= SIZE_OF_TLB
            /\ \A l \in 1 .. Len(s) : l # k =>
                 (InTlb(tlb, memory[s[l]].page) <=> l <= SIZE_OF_TLB)
            /\ k <= Len(s)
         \/ /\ k >= SIZE_OF_TLB \/ k >= Len(s)
            /\ \A l \in 1 .. Len(s) : l # k =>
                 (InTlb(tlb, memory[s[l]].page) <=> l < SIZE_OF_TLB)
  PROVE  TopInTlb(tlb, more, ToFront(s, k, f))
<1> DEFINE t == ToFront(s, k, f)
           T == SIZE_OF_TLB
           from(i) == IF i <= k THEN i - 1 ELSE i
<1>1. Len(s) \in Nat /\ k \in Nat /\ 1 <= k /\ k <= Len(s) + 1 /\ T \in Nat \ {0}
      /\ \A i \in 1 .. Len(s) : s[i] \in Frames
  BY SizesAssumption
<1>2. t[1] = f /\ Len(t) = IF k <= Len(s) THEN Len(s) ELSE Len(s) + 1
  BY ToFrontFacts
<1>3. \A i \in 2 .. Len(t) : from(i) \in 1 .. Len(s) /\ from(i) # k /\ t[i] = s[from(i)]
  BY Behind
<1> HIDE DEF t
<1> SUFFICES ASSUME NEW i \in 1 .. Len(t) PROVE InTlb(tlb, more[t[i]].page) <=> i <= T
  BY DEF TopInTlb, t
<1>4. CASE i = 1
  BY <1>1, <1>2, <1>4
<1>5. CASE i # 1
  <2>1. i \in 2 .. Len(t)
    BY <1>1, <1>2, <1>5
  <2>2. from(i) \in 1 .. Len(s) /\ from(i) # k /\ t[i] = s[from(i)]
    BY <1>3, <2>1
  <2>3. CASE /\ k <= T
             /\ \A l \in 1 .. Len(s) : l # k => (InTlb(tlb, memory[s[l]].page) <=> l <= T)
             /\ k <= Len(s)
    <3>1. from(i) <= T <=> i <= T
      BY <1>1, <2>1, <2>3
    <3> HIDE DEF from
    <3>2. more[t[i]] = memory[s[from(i)]]
      BY <1>1, <2>2
    <3>3. InTlb(tlb, memory[s[from(i)]].page) <=> from(i) <= T
      BY <2>2, <2>3
    <3> QED BY <3>1, <3>2, <3>3
  <2>4. CASE /\ k >= T \/ k >= Len(s)
             /\ \A l \in 1 .. Len(s) : l # k => (InTlb(tlb, memory[s[l]].page) <=> l < T)
    <3>1. from(i) < T <=> i <= T
      BY <1>1, <1>2, <2>1, <2>4
    <3> HIDE DEF from
    <3>2. more[t[i]] = memory[s[from(i)]]
      BY <1>1, <2>2
    <3>3. InTlb(tlb, memory[s[from(i)]].page) <=> from(i) < T
      BY <2>2, <2>4
    <3> QED BY <3>1, <3>2, <3>3
  <2> QED BY <2>3, <2>4
<1> QED BY <1>4, <1>5

-----------------------------------------------------------------------------
(* The order after an access.                                              *)
LEMMA OrderStep ==
  ASSUME Inv, Stamped(TLB, physical_memory, time), NEW s, Recent(physical_memory, s),
         NEW f \in Frames, NEW p \in Pages, NEW k \in 1 .. Len(s) + 1,
         Place(PagesOf(physical_memory, s), p, k),
         k <= Len(s) => s[k] = f,
         k = Len(s) + 1 => physical_memory[f].page = NOT_BE_USED,
         NEW more \in Memories,
         more[f] = [page |-> p, last_used_time |-> time],
         \A g \in Frames \ {f} : more[g] = physical_memory[g]
  PROVE  /\ Recent(more, ToFront(s, k, f))
         /\ OrderOf(more) =
              Lru!Truncate(<<p>> \o Lru!RemoveFirst(RecencyOrder, p), NUM_OF_FRAME)
         /\ \A i \in 1 .. Len(s) : i # k => s[i] # f
<1> DEFINE o == PagesOf(physical_memory, s)
           t == ToFront(s, k, f)
<1>1. physical_memory \in Memories /\ time \in Int
  BY DEF Inv, TypeOK, Memories
<1>2. s \in Seq(Frames) /\ Len(s) \in Nat /\ Distinct(s)
  BY PlacesDiffer
<1>3. o \in Seq(Pages) /\ Distinct(o) /\ Len(o) <= NUM_OF_FRAME
  <2>1. Len(o) = Len(s)
    BY PlacesDiffer
  <2> QED BY <2>1, PlacesDiffer, FullMemory
<1>4. Recent(more, t)
  <2>1. \A g \in Frames : physical_memory[g].last_used_time < time
    BY DEF Stamped
  <2> QED BY <1>1, <2>1, RecentMoves
<1>5. \A i \in 1 .. Len(s) : i # k => s[i] # f
  <2> SUFFICES ASSUME NEW i \in 1 .. Len(s), i # k, s[i] = f PROVE FALSE
    OBVIOUS
  <2>1. CASE k <= Len(s)
    <3>1. k \in 1 .. Len(s)
      BY <1>2, <2>1
    <3> QED BY <1>2, <2>1, <3>1 DEF Distinct
  <2>2. CASE k = Len(s) + 1
    BY <2>2 DEF Recent, Lists
  <2> QED BY <1>2, <2>1, <2>2
<1>6. RecencyOrder = o
  <2>1. OrderOf(physical_memory) = o
    BY <1>1, OrderIs DEF PagesOf
  <2> QED BY <2>1 DEF OrderOf, RecencyOrder
<1>7. OrderOf(more) = ToFront(o, k, p)
  <2>1. OrderOf(more) = PagesOf(more, t)
    BY <1>4, OrderIs DEF PagesOf
  <2>2. PagesOf(more, t) = ToFront(o, k, more[f].page)
    BY <1>2, <1>5, PagesMove
  <2> QED BY <2>1, <2>2
<1>8. Lru!Truncate(<<p>> \o Lru!RemoveFirst(o, p), NUM_OF_FRAME) = ToFront(o, k, p)
  <2> HIDE DEF o
  <2> QED BY <1>3, OrderAfter DEF o
<1> QED BY <1>4, <1>5, <1>6, <1>7, <1>8

(* What the statistics count: a page is in the order when the page table   *)
(* has it, and among the first of the order when the TLB has it.           *)
LEMMA CountsAgree ==
  ASSUME Inv, NEW s, Exact(s), NEW p \in Pages
  PROVE  /\ p \in Lru!ToSet(RecencyOrder) <=> page_table[p].valid
         /\ p \in Lru!ToSet(Lru!Truncate(RecencyOrder, SIZE_OF_TLB)) <=> Cached(p) # {}
<1> DEFINE o == PagesOf(physical_memory, s)
           T == SIZE_OF_TLB
           m == IF Len(o) < T THEN Len(o) ELSE T
<1>1. Recent(physical_memory, s) /\ physical_memory \in Memories
  BY DEF Exact, Inv, TypeOK, Memories
<1>2. RecencyOrder = o
  <2>1. OrderOf(physical_memory) = o
    BY <1>1, OrderIs DEF PagesOf
  <2> QED BY <2>1 DEF OrderOf, RecencyOrder
<1>3. /\ o \in Seq(Pages) /\ Len(o) = Len(s) /\ Len(s) \in Nat /\ T \in Nat
      /\ \A i \in 1 .. Len(s) : o[i] = physical_memory[s[i]].page
  BY <1>1, PlacesDiffer, SizesAssumption DEF PagesOf
<1>4. \A i \in 1 .. Len(s) : page_table[physical_memory[s[i]].page]
                               = [frame_num |-> s[i], valid |-> TRUE]
  BY <1>1, PlacesDiffer
<1> HIDE DEF o
<1>5. p \in Lru!ToSet(o) <=> \E i \in 1 .. Len(s) : o[i] = p
  BY <1>3 DEF Lru!ToSet
<1>6. (\E i \in 1 .. Len(s) : o[i] = p) <=> page_table[p].valid
  <2>1. ASSUME NEW i \in 1 .. Len(s), o[i] = p PROVE page_table[p].valid
    <3>1. page_table[p] = [frame_num |-> s[i], valid |-> TRUE]
      BY <1>3, <1>4, <2>1
    <3> QED BY <3>1
  <2>2. ASSUME page_table[p].valid PROVE \E i \in 1 .. Len(s) : o[i] = p
    <3>1. /\ page_table[p].frame_num \in Frames
          /\ physical_memory[page_table[p].frame_num].page = p
      BY <2>2 DEF Inv, PageTableCoherent
    <3>2. p # NOT_BE_USED
      BY DEF Pages, NOT_BE_USED
    <3>3. \E i \in 1 .. Len(s) : s[i] = page_table[p].frame_num
      BY <1>1, <3>1, <3>2 DEF Recent, Lists
    <3> QED BY <1>3, <3>1, <3>3
  <2> QED BY <2>1, <2>2
<1>7. p \in Lru!ToSet(Lru!Truncate(o, T)) <=> \E i \in 1 .. Len(s) : i <= T /\ o[i] = p
  <2>1. m \in Nat /\ m <= Len(o)
    BY <1>3
  <2>2. \A i : i \in 1 .. m <=> i \in 1 .. Len(s) /\ i <= T
    BY <1>3
  <2> HIDE DEF m
  <2>3. SubSeq(o, 1, m) = [i \in 1 .. m |-> o[i]]
    BY <1>3, <2>1
  <2>4. Lru!ToSet(SubSeq(o, 1, m)) = {o[i] : i \in 1 .. m}
    BY <2>3 DEF Lru!ToSet
  <2>5. Lru!Truncate(o, T) = SubSeq(o, 1, m)
    BY DEF Lru!Truncate, m
  <2> QED BY <2>2, <2>4, <2>5
<1>8. (\E i \in 1 .. Len(s) : i <= T /\ o[i] = p) <=> Cached(p) # {}
  <2>1. ASSUME NEW i \in 1 .. Len(s), i <= T, o[i] = p PROVE Cached(p) # {}
    <3>1. InTlb(TLB, p)
      BY <1>3, <2>1 DEF Exact, TopInTlb
    <3> QED BY <3>1 DEF InTlb, Cached
  <2>2. ASSUME Cached(p) # {} PROVE \E i \in 1 .. Len(s) : i <= T /\ o[i] = p
    <3>1. PICK j \in TlbIndex : TLB[j].page_num = p
      BY <2>2 DEF Cached
    <3>2. p # NOT_BE_USED
      BY DEF Pages, NOT_BE_USED
    <3>3. PICK i \in 1 .. Len(s) : i <= T /\ physical_memory[s[i]].page = p
      BY <3>1, <3>2, EntryPlace
    <3> QED BY <1>3, <3>3
  <2> QED BY <2>1, <2>2
<1> QED BY <1>2, <1>5, <1>6, <1>7, <1>8

(* The common end of the three kinds of access.                            *)
LEMMA ReadStep ==
  ASSUME Inv, NEW s, Exact(s), Stamped(TLB, physical_memory, time), Inv',
         NEW a \in Addresses, NEW f \in Frames, NEW k \in 1 .. Len(s) + 1,
         Place(PagesOf(physical_memory, s), page_number_in(a), k),
         k <= Len(s) => s[k] = f,
         k = Len(s) + 1 => physical_memory[f].page = NOT_BE_USED,
         physical_memory'[f] = [page |-> page_number_in(a), last_used_time |-> time],
         \A g \in Frames \ {f} : physical_memory'[g] = physical_memory[g],
         \A i \in TlbIndex : \/ TLB'[i] = UnusedEntry
                             \/ TLB'[i] = Entry(page_number_in(a), f)
                             \/ TLB'[i] = TLB[i] /\ TLB[i].frame_num # f,
         \E i \in TlbIndex : TLB'[i].page_num = page_number_in(a),
         \/ /\ k <= SIZE_OF_TLB
            /\ \A l \in 1 .. Len(s) : l # k =>
                 (InTlb(TLB', physical_memory[s[l]].page) <=> l <= SIZE_OF_TLB)
            /\ k <= Len(s)
         \/ /\ k >= SIZE_OF_TLB \/ k >= Len(s)
            /\ \A l \in 1 .. Len(s) : l # k =>
                 (InTlb(TLB', physical_memory[s[l]].page) <=> l < SIZE_OF_TLB),
         page_fault' = IF page_table[page_number_in(a)].valid
                         THEN page_fault ELSE page_fault + 1,
         TLB_hit' = IF Cached(page_number_in(a)) # {} THEN TLB_hit + 1 ELSE TLB_hit,
         output'.value = <<page_number_in(a), offset_in(a)>>, output' # << >>,
         time' = time + 1
  PROVE  LruInv' /\ Lru!Read(a)
<1> DEFINE p == page_number_in(a)
           t == ToFront(s, k, f)
<1>1. p \in Pages
  BY PageInRange, SizesAssumption
<1>2. physical_memory' \in Memories
  BY DEF Inv, TypeOK, Memories
<1>3. s \in Seq(Frames) /\ Recent(physical_memory, s)
  BY DEF Exact, Recent
<1>4. /\ Recent(physical_memory', t)
      /\ OrderOf(physical_memory') =
           Lru!Truncate(<<p>> \o Lru!RemoveFirst(RecencyOrder, p), NUM_OF_FRAME)
      /\ \A i \in 1 .. Len(s) : i # k => s[i] # f
  <2> HIDE DEF p
  <2> QED BY <1>1, <1>2, <1>3, OrderStep DEF p
<1>5. Stamped(TLB', physical_memory', time')
  <2> HIDE DEF p
  <2>1. Stamped(TLB', physical_memory', time + 1)
    BY <1>1, <1>2, StampStep DEF p
  <2> QED BY <2>1
<1>6. TopInTlb(TLB', physical_memory', t)
  <2>1. InTlb(TLB', physical_memory'[f].page)
    BY DEF InTlb
  <2> QED BY <2>1, <1>3, <1>4, TopStep
<1>7. LruInv'
  BY <1>4, <1>5, <1>6 DEF LruInv, Exact, Stamped, Recent, InOrder, Lists, TopInTlb, InTlb
<1>8. RecencyOrder' = OrderOf(physical_memory')
  BY DEF OrderOf, RecencyOrder
<1>9. /\ p \in Lru!ToSet(RecencyOrder) <=> page_table[p].valid
      /\ p \in Lru!ToSet(Lru!Truncate(RecencyOrder, SIZE_OF_TLB)) <=> Cached(p) # {}
  BY <1>1, CountsAgree
<1>10. Lru!Read(a)
  BY <1>4, <1>8, <1>9 DEF Lru!Read
<1> QED BY <1>7, <1>10

LEMMA HitReads ==
  ASSUME Inv, LruInv, NEW a \in Addresses, time < MaxTime, Hit(a)
  PROVE  LruInv' /\ Lru!Read(a)
<1> DEFINE p == page_number_in(a)
<1>1. p \in Pages /\ a \in Int /\ p # NOT_BE_USED
  BY PageInRange, SizesAssumption DEF Pages, NOT_BE_USED
<1>2. Inv'
  BY <1>1, HitInv
<1>3. PICK s : Exact(s)
  BY DEF LruInv
<1>4. PICK i \in Cached(p) :
        /\ TLB' = [TLB EXCEPT ![i].last_used_time = time]
        /\ TLB_hit' = TLB_hit + 1
        /\ access_memory(physical_memory, TLB[i].frame_num, a)
        /\ UNCHANGED <<page_table, page_fault>>
  BY DEF Hit
<1> DEFINE f == TLB[i].frame_num
<1>5. i \in TlbIndex /\ TLB[i].page_num = p
  BY <1>4 DEF Cached
<1>6. PICK k \in 1 .. Len(s) : /\ s[k] = f /\ k <= SIZE_OF_TLB
                               /\ physical_memory[s[k]].page = p
  BY <1>1, <1>3, <1>5, EntryPlace
<1>7. /\ s \in Seq(Frames) /\ Len(s) \in Nat /\ f \in Frames
      /\ k \in 1 .. Len(s) + 1 /\ k <= Len(s) /\ k # Len(s) + 1
  BY <1>3, <1>6, PlacesDiffer DEF Exact
<1>8. page_table[p] = [frame_num |-> f, valid |-> TRUE]
  BY <1>1, <1>5 DEF Inv, TlbCoherent
<1>9. /\ physical_memory' = [physical_memory EXCEPT ![f].last_used_time = time]
      /\ output' = [address |-> a, physical |-> f * SIZE_OF_PAGE + offset_in(a),
                    value |-> <<p, offset_in(a)>>]
      /\ time' = time + 1
  BY <1>4, <1>6 DEF access_memory
<1> HIDE DEF p, f
<1>10. /\ physical_memory'[f] = [page |-> p, last_used_time |-> time]
       /\ \A g \in Frames \ {f} : physical_memory'[g] = physical_memory[g]
  BY <1>6, <1>7, <1>9 DEF Inv, TypeOK
<1>11. /\ TLB'[i] = Entry(p, f)
       /\ \A j \in TlbIndex \ {i} : TLB'[j] = TLB[j]
  BY <1>4, <1>5 DEF Inv, TypeOK, Entry, f
<1>12. \A j \in TlbIndex \ {i} : TLB[j].frame_num # f
  <2> SUFFICES ASSUME NEW j \in TlbIndex \ {i}, TLB[j].frame_num = f PROVE FALSE
    OBVIOUS
  <2>1. f # NOT_BE_USED
    BY <1>7 DEF Frames, NOT_BE_USED
  <2>2. TLB[j].page_num # NOT_BE_USED
    BY <2>1 DEF LruInv, Stamped, UnusedEntry
  <2>3. TLB[j].page_num = p
    <3>1. PICK l \in 1 .. Len(s) : s[l] = f /\ physical_memory[s[l]].page = TLB[j].page_num
      BY <1>3, <2>2, EntryPlace
    <3> QED BY <1>6, <3>1
  <2>4. Cached(TLB[j].page_num) = {j}
    BY <2>2 DEF Inv, TlbCoherent
  <2> QED BY <1>4, <2>3, <2>4
<1>13. \A x : InTlb(TLB', x) <=> InTlb(TLB, x)
  <2>1. \A j \in TlbIndex : TLB'[j].page_num = TLB[j].page_num
    BY <1>5, <1>11 DEF Entry
  <2> QED BY <2>1 DEF InTlb
<1>14. Place(PagesOf(physical_memory, s), p, k)
  <2>1. Len(PagesOf(physical_memory, s)) = Len(s)
    BY <1>3, PlacesDiffer DEF Exact
  <2> QED BY <1>6, <2>1 DEF Place, PagesOf
<1>15. /\ k <= SIZE_OF_TLB
       /\ \A l \in 1 .. Len(s) : l # k =>
            (InTlb(TLB', physical_memory[s[l]].page) <=> l <= SIZE_OF_TLB)
       /\ k <= Len(s)
  BY <1>3, <1>6, <1>7, <1>13 DEF Exact, TopInTlb
<1>16. page_fault' = IF page_table[p].valid THEN page_fault ELSE page_fault + 1
  BY <1>4, <1>8
<1>17. TLB_hit' = IF Cached(p) # {} THEN TLB_hit + 1 ELSE TLB_hit
  BY <1>4
<1>18. output'.value = <<p, offset_in(a)>> /\ output' # << >>
  BY <1>9
<1>19. Stamped(TLB, physical_memory, time)
  BY DEF LruInv
<1>20. \A j \in TlbIndex : \/ TLB'[j] = UnusedEntry
                           \/ TLB'[j] = Entry(p, f)
                           \/ TLB'[j] = TLB[j] /\ TLB[j].frame_num # f
  BY <1>11, <1>12
<1>21. \E j \in TlbIndex : TLB'[j].page_num = p
  BY <1>5, <1>11 DEF Entry
<1>22. s[k] = f /\ time' = time + 1
  BY <1>6, <1>9
<1> QED BY <1>2, <1>3, <1>7, <1>10, <1>14, <1>15, <1>16, <1>17, <1>18, <1>19, <1>20, <1>21, <1>22,
           ReadStep DEF p

(* What the entry for p in slot i leaves of the pages in the TLB.          *)
LEMMA KeptInTlb ==
  ASSUME NEW B, NEW tlb, NEW i \in TlbIndex, NEW p, NEW f,
         tlb[i] = Entry(p, f), \A j \in TlbIndex \ {i} : tlb[j] = B[j],
         \A j, l \in TlbIndex : B[j].page_num = B[l].page_num /\ B[j].page_num # NOT_BE_USED => j = l
  PROVE  \A x : x # p /\ x # NOT_BE_USED =>
           (InTlb(tlb, x) <=> InTlb(B, x) /\ B[i].page_num # x)
<1> SUFFICES ASSUME NEW x, x # p, x # NOT_BE_USED
             PROVE  InTlb(tlb, x) <=> InTlb(B, x) /\ B[i].page_num # x
  OBVIOUS
<1>1. tlb[i].page_num = p
  BY DEF Entry
<1>2. ASSUME InTlb(tlb, x) PROVE InTlb(B, x) /\ B[i].page_num # x
  <2>1. PICK j \in TlbIndex : tlb[j].page_num = x
    BY <1>2 DEF InTlb
  <2>2. j # i /\ B[j].page_num = x
    BY <1>1, <2>1
  <2> QED BY <2>2 DEF InTlb
<1>3. ASSUME InTlb(B, x), B[i].page_num # x PROVE InTlb(tlb, x)
  <2>1. PICK j \in TlbIndex : B[j].page_num = x
    BY <1>3 DEF InTlb
  <2>2. j # i
    BY <1>3, <2>1
  <2> QED BY <2>1, <2>2 DEF InTlb
<1> QED BY <1>2, <1>3

(* Two entries are for two pages.                                          *)
LEMMA EntriesDiffer ==
  ASSUME Inv
  PROVE  \A j, l \in TlbIndex :
           TLB[j].page_num = TLB[l].page_num /\ TLB[j].page_num # NOT_BE_USED => j = l
<1> SUFFICES ASSUME NEW j \in TlbIndex, NEW l \in TlbIndex,
                    TLB[j].page_num = TLB[l].page_num, TLB[j].page_num # NOT_BE_USED
             PROVE  j = l
  OBVIOUS
<1>1. Cached(TLB[j].page_num) = {j}
  BY DEF Inv, TlbCoherent
<1>2. l \in Cached(TLB[j].page_num)
  BY DEF Cached
<1> QED BY <1>1, <1>2

LEMMA MissReads ==
  ASSUME Inv, LruInv, NEW a \in Addresses, time < MaxTime, Miss(a)
  PROVE  LruInv' /\ Lru!Read(a)
<1> DEFINE p == page_number_in(a)
           f == page_table[p].frame_num
           T == SIZE_OF_TLB
<1>1. p \in Pages /\ a \in Int /\ p # NOT_BE_USED
  BY PageInRange, SizesAssumption DEF Pages, NOT_BE_USED
<1>2. Inv'
  BY <1>1, MissInv
<1>3. PICK s : Exact(s)
  BY DEF LruInv
<1>4. Cached(p) = {} /\ page_table[p].valid
  BY DEF Miss
<1>5. PICK i \in TlbIndex : Earliest(TLB, i) /\ TLB' = [TLB EXCEPT ![i] = Entry(p, f)]
  BY DEF Miss
<1>6. f \in Frames /\ physical_memory[f].page = p
  BY <1>1, <1>4 DEF Inv, PageTableCoherent
<1>7. /\ physical_memory' = [physical_memory EXCEPT ![f].last_used_time = time]
      /\ output' = [address |-> a, physical |-> f * SIZE_OF_PAGE + offset_in(a),
                    value |-> <<p, offset_in(a)>>]
      /\ time' = time + 1
  BY <1>6 DEF Miss, access_memory
<1>8. UNCHANGED <<page_table, page_fault, TLB_hit>>
  BY DEF Miss
<1> HIDE DEF p, f
<1>9. PICK k \in 1 .. Len(s) : s[k] = f
  BY <1>1, <1>3, <1>6 DEF Exact, Recent, Lists
<1>10. /\ s \in Seq(Frames) /\ Len(s) \in Nat /\ T \in Nat \ {0}
       /\ k \in 1 .. Len(s) + 1 /\ k <= Len(s) /\ k # Len(s) + 1
  BY <1>3, <1>9, PlacesDiffer, SizesAssumption DEF Exact
<1>11. k > T
  <2>1. ~ InTlb(TLB, physical_memory[s[k]].page)
    BY <1>4, <1>6, <1>9 DEF Cached, InTlb
  <2> QED BY <1>3, <1>10, <2>1 DEF Exact, TopInTlb
<1>12. /\ T \in 1 .. Len(s)
       /\ TLB[i].page_num = physical_memory[s[T]].page
  <2>1. \A j \in TlbIndex : TLB[j].page_num # NOT_BE_USED
    <3>1. Len(s) >= T
      BY <1>10, <1>11
    <3> QED BY <1>3, <3>1, FullTlb
  <2>2. Stamped(TLB, physical_memory, time)
    BY DEF LruInv
  <2> QED BY <1>3, <1>5, <2>1, <2>2, UsedVictim
<1>13. /\ physical_memory'[f] = [page |-> p, last_used_time |-> time]
       /\ \A g \in Frames \ {f} : physical_memory'[g] = physical_memory[g]
  BY <1>6, <1>7 DEF Inv, TypeOK
<1>14. /\ TLB'[i] = Entry(p, f)
       /\ \A j \in TlbIndex \ {i} : TLB'[j] = TLB[j]
  BY <1>5 DEF Inv, TypeOK
<1>15. \A j \in TlbIndex : TLB[j].frame_num # f
  <2> SUFFICES ASSUME NEW j \in TlbIndex, TLB[j].frame_num = f PROVE FALSE
    OBVIOUS
  <2>1. f # NOT_BE_USED
    BY <1>6 DEF Frames, NOT_BE_USED
  <2>2. TLB[j].page_num # NOT_BE_USED
    BY <2>1 DEF LruInv, Stamped, UnusedEntry
  <2>3. PICK l \in 1 .. Len(s) : s[l] = f /\ physical_memory[s[l]].page = TLB[j].page_num
    BY <1>3, <2>2, EntryPlace
  <2>4. TLB[j].page_num = p
    BY <1>6, <2>3
  <2> QED BY <1>4, <2>4 DEF Cached
<1>16. \A l \in 1 .. Len(s) : l # k =>
            (InTlb(TLB', physical_memory[s[l]].page) <=> l < T)
  <2> SUFFICES ASSUME NEW l \in 1 .. Len(s), l # k
               PROVE  InTlb(TLB', physical_memory[s[l]].page) <=> l < T
    OBVIOUS
  <2> DEFINE x == physical_memory[s[l]].page
  <2>1. x \in Pages /\ x # NOT_BE_USED
    <3>1. x \in Pages
      BY <1>3, PlacesDiffer DEF Exact
    <3> HIDE DEF x
    <3> QED BY <3>1 DEF Pages, NOT_BE_USED
  <2>2. /\ x = physical_memory[s[k]].page => l = k
        /\ x = physical_memory[s[T]].page => l = T
    BY <1>3, <1>12, PlacesDiffer DEF Exact, Distinct, PagesOf
  <2>3. x # p
    BY <1>6, <1>9, <2>2
  <2>4. InTlb(TLB, x) <=> l <= T
    BY <1>3 DEF Exact, TopInTlb
  <2> HIDE DEF x
  <2>5. InTlb(TLB', x) <=> InTlb(TLB, x) /\ TLB[i].page_num # x
    <3>1. \A j, m \in TlbIndex :
            TLB[j].page_num = TLB[m].page_num /\ TLB[j].page_num # NOT_BE_USED => j = m
      BY EntriesDiffer
    <3> QED BY <1>14, <2>1, <2>3, <3>1, KeptInTlb
  <2>6. TLB[i].page_num # x <=> l # T
    BY <1>12, <2>2 DEF x
  <2> QED BY <1>10, <2>4, <2>5, <2>6 DEF x
<1>17. Place(PagesOf(physical_memory, s), p, k)
  <2>1. Len(PagesOf(physical_memory, s)) = Len(s)
    BY <1>3, PlacesDiffer DEF Exact
  <2> QED BY <1>6, <1>9, <2>1 DEF Place, PagesOf
<1>18. k >= T \/ k >= Len(s)
  BY <1>10, <1>11
<1>19. page_fault' = IF page_table[p].valid THEN page_fault ELSE page_fault + 1
  BY <1>4, <1>8
<1>20. TLB_hit' = IF Cached(p) # {} THEN TLB_hit + 1 ELSE TLB_hit
  BY <1>4, <1>8
<1>21. output'.value = <<p, offset_in(a)>> /\ output' # << >> /\ time' = time + 1
  BY <1>7
<1>22. Stamped(TLB, physical_memory, time)
  BY DEF LruInv
<1>23. \A j \in TlbIndex : \/ TLB'[j] = UnusedEntry
                           \/ TLB'[j] = Entry(p, f)
                           \/ TLB'[j] = TLB[j] /\ TLB[j].frame_num # f
  BY <1>14, <1>15
<1>24. \E j \in TlbIndex : TLB'[j].page_num = p
  BY <1>14 DEF Entry
<1> QED BY <1>2, <1>3, <1>6, <1>9, <1>10, <1>13, <1>16, <1>17, <1>18, <1>19, <1>20, <1>21, <1>22,
           <1>23, <1>24, ReadStep DEF p

LEMMA FaultReads ==
  ASSUME Inv, LruInv, NEW a \in Addresses, time < MaxTime, Fault(a)
  PROVE  LruInv' /\ Lru!Read(a)
<1> DEFINE p == page_number_in(a)
           T == SIZE_OF_TLB
           N == NUM_OF_FRAME
<1>1. p \in Pages /\ a \in Int /\ p # NOT_BE_USED
  BY PageInRange, SizesAssumption DEF Pages, NOT_BE_USED
<1>2. Inv'
  BY <1>1, FaultInv
<1>3. PICK s : Exact(s)
  BY DEF LruInv
<1>4. Stamped(TLB, physical_memory, time) /\ Recent(physical_memory, s)
  BY <1>3 DEF LruInv, Exact
<1>5. Cached(p) = {} /\ ~page_table[p].valid
  BY DEF Fault
<1>6. PICK v \in Frames :
        /\ Earliest(physical_memory, v)
        /\ \E i \in TlbIndex :
             Earliest(Flushed(v), i) /\ TLB' = [Flushed(v) EXCEPT ![i] = Entry(p, v)]
        /\ access_memory(Loaded(v, p), v, a)
  BY DEF Fault
<1>7. PICK i \in TlbIndex :
        Earliest(Flushed(v), i) /\ TLB' = [Flushed(v) EXCEPT ![i] = Entry(p, v)]
  BY <1>6
<1>8. page_fault' = page_fault + 1 /\ TLB_hit' = TLB_hit
  BY DEF Fault
<1>9. /\ Loaded(v, p) = [physical_memory EXCEPT ![v].page = p]
      /\ Loaded(v, p)[v].page = p
  BY DEF Loaded, Inv, TypeOK
<1>10. /\ physical_memory' = [Loaded(v, p) EXCEPT ![v].last_used_time = time]
       /\ output' = [address |-> a, physical |-> v * SIZE_OF_PAGE + offset_in(a),
                     value |-> <<p, offset_in(a)>>]
       /\ time' = time + 1
  BY <1>6, <1>9 DEF access_memory
<1> DEFINE B == Flushed(v)
<1>11. /\ DOMAIN B = TlbIndex
       /\ \A j \in TlbIndex : B[j] = IF TLB[j].frame_num = v THEN UnusedEntry ELSE TLB[j]
  BY DEF Flushed
<1> HIDE DEF p, B
<1>12. \/ Len(s) < N /\ physical_memory[v].page = NOT_BE_USED
       \/ Len(s) = N /\ v = s[Len(s)] /\ Len(s) \in 1 .. Len(s)
  BY <1>4, <1>6, VictimFrame
<1>13. /\ s \in Seq(Frames) /\ Len(s) \in Nat /\ T \in Nat \ {0} /\ N \in Nat \ {0}
       /\ \A l \in 1 .. Len(s) : s[l] \in Frames
  BY <1>4, PlacesDiffer, SizesAssumption
<1> DEFINE k == IF Len(s) < N THEN Len(s) + 1 ELSE N
<1>14. /\ k \in 1 .. Len(s) + 1 /\ k >= Len(s)
       /\ k <= Len(s) => Len(s) = N /\ k = N /\ s[k] = v
       /\ k = Len(s) + 1 => physical_memory[v].page = NOT_BE_USED
  BY <1>12, <1>13
<1>15. Place(PagesOf(physical_memory, s), p, k)
  <2>1. Len(PagesOf(physical_memory, s)) = Len(s)
    BY <1>4, PlacesDiffer
  <2>2. ASSUME NEW l \in 1 .. Len(s) PROVE PagesOf(physical_memory, s)[l] # p
    <3>1. page_table[physical_memory[s[l]].page].valid
      <4>1. page_table[physical_memory[s[l]].page] = [frame_num |-> s[l], valid |-> TRUE]
        BY <1>4, PlacesDiffer
      <4> QED BY <4>1
    <3> QED BY <1>5, <3>1 DEF PagesOf
  <2> QED BY <2>1, <2>2 DEF Place
<1> HIDE DEF k
<1>16. \A l \in 1 .. Len(s) : l # k => s[l] # v
  <2> SUFFICES ASSUME NEW l \in 1 .. Len(s), l # k, s[l] = v PROVE FALSE
    OBVIOUS
  <2>1. CASE k <= Len(s)
    <3>1. k \in 1 .. Len(s) /\ s[k] = v
      BY <1>13, <1>14, <2>1
    <3> QED BY <1>4, <3>1, PlacesDiffer DEF Distinct
  <2>2. CASE k = Len(s) + 1
    BY <1>4, <1>14, <2>2 DEF Recent, Lists
  <2> QED BY <1>13, <1>14, <2>1, <2>2
<1>17. /\ physical_memory'[v] = [page |-> p, last_used_time |-> time]
       /\ \A g \in Frames \ {v} : physical_memory'[g] = physical_memory[g]
  BY <1>9, <1>10 DEF Inv, TypeOK
<1>18. /\ TLB'[i] = Entry(p, v)
       /\ \A j \in TlbIndex \ {i} : TLB'[j] = B[j]
  BY <1>7, <1>11 DEF B
<1>19. \A l \in 1 .. Len(s) : physical_memory[s[l]].page \in Pages
                              /\ physical_memory[s[l]].page # NOT_BE_USED
  <2>1. \A l \in 1 .. Len(s) : physical_memory[s[l]].page \in Pages
    BY <1>4, PlacesDiffer
  <2> QED BY <2>1 DEF Pages, NOT_BE_USED
<1>20. \A l \in 1 .. Len(s) : l # k =>
         (InTlb(B, physical_memory[s[l]].page) <=> l <= T)
  <2> SUFFICES ASSUME NEW l \in 1 .. Len(s), l # k
               PROVE  InTlb(B, physical_memory[s[l]].page) <=> l <= T
    OBVIOUS
  <2> DEFINE x == physical_memory[s[l]].page
  <2>1. x # NOT_BE_USED
    BY <1>19
  <2>2. InTlb(TLB, x) <=> l <= T
    BY <1>3 DEF Exact, TopInTlb
  <2>3. ASSUME NEW j \in TlbIndex, TLB[j].page_num = x PROVE TLB[j].frame_num # v
    <3>1. PICK m \in 1 .. Len(s) : s[m] = TLB[j].frame_num /\ physical_memory[s[m]].page = x
      BY <1>3, <2>1, <2>3, EntryPlace
    <3>2. m = l
      BY <1>4, <3>1, PlacesDiffer DEF Distinct, PagesOf
    <3> QED BY <1>16, <3>1, <3>2
  <2> HIDE DEF x
  <2>4. \A j \in TlbIndex : B[j].page_num = x <=> TLB[j].page_num = x
    BY <1>11, <2>1, <2>3 DEF UnusedEntry
  <2>5. InTlb(B, x) <=> InTlb(TLB, x)
    BY <2>4 DEF InTlb
  <2> QED BY <2>2, <2>5 DEF x
<1>21. \A l \in 1 .. Len(s) : l # k =>
         (InTlb(B, physical_memory[s[l]].page) /\ B[i].page_num # physical_memory[s[l]].page
            <=> l < T)
  <2>1. CASE \E j \in TlbIndex : B[j].page_num = NOT_BE_USED
    <3>1. B[i].page_num = NOT_BE_USED
      BY <1>4, <1>7, <1>11, <2>1, UnusedVictim DEF B
    <3>2. PICK j \in TlbIndex : B[j].page_num = NOT_BE_USED
      BY <2>1
    <3>3. Len(s) < T \/ (Len(s) <= T /\ k = Len(s))
      <4>1. CASE TLB[j].frame_num = v
        <5>1. TLB[j].page_num # NOT_BE_USED
          <6>1. v # NOT_BE_USED
            BY DEF Frames, NOT_BE_USED
          <6> QED BY <1>4, <4>1, <6>1 DEF Stamped, UnusedEntry
        <5>2. PICK l \in 1 .. Len(s) : s[l] = v /\ l <= T
          BY <1>3, <4>1, <5>1, EntryPlace
        <5>3. l = k
          BY <1>16, <5>2
        <5> QED BY <1>13, <1>14, <5>2, <5>3
      <4>2. CASE TLB[j].frame_num # v
        <5>1. TLB[j].page_num = NOT_BE_USED
          BY <1>11, <3>2, <4>2
        <5>2. ~ (Len(s) >= T)
          BY <1>3, <5>1, FullTlb
        <5> QED BY <1>13, <5>2
      <4> QED BY <4>1, <4>2
    <3>4. \A l \in 1 .. Len(s) : l # k => l < T /\ l <= T
      BY <1>13, <3>3
    <3> QED BY <1>19, <1>20, <3>1, <3>4
  <2>2. CASE \A j \in TlbIndex : B[j].page_num # NOT_BE_USED
    <3>1. \A j \in TlbIndex : B[j] = TLB[j] /\ TLB[j].page_num # NOT_BE_USED
      BY <1>11, <2>2 DEF UnusedEntry
    <3>2. B = TLB
      BY <1>11, <3>1 DEF Inv, TypeOK, B, Flushed
    <3>3. /\ T \in 1 .. Len(s)
          /\ TLB[i].page_num = physical_memory[s[T]].page
      BY <1>3, <1>4, <1>7, <3>1, <3>2, UsedVictim DEF B
    <3> SUFFICES ASSUME NEW l \in 1 .. Len(s), l # k
                 PROVE  InTlb(B, physical_memory[s[l]].page)
                          /\ B[i].page_num # physical_memory[s[l]].page <=> l < T
      OBVIOUS
    <3>4. physical_memory[s[T]].page = physical_memory[s[l]].page <=> l = T
      BY <1>4, <3>3, PlacesDiffer DEF Distinct, PagesOf
    <3> QED BY <1>13, <1>20, <3>2, <3>3, <3>4
  <2> QED BY <2>1, <2>2
<1>22. \A l \in 1 .. Len(s) : l # k => (InTlb(TLB', physical_memory[s[l]].page) <=> l < T)
  <2> SUFFICES ASSUME NEW l \in 1 .. Len(s), l # k
               PROVE  InTlb(TLB', physical_memory[s[l]].page) <=> l < T
    OBVIOUS
  <2> DEFINE x == physical_memory[s[l]].page
  <2>1. x # NOT_BE_USED
    BY <1>19
  <2>2. x # p
    <3>1. page_table[x] = [frame_num |-> s[l], valid |-> TRUE]
      BY <1>4, PlacesDiffer
    <3>2. page_table[x].valid
      BY <3>1
    <3> QED BY <1>5, <3>2
  <2>3. \A j, m \in TlbIndex :
          B[j].page_num = B[m].page_num /\ B[j].page_num # NOT_BE_USED => j = m
    <3>1. \A j \in TlbIndex : B[j].page_num # NOT_BE_USED => B[j] = TLB[j]
      BY <1>11 DEF UnusedEntry
    <3> QED BY <3>1, EntriesDiffer
  <2>4. InTlb(B, x) /\ B[i].page_num # x <=> l < T
    BY <1>21
  <2> HIDE DEF x
  <2>5. InTlb(TLB', x) <=> InTlb(B, x) /\ B[i].page_num # x
    <3>1. PICK C : C = B
      OBVIOUS
    <3>2. TLB'[i] = Entry(p, v) /\ \A j \in TlbIndex \ {i} : TLB'[j] = C[j]
      BY <1>18, <3>1
    <3>3. \A j, m \in TlbIndex :
            C[j].page_num = C[m].page_num /\ C[j].page_num # NOT_BE_USED => j = m
      BY <2>3, <3>1
    <3>4. InTlb(TLB', x) <=> InTlb(C, x) /\ C[i].page_num # x
      BY <2>1, <2>2, <3>2, <3>3, KeptInTlb
    <3> QED BY <3>1, <3>4
  <2> QED BY <2>4, <2>5 DEF x
<1>23. page_fault' = IF page_table[p].valid THEN page_fault ELSE page_fault + 1
  BY <1>5, <1>8
<1>24. TLB_hit' = IF Cached(p) # {} THEN TLB_hit + 1 ELSE TLB_hit
  BY <1>5, <1>8
<1>25. output'.value = <<p, offset_in(a)>> /\ output' # << >> /\ time' = time + 1
  BY <1>10
<1>26. \A j \in TlbIndex : \/ TLB'[j] = UnusedEntry
                           \/ TLB'[j] = Entry(p, v)
                           \/ TLB'[j] = TLB[j] /\ TLB[j].frame_num # v
  BY <1>11, <1>18
<1>27. \E j \in TlbIndex : TLB'[j].page_num = p
  BY <1>18 DEF Entry
<1>28. k <= Len(s) => s[k] = v
  BY <1>14
<1>29. k >= T \/ k >= Len(s)
  BY <1>14
<1> QED BY <1>2, <1>3, <1>4, <1>14, <1>15, <1>17, <1>22, <1>23, <1>24, <1>25, <1>26, <1>27, <1>28,
           <1>29, ReadStep DEF p

-----------------------------------------------------------------------------
LEMMA InitLru == Init => LruInv /\ Lru!Init
<1> SUFFICES ASSUME Init PROVE LruInv /\ Lru!Init
  OBVIOUS
<1>1. Inv
  BY InitInv
<1>2. Recent(physical_memory, << >>)
  BY DEF Recent, InOrder, Lists, Init
<1>3. Stamped(TLB, physical_memory, time)
  BY SizesAssumption DEF Stamped, Init, UnusedEntry, NOT_BE_USED
<1>4. Exact(<< >>)
  BY <1>2 DEF Exact, TopInTlb
<1>5. RecencyOrder = << >>
  <2>1. physical_memory \in Memories
    BY <1>1 DEF Inv, TypeOK, Memories
  <2>2. OrderOf(physical_memory) = [i \in 1 .. Len(<< >>) |-> physical_memory[<< >>[i]].page]
    BY <1>2, <2>1, OrderIs
  <2>3. [i \in 1 .. Len(<< >>) |-> physical_memory[<< >>[i]].page] = << >>
    OBVIOUS
  <2> QED BY <2>2, <2>3 DEF OrderOf, RecencyOrder
<1> QED BY <1>3, <1>4, <1>5 DEF LruInv, Lru!Init, Init

LEMMA NextLru == Inv /\ LruInv /\ [Next]_vars => LruInv' /\ [Lru!Next]_(Lru!lvars)
<1> SUFFICES ASSUME Inv, LruInv, [Next]_vars PROVE LruInv' /\ [Lru!Next]_(Lru!lvars)
  OBVIOUS
<1>1. ASSUME NEW a \in Addresses, Access(a) PROVE LruInv' /\ Lru!Read(a)
  BY <1>1, HitReads, MissReads, FaultReads DEF Access
<1>2. CASE UNCHANGED vars
  <2>1. LruInv'
    BY <1>2 DEF vars, LruInv, Exact, Stamped, Recent, InOrder, Lists, TopInTlb, InTlb
  <2>2. UNCHANGED RecencyOrder
    BY <1>2 DEF vars, RecencyOrder
  <2> QED BY <1>2, <2>1, <2>2 DEF vars, Lru!lvars
<1> QED BY <1>1, <1>2 DEF Next, Finished, Lru!Next

(* Memory and TLB are exact LRU caches.                                    *)
THEOREM ImplementsLru == Spec => IsLru
<1>1. Inv /\ LruInv /\ [Next]_vars => (Inv /\ LruInv)'
  BY NextInv, NextLru
<1>2. Inv /\ LruInv /\ [Next]_vars => [Lru!Next]_(Lru!lvars)
  BY NextLru
<1>3. Init => Inv /\ LruInv /\ Lru!Init
  BY InitInv, InitLru
<1>4. IsLru <=> Lru!Init /\ [][Lru!Next]_(Lru!lvars)
  BY DEF IsLru, Lru!Spec
<1> QED BY <1>1, <1>2, <1>3, <1>4, PTL DEF Spec
=============================================================================

---------------------------- MODULE BankerProofs ----------------------------
(***************************************************************************)
(* For every number of customers and of resources, and whatever they ask   *)
(* for: the tables agree, no unit is lost, the customers can always finish *)
(* once something was granted, in the order that was printed, and the      *)
(* program decides every request as SafeBanker does.                       *)
(*                                                                         *)
(* The invariant states safety by a certificate: an order of the customers *)
(* and the vector that is available before each of them, which grows by    *)
(* what the one before returns.  The search builds the certificate, a      *)
(* grant makes it that of the state, and a release changes it up to the    *)
(* customer who releases.  The second half of the module turns the vectors *)
(* into the sums of the definition of safety: what a sum over a finite set *)
(* is follows from its recursion, by smallest counterexamples; and a       *)
(* search that gets stuck shows that no order exists.                      *)
(***************************************************************************)
EXTENDS Banker, FiniteSetTheorems, WellFoundedInduction, TLAPS

(* works[k] is what is available before order[k], if everybody before it   *)
(* has finished.                                                           *)
Chain(avail, alloc, order, works) ==
  /\ works \in [1 .. Len(order) + 1 -> Vectors]
  /\ works[1] = avail
  /\ \A k \in 1 .. Len(order) : works[k + 1] = Plus(works[k], alloc[order[k]])

Suffices(nd, order, works) ==
  \A k \in 1 .. Len(order) : AtMost(nd[order[k]], works[k])

Distinct(order) ==
  \A i, k \in 1 .. Len(order) : order[i] = order[k] => i = k

Named(order) == {order[k] : k \in 1 .. Len(order)}

(* An order and its works show that a prefix of the customers can finish.  *)
Certificate(avail, alloc, nd, order, works) ==
  /\ order \in Seq(Customers)
  /\ Distinct(order)
  /\ Chain(avail, alloc, order, works)
  /\ Suffices(nd, order, works)

(* All customers can finish in some order.                                 *)
CanAllFinish(avail, alloc, nd) ==
  \E order, works :
    Certificate(avail, alloc, nd, order, works) /\ Named(order) = Customers

NothingAllocated == allocation = [c \in Customers |-> Zero]

Certified == NothingAllocated \/ CanAllFinish(available, allocation, need)

(* While request_resources() searches, the request is within its bounds,   *)
(* and what it has printed is a certificate for the customers so far.      *)
NewAllocations == [c \in Customers |-> NewAllocation(c)]
NewNeeds == [c \in Customers |-> NewNeed(c)]

Searching ==
  pc = "search" =>
    /\ WithinBounds(customer, request)
    /\ finish = Named(printed)
    /\ \E works :
         /\ Certificate(NewAvailable, NewAllocations, NewNeeds, printed, works)
         /\ work = works[Len(printed) + 1]

Inv == TypeOK /\ Ledger /\ Searching /\ Certified

-----------------------------------------------------------------------------
LEMMA PlusType ==
  ASSUME NEW v \in Vectors, NEW w \in Vectors
  PROVE  Plus(v, w) \in Vectors
BY DEF Plus, Vectors

LEMMA MinusType ==
  ASSUME NEW v \in Vectors, NEW w \in Vectors, AtMost(w, v)
  PROVE  Minus(v, w) \in Vectors
BY DEF Minus, AtMost, Vectors

LEMMA ZeroType == Zero \in Vectors
BY DEF Zero, Vectors

(* A certificate that gets one more customer at its end.                   *)
LEMMA Extend ==
  ASSUME NEW avail, NEW alloc \in [Customers -> Vectors], NEW nd, NEW order, NEW works,
         Certificate(avail, alloc, nd, order, works),
         NEW c \in Customers, c \notin Named(order), AtMost(nd[c], works[Len(order) + 1])
  PROVE  \E more :
           /\ Certificate(avail, alloc, nd, Append(order, c), more)
           /\ more[Len(order) + 2] = Plus(works[Len(order) + 1], alloc[c])
<1> DEFINE n == Len(order)
           longer == Append(order, c)
           more == [k \in 1 .. n + 2 |-> IF k = n + 2 THEN Plus(works[n + 1], alloc[c]) ELSE works[k]]
<1>1. order \in Seq(Customers) /\ n \in Nat /\ works \in [1 .. n + 1 -> Vectors]
  BY DEF Certificate, Chain
<1>2. /\ longer \in Seq(Customers) /\ Len(longer) = n + 1
      /\ longer[n + 1] = c /\ \A k \in 1 .. n : longer[k] = order[k]
  BY <1>1
<1>3. Distinct(longer)
  <2>1. \A k \in 1 .. n : order[k] # c
    BY DEF Named
  <2> QED BY <1>1, <1>2, <2>1 DEF Certificate, Distinct
<1>4. Plus(works[n + 1], alloc[c]) \in Vectors
  <2>1. works[n + 1] \in Vectors /\ alloc[c] \in Vectors
    BY <1>1
  <2> QED BY <2>1, PlusType
<1>5. more \in [1 .. n + 2 -> Vectors]
  <2> SUFFICES ASSUME NEW k \in 1 .. n + 2, k # n + 2 PROVE works[k] \in Vectors
    BY <1>4
  <2>1. k \in 1 .. n + 1
    BY <1>1
  <2> QED BY <1>1, <2>1
<1>6. /\ more[n + 2] = Plus(works[n + 1], alloc[c])
      /\ \A k \in 1 .. n + 1 : more[k] = works[k]
  BY <1>1
<1> HIDE DEF more, longer
<1>7. Chain(avail, alloc, longer, more)
  <2>1. more[1] = avail
    BY <1>1, <1>6 DEF Certificate, Chain
  <2>2. ASSUME NEW k \in 1 .. n + 1 PROVE more[k + 1] = Plus(more[k], alloc[longer[k]])
    <3>1. CASE k = n + 1
      BY <3>1, <1>1, <1>2, <1>6
    <3>2. CASE k \in 1 .. n
      <4>1. works[k + 1] = Plus(works[k], alloc[order[k]])
        BY <3>2 DEF Certificate, Chain
      <4> QED BY <4>1, <3>2, <1>1, <1>2, <1>6
    <3> QED BY <3>1, <3>2, <1>1
  <2> QED BY <2>1, <2>2, <1>1, <1>2, <1>5 DEF Chain
<1>8. Suffices(nd, longer, more)
  <2> SUFFICES ASSUME NEW k \in 1 .. n + 1 PROVE AtMost(nd[longer[k]], more[k])
    BY <1>2 DEF Suffices
  <2>1. CASE k = n + 1
    BY <2>1, <1>1, <1>2, <1>6
  <2>2. CASE k \in 1 .. n
    BY <2>2, <1>1, <1>2, <1>6 DEF Certificate, Suffices
  <2> QED BY <2>1, <2>2, <1>1
<1> QED BY <1>2, <1>3, <1>6, <1>7, <1>8 DEF Certificate, longer

(* Customer c returns r: what is available grows by r up to its turn.      *)
LEMMA GiveBack ==
  ASSUME NEW avail, NEW alloc \in [Customers -> Vectors], NEW nd \in [Customers -> Vectors],
         NEW order, NEW works,
         Certificate(avail, alloc, nd, order, works), Named(order) = Customers,
         NEW c \in Customers, NEW r \in Vectors, AtMost(r, alloc[c])
  PROVE  CanAllFinish(Plus(avail, r), [alloc EXCEPT ![c] = Minus(@, r)],
                      [nd EXCEPT ![c] = Plus(@, r)])
<1> DEFINE n == Len(order)
           more == [alloc EXCEPT ![c] = Minus(@, r)]
           needs == [nd EXCEPT ![c] = Plus(@, r)]
<1>1. order \in Seq(Customers) /\ n \in Nat /\ works \in [1 .. n + 1 -> Vectors]
  BY DEF Certificate, Chain
<1>2. PICK p \in 1 .. n : order[p] = c
  BY DEF Named
<1> DEFINE shifted == [k \in 1 .. n + 1 |-> IF k <= p THEN Plus(works[k], r) ELSE works[k]]
<1>3. shifted \in [1 .. n + 1 -> Vectors]
  <2> SUFFICES ASSUME NEW k \in 1 .. n + 1 PROVE Plus(works[k], r) \in Vectors /\ works[k] \in Vectors
    OBVIOUS
  <2>1. works[k] \in Vectors
    BY <1>1
  <2> QED BY <2>1, PlusType
<1>4. /\ \A k \in 1 .. p : shifted[k] = Plus(works[k], r)
      /\ \A k \in p + 1 .. n + 1 : shifted[k] = works[k]
  BY <1>1, <1>2
<1>5. /\ more[c] = Minus(alloc[c], r) /\ needs[c] = Plus(nd[c], r)
      /\ \A k \in 1 .. n : k # p => more[order[k]] = alloc[order[k]] /\ needs[order[k]] = nd[order[k]]
  BY <1>1, <1>2 DEF Certificate, Distinct
<1> HIDE DEF shifted, more, needs
<1>6. Chain(Plus(avail, r), more, order, shifted)
  <2>1. shifted[1] = Plus(avail, r)
    <3>1. 1 \in 1 .. p
      BY <1>2, <1>1
    <3>2. works[1] = avail
      BY DEF Certificate, Chain
    <3> QED BY <3>1, <3>2, <1>4
  <2>2. ASSUME NEW k \in 1 .. n PROVE shifted[k + 1] = Plus(shifted[k], more[order[k]])
    <3>1. /\ works[k + 1] = Plus(works[k], alloc[order[k]])
          /\ works[k] \in Vectors /\ works[k + 1] \in Vectors
          /\ order[k] \in Customers /\ alloc[order[k]] \in Vectors
      BY <1>1 DEF Certificate, Chain
    <3>2. CASE k < p
      <4>1. shifted[k] = Plus(works[k], r) /\ shifted[k + 1] = Plus(works[k + 1], r)
        BY <3>2, <1>1, <1>2, <1>4
      <4>2. more[order[k]] = alloc[order[k]]
        BY <3>2, <1>5, <1>2
      <4> QED BY <3>1, <4>1, <4>2 DEF Plus, Vectors
    <3>3. CASE k = p
      <4>1. shifted[k] = Plus(works[k], r) /\ shifted[k + 1] = works[k + 1]
        BY <3>3, <1>1, <1>2, <1>4
      <4>2. more[order[k]] = Minus(alloc[order[k]], r)
        BY <3>3, <1>2, <1>5
      <4> QED BY <3>1, <4>1, <4>2 DEF Plus, Minus, Vectors
    <3>4. CASE k > p
      <4>1. shifted[k] = works[k] /\ shifted[k + 1] = works[k + 1]
        BY <3>4, <1>1, <1>2, <1>4
      <4>2. more[order[k]] = alloc[order[k]]
        BY <3>4, <1>5, <1>2
      <4> QED BY <3>1, <4>1, <4>2
    <3> QED BY <3>2, <3>3, <3>4, <1>1, <1>2
  <2> QED BY <2>1, <2>2, <1>3 DEF Chain
<1>7. Suffices(needs, order, shifted)
  <2> SUFFICES ASSUME NEW k \in 1 .. n PROVE AtMost(needs[order[k]], shifted[k])
    BY DEF Suffices
  <2>1. AtMost(nd[order[k]], works[k]) /\ works[k] \in Vectors /\ nd[order[k]] \in Vectors
    BY <1>1 DEF Certificate, Suffices
  <2>2. CASE k < p
    <3>1. shifted[k] = Plus(works[k], r) /\ needs[order[k]] = nd[order[k]]
      BY <2>2, <1>1, <1>2, <1>4, <1>5
    <3> QED BY <2>1, <3>1 DEF Plus, AtMost, Vectors
  <2>3. CASE k = p
    <3>1. shifted[k] = Plus(works[k], r) /\ needs[order[k]] = Plus(nd[order[k]], r)
      BY <2>3, <1>1, <1>2, <1>4, <1>5
    <3> QED BY <2>1, <3>1 DEF Plus, AtMost, Vectors
  <2>4. CASE k > p
    <3>1. shifted[k] = works[k] /\ needs[order[k]] = nd[order[k]]
      BY <2>4, <1>1, <1>2, <1>4, <1>5
    <3> QED BY <2>1, <3>1
  <2> QED BY <2>2, <2>3, <2>4, <1>1, <1>2
<1>8. Certificate(Plus(avail, r), more, needs, order, shifted)
  BY <1>6, <1>7 DEF Certificate
<1> QED BY <1>8 DEF CanAllFinish, more, needs

-----------------------------------------------------------------------------
LEMMA InitInv == Init => Inv
<1> SUFFICES ASSUME Init PROVE Inv
  OBVIOUS
<1> USE BankerAssumption DEF Init
<1>1. TypeOK
  <2>1. 0 \in Customers /\ << >> \in Seq(Customers)
    BY DEF Customers
  <2> QED BY <2>1, ZeroType DEF TypeOK
<1>2. Ledger
  <2>1. \A c \in Customers : need[c] = Minus(maximum[c], allocation[c])
    <3> SUFFICES ASSUME NEW c \in Customers PROVE maximum[c] = Minus(maximum[c], Zero)
      OBVIOUS
    <3>1. maximum[c] \in Vectors
      OBVIOUS
    <3> QED BY <3>1 DEF Minus, Zero, Vectors
  <2>2. need \in [Customers -> Vectors]
    OBVIOUS
  <2> QED BY <2>1, <2>2 DEF Ledger
<1>3. Searching
  BY DEF Searching
<1>4. Certified
  BY DEF Certified, NothingAllocated
<1> QED BY <1>1, <1>2, <1>3, <1>4 DEF Inv

(* What the request in hand would make of the state has the right types.   *)
LEMMA NewTypes ==
  ASSUME TypeOK, Ledger, WithinBounds(customer, request)
  PROVE  /\ NewAvailable \in Vectors
         /\ NewAllocations \in [Customers -> Vectors]
         /\ NewNeeds \in [Customers -> Vectors]
         /\ NewNeeds = [c \in Customers |-> Minus(maximum[c], NewAllocations[c])]
         /\ NewAllocations = [allocation EXCEPT ![customer] = Plus(@, request)]
         /\ NewNeeds = [need EXCEPT ![customer] = Minus(@, request)]
<1> USE DEF TypeOK
<1>1. NewAvailable \in Vectors
  BY MinusType DEF WithinBounds, NewAvailable
<1>2. ASSUME NEW c \in Customers
      PROVE  /\ NewAllocation(c) \in Vectors
             /\ NewNeed(c) \in Vectors
             /\ NewNeed(c) = Minus(maximum[c], NewAllocation(c))
  <2>1. /\ allocation[c] \in Vectors /\ maximum[c] \in Vectors /\ need[c] \in Vectors
        /\ request \in Vectors /\ need[c] = Minus(maximum[c], allocation[c])
    BY DEF Ledger
  <2>2. CASE c = customer
    <3>1. NewAllocation(c) = Plus(allocation[c], request) /\ NewNeed(c) = Minus(need[c], request)
      BY <2>2 DEF NewAllocation, NewNeed
    <3>2. AtMost(Plus(allocation[c], request), maximum[c])
      BY <2>2 DEF WithinBounds
    <3>3. Minus(need[c], request) = Minus(maximum[c], Plus(allocation[c], request))
      BY <2>1 DEF Minus, Plus, Vectors
    <3> QED BY <2>1, <3>1, <3>2, <3>3, PlusType, MinusType
  <2>3. CASE c # customer
    BY <2>1, <2>3 DEF NewAllocation, NewNeed
  <2> QED BY <2>2, <2>3
<1>3. /\ NewAllocations = [allocation EXCEPT ![customer] = Plus(@, request)]
      /\ NewNeeds = [need EXCEPT ![customer] = Minus(@, request)]
  BY DEF NewAllocations, NewNeeds, NewAllocation, NewNeed
<1> QED BY <1>1, <1>2, <1>3 DEF NewAllocations, NewNeeds

(* Steps that leave the four tables alone keep what is said of them.       *)
LEMMA TablesUnchanged ==
  ASSUME Inv, UNCHANGED state
  PROVE  Ledger' /\ Certified'
BY DEF Inv, state, Ledger, Certified, NothingAllocated

(* The search starts: nobody has been asked to finish.                     *)
LEMMA RequestInv ==
  ASSUME Inv, NEW c \in Customers, NEW r \in Amounts, Request(c, r)
  PROVE  Inv'
<1> USE BankerAssumption DEF Inv, Request
<1>1. r \in Vectors
  OBVIOUS
<1>2. TypeOK'
  <2>1. Minus(available, r) \in Vectors
    BY <1>1, MinusType DEF TypeOK, WithinBounds
  <2> QED BY <1>1, <2>1 DEF TypeOK, state
<1>3. Ledger' /\ Certified'
  BY TablesUnchanged
<1>4. WithinBounds(customer, request)'
  BY DEF WithinBounds, state
<1>5. /\ NewAvailable' \in Vectors /\ NewAvailable' = work'
  <2>1. NewAvailable' = Minus(available, r)
    BY DEF NewAvailable, state
  <2> QED BY <1>1, <2>1, MinusType DEF TypeOK, WithinBounds
<1>6. Searching'
  <2> DEFINE works == [k \in 1 .. 1 |-> NewAvailable']
  <2>1. printed' = << >> /\ finish' = {} /\ Len(printed') = 0
    OBVIOUS
  <2>2. finish' = Named(printed')
    BY <2>1 DEF Named
  <2>3. Certificate(NewAvailable', NewAllocations', NewNeeds', printed', works)
    BY <1>5, <2>1 DEF Certificate, Distinct, Chain, Suffices
  <2>4. work' = works[Len(printed') + 1]
    BY <1>5, <2>1
  <2> QED BY <1>4, <2>2, <2>3, <2>4 DEF Searching
<1> QED BY <1>2, <1>3, <1>6

(* One more customer can finish: the certificate gets longer.              *)
LEMMA ChooseInv ==
  ASSUME Inv, Choose
  PROVE  Inv'
<1> USE DEF Inv, Choose
<1>1. PICK i \in Customers :
        /\ CanFinish(i)
        /\ work' = Plus(work, NewAllocation(i))
        /\ finish' = finish \cup {i}
        /\ printed' = Append(printed, i)
  OBVIOUS
<1>2. PICK works :
        /\ Certificate(NewAvailable, NewAllocations, NewNeeds, printed, works)
        /\ work = works[Len(printed) + 1]
  BY DEF Searching
<1>3. WithinBounds(customer, request) /\ finish = Named(printed)
  BY DEF Searching
<1>4. NewAllocations \in [Customers -> Vectors]
  BY <1>3, NewTypes
<1>5. i \notin Named(printed) /\ AtMost(NewNeeds[i], works[Len(printed) + 1])
  BY <1>1, <1>2, <1>3 DEF CanFinish, NewNeeds
<1>6. PICK more :
        /\ Certificate(NewAvailable, NewAllocations, NewNeeds, Append(printed, i), more)
        /\ more[Len(printed) + 2] = Plus(works[Len(printed) + 1], NewAllocations[i])
  <2> HIDE DEF Inv, Choose
  <2> QED BY ONLY <1>2, <1>4, <1>5, Extend
<1>7. printed \in Seq(Customers) /\ work \in Vectors
  BY DEF TypeOK
<1>8. NewAllocations[i] = NewAllocation(i) /\ NewAllocation(i) \in Vectors
  BY <1>4 DEF NewAllocations
<1>9. TypeOK'
  <2>1. Plus(work, NewAllocation(i)) \in Vectors
    BY <1>7, <1>8, PlusType
  <2>2. Append(printed, i) \in Seq(Customers)
    BY <1>7
  <2> QED BY <1>1, <2>1, <2>2 DEF TypeOK, state
<1>10. Ledger' /\ Certified'
  BY TablesUnchanged
<1>11. Searching'
  <2>1. /\ WithinBounds(customer, request)' /\ NewAvailable' = NewAvailable
        /\ NewAllocations' = NewAllocations /\ NewNeeds' = NewNeeds
    BY <1>3 DEF WithinBounds, NewAvailable, NewAllocations, NewAllocation, NewNeeds, NewNeed, state
  <2>2. Len(printed') = Len(printed) + 1 /\ Len(printed) \in Nat
    BY <1>1, <1>7
  <2>3. finish' = Named(printed')
    <3>1. \A k \in 1 .. Len(printed) : printed'[k] = printed[k]
      BY <1>1, <1>7
    <3>2. printed'[Len(printed) + 1] = i
      BY <1>1, <1>7
    <3> QED BY <1>1, <1>3, <2>2, <3>1, <3>2 DEF Named
  <2>4. work' = more[Len(printed') + 1]
    <3>1. work' = more[Len(printed) + 2]
      BY <1>1, <1>2, <1>6, <1>8
    <3> QED BY <2>2, <3>1
  <2> QED BY <1>1, <1>6, <2>1, <2>3, <2>4 DEF Searching
<1> QED BY <1>9, <1>10, <1>11

(* The request is granted: the search has shown that all can finish.       *)
LEMMA GrantInv ==
  ASSUME Inv, Grant
  PROVE  Inv'
<1> USE DEF Inv, Grant, Return, NoneCanFinish
<1>1. WithinBounds(customer, request) /\ finish = Named(printed)
  BY DEF Searching
<1>2. available' = NewAvailable /\ allocation' = NewAllocations /\ need' = NewNeeds
  BY <1>1, NewTypes
<1>3. TypeOK'
  <2>1. 0 \in Customers
    BY BankerAssumption DEF Customers
  <2> QED BY <1>1, <1>2, <2>1, NewTypes, ZeroType DEF TypeOK
<1>4. Ledger'
  BY <1>1, <1>2, NewTypes DEF Ledger
<1>5. Searching'
  BY DEF Searching
<1>6. Certified'
  BY <1>1, <1>2 DEF Certified, CanAllFinish, Searching
<1> QED BY <1>3, <1>4, <1>5, <1>6

(* The request is refused: the tables are as they were.                    *)
LEMMA DenyInv ==
  ASSUME Inv, Deny
  PROVE  Inv'
<1> USE DEF Inv, Deny, Return
<1>1. TypeOK'
  <2>1. 0 \in Customers
    BY BankerAssumption DEF Customers
  <2> QED BY <2>1, ZeroType DEF TypeOK, state
<1>2. Searching'
  BY DEF Searching
<1> QED BY <1>1, <1>2, TablesUnchanged

(* A release: the customer needs more, but has it when its turn comes.     *)
LEMMA ReleaseInv ==
  ASSUME Inv, NEW c \in Customers, NEW r \in Amounts, Release(c, r)
  PROVE  Inv'
<1> USE BankerAssumption DEF Inv, Release
<1>1. /\ r \in Vectors /\ available \in Vectors /\ AtMost(r, allocation[c])
      /\ allocation \in [Customers -> Vectors] /\ need \in [Customers -> Vectors]
  BY DEF TypeOK
<1>2. /\ Plus(available, r) \in Vectors /\ Plus(need[c], r) \in Vectors
      /\ Minus(allocation[c], r) \in Vectors
  <2>1. need[c] \in Vectors /\ allocation[c] \in Vectors
    BY <1>1
  <2> QED BY <1>1, <2>1, PlusType, MinusType
<1>3. TypeOK'
  <2>1. << >> \in Seq(Customers)
    OBVIOUS
  <2> QED BY <1>1, <1>2, <2>1 DEF TypeOK, loop
<1>4. Ledger'
  <2>1. ASSUME NEW d \in Customers PROVE need'[d] = Minus(maximum[d], allocation'[d])
    <3>1. need[d] = Minus(maximum[d], allocation[d]) /\ maximum[d] \in Vectors
          /\ allocation[d] \in Vectors
      BY DEF Ledger, TypeOK
    <3>2. CASE d = c
      <4>1. need'[d] = Plus(need[d], r) /\ allocation'[d] = Minus(allocation[d], r)
        BY <1>1, <3>2
      <4>2. Plus(Minus(maximum[d], allocation[d]), r) = Minus(maximum[d], Minus(allocation[d], r))
        BY <1>1, <3>1 DEF Plus, Minus, Vectors
      <4> QED BY <3>1, <4>1, <4>2
    <3>3. CASE d # c
      BY <1>1, <3>1, <3>3
    <3> QED BY <3>2, <3>3
  <2>2. need' \in [Customers -> Vectors]
    BY <1>1, <1>2
  <2> QED BY <2>1, <2>2 DEF Ledger
<1>5. Searching'
  BY DEF Searching
<1>6. Certified'
  <2>1. CASE NothingAllocated
    <3>1. \A j \in Resources : r[j] = 0
      <4>1. AtMost(r, Zero)
        BY <1>1, <2>1 DEF NothingAllocated
      <4> QED BY <1>1, <4>1 DEF AtMost, Zero, Vectors
    <3>2. Minus(allocation[c], r) = Zero
      BY <2>1, <3>1 DEF NothingAllocated, Minus, Zero
    <3>3. allocation' = allocation
      BY <1>1, <2>1, <3>2 DEF NothingAllocated
    <3> QED BY <2>1, <3>3 DEF Certified, NothingAllocated
  <2>2. CASE CanAllFinish(available, allocation, need)
    <3>1. PICK order, works : Certificate(available, allocation, need, order, works)
                              /\ Named(order) = Customers
      BY <2>2 DEF CanAllFinish
    <3> QED BY <1>1, <3>1, GiveBack DEF Certified
  <2> QED BY <2>1, <2>2 DEF Certified
<1> QED BY <1>3, <1>4, <1>5, <1>6

LEMMA NextInv == Inv /\ [Next]_vars => Inv'
<1> SUFFICES ASSUME Inv, [Next]_vars PROVE Inv'
  OBVIOUS
<1>1. ASSUME NEW c \in Customers, NEW r \in Amounts, Request(c, r) PROVE Inv'
  BY <1>1, RequestInv
<1>2. ASSUME NEW c \in Customers, NEW r \in Amounts, Release(c, r) PROVE Inv'
  BY <1>2, ReleaseInv
<1>3. ASSUME NEW c \in Customers, NEW r \in Amounts, RequestTooMuch(c, r) \/ ReleaseTooMuch(c, r)
      PROVE Inv'
  <2> USE <1>3 DEF Inv, RequestTooMuch, ReleaseTooMuch
  <2>1. TypeOK'
    <3>1. << >> \in Seq(Customers)
      OBVIOUS
    <3> QED BY <3>1 DEF TypeOK, state, loop
  <2>2. Searching'
    BY DEF Searching
  <2> QED BY <2>1, <2>2, TablesUnchanged
<1>4. CASE Choose
  BY <1>4, ChooseInv
<1>5. CASE Grant
  BY <1>5, GrantInv
<1>6. CASE Deny
  BY <1>6, DenyInv
<1>7. CASE Exit
  <2> USE <1>7 DEF Inv, Exit
  <2>1. TypeOK'
    BY DEF TypeOK, state, loop
  <2>2. Searching'
    BY DEF Searching
  <2> QED BY <2>1, <2>2, TablesUnchanged
<1>8. CASE UNCHANGED vars
  <2> USE <1>8 DEF Inv, vars, loop
  <2>1. TypeOK'
    BY DEF TypeOK, state
  <2>2. Searching'
    BY DEF Searching, WithinBounds, NewAvailable, NewAllocations, NewAllocation, NewNeeds, NewNeed,
           state
  <2> QED BY <2>1, <2>2, TablesUnchanged
<1> QED
  BY <1>1, <1>2, <1>3, <1>4, <1>5, <1>6, <1>7, <1>8 DEF Next, Command, Decide, Terminated

(* The invariant holds in every reachable state.                           *)
THEOREM InvHolds == Spec => []Inv
BY InitInv, NextInv, PTL DEF Spec

(* The amounts in the tables are never negative, and the search works on   *)
(* vectors: no test that request_resources() relies on is missing.         *)
THEOREM TypeCorrect == Spec => []TypeOK
<1>1. Inv => TypeOK
  BY DEF Inv
<1> QED BY InvHolds, <1>1, PTL

(* need is at all times what maximum leaves after allocation.              *)
THEOREM LedgerHolds == Spec => []Ledger
<1>1. Inv => Ledger
  BY DEF Inv
<1> QED BY InvHolds, <1>1, PTL

-----------------------------------------------------------------------------
(* Induction over a finite set, by a smallest counterexample.              *)
LEMMA MinimalSubset ==
  ASSUME NEW S, IsFiniteSet(S), NEW B \in SUBSET SUBSET S, B # {}
  PROVE  \E T \in B : \A x \in T : T \ {x} \notin B
<1> DEFINE sizes == {n \in Nat : \E T \in B : Cardinality(T) = n}
<1>1. \A T \in SUBSET S : IsFiniteSet(T) /\ Cardinality(T) \in Nat
  BY FS_Subset, FS_CardinalityType
<1>2. sizes # {}
  BY <1>1
<1>3. PICK n \in sizes : \A k \in sizes : ~ (k < n)
  <2>1. sizes \subseteq Nat
    OBVIOUS
  <2> HIDE DEF sizes
  <2>2. PICK n \in sizes : \A k \in sizes : ~ (<<k, n>> \in OpToRel(<, Nat))
    BY <1>2, <2>1, NatLessThanWellFounded, WFMin
  <2> QED BY <2>1, <2>2 DEF OpToRel
<1>5. PICK T \in B : Cardinality(T) = n /\ n \in Nat
  OBVIOUS
<1>6. ASSUME NEW x \in T, T \ {x} \in B PROVE FALSE
  <2>1. Cardinality(T \ {x}) = n - 1 /\ n \in Nat
    BY <1>1, <1>5, FS_RemoveElement
  <2>2. Cardinality(T \ {x}) \in sizes
    BY <1>1, <1>6
  <2> HIDE DEF sizes
  <2> QED BY <1>3, <2>1, <2>2
<1> QED BY <1>5, <1>6

-----------------------------------------------------------------------------
(* The recursion behind SumFunctionOnSet: each subset of S and its sum.    *)
Pick(s) == CHOOSE x \in s : TRUE
Adds(g, f, S) ==
  g = [s \in SUBSET S |-> IF s = {} THEN 0 ELSE f[Pick(s)] + g[s \ {Pick(s)}]]

LEMMA SumIs ==
  ASSUME NEW f, NEW S
  PROVE  SumFunctionOnSet(f, S) = (CHOOSE g : Adds(g, f, S))[S]
BY DEF SumFunctionOnSet, FoldFunctionOnSet, MapThenFoldSet, Adds, Pick

LEMMA PickIn ==
  ASSUME NEW s, s # {}
  PROVE  Pick(s) \in s
BY DEF Pick

(* The recursion has a solution on every finite set ...                    *)
Within(S, n) == {s \in SUBSET S : Cardinality(s) <= n}
AddsWithin(g, f, S, n) ==
  g = [s \in Within(S, n) |-> IF s = {} THEN 0 ELSE f[Pick(s)] + g[s \ {Pick(s)}]]

LEMMA AddsStep ==
  ASSUME NEW S, IsFiniteSet(S), NEW f, NEW n \in Nat, NEW g, AddsWithin(g, f, S, n)
  PROVE  \E h : AddsWithin(h, f, S, n + 1)
<1> DEFINE h == [s \in Within(S, n + 1) |-> IF s = {} THEN 0 ELSE f[Pick(s)] + g[s \ {Pick(s)}]]
<1>1. \A s \in SUBSET S : IsFiniteSet(s) /\ Cardinality(s) \in Nat
  BY FS_Subset, FS_CardinalityType
<1>2. ASSUME NEW s \in Within(S, n) PROVE s \in Within(S, n + 1) /\ h[s] = g[s]
  <2>1. s \in Within(S, n + 1)
    BY <1>1 DEF Within
  <2>2. g[s] = IF s = {} THEN 0 ELSE f[Pick(s)] + g[s \ {Pick(s)}]
    BY DEF AddsWithin
  <2> QED BY <2>1, <2>2
<1>3. ASSUME NEW s \in Within(S, n + 1), s # {}
      PROVE  h[s \ {Pick(s)}] = g[s \ {Pick(s)}]
  <2>1. Pick(s) \in s
    BY <1>3, PickIn
  <2>2. Cardinality(s \ {Pick(s)}) = Cardinality(s) - 1
    BY <1>1, <2>1, FS_RemoveElement DEF Within
  <2>3. Cardinality(s) \in Nat /\ Cardinality(s) <= n + 1
    BY <1>1 DEF Within
  <2>4. Cardinality(s \ {Pick(s)}) <= n
    BY <2>2, <2>3
  <2>5. s \ {Pick(s)} \in Within(S, n)
    BY <2>4 DEF Within
  <2> QED BY <2>5, <1>2
<1>4. h = [s \in Within(S, n + 1) |-> IF s = {} THEN 0 ELSE f[Pick(s)] + h[s \ {Pick(s)}]]
  <2> HIDE DEF h
  <2>1. h = [s \in Within(S, n + 1) |-> IF s = {} THEN 0 ELSE f[Pick(s)] + g[s \ {Pick(s)}]]
    BY DEF h
  <2>2. \A s \in Within(S, n + 1) :
          (IF s = {} THEN 0 ELSE f[Pick(s)] + g[s \ {Pick(s)}])
            = (IF s = {} THEN 0 ELSE f[Pick(s)] + h[s \ {Pick(s)}])
    BY <1>3
  <2> QED BY <2>1, <2>2
<1> QED BY <1>4 DEF AddsWithin

LEMMA AddsExists ==
  ASSUME NEW S, IsFiniteSet(S), NEW f
  PROVE  \E g : Adds(g, f, S)
<1> DEFINE bad == {n \in Nat : ~ \E g : AddsWithin(g, f, S, n)}
<1>1. \A s \in SUBSET S : /\ Cardinality(s) \in Nat /\ Cardinality(s) <= Cardinality(S)
                          /\ Cardinality(s) = 0 => s = {}
  BY FS_Subset, FS_CardinalityType, FS_EmptySet
<1>2. 0 \notin bad
  <2> DEFINE g == [s \in Within(S, 0) |-> 0]
  <2>1. \A s \in Within(S, 0) : s = {}
    BY <1>1 DEF Within
  <2>2. AddsWithin(g, f, S, 0)
    BY <2>1 DEF AddsWithin
  <2> QED BY <2>2
<1>3. bad = {}
  <2> SUFFICES ASSUME bad # {} PROVE FALSE
    OBVIOUS
  <2>1. PICK m \in bad : \A k \in bad : ~ (<<k, m>> \in OpToRel(<, Nat))
    BY NatLessThanWellFounded, WFMin
  <2>2. \A k \in bad : ~ (k < m)
    BY <2>1 DEF OpToRel
  <2>3. m \in Nat /\ m # 0
    BY <1>2
  <2>4. m - 1 \in Nat /\ m - 1 < m /\ (m - 1) + 1 = m
    BY <2>3
  <2>5. PICK g : AddsWithin(g, f, S, m - 1)
    BY <2>2, <2>4
  <2>6. \E h : AddsWithin(h, f, S, (m - 1) + 1)
    BY <2>4, <2>5, AddsStep
  <2> QED BY <2>4, <2>6
<1>4. Cardinality(S) \in Nat
  BY FS_CardinalityType
<1>5. PICK g : AddsWithin(g, f, S, Cardinality(S))
  BY <1>3, <1>4
<1>6. Within(S, Cardinality(S)) = SUBSET S
  BY <1>1 DEF Within
<1> QED BY <1>5, <1>6 DEF AddsWithin, Adds

(* ... and only one.                                                       *)
LEMMA AddsOnce ==
  ASSUME NEW S, IsFiniteSet(S), NEW f, NEW T \in SUBSET S,
         NEW g, Adds(g, f, S), NEW h, Adds(h, f, T)
  PROVE  g[T] = h[T]
<1> DEFINE bad == {s \in SUBSET T : g[s] # h[s]}
<1>1. SUFFICES ASSUME bad # {} PROVE FALSE
  OBVIOUS
<1>2. IsFiniteSet(T)
  BY FS_Subset
<1>3. PICK s \in bad : \A x \in s : s \ {x} \notin bad
  <2>1. bad \in SUBSET SUBSET T
    OBVIOUS
  <2> HIDE DEF bad
  <2> QED BY <1>1, <1>2, <2>1, MinimalSubset
<1>4. s \in SUBSET S /\ s \in SUBSET T
  OBVIOUS
<1>5. g[s] = IF s = {} THEN 0 ELSE f[Pick(s)] + g[s \ {Pick(s)}]
  BY <1>4 DEF Adds
<1>6. h[s] = IF s = {} THEN 0 ELSE f[Pick(s)] + h[s \ {Pick(s)}]
  BY <1>4 DEF Adds
<1>7. s # {} => g[s \ {Pick(s)}] = h[s \ {Pick(s)}]
  BY <1>3, PickIn
<1> QED BY <1>5, <1>6, <1>7

LEMMA SumStep ==
  ASSUME NEW S, IsFiniteSet(S), NEW f
  PROVE  /\ SumFunctionOnSet(f, {}) = 0
         /\ S # {} => /\ Pick(S) \in S
                      /\ SumFunctionOnSet(f, S) =
                           f[Pick(S)] + SumFunctionOnSet(f, S \ {Pick(S)})
<1> DEFINE T == S \ {Pick(S)}
           g == CHOOSE u : Adds(u, f, S)
           h == CHOOSE u : Adds(u, f, T)
           e == CHOOSE u : Adds(u, f, {})
<1>1. IsFiniteSet(T) /\ IsFiniteSet({})
  BY FS_Subset, FS_EmptySet
<1>2. Adds(g, f, S)
  BY AddsExists
<1>3. Adds(h, f, T)
  <2> HIDE DEF T
  <2> QED BY <1>1, AddsExists
<1>4. Adds(e, f, {})
  BY <1>1, AddsExists
<1>5. SumFunctionOnSet(f, S) = g[S] /\ SumFunctionOnSet(f, T) = h[T]
      /\ SumFunctionOnSet(f, {}) = e[{}]
  BY SumIs
<1> HIDE DEF g, h, e
<1>6. e[{}] = 0
  BY <1>4 DEF Adds
<1>7. ASSUME S # {} PROVE g[S] = f[Pick(S)] + h[T]
  <2>1. g[S] = f[Pick(S)] + g[T]
    BY <1>2, <1>7 DEF Adds
  <2>2. T \in SUBSET S
    OBVIOUS
  <2> HIDE DEF T
  <2>3. g[T] = h[T]
    BY <1>2, <1>3, <2>2, AddsOnce
  <2> QED BY <2>1, <2>3
<1> QED BY <1>5, <1>6, <1>7, PickIn

(* The sum of two functions that agree is the same.                        *)
LEMMA SumSame ==
  ASSUME NEW S, IsFiniteSet(S), NEW f, NEW h, \A x \in S : f[x] = h[x]
  PROVE  SumFunctionOnSet(f, S) = SumFunctionOnSet(h, S)
<1> DEFINE bad == {T \in SUBSET S : SumFunctionOnSet(f, T) # SumFunctionOnSet(h, T)}
<1>1. SUFFICES ASSUME bad # {} PROVE FALSE
  OBVIOUS
<1>2. PICK T \in bad : \A x \in T : T \ {x} \notin bad
  <2>1. bad \in SUBSET SUBSET S
    OBVIOUS
  <2> HIDE DEF bad
  <2> QED BY <1>1, <2>1, MinimalSubset
<1>3. IsFiniteSet(T) /\ T \subseteq S
  BY FS_Subset
<1>4. T # {}
  BY <1>2, <1>3, SumStep
<1>5. Pick(T) \in T
  BY <1>4, PickIn
<1>6. SumFunctionOnSet(f, T \ {Pick(T)}) = SumFunctionOnSet(h, T \ {Pick(T)})
  BY <1>2, <1>3, <1>5
<1>7. f[Pick(T)] = h[Pick(T)]
  BY <1>3, <1>5
<1>8. SumFunctionOnSet(f, T) = SumFunctionOnSet(h, T)
  BY <1>3, <1>4, <1>6, <1>7, SumStep
<1> QED BY <1>8

LEMMA SumInt ==
  ASSUME NEW S, IsFiniteSet(S), NEW f, \A x \in S : f[x] \in Int
  PROVE  SumFunctionOnSet(f, S) \in Int
<1> DEFINE bad == {T \in SUBSET S : SumFunctionOnSet(f, T) \notin Int}
<1>1. SUFFICES ASSUME bad # {} PROVE FALSE
  OBVIOUS
<1>2. PICK T \in bad : \A x \in T : T \ {x} \notin bad
  <2>1. bad \in SUBSET SUBSET S
    OBVIOUS
  <2> HIDE DEF bad
  <2> QED BY <1>1, <2>1, MinimalSubset
<1>3. IsFiniteSet(T) /\ T \subseteq S
  BY FS_Subset
<1>4. T # {}
  BY <1>2, <1>3, SumStep
<1>5. Pick(T) \in T
  BY <1>4, PickIn
<1>6. SumFunctionOnSet(f, T \ {Pick(T)}) \in Int /\ f[Pick(T)] \in Int
  BY <1>2, <1>3, <1>5
<1>7. SumFunctionOnSet(f, T) = f[Pick(T)] + SumFunctionOnSet(f, T \ {Pick(T)})
  BY <1>3, <1>4, SumStep
<1>8. SumFunctionOnSet(f, T) \in Int
  BY <1>6, <1>7
<1> QED BY <1>8

(* The order of the additions does not matter: any element can be the last.*)
LEMMA SumAdd ==
  ASSUME NEW S, IsFiniteSet(S), NEW f, \A x \in S : f[x] \in Int, NEW z \in S
  PROVE  SumFunctionOnSet(f, S) = f[z] + SumFunctionOnSet(f, S \ {z})
<1> DEFINE sum(T) == SumFunctionOnSet(f, T)
           Good(T) == \A x \in T : sum(T) = f[x] + sum(T \ {x})
           bad == {T \in SUBSET S : ~ Good(T)}
<1>1. SUFFICES ASSUME bad # {} PROVE FALSE
  OBVIOUS
<1>2. PICK T \in bad : \A x \in T : T \ {x} \notin bad
  <2>1. bad \in SUBSET SUBSET S
    OBVIOUS
  <2> HIDE DEF bad
  <2> QED BY <1>1, <2>1, MinimalSubset
<1>3. IsFiniteSet(T) /\ T \subseteq S
  BY FS_Subset
<1>4. PICK x \in T : sum(T) # f[x] + sum(T \ {x})
  BY <1>2
<1> DEFINE c == Pick(T)
<1>5. c \in T /\ sum(T) = f[c] + sum(T \ {c})
  BY <1>3, <1>4, SumStep
<1> HIDE DEF c
<1>6. x # c
  BY <1>4, <1>5
<1>7. sum(T \ {c}) = f[x] + sum((T \ {c}) \ {x})
  BY <1>2, <1>3, <1>4, <1>5, <1>6
<1>8. sum(T \ {x}) = f[c] + sum((T \ {x}) \ {c})
  BY <1>2, <1>3, <1>4, <1>5, <1>6
<1>9. (T \ {x}) \ {c} = (T \ {c}) \ {x}
  OBVIOUS
<1>10. f[x] \in Int /\ f[c] \in Int /\ sum((T \ {c}) \ {x}) \in Int
  <2> DEFINE U == (T \ {c}) \ {x}
  <2>1. IsFiniteSet(U) /\ \A y \in U : f[y] \in Int
    BY <1>3, FS_Subset
  <2> HIDE DEF U
  <2>2. sum(U) \in Int
    BY <2>1, SumInt
  <2> QED BY <1>3, <1>4, <1>5, <2>2 DEF U
<1> HIDE DEF sum
<1>11. \A i, j, k \in Int : i + (j + k) = j + (i + k)
  OBVIOUS
<1>12. sum(T) = f[x] + sum(T \ {x})
  <2> DEFINE rest == sum((T \ {c}) \ {x})
  <2>1. rest \in Int /\ sum(T \ {x}) = f[c] + rest /\ sum(T \ {c}) = f[x] + rest
    BY <1>7, <1>8, <1>9, <1>10
  <2> HIDE DEF rest
  <2>2. f[c] + (f[x] + rest) = f[x] + (f[c] + rest)
    BY <2>1, <1>10, <1>11
  <2> QED BY <2>1, <2>2, <1>5
<1> QED BY <1>4, <1>12

(* A sum of naturals grows with the set.                                   *)
LEMMA SumGrows ==
  ASSUME NEW S, IsFiniteSet(S), NEW T \in SUBSET S, NEW f, \A x \in S : f[x] \in Nat
  PROVE  SumFunctionOnSet(f, T) <= SumFunctionOnSet(f, S)
<1> DEFINE bad == {U \in SUBSET S : T \subseteq U
                                    /\ ~ (SumFunctionOnSet(f, T) <= SumFunctionOnSet(f, U))}
<1>1. SUFFICES ASSUME bad # {} PROVE FALSE
  OBVIOUS
<1>2. PICK U \in bad : \A x \in U : U \ {x} \notin bad
  <2>1. bad \in SUBSET SUBSET S
    OBVIOUS
  <2> HIDE DEF bad
  <2> QED BY <1>1, <2>1, MinimalSubset
<1>3. /\ IsFiniteSet(U) /\ U \subseteq S /\ T \subseteq U /\ IsFiniteSet(T)
      /\ \A x \in U : f[x] \in Int /\ f[x] >= 0
  BY FS_Subset
<1>4. SumFunctionOnSet(f, T) \in Int /\ SumFunctionOnSet(f, U) \in Int
  BY <1>3, SumInt
<1>5. T # U
  BY <1>2, <1>4
<1>6. PICK x \in U : x \notin T
  BY <1>3, <1>5
<1>7. /\ SumFunctionOnSet(f, T) <= SumFunctionOnSet(f, U \ {x})
      /\ SumFunctionOnSet(f, U) = f[x] + SumFunctionOnSet(f, U \ {x})
  BY <1>2, <1>3, <1>6, SumAdd
<1>8. SumFunctionOnSet(f, U \ {x}) \in Int
  <2>1. IsFiniteSet(U \ {x}) /\ \A y \in U \ {x} : f[y] \in Int
    BY <1>3, FS_Subset
  <2> HIDE DEF bad
  <2> QED BY <2>1, SumInt
<1>9. f[x] \in Int /\ f[x] >= 0
  BY <1>3
<1>10. SumFunctionOnSet(f, T) <= SumFunctionOnSet(f, U)
  BY <1>4, <1>7, <1>8, <1>9
<1> QED BY <1>2, <1>10
-----------------------------------------------------------------------------
Column(alloc, j) == [c \in Customers |-> alloc[c][j]]
SumOf(alloc, j, S) == SumFunctionOnSet(Column(alloc, j), S)

LEMMA FiniteCustomers ==
  /\ IsFiniteSet(Customers)
  /\ Cardinality(Customers) = NUMBER_OF_CUSTOMERS
BY BankerAssumption, FS_Interval DEF Customers

LEMMA SumOfFacts ==
  ASSUME NEW alloc \in [Customers -> Vectors], NEW j \in Resources, NEW S \in SUBSET Customers
  PROVE  /\ SumOf(alloc, j, S) \in Int
         /\ SumOf(alloc, j, {}) = 0
         /\ \A c \in S : SumOf(alloc, j, S) = alloc[c][j] + SumOf(alloc, j, S \ {c})
         /\ \A T \in SUBSET S : SumOf(alloc, j, T) <= SumOf(alloc, j, S)
<1> DEFINE f == Column(alloc, j)
<1>1. IsFiniteSet(S)
  BY FiniteCustomers, FS_Subset
<1>2. \A c \in Customers : f[c] = alloc[c][j] /\ f[c] \in Nat /\ f[c] \in Int
  BY DEF Column, Vectors
<1>3. \A c \in S : f[c] = alloc[c][j] /\ f[c] \in Nat /\ f[c] \in Int
  BY <1>2
<1> HIDE DEF f
<1>4. SumFunctionOnSet(f, S) \in Int
  BY <1>1, <1>3, SumInt
<1>5. SumFunctionOnSet(f, {}) = 0
  BY <1>1, SumStep
<1>6. \A c \in S : SumFunctionOnSet(f, S) = f[c] + SumFunctionOnSet(f, S \ {c})
  BY <1>1, <1>3, SumAdd
<1>7. \A T \in SUBSET S : SumFunctionOnSet(f, T) <= SumFunctionOnSet(f, S)
  BY <1>1, <1>3, SumGrows
<1> QED BY <1>3, <1>4, <1>5, <1>6, <1>7 DEF SumOf, f

(* What is available before the k-th customer of a certificate is what is  *)
(* available now and what those before it return.                          *)
Before(order, k) == {order[i] : i \in 1 .. k - 1}

LEMMA WorksAreSums ==
  ASSUME NEW avail, NEW alloc \in [Customers -> Vectors], NEW nd, NEW order, NEW works,
         Certificate(avail, alloc, nd, order, works), NEW j \in Resources,
         avail \in Vectors,
         NEW k \in 1 .. Len(order) + 1
  PROVE  works[k][j] = avail[j] + SumOf(alloc, j, Before(order, k))
<1> DEFINE n == Len(order)
           bad == {m \in 1 .. n + 1 : works[m][j] # avail[j] + SumOf(alloc, j, Before(order, m))}
<1>1. /\ order \in Seq(Customers) /\ n \in Nat /\ works \in [1 .. n + 1 -> Vectors]
      /\ works[1] = avail
      /\ \A m \in 1 .. n : works[m + 1] = Plus(works[m], alloc[order[m]])
  BY DEF Certificate, Chain
<1>2. SUFFICES ASSUME bad # {} PROVE FALSE
  OBVIOUS
<1>3. PICK m \in bad : \A i \in bad : ~ (i < m)
  <2>1. bad \subseteq Nat
    BY <1>1
  <2> HIDE DEF bad
  <2>2. PICK m \in bad : \A i \in bad : ~ (<<i, m>> \in OpToRel(<, Nat))
    BY <1>2, <2>1, NatLessThanWellFounded, WFMin
  <2> QED BY <2>1, <2>2 DEF OpToRel
<1>4. \A i \in 1 .. n : order[i] \in Customers
  BY <1>1
<1>5. avail[j] \in Int
  BY DEF Vectors
<1>6. CASE m = 1
  <2>1. Before(order, 1) = {}
    BY DEF Before
  <2>2. SumOf(alloc, j, Before(order, 1)) = 0
    <3>1. SumOf(alloc, j, {}) = 0
      BY SumOfFacts
    <3> QED BY <2>1, <3>1
  <2>3. avail[j] + SumOf(alloc, j, Before(order, 1)) = avail[j]
    BY <1>5, <2>2
  <2> QED BY <1>1, <1>6, <2>3
<1>7. CASE m # 1
  <2>1. PICK l \in 1 .. n : m = l + 1
    <3>1. m \in 1 .. n + 1 /\ m - 1 \in 1 .. n /\ m = (m - 1) + 1
      BY <1>1, <1>7
    <3> QED BY <3>1
  <2>2. l \in 1 .. n + 1 /\ l < m /\ m - 1 = l
    BY <1>1, <2>1
  <2>3. works[l][j] = avail[j] + SumOf(alloc, j, Before(order, l))
    BY <1>3, <2>2
  <2>4. Before(order, m) \in SUBSET Customers /\ Before(order, l) \in SUBSET Customers
    BY <1>1, <1>4, <2>1, <2>2 DEF Before
  <2>5. order[l] \in Before(order, m) /\ Before(order, m) \ {order[l]} = Before(order, l)
    <3>1. \A i, p \in 1 .. n : order[i] = order[p] => i = p
      BY DEF Certificate, Distinct
    <3>2. \A i : i \in 1 .. l <=> i \in 1 .. l - 1 \/ i = l
      BY <2>1
    <3>3. \A i \in 1 .. l : i \in 1 .. n
      BY <1>1, <2>1
    <3>4. ~ (l \in 1 .. l - 1)
      BY <2>1
    <3> QED BY <2>1, <2>2, <3>1, <3>2, <3>3, <3>4 DEF Before
  <2>6. SumOf(alloc, j, Before(order, m)) = alloc[order[l]][j] + SumOf(alloc, j, Before(order, l))
    BY <2>4, <2>5, SumOfFacts
  <2>7. works[m][j] = works[l][j] + alloc[order[l]][j]
    BY <1>1, <2>1 DEF Plus
  <2>8. SumOf(alloc, j, Before(order, l)) \in Int /\ alloc[order[l]][j] \in Int
    <3>1. SumOf(alloc, j, Before(order, l)) \in Int
      BY <2>4, SumOfFacts
    <3>2. alloc[order[l]] \in Vectors
      BY <1>4, <2>1
    <3> QED BY <3>1, <3>2 DEF Vectors
  <2>9. \A a, b, c \in Int : (a + b) + c = a + (c + b)
    OBVIOUS
  <2>10. works[m][j] = avail[j] + SumOf(alloc, j, Before(order, m))
    BY <1>5, <2>3, <2>6, <2>7, <2>8, <2>9
  <2> QED BY <2>10
<1> QED BY <1>6, <1>7
-----------------------------------------------------------------------------
(* Safety by its definition, in the words of this module.                  *)
Earlier(rank, c) == {d \in Customers : rank[d] < rank[c]}
IsSafe(avail, max, alloc) ==
  \E rank \in Bijection(Customers, 1 .. NUMBER_OF_CUSTOMERS) :
    \A c \in Customers, j \in Resources :
      max[c][j] - alloc[c][j] <= avail[j] + SumOf(alloc, j, Earlier(rank, c))

LEMMA SafeIsSafe ==
  ASSUME NEW avail, NEW max, NEW alloc
  PROVE  Abstract!Safe(avail, max, alloc) <=> IsSafe(avail, max, alloc)
<1>1. Abstract!Cardinality(Customers) = NUMBER_OF_CUSTOMERS
  <2>1. Abstract!Cardinality(Customers) = Cardinality(Customers)
    BY DEF Cardinality, Abstract!Cardinality
  <2> QED BY <2>1, FiniteCustomers
<1>2. \A f, S : Abstract!SumFunctionOnSet(f, S) = SumFunctionOnSet(f, S)
  BY DEF SumFunctionOnSet, FoldFunctionOnSet, MapThenFoldSet,
         Abstract!SumFunctionOnSet, Abstract!FoldFunctionOnSet, Abstract!MapThenFoldSet
<1>3. \A S, T : Abstract!Bijection(S, T) = Bijection(S, T)
  BY DEF Bijection, Injection, Surjection, IsInjective,
         Abstract!Bijection, Abstract!Injection, Abstract!Surjection, Abstract!IsInjective
<1> QED
  BY <1>1, <1>2, <1>3 DEF Abstract!Safe, IsSafe, SumOf, Column, Earlier

(* A certificate that names everybody shows that the state is safe.        *)
LEMMA CertifiedIsSafe ==
  ASSUME NEW avail \in Vectors, NEW max \in [Customers -> Vectors],
         NEW alloc \in [Customers -> Vectors], NEW nd, NEW order, NEW works,
         \A c \in Customers : nd[c] = Minus(max[c], alloc[c]),
         Certificate(avail, alloc, nd, order, works), Named(order) = Customers
  PROVE  /\ IsSafe(avail, max, alloc)
         /\ order \in Bijection(1 .. NUMBER_OF_CUSTOMERS, Customers)
         /\ Len(order) = NUMBER_OF_CUSTOMERS
<1> DEFINE n == Len(order)
           N == NUMBER_OF_CUSTOMERS
<1>1. order \in Seq(Customers) /\ n \in Nat
  BY DEF Certificate
<1>2. order \in [1 .. n -> Customers]
  BY <1>1
<1>3. \A i, k \in 1 .. n : order[i] = order[k] => i = k
  BY DEF Certificate, Distinct
<1>4. \A c \in Customers : \E k \in 1 .. n : order[k] = c
  BY DEF Named
<1>5. order \in Bijection(1 .. n, Customers)
  BY <1>2, <1>3, <1>4 DEF Bijection, Injection, Surjection, IsInjective
<1>6. n = N
  <2>1. ExistsBijection(1 .. n, Customers)
    BY <1>5 DEF ExistsBijection
  <2>2. Cardinality(Customers) = n
    BY <1>1, <2>1, FS_CountingElements
  <2> QED BY <2>2, FiniteCustomers
<1> DEFINE rank == [c \in Customers |-> CHOOSE k \in 1 .. n : order[k] = c]
<1>7. \A c \in Customers : rank[c] \in 1 .. n /\ order[rank[c]] = c
  BY <1>4
<1>8. \A k \in 1 .. n : rank[order[k]] = k
  <2> SUFFICES ASSUME NEW k \in 1 .. n PROVE rank[order[k]] = k
    OBVIOUS
  <2>1. order[k] \in Customers
    BY <1>2
  <2> QED BY <2>1, <1>7, <1>3
<1>9. rank \in [Customers -> 1 .. n]
  BY <1>7
<1> HIDE DEF rank
<1>10. rank \in Bijection(Customers, 1 .. n)
  <2>1. \A c, d \in Customers : rank[c] = rank[d] => c = d
    BY <1>7
  <2>2. \A k \in 1 .. n : \E c \in Customers : rank[c] = k
    BY <1>2, <1>8
  <2> QED BY <1>9, <2>1, <2>2 DEF Bijection, Injection, Surjection, IsInjective
<1>11. ASSUME NEW c \in Customers, NEW j \in Resources
       PROVE  max[c][j] - alloc[c][j] <= avail[j] + SumOf(alloc, j, Earlier(rank, c))
  <2> DEFINE k == rank[c]
  <2>1. k \in 1 .. n /\ order[k] = c
    BY <1>7
  <2>2. Earlier(rank, c) = Before(order, k)
    <3>1. \A d \in Customers : rank[d] < k <=> \E i \in 1 .. k - 1 : order[i] = d
      <4> SUFFICES ASSUME NEW d \in Customers
                   PROVE  rank[d] < k <=> \E i \in 1 .. k - 1 : order[i] = d
        OBVIOUS
      <4>1. ASSUME rank[d] < k PROVE \E i \in 1 .. k - 1 : order[i] = d
        <5>1. rank[d] \in 1 .. n /\ order[rank[d]] = d
          BY <1>7
        <5>2. rank[d] \in 1 .. k - 1
          BY <4>1, <5>1, <2>1
        <5> QED BY <5>1, <5>2
      <4>2. ASSUME NEW i \in 1 .. k - 1, order[i] = d PROVE rank[d] < k
        <5>1. i \in 1 .. n /\ i < k
          BY <1>1, <2>1
        <5>2. rank[d] = i
          BY <4>2, <5>1, <1>8
        <5> QED BY <5>1, <5>2
      <4> QED BY <4>1, <4>2
    <3>2. \A i \in 1 .. k - 1 : order[i] \in Customers
      <4>1. \A i \in 1 .. k - 1 : i \in 1 .. n
        BY <1>1, <2>1
      <4> QED BY <4>1, <1>2
    <3> QED BY <3>1, <3>2 DEF Earlier, Before
  <2>3. k \in 1 .. n + 1
    BY <1>1, <2>1
  <2>4. works[k][j] = avail[j] + SumOf(alloc, j, Before(order, k))
    BY <2>3, WorksAreSums
  <2>5. nd[order[k]][j] <= works[k][j]
    BY <2>1 DEF Certificate, Suffices, AtMost
  <2>6. nd[c][j] = max[c][j] - alloc[c][j]
    BY DEF Minus
  <2> QED BY <2>1, <2>2, <2>4, <2>5, <2>6
<1> QED BY <1>5, <1>6, <1>10, <1>11 DEF IsSafe
-----------------------------------------------------------------------------
(* While the search runs, work is what would be available and what those   *)
(* who have finished return.                                               *)
LEMMA WorkIsSum ==
  ASSUME Inv, pc = "search", NEW j \in Resources
  PROVE  work[j] = NewAvailable[j] + SumOf(NewAllocations, j, finish)
<1>1. PICK works :
        /\ Certificate(NewAvailable, NewAllocations, NewNeeds, printed, works)
        /\ work = works[Len(printed) + 1]
  BY DEF Inv, Searching
<1>2. /\ WithinBounds(customer, request) /\ finish = Named(printed)
      /\ printed \in Seq(Customers)
  BY DEF Inv, Searching, TypeOK
<1>3. NewAvailable \in Vectors /\ NewAllocations \in [Customers -> Vectors]
  BY <1>2, NewTypes DEF Inv
<1>4. Len(printed) \in Nat /\ Len(printed) + 1 \in 1 .. Len(printed) + 1
      /\ (Len(printed) + 1) - 1 = Len(printed)
  BY <1>2
<1>5. Before(printed, Len(printed) + 1) = Named(printed)
  BY <1>4 DEF Before, Named
<1> QED BY <1>1, <1>2, <1>3, <1>4, <1>5, WorksAreSums

(* The greedy search is complete: if it gets stuck, no order lets all      *)
(* customers finish.  Take such an order and the first customer in it who  *)
(* has not finished: everybody before has, so the search would take it.    *)
LEMMA StuckIsUnsafe ==
  ASSUME Inv, NoneCanFinish, finish # Customers
  PROVE  ~ IsSafe(NewAvailable, maximum, NewAllocations)
<1> SUFFICES ASSUME IsSafe(NewAvailable, maximum, NewAllocations) PROVE FALSE
  OBVIOUS
<1>1. /\ pc = "search" /\ WithinBounds(customer, request)
      /\ finish \in SUBSET Customers /\ work \in Vectors
  BY DEF NoneCanFinish, Inv, Searching, TypeOK
<1>2. /\ NewAvailable \in Vectors /\ NewAllocations \in [Customers -> Vectors]
      /\ NewNeeds = [c \in Customers |-> Minus(maximum[c], NewAllocations[c])]
  BY <1>1, NewTypes DEF Inv
<1>3. PICK rank \in Bijection(Customers, 1 .. NUMBER_OF_CUSTOMERS) :
        \A c \in Customers, j \in Resources :
          maximum[c][j] - NewAllocations[c][j]
            <= NewAvailable[j] + SumOf(NewAllocations, j, Earlier(rank, c))
  BY DEF IsSafe
<1>4. \A c \in Customers : rank[c] \in Nat
  BY BankerAssumption DEF Bijection, Injection
<1>5. PICK c \in Customers \ finish : \A d \in Customers \ finish : ~ (rank[d] < rank[c])
  <2> DEFINE ranks == {rank[d] : d \in Customers \ finish}
  <2>1. ranks \subseteq Nat /\ ranks # {}
    BY <1>1, <1>4
  <2>2. PICK m \in ranks : \A k \in ranks : ~ (<<k, m>> \in OpToRel(<, Nat))
    <3> HIDE DEF ranks
    <3> QED BY <2>1, NatLessThanWellFounded, WFMin
  <2>3. \A k \in ranks : ~ (k < m)
    <3> HIDE DEF ranks
    <3> QED BY <2>1, <2>2 DEF OpToRel
  <2> QED BY <2>3
<1>6. Earlier(rank, c) \in SUBSET finish
  BY <1>5 DEF Earlier
<1>7. ASSUME NEW j \in Resources PROVE NewNeeds[c][j] <= work[j]
  <2>1. work[j] = NewAvailable[j] + SumOf(NewAllocations, j, finish)
    BY <1>1, WorkIsSum
  <2>2. SumOf(NewAllocations, j, Earlier(rank, c)) <= SumOf(NewAllocations, j, finish)
    BY <1>1, <1>2, <1>6, SumOfFacts
  <2>3. /\ SumOf(NewAllocations, j, Earlier(rank, c)) \in Int
        /\ SumOf(NewAllocations, j, finish) \in Int
    BY <1>1, <1>2, <1>6, SumOfFacts
  <2>4. NewNeeds[c][j] = maximum[c][j] - NewAllocations[c][j]
    BY <1>2 DEF Minus
  <2>5. NewNeeds[c][j] <= NewAvailable[j] + SumOf(NewAllocations, j, Earlier(rank, c))
    BY <1>3, <2>4
  <2>6. NewAvailable[j] \in Int
    BY <1>2 DEF Vectors
  <2>7. NewNeeds[c][j] \in Int
    <3>1. NewNeeds \in [Customers -> Vectors]
      BY <1>1, NewTypes DEF Inv
    <3>2. NewNeeds[c] \in Vectors
      BY <3>1
    <3> QED BY <3>2 DEF Vectors
  <2>8. \A a, b, d, e \in Int : a <= b + d /\ d <= e => a <= b + e
    OBVIOUS
  <2> QED BY <2>1, <2>2, <2>3, <2>5, <2>6, <2>7, <2>8
<1>8. CanFinish(c)
  BY <1>5, <1>7 DEF CanFinish, AtMost, NewNeeds
<1> QED BY <1>8 DEF NoneCanFinish

-----------------------------------------------------------------------------
(* What the last command left behind: while the search runs, its amounts;  *)
(* after a grant, the certificate of the state that it printed.            *)
Asked == pc = "search" => request \in Amounts

GrantShown ==
  reply = "granted" /\ pc = "prompt" =>
    /\ Named(printed) = Customers
    /\ \E works : Certificate(available, allocation, need, printed, works)

LastCommand == Asked /\ GrantShown

LEMMA LastCommandInv == Inv /\ LastCommand /\ [Next]_vars => LastCommand'
<1> SUFFICES ASSUME Inv, LastCommand, [Next]_vars PROVE LastCommand'
  OBVIOUS
<1> USE DEF LastCommand, Asked, GrantShown
<1>1. ASSUME NEW c \in Customers, NEW r \in Amounts, Request(c, r) PROVE LastCommand'
  BY <1>1 DEF Request
<1>2. ASSUME NEW c \in Customers, NEW r \in Amounts,
             Release(c, r) \/ RequestTooMuch(c, r) \/ ReleaseTooMuch(c, r)
      PROVE  LastCommand'
  BY <1>2 DEF Release, RequestTooMuch, ReleaseTooMuch
<1>3. CASE Choose
  BY <1>3 DEF Choose
<1>4. CASE Grant
  <2>1. WithinBounds(customer, request) /\ finish = Named(printed)
        /\ \E works : Certificate(NewAvailable, NewAllocations, NewNeeds, printed, works)
    BY <1>4 DEF Grant, NoneCanFinish, Inv, Searching
  <2>2. available' = NewAvailable /\ allocation' = NewAllocations /\ need' = NewNeeds
    BY <1>4, <2>1, NewTypes DEF Grant, Inv
  <2>3. printed' = printed /\ finish = Customers /\ pc' = "prompt"
    BY <1>4 DEF Grant, Return
  <2> QED BY <2>1, <2>2, <2>3
<1>5. CASE Deny
  BY <1>5 DEF Deny, Return
<1>6. CASE Exit
  BY <1>6 DEF Exit
<1>7. CASE UNCHANGED vars
  BY <1>7 DEF vars, state, loop
<1> QED
  BY <1>1, <1>2, <1>3, <1>4, <1>5, <1>6, <1>7 DEF Next, Command, Decide, Terminated

LEMMA LastCommandHolds == Spec => [](Inv /\ LastCommand)
<1>1. Init => LastCommand
  BY DEF Init, LastCommand, Asked, GrantShown
<1> QED BY <1>1, InitInv, NextInv, LastCommandInv, PTL DEF Spec

(* Safety in its own words, with the sums.                                 *)
THEOREM SafetyIsKept == Spec => []StaysSafe
<1>1. Inv => StaysSafe
  <2> SUFFICES ASSUME Inv, CanAllFinish(available, allocation, need)
               PROVE  IsSafe(available, maximum, allocation)
    BY SafeIsSafe DEF StaysSafe, Inv, Certified, NothingAllocated
  <2>1. PICK order, works : Certificate(available, allocation, need, order, works)
                            /\ Named(order) = Customers
    BY DEF CanAllFinish
  <2>2. \A c \in Customers : need[c] = Minus(maximum[c], allocation[c])
    BY DEF Inv, Ledger
  <2>3. /\ available \in Vectors /\ maximum \in [Customers -> Vectors]
        /\ allocation \in [Customers -> Vectors]
    BY DEF Inv, TypeOK
  <2> QED BY <2>1, <2>2, <2>3, CertifiedIsSafe
<1> QED BY <1>1, InvHolds, PTL

(* The printed lines are an order in which everybody can finish.           *)
THEOREM PrintedOrderIsRight == Spec => []PrintedOrderWorks
<1>1. Inv /\ LastCommand => PrintedOrderWorks
  <2> SUFFICES ASSUME Inv, LastCommand, reply = "granted", pc = "prompt"
               PROVE  /\ printed \in Bijection(1 .. NUMBER_OF_CUSTOMERS, Customers)
                      /\ \A k \in 1 .. NUMBER_OF_CUSTOMERS, j \in Resources :
                           need[printed[k]][j]
                             <= available[j] + HeldBy({printed[i] : i \in 1 .. k - 1}, j)
    BY DEF PrintedOrderWorks
  <2>1. PICK works : Certificate(available, allocation, need, printed, works)
                     /\ Named(printed) = Customers
    BY DEF LastCommand, GrantShown
  <2>2. \A c \in Customers : need[c] = Minus(maximum[c], allocation[c])
    BY DEF Inv, Ledger
  <2>3. /\ available \in Vectors /\ maximum \in [Customers -> Vectors]
        /\ allocation \in [Customers -> Vectors]
    BY DEF Inv, TypeOK
  <2>4. /\ printed \in Bijection(1 .. NUMBER_OF_CUSTOMERS, Customers)
        /\ Len(printed) = NUMBER_OF_CUSTOMERS
    BY <2>1, <2>2, <2>3, CertifiedIsSafe
  <2>5. ASSUME NEW k \in 1 .. NUMBER_OF_CUSTOMERS, NEW j \in Resources
        PROVE  need[printed[k]][j]
                 <= available[j] + HeldBy({printed[i] : i \in 1 .. k - 1}, j)
    <3>1. k \in 1 .. Len(printed) /\ k \in 1 .. Len(printed) + 1
      BY <2>4, BankerAssumption
    <3>2. need[printed[k]][j] <= works[k][j]
      BY <2>1, <3>1 DEF Certificate, Suffices, AtMost
    <3>3. works[k][j] = available[j] + SumOf(allocation, j, Before(printed, k))
      BY <2>1, <2>3, <3>1, WorksAreSums
    <3>4. SumOf(allocation, j, Before(printed, k)) = HeldBy({printed[i] : i \in 1 .. k - 1}, j)
      BY DEF SumOf, Column, HeldBy, Before
    <3> QED BY <3>2, <3>3, <3>4
  <2> QED BY <2>4, <2>5
<1> QED BY <1>1, LastCommandHolds, PTL
-----------------------------------------------------------------------------
(* The sum changes by as much as the customer's row.                       *)
SameExcess(p, a, q, b) == p + a = q + b

LEMMA SumChanges ==
  ASSUME NEW alloc \in [Customers -> Vectors], NEW j \in Resources, NEW c \in Customers,
         NEW v \in Vectors, NEW more \in [Customers -> Vectors],
         more[c] = v, \A d \in Customers \ {c} : more[d] = alloc[d]
  PROVE  SameExcess(SumOf(more, j, Customers), alloc[c][j], SumOf(alloc, j, Customers), v[j])
<1> DEFINE rest == Customers \ {c}
<1>2. SumOf(more, j, rest) = SumOf(alloc, j, rest)
  <2>1. \A d \in rest : Column(more, j)[d] = Column(alloc, j)[d]
    BY DEF Column
  <2>2. IsFiniteSet(rest)
    BY FiniteCustomers, FS_Subset
  <2> HIDE DEF rest
  <2> QED BY <2>1, <2>2, SumSame DEF SumOf
<1>3. SumOf(more, j, Customers) = v[j] + SumOf(more, j, rest)
  BY SumOfFacts
<1>4. SumOf(alloc, j, Customers) = alloc[c][j] + SumOf(alloc, j, rest)
  BY SumOfFacts
<1>5. SumOf(alloc, j, rest) \in Int
  BY SumOfFacts
<1>6. alloc[c][j] \in Int /\ v[j] \in Int
  <2>1. alloc[c] \in Vectors
    OBVIOUS
  <2> QED BY <2>1 DEF Vectors
<1>7. \A a, b, s \in Int : (a + s) + b = (b + s) + a
  OBVIOUS
<1> QED BY <1>2, <1>3, <1>4, <1>5, <1>6, <1>7 DEF SameExcess

(* A step that takes from the one what it gives to the other loses nothing.*)
LEMMA Balanced ==
  ASSUME Inv, Inv', NEW c \in Customers, NEW v \in Vectors, NEW j \in Resources,
         allocation' = [allocation EXCEPT ![c] = v],
         available'[j] + v[j] = available[j] + allocation[c][j]
  PROVE  Held(j)' = Held(j)
<1>1. /\ allocation \in [Customers -> Vectors] /\ available \in Vectors
      /\ allocation' \in [Customers -> Vectors] /\ available' \in Vectors
  BY DEF Inv, TypeOK
<1>2. SumOf(allocation', j, Customers) + allocation[c][j] = SumOf(allocation, j, Customers) + v[j]
  <2>1. allocation'[c] = v /\ \A d \in Customers \ {c} : allocation'[d] = allocation[d]
    BY <1>1
  <2>2. SameExcess(SumOf(allocation', j, Customers), allocation[c][j],
                   SumOf(allocation, j, Customers), v[j])
    BY <1>1, <2>1, SumChanges
  <2> QED BY <2>2 DEF SameExcess
<1>3. /\ SumOf(allocation', j, Customers) \in Int /\ SumOf(allocation, j, Customers) \in Int
  BY <1>1, SumOfFacts
<1>4. allocation[c][j] \in Int /\ v[j] \in Int /\ available[j] \in Int /\ available'[j] \in Int
  <2>1. allocation[c] \in Vectors
    BY <1>1
  <2> QED BY <1>1, <2>1 DEF Vectors
<1>5. \A a, b, s, t, x, y \in Int : s + x = t + y /\ b + y = a + x => b + s = a + t
  OBVIOUS
<1>6. available'[j] + v[j] = available[j] + allocation[c][j]
  OBVIOUS
<1>7. available'[j] + SumOf(allocation', j, Customers) = available[j] + SumOf(allocation, j, Customers)
  <2> DEFINE s == SumOf(allocation', j, Customers)
             t == SumOf(allocation, j, Customers)
  <2>1. s \in Int /\ t \in Int /\ s + allocation[c][j] = t + v[j]
    BY <1>2, <1>3
  <2> HIDE DEF s, t
  <2>2. available'[j] + s = available[j] + t
    BY ONLY <2>1, <1>4, <1>5, <1>6
  <2> QED BY <2>2 DEF s, t
<1> QED BY <1>7 DEF Held, HeldBy, SumOf, Column

LEMMA NextConserves ==
  ASSUME Inv, [Next]_vars, NEW j \in Resources
  PROVE  Held(j)' = Held(j)
<1>1. Inv'
  BY NextInv
<1>2. CASE UNCHANGED state
  BY <1>2 DEF state, Held, HeldBy
<1>3. CASE Grant
  <2>1. WithinBounds(customer, request) /\ customer \in Customers
    BY <1>3 DEF Grant, NoneCanFinish, Inv, Searching, TypeOK
  <2>2. /\ available' = Minus(available, request)
        /\ allocation' = [allocation EXCEPT ![customer] = Plus(allocation[customer], request)]
    BY <1>3 DEF Grant, NewAvailable
  <2>3. allocation[customer] \in Vectors /\ request \in Vectors /\ available \in Vectors
    BY <2>1 DEF Inv, TypeOK
  <2>4. available'[j] + Plus(allocation[customer], request)[j] = available[j] + allocation[customer][j]
    <3>1. available'[j] = available[j] - request[j]
      BY <2>2 DEF Minus
    <3>2. Plus(allocation[customer], request)[j] = allocation[customer][j] + request[j]
      BY DEF Plus
    <3>3. available[j] \in Int /\ request[j] \in Int /\ allocation[customer][j] \in Int
      BY <2>3 DEF Vectors
    <3>4. \A a, r, b \in Int : (a - r) + (b + r) = a + b
      OBVIOUS
    <3> QED BY <3>1, <3>2, <3>3, <3>4
  <2>5. Plus(allocation[customer], request) \in Vectors
    BY <2>3, PlusType
  <2> QED BY <1>1, <2>1, <2>2, <2>4, <2>5, Balanced
<1>4. ASSUME NEW c \in Customers, NEW r \in Amounts, Release(c, r) PROVE Held(j)' = Held(j)
  <2>1. r \in Vectors /\ AtMost(r, allocation[c])
    BY <1>4, BankerAssumption DEF Release
  <2>2. /\ available' = Plus(available, r)
        /\ allocation' = [allocation EXCEPT ![c] = Minus(allocation[c], r)]
    BY <1>4 DEF Release
  <2>3. allocation[c] \in Vectors /\ available \in Vectors
    BY DEF Inv, TypeOK
  <2>4. available'[j] + Minus(allocation[c], r)[j] = available[j] + allocation[c][j]
    <3>1. available'[j] = available[j] + r[j]
      BY <2>2 DEF Plus
    <3>2. Minus(allocation[c], r)[j] = allocation[c][j] - r[j]
      BY DEF Minus
    <3>3. available[j] \in Int /\ r[j] \in Int /\ allocation[c][j] \in Int
      BY <2>1, <2>3 DEF Vectors
    <3>4. \A a, q, b \in Int : (a + q) + (b - q) = a + b
      OBVIOUS
    <3> QED BY <3>1, <3>2, <3>3, <3>4
  <2>5. Minus(allocation[c], r) \in Vectors
    BY <2>1, <2>3, MinusType
  <2> QED BY <1>1, <2>2, <2>4, <2>5, Balanced
<1>5. [Next]_vars => \/ UNCHANGED state
                     \/ Grant
                     \/ \E c \in Customers, r \in Amounts : Release(c, r)
  BY DEF Next, Command, Decide, Exit, Terminated, Choose, Deny, Request, RequestTooMuch,
         ReleaseTooMuch, vars
<1> QED BY <1>2, <1>3, <1>4, <1>5

(* No step of the program loses or invents a unit of a resource.           *)
THEOREM ResourcesAreKept == Spec => NothingLost
<1>1. Inv /\ [Next]_vars => [\A j \in Resources : Held(j)' = Held(j)]_vars
  BY NextConserves
<1> QED BY <1>1, InvHolds, PTL DEF Spec, NothingLost

-----------------------------------------------------------------------------
(* Each step of the program is one of SafeBanker, or changes nothing that  *)
(* SafeBanker sees.                                                        *)
LEMMA InitRefines == Init => Abstract!Init
BY DEF Init, Abstract!Init, Zero

LEMMA DecisionRefines ==
  ASSUME Inv, LastCommand, Grant \/ Deny
  PROVE  Abstract!Next
<1> DEFINE c == customer
           v == request
<1>1. /\ pc = "search" /\ NoneCanFinish /\ WithinBounds(c, v) /\ finish = Named(printed)
      /\ v \in Amounts /\ c \in Customers /\ v \in Vectors
      /\ available \in Vectors /\ maximum \in [Customers -> Vectors]
      /\ allocation \in [Customers -> Vectors]
  BY BankerAssumption
  DEF Inv, Searching, TypeOK, LastCommand, Asked, Grant, Deny, NoneCanFinish
<1>2. Abstract!Left(v) = NewAvailable
  BY DEF Abstract!Left, NewAvailable, Minus
<1>3. Abstract!Taken(c, v) = NewAllocations
  <2>1. NewAllocations = [allocation EXCEPT ![c] = Plus(@, v)]
    BY <1>1, NewTypes DEF Inv
  <2> QED BY <2>1 DEF Abstract!Taken, Plus
<1>4. CASE Grant
  <2>1. Abstract!Allowed(c, v)
    BY <1>1 DEF WithinBounds, AtMost, Plus, Abstract!Allowed
  <2>2. PICK works : Certificate(NewAvailable, NewAllocations, NewNeeds, printed, works)
    BY <1>1 DEF Inv, Searching
  <2>3. IsSafe(NewAvailable, maximum, NewAllocations)
    <3>1. Named(printed) = Customers
      BY <1>1, <1>4 DEF Grant
    <3>2. /\ NewAvailable \in Vectors /\ NewAllocations \in [Customers -> Vectors]
          /\ NewNeeds = [d \in Customers |-> Minus(maximum[d], NewAllocations[d])]
      BY <1>1, NewTypes DEF Inv
    <3>3. \A d \in Customers : NewNeeds[d] = Minus(maximum[d], NewAllocations[d])
      BY <3>2
    <3> QED BY <1>1, <2>2, <3>1, <3>2, <3>3, CertifiedIsSafe
  <2>4. /\ available' = NewAvailable /\ allocation' = NewAllocations
        /\ reply' = "granted" /\ maximum' = maximum
    BY <1>1, <1>4, NewTypes DEF Grant, Inv
  <2>5. Abstract!Grant(c, v)
    BY <1>2, <1>3, <2>1, <2>3, <2>4, SafeIsSafe DEF Abstract!Grant
  <2> QED BY <1>1, <2>5 DEF Abstract!Next
<1>5. CASE Deny
  <2>1. ~ IsSafe(NewAvailable, maximum, NewAllocations)
    BY <1>1, <1>5, StuckIsUnsafe DEF Deny
  <2>2. reply' = "refused" /\ UNCHANGED <<available, maximum, allocation>>
    BY <1>5 DEF Deny, state
  <2>3. Abstract!Refuse(c, v)
    BY <1>2, <1>3, <2>1, <2>2, SafeIsSafe DEF Abstract!Refuse
  <2> QED BY <1>1, <2>3 DEF Abstract!Next
<1> QED BY <1>4, <1>5

LEMMA StepRefines ==
  ASSUME Inv, LastCommand, [Next]_vars
  PROVE  [Abstract!Next]_(Abstract!svars)
<1>1. ASSUME NEW c \in Customers, NEW r \in Amounts, RequestTooMuch(c, r)
      PROVE  Abstract!Next
  <2>1. ~ Abstract!Allowed(c, r)
    <3>1. PICK j \in Resources : ~ (r[j] <= available[j])
                                 \/ ~ (Plus(allocation[c], r)[j] <= maximum[c][j])
      BY <1>1 DEF RequestTooMuch, WithinBounds, AtMost
    <3> QED BY <3>1 DEF Abstract!Allowed, Plus
  <2>2. Abstract!Refuse(c, r)
    BY <1>1, <2>1 DEF RequestTooMuch, Abstract!Refuse, state
  <2> QED BY <2>2 DEF Abstract!Next
<1>2. ASSUME NEW c \in Customers, NEW r \in Amounts, Release(c, r)
      PROVE  Abstract!Next
  <2>1. Abstract!Return(c, r)
    BY <1>2 DEF Release, AtMost, Plus, Minus, Abstract!Return
  <2> QED BY <2>1 DEF Abstract!Next
<1>3. ASSUME NEW c \in Customers, NEW r \in Amounts, ReleaseTooMuch(c, r)
      PROVE  Abstract!Next
  <2>1. \E j \in Resources : r[j] > allocation[c][j]
    <3>1. PICK j \in Resources : ~ (r[j] <= allocation[c][j])
      BY <1>3 DEF ReleaseTooMuch, AtMost
    <3>2. r \in Vectors /\ allocation[c] \in Vectors
      BY BankerAssumption DEF Inv, TypeOK
    <3> QED BY <3>1, <3>2 DEF Vectors
  <2>2. Abstract!Fail(c, r)
    BY <1>3, <2>1 DEF ReleaseTooMuch, Abstract!Fail, state
  <2> QED BY <2>2 DEF Abstract!Next
<1>4. ASSUME NEW c \in Customers, NEW r \in Amounts, Request(c, r)
      PROVE  UNCHANGED Abstract!svars
  BY <1>4 DEF Request, state, Abstract!svars
<1>5. CASE Choose \/ Exit \/ UNCHANGED vars
  BY <1>5 DEF Choose, Exit, vars, state, Abstract!svars
<1>6. CASE Grant \/ Deny
  BY <1>6, DecisionRefines
<1> QED
  BY <1>1, <1>2, <1>3, <1>4, <1>5, <1>6 DEF Next, Command, Decide, Terminated

(* The program decides every request as the definition of a safe state     *)
(* says: it grants all that leave one, and no others.                      *)
THEOREM ImplementsSafeBanker == Spec => IsSafeBanker
<1>1. Abstract!Spec <=> Abstract!Init /\ [][Abstract!Next]_(Abstract!svars)
  BY DEF Abstract!Spec
<1>2. (Inv /\ LastCommand) /\ [Next]_vars => [Abstract!Next]_(Abstract!svars)
  BY StepRefines
<1> QED BY <1>1, <1>2, InitRefines, LastCommandHolds, PTL DEF Spec, IsSafeBanker
=============================================================================

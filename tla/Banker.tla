------------------------------- MODULE Banker -------------------------------
(***************************************************************************)
(* project6/banker.c: the banker's algorithm behind a command line.        *)
(* request_resources() computes the state after the request and looks for  *)
(* an order in which every customer can finish; only then does it commit.  *)
(* release_resources() takes back what a customer has.                     *)
(*                                                                         *)
(* The program is sequential.  A turn of the safety loop (one customer     *)
(* chosen, or none left to choose) is a step.  The new_ arrays of the code *)
(* are functions of the request in hand and of the state it leaves alone.  *)
(* Commands are well formed: a customer that exists and amounts that are   *)
(* not negative.                                                           *)
(***************************************************************************)
EXTENDS Integers, Sequences, FiniteSets, Functions

CONSTANTS NUMBER_OF_CUSTOMERS, NUMBER_OF_RESOURCES,
          Amounts,       \* the vectors that a command may name
          Endowments,    \* the vectors that argv may hold
          Maxima         \* the matrices that maximum.txt may hold

Customers == 0 .. NUMBER_OF_CUSTOMERS - 1
Resources == 0 .. NUMBER_OF_RESOURCES - 1
Vectors == [Resources -> Nat]

ASSUME BankerAssumption ==
  /\ NUMBER_OF_CUSTOMERS \in Nat \ {0}
  /\ NUMBER_OF_RESOURCES \in Nat
  /\ Amounts \subseteq Vectors
  /\ Endowments \subseteq Vectors
  /\ Maxima \subseteq [Customers -> Vectors]

VARIABLES
  available, maximum, allocation, need,
  pc,          \* "prompt", "search" (the safety loop) or "exited"
  customer,    \* the customer of the command in hand
  request,     \* its amounts
  work,        \* the vector of the safety loop
  finish,      \* the customers with finish[i] = 1
  printed,     \* the lines "T[i] can finish!" of the last search
  reply        \* the answer to the last command

state == <<available, maximum, allocation, need>>
loop == <<customer, request, work, finish>>
vars == <<state, loop, printed, pc, reply>>

Zero == [j \in Resources |-> 0]
Plus(v, w) == [j \in Resources |-> v[j] + w[j]]
Minus(v, w) == [j \in Resources |-> v[j] - w[j]]
AtMost(v, w) == \A j \in Resources : v[j] <= w[j]

TypeOK ==
  /\ available \in Vectors
  /\ maximum \in [Customers -> Vectors]
  /\ allocation \in [Customers -> Vectors]
  /\ need \in [Customers -> Vectors]
  /\ pc \in {"prompt", "search", "exited"}
  /\ customer \in Customers
  /\ request \in Vectors
  /\ work \in Vectors
  /\ finish \in SUBSET Customers
  /\ printed \in Seq(Customers)
  /\ reply \in {"none", "granted", "refused", "released", "failed"}

Init ==
  /\ available \in Endowments
  /\ maximum \in Maxima
  /\ allocation = [c \in Customers |-> Zero]
  /\ need = maximum
  /\ pc = "prompt"
  /\ customer = 0
  /\ request = Zero
  /\ work = Zero
  /\ finish = {}
  /\ printed = << >>
  /\ reply = "none"

-----------------------------------------------------------------------------
(* request_resources(): the state that the request would leave.            *)
NewAvailable == Minus(available, request)

NewAllocation(c) ==
  IF c = customer THEN Plus(allocation[c], request) ELSE allocation[c]

NewNeed(c) == IF c = customer THEN Minus(need[c], request) ELSE need[c]

\* MUTANT: the request is only compared with what is available.
WithinAvailable(c, r) == AtMost(r, available)

WithinBounds(c, r) == AtMost(r, available) /\ AtMost(Plus(allocation[c], r), maximum[c])

(* The command "RQ" for more than there is, or than the customer may have. *)
RequestTooMuch(c, r) ==
  /\ pc = "prompt"
  /\ ~WithinBounds(c, r)
  /\ reply' = "refused"
  /\ printed' = << >>
  /\ UNCHANGED <<state, loop, pc>>

(* The command "RQ" otherwise: step 1 of the safety algorithm.             *)
Request(c, r) ==
  /\ pc = "prompt"
  /\ WithinBounds(c, r)
  /\ pc' = "search"
  /\ customer' = c
  /\ request' = r
  /\ work' = Minus(available, r)
  /\ finish' = {}
  /\ printed' = << >>
  /\ UNCHANGED <<state, reply>>

(* Step 2: not finished and need <= work.                                  *)
CanFinish(i) == i \notin finish /\ AtMost(NewNeed(i), work)

\* MUTANT: work is not increased by what the customer returns.
ChooseNoReturn ==
  /\ pc = "search"
  /\ \E i \in Customers :
       /\ CanFinish(i)
       /\ \A k \in Customers : k < i => ~CanFinish(k)
       /\ work' = work
       /\ finish' = finish \cup {i}
       /\ printed' = Append(printed, i)
  /\ UNCHANGED <<state, customer, request, pc, reply>>

\* MUTANT: the need is added to work instead of the allocation.
ChooseAddsNeed ==
  /\ pc = "search"
  /\ \E i \in Customers :
       /\ CanFinish(i)
       /\ \A k \in Customers : k < i => ~CanFinish(k)
       /\ work' = Plus(work, NewNeed(i))
       /\ finish' = finish \cup {i}
       /\ printed' = Append(printed, i)
  /\ UNCHANGED <<state, customer, request, pc, reply>>

(* Step 3, for the first customer that step 2 finds.                       *)
Choose ==
  /\ pc = "search"
  /\ \E i \in Customers :
       /\ CanFinish(i)
       /\ \A k \in Customers : k < i => ~CanFinish(k)
       /\ work' = Plus(work, NewAllocation(i))
       /\ finish' = finish \cup {i}
       /\ printed' = Append(printed, i)
  /\ UNCHANGED <<state, customer, request, pc, reply>>

NoneCanFinish == pc = "search" /\ \A i \in Customers : ~CanFinish(i)

(* The function returns: its locals are dead and are reset.                *)
Return ==
  /\ pc' = "prompt"
  /\ customer' = 0
  /\ request' = Zero
  /\ work' = Zero
  /\ finish' = {}

\* MUTANT: not every customer has to finish.
GrantUnchecked ==
  /\ NoneCanFinish
  /\ available' = NewAvailable
  /\ allocation' = [allocation EXCEPT ![customer] = Plus(@, request)]
  /\ need' = [need EXCEPT ![customer] = Minus(@, request)]
  /\ Return
  /\ reply' = "granted"
  /\ UNCHANGED <<maximum, printed>>

(* Step 4: the new state is safe and becomes the state.                    *)
Grant ==
  /\ NoneCanFinish
  /\ finish = Customers
  /\ available' = NewAvailable
  /\ allocation' = [allocation EXCEPT ![customer] = Plus(@, request)]
  /\ need' = [need EXCEPT ![customer] = Minus(@, request)]
  /\ Return
  /\ reply' = "granted"
  /\ UNCHANGED <<maximum, printed>>

\* MUTANT: the loop is not left.
DenyAndGoOn ==
  /\ NoneCanFinish
  /\ finish # Customers
  /\ reply' = "refused"
  /\ UNCHANGED <<state, loop, printed, pc>>

(* Step 4: it is not.                                                      *)
Deny ==
  /\ NoneCanFinish
  /\ finish # Customers
  /\ Return
  /\ reply' = "refused"
  /\ UNCHANGED <<state, printed>>

\* MUTANT: what is released does not become available.
ReleaseNowhere(c, r) ==
  /\ pc = "prompt"
  /\ AtMost(r, allocation[c])
  /\ allocation' = [allocation EXCEPT ![c] = Minus(@, r)]
  /\ need' = [need EXCEPT ![c] = Plus(@, r)]
  /\ reply' = "released"
  /\ printed' = << >>
  /\ UNCHANGED <<available, maximum, loop, pc>>

\* MUTANT: the need does not grow when resources are released.
ReleaseOnly(c, r) ==
  /\ pc = "prompt"
  /\ AtMost(r, allocation[c])
  /\ allocation' = [allocation EXCEPT ![c] = Minus(@, r)]
  /\ available' = Plus(available, r)
  /\ need' = need
  /\ reply' = "released"
  /\ printed' = << >>
  /\ UNCHANGED <<maximum, loop, pc>>

(* The command "RL", release_resources().                                  *)
Release(c, r) ==
  /\ pc = "prompt"
  /\ AtMost(r, allocation[c])
  /\ allocation' = [allocation EXCEPT ![c] = Minus(@, r)]
  /\ available' = Plus(available, r)
  /\ need' = [need EXCEPT ![c] = Plus(@, r)]
  /\ reply' = "released"
  /\ printed' = << >>
  /\ UNCHANGED <<maximum, loop, pc>>

ReleaseTooMuch(c, r) ==
  /\ pc = "prompt"
  /\ ~AtMost(r, allocation[c])
  /\ reply' = "failed"
  /\ printed' = << >>
  /\ UNCHANGED <<state, loop, pc>>

(* The command "exit".                                                     *)
Exit ==
  /\ pc = "prompt"
  /\ pc' = "exited"
  /\ UNCHANGED <<state, loop, printed, reply>>

-----------------------------------------------------------------------------
Command == \E c \in Customers, r \in Amounts :
  Request(c, r) \/ RequestTooMuch(c, r) \/ Release(c, r) \/ ReleaseTooMuch(c, r)

Decide == Choose \/ Grant \/ Deny

Terminated == pc = "exited" /\ UNCHANGED vars

Next == Command \/ Decide \/ Exit \/ Terminated

Spec == Init /\ [][Next]_vars

(* A command that was read is carried out; the user may stop typing.       *)
FairSpec == Spec /\ WF_vars(Decide)

-----------------------------------------------------------------------------
(* The tables agree: what a customer needs is what its maximum leaves      *)
(* after its allocation, which is how much it may still ask for.           *)
Ledger == need = [c \in Customers |-> Minus(maximum[c], allocation[c])]

(* No request, granted or not, and no release loses or invents a unit of a *)
(* resource.                                                               *)
HeldBy(customers, j) ==
  SumFunctionOnSet([c \in Customers |-> allocation[c][j]], customers)

Held(j) == available[j] + HeldBy(Customers, j)

NothingLost == [][\A j \in Resources : Held(j)' = Held(j)]_vars

(* The implementation decides every request as the definition of a safe    *)
(* state says: the greedy search grants neither too much nor too little.   *)
Abstract == INSTANCE SafeBanker

IsSafeBanker == Abstract!Spec

(* Once something is granted every state is safe; and from an endowment    *)
(* that is not safe (as 10 5 7 8 with maximum.txt) nothing is ever granted.*)
StaysSafe ==
  \/ Abstract!Safe(available, maximum, allocation)
  \/ allocation = [c \in Customers |-> Zero]

(* The lines printed for a granted request name every customer once, in an *)
(* order in which all of them can finish.                                  *)
PrintedOrderWorks ==
  reply = "granted" /\ pc = "prompt" =>
    /\ printed \in Bijection(1 .. NUMBER_OF_CUSTOMERS, Customers)
    /\ \A k \in 1 .. NUMBER_OF_CUSTOMERS, j \in Resources :
         need[printed[k]][j] <= available[j] + HeldBy({printed[i] : i \in 1 .. k - 1}, j)

(* The safety loop ends.                                                   *)
Answers == pc = "search" ~> pc = "prompt"
=============================================================================

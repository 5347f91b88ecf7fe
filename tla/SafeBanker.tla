----------------------------- MODULE SafeBanker -----------------------------
(***************************************************************************)
(* What the banker of project6 promises: a request is granted exactly when *)
(* it is within the customer's maximum and what is available, and leaves a *)
(* safe state: one where the customers can finish in some order, each with *)
(* what is available and what those before it return.                      *)
(***************************************************************************)
EXTENDS Integers, FiniteSets, Functions

CONSTANTS Customers, Resources,
          Amounts,       \* the vectors that a command may name
          Endowments,    \* the vectors that the program may start with
          Maxima         \* the matrices that maximum.txt may hold

VARIABLES available, maximum, allocation, reply

svars == <<available, maximum, allocation, reply>>

(* Safety by its definition, without an algorithm: the customers finish in *)
(* the order of their ranks.                                               *)
Safe(avail, max, alloc) ==
  \E rank \in Bijection(Customers, 1 .. Cardinality(Customers)) :
    \A c \in Customers, j \in Resources :
      LET returned == SumFunctionOnSet([d \in Customers |-> alloc[d][j]],
                                       {d \in Customers : rank[d] < rank[c]})
      IN max[c][j] - alloc[c][j] <= avail[j] + returned

Init ==
  /\ available \in Endowments
  /\ maximum \in Maxima
  /\ allocation = [c \in Customers |-> [j \in Resources |-> 0]]
  /\ reply = "none"

Taken(c, v) == [allocation EXCEPT ![c] = [j \in Resources |-> @[j] + v[j]]]
Left(v) == [j \in Resources |-> available[j] - v[j]]

Allowed(c, v) ==
  \A j \in Resources : v[j] <= available[j] /\ allocation[c][j] + v[j] <= maximum[c][j]

Grant(c, v) ==
  /\ Allowed(c, v)
  /\ Safe(Left(v), maximum, Taken(c, v))
  /\ available' = Left(v)
  /\ allocation' = Taken(c, v)
  /\ reply' = "granted"
  /\ UNCHANGED maximum

Refuse(c, v) ==
  /\ ~(Allowed(c, v) /\ Safe(Left(v), maximum, Taken(c, v)))
  /\ reply' = "refused"
  /\ UNCHANGED <<available, maximum, allocation>>

Return(c, v) ==
  /\ \A j \in Resources : v[j] <= allocation[c][j]
  /\ available' = [j \in Resources |-> available[j] + v[j]]
  /\ allocation' = [allocation EXCEPT ![c] = [j \in Resources |-> @[j] - v[j]]]
  /\ reply' = "released"
  /\ UNCHANGED maximum

Fail(c, v) ==
  /\ \E j \in Resources : v[j] > allocation[c][j]
  /\ reply' = "failed"
  /\ UNCHANGED <<available, maximum, allocation>>

Next == \E c \in Customers, v \in Amounts :
          Grant(c, v) \/ Refuse(c, v) \/ Return(c, v) \/ Fail(c, v)

Spec == Init /\ [][Next]_svars
=============================================================================

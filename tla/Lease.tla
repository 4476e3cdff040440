------------------------------- MODULE Lease --------------------------------
(***************************************************************************)
(* What the connection pool promises a request, without breakers, health   *)
(* checks, refreshes or failover: a connection is lent to one client at a  *)
(* time, a client borrows one at a time, and a connection changes hands    *)
(* only by being returned first. A crash of the process ends every loan.   *)
(***************************************************************************)
CONSTANTS Resources, Clients

VARIABLE borrowers   \* borrowers[c]: the clients c is lent to

TypeOK == borrowers \in [Resources -> SUBSET Clients]

Init == borrowers = [c \in Resources |-> {}]

Borrow(p, c) ==
  /\ borrowers[c] = {}
  /\ \A d \in Resources : p \notin borrowers[d]
  /\ borrowers' = [borrowers EXCEPT ![c] = {p}]

Return(p, c) ==
  /\ p \in borrowers[c]
  /\ borrowers' = [borrowers EXCEPT ![c] = @ \ {p}]

Crash == borrowers' = [c \in Resources |-> {}]

Next == Crash \/ \E p \in Clients, c \in Resources : Borrow(p, c) \/ Return(p, c)

Spec == Init /\ [][Next]_borrowers

=============================================================================

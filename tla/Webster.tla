------------------------------- MODULE Webster -------------------------------
(***************************************************************************)
(* The Webster method as AllocateWebsterSeats runs it: seats are given one *)
(* at a time to the party at the head of a priority queue.  The parties    *)
(* are clusters, their votes weights, and their seats replicas.            *)
(*                                                                         *)
(* The scheduler starts every division without seats (init is nil).        *)
(* Quotients are compared exactly; the code compares float64 values, which *)
(* agree as long as votes and seats stay below 2^26.                       *)
(***************************************************************************)
EXTENDS Integers

CONSTANTS
    Clusters,     \* the member clusters: numbers in the order of the names
    Descending    \* tieBreakerByUID prefers the larger name

ASSUME WebsterAssumption == Clusters \subseteq Nat /\ Descending \in BOOLEAN

VARIABLE
    party         \* votes and seats of each party, seats left to give

\* A division: the parties are the clusters that have votes.
IsDivision(p) ==
    /\ DOMAIN p = {"votes", "seats", "left"}
    /\ DOMAIN p.votes \subseteq Clusters
    /\ p.votes \in [DOMAIN p.votes -> Int]
    /\ p.seats \in [DOMAIN p.votes -> Nat]
    /\ p.left \in Nat

\* A division of n seats that has not begun.
Division(votes, n) == [votes |-> votes, seats |-> [c \in DOMAIN votes |-> 0], left |-> n]

NoDivision == Division(<<>>, 0)

\* Mutant: the divisors are those of another method.
LessDHondt(p, q) ==
    LET vp == party.votes[p] * (party.seats[q] + 1)
        vq == party.votes[q] * (party.seats[p] + 1)
    IN  vp > vq \/ (vp = vq /\ p < q)

\* Mutant: the parties take turns.
LessInTurn(p, q) ==
    \/ party.seats[p] < party.seats[q]
    \/ party.seats[p] = party.seats[q] /\ p < q

\* WebsterPriorityQueue.Less: the quotients votes / (2 * seats + 1), compared
\* crosswise, then the seats, then the names.
Less(p, q) ==
    LET vp == party.votes[p] * (2 * party.seats[q] + 1)
        vq == party.votes[q] * (2 * party.seats[p] + 1)
    IN  \/ vp > vq
        \/ /\ vp = vq
           /\ \/ party.seats[p] < party.seats[q]
              \/ /\ party.seats[p] = party.seats[q]
                 /\ IF Descending THEN p > q ELSE p < q

\* One round of AllocateWebsterSeats: the head of the queue gets a seat.
AllocateSeat ==
    /\ party.left > 0
    /\ \E p \in DOMAIN party.votes :
          /\ \A q \in DOMAIN party.votes \ {p} : Less(p, q)
          /\ party' = [party EXCEPT !.seats[p] = @ + 1, !.left = @ - 1]

\* A call of AllocateWebsterSeats.
Apportion ==
    /\ party.left = 0
    /\ IsDivision(party')
    /\ \A c \in DOMAIN party'.votes : party'.seats[c] = 0

WebsterInit == party = NoDivision

\* One division after another, each by the Webster method.
WebsterSpec == WebsterInit /\ [][AllocateSeat \/ Apportion]_party

-----------------------------------------------------------------------------

NoDebts == \A p \in DOMAIN party.votes : party.votes[p] >= 0

\* The seats given so far are those of the Webster method: no party would have
\* been better entitled to another one's last seat (AllocateWebsterSeats).
Balanced ==
    NoDebts =>
        \A p, q \in DOMAIN party.votes :
            party.seats[p] > 0 =>
                party.votes[p] * (2 * party.seats[q] + 1)
                    >= party.votes[q] * (2 * party.seats[p] - 1)

\* No cluster gets more than its weight, where the weight is the room it has,
\* before every other cluster has got its weight (AllocateWebsterSeats knows of
\* no limit but the weights).
FullTogether ==
    NoDebts =>
        \A p, q \in DOMAIN party.votes :
            party.seats[p] > party.votes[p] => party.seats[q] >= party.votes[q]
=============================================================================

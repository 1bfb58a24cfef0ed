----------------------------- MODULE BusDelivery -----------------------------
(***************************************************************************)
(* What ibus-daemon promises as a message bus, whatever its queues and     *)
(* threads do: a message reaches every connection as often as it is meant  *)
(* to and no more, once where it is addressed and else once for each match *)
(* rule that asks for it; and the messages of one sender for one           *)
(* destination keep their order at every connection that sees them: all    *)
(* copies of the first come before any copy of the second.                 *)
(***************************************************************************)
EXTENDS Sequences, FiniteSets, Naturals

CONSTANTS
  Conns,
  Expected,  \* Expected[c][m]: how often connection c is meant to get m
  Earlier    \* Earlier[m]: what m's sender sent to m's destination before m

VARIABLE wire   \* wire[c]: what connection c has received

Received(c, m) == Cardinality({i \in DOMAIN wire[c] : wire[c][i] = m})

Arrive(c, m) ==
  /\ Received(c, m) < Expected[c][m]
  /\ \A n \in Earlier[m] : Received(c, n) = Expected[c][n]
  /\ wire' = [wire EXCEPT ![c] = Append(@, m)]

Init == wire = [c \in Conns |-> <<>>]

Next == \E c \in Conns : \E m \in DOMAIN Expected[c] : Arrive(c, m)

Spec == Init /\ [][Next]_wire /\ WF_wire(Next)
=============================================================================

-------------------------- MODULE ReliableDelivery --------------------------
(***************************************************************************)
(* What the GNF1 push path promises a receiver operator, without the       *)
(* connection, the tracker, the queues or the database: a record the       *)
(* feeder may delete is a record whose fate is settled for good.           *)
(***************************************************************************)
EXTENDS Naturals

CONSTANT Exempt     \* sequences no one ever stores

VARIABLES
    produced,   \* sequences assigned so far: 1..produced
    settled,    \* sequences whose fate no failure can change any more
    released    \* the feeder has deleted its copies of 1..released

vars == <<produced, settled, released>>

Init == produced = 0 /\ settled = Exempt /\ released = 0

Produce ==
    /\ produced' = produced + 1
    /\ UNCHANGED <<settled, released>>

Settle ==
    /\ \E s \in SUBSET (1..produced) : settled' = settled \cup s
    /\ UNCHANGED <<produced, released>>

Release ==
    /\ \E n \in (released + 1)..produced :
          /\ 1..n \subseteq settled
          /\ released' = n
    /\ UNCHANGED <<produced, settled>>

Next == Produce \/ Settle \/ Release

Spec == Init /\ [][Next]_vars

=============================================================================

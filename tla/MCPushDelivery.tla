--------------------------- MODULE MCPushDelivery ---------------------------
(***************************************************************************)
(* One followed session "f" and one other observer "o" on shared budgets.  *)
(***************************************************************************)
EXTENDS PushDelivery, TLC

FeederKey == <<"f", "1">>
OtherKey == <<"o", "1">>
OnlyFeeder == {FeederKey}
BothKeys == {FeederKey, OtherKey}

\* Connections are interchangeable.
Symmetry == Permutations(Conns)

=============================================================================

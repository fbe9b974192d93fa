---------------------------- MODULE MCNavReplay -----------------------------
(***************************************************************************)
(* The CNAV messages of one GPS satellite, with two orbits in a row.       *)
(***************************************************************************)
EXTENDS NavAssembly

CnavSignals == {[family |-> "cnav", slack |-> 1, onAir |-> 3, last |-> 4]}

=============================================================================

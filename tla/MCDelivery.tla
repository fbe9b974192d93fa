----------------------------- MODULE MCDelivery -----------------------------
(***************************************************************************)
(* What must arrive: the records of a feeder at the historian, and the     *)
(* events of the daemon at the readers of its stream.                      *)
(*                                                                         *)
(* A behaviour is one of one component: part, fixed in Init, says which,   *)
(* and the other one stays in its initial state.                           *)
(***************************************************************************)
EXTENDS PushDelivery, EventStream

FeederKey == <<"f", "1">>
OnlyFeeder == {FeederKey}

VARIABLE part

DeliveryInit ==
    /\ part \in {"push", "stream"}
    /\ Init
    /\ StreamInit

DeliveryNext ==
    /\ UNCHANGED part
    /\ \/ part = "push" /\ Next /\ UNCHANGED streamVars
       \/ part = "stream" /\ StreamNext /\ UNCHANGED vars

\* The fairness of PushDelivery, where the feeder and the daemon move.
Pushing(action) == part = "push" /\ action

PushFairness ==
    /\ WF_vars(Pushing(Produce)) /\ WF_vars(Pushing(Send)) /\ WF_vars(Pushing(SpoolAck))
    /\ WF_vars(Pushing(Disconnected)) /\ WF_vars(Pushing(AckStall))
    /\ WF_vars(Pushing(\E c \in Conns : Connect(c)))
    /\ \A c \in Conns : WF_vars(Pushing(AckTick(c))) /\ WF_vars(Pushing(Stream(c)))
    /\ WF_vars(Pushing(Decode)) /\ WF_vars(Pushing(Flush))
    /\ WF_vars(Pushing(Commit)) /\ WF_vars(Pushing(NotifyDurable))

DeliverySpec ==
    /\ DeliveryInit /\ [][DeliveryNext]_<<part, vars, streamVars>>
    /\ PushFairness /\ StreamFairness

\* AckedOrStuckAtCap of PushDelivery, where the feeder and the daemon move.
PushedIsAckedOrStuck == part = "push" => AckedOrStuckAtCap

=============================================================================

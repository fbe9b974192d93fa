------------------------------ MODULE MCRestart ------------------------------
(*****************************************************************************)
(* What must not come back, after a restart, a change of policy or a replay: *)
(* events, editions of the hardware registry, broadcast sets.                *)
(*                                                                           *)
(* A behaviour is one of one component: part, fixed in Init, says which, and *)
(* the others stay in an initial state.                                      *)
(*****************************************************************************)
EXTENDS EventPipeline, HardwareTrust, NavAssembly, GlonassAssembly

\* Every message family with a tick longer than the slack and one as long as
\* it, so that an orbit gives way to the next at once or while the old parts
\* are still accepted; an issue of data is reused after two uploads.
NavSignal(name, slack, onAir, last) ==
    [family |-> name, slack |-> slack, onAir |-> onAir, last |-> last]
NavSignals ==
    {NavSignal("lnav", 1, 3, 4), NavSignal("lnav", 0, 2, 3),
     NavSignal("inav", 1, 3, 4), NavSignal("inav", 0, 2, 3),
     NavSignal("fnav", 1, 3, 5), NavSignal("fnav", 0, 2, 3),
     NavSignal("d1", 1, 3, 4), NavSignal("cnav", 1, 3, 3), NavSignal("bcnav2", 1, 2, 3)}

VARIABLE part

Init ==
    /\ part \in {"events", "trust", "nav", "glonass"}
    /\ PipelineInit
    /\ (part # "events" => scoped)
    /\ HardwareTrustInit
    /\ (part # "trust" => editions[1] = [b \in Boards |-> [status |-> "active", current |-> 1]])
    /\ NavInit
    /\ (part # "nav" => signal = NavSignal("d1", 1, 3, 4))
    /\ GloInit

Next ==
    /\ UNCHANGED part
    /\ \/ /\ part = "events" /\ PipelineNext
          /\ UNCHANGED <<trustVars, navVars, gloVars>>
       \/ /\ part = "trust" /\ HardwareTrustNext
          /\ UNCHANGED <<pipelineVars, navVars, gloVars>>
       \/ /\ part = "nav" /\ NavNext
          /\ UNCHANGED <<pipelineVars, trustVars, gloVars>>
       \/ /\ part = "glonass" /\ GloNext
          /\ UNCHANGED <<pipelineVars, trustVars, navVars>>

Spec == Init /\ [][Next]_<<part, pipelineVars, trustVars, navVars, gloVars>>

=============================================================================

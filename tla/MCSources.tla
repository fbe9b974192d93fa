------------------------------ MODULE MCSources ------------------------------
(*****************************************************************************)
(* From the sources to the verdicts: the feeder's spool, dial-mode           *)
(* connections, the epoch and reception checks, the checks on board reports, *)
(* the learned references, the detector and the assurance fusion.            *)
(*                                                                           *)
(* A behaviour is one of one component: part, fixed in Init, says which, and *)
(* the others stay in an initial state.                                      *)
(*****************************************************************************)
EXTENDS EpochChecks,
        Detector,
        Assurance,
        FeederSpool,
        DialSource,
        EnvironmentChecks,
        LearnedReferences,
        ReceptionChecks

\* One check of every kind the fusion tells apart.
FusedCheck(name, domain, weight, lowerOnly, advisory) ==
    [name |-> name, domain |-> domain, weight |-> weight, lowerOnly |-> lowerOnly,
     advisory |-> advisory]
Checks == {FusedCheck("static_position", "position", 2, FALSE, FALSE),
           FusedCheck("clock_bias_drift", "receiver_clock", 1, FALSE, FALSE),
           FusedCheck("cn0_uniformity", "signal_power", 1, TRUE, FALSE),
           FusedCheck("agc", "rf_environment", 0, TRUE, FALSE),
           FusedCheck("environment_change", "environment", 1, FALSE, TRUE)}

\* Board reports: normal and departed values, each of two so that none is flat,
\* and every way a report is withheld or its instruments are at fault.
Says(v) == [value |-> v, ready |-> TRUE, fault |-> FALSE, saturated |-> FALSE]
Air(r) == [readings |-> [air |-> r], heater |-> FALSE, damp |-> FALSE]
Both(r, h) == [readings |-> [air |-> r, hdc |-> h], heater |-> FALSE, damp |-> FALSE]
MCEnvReports ==
    {Air(Says(0)), Air(Says(2)), Air(Says(8)), [Air(Says(2)) EXCEPT !.damp = TRUE],
     [Both(Says(0), Says(Missing)) EXCEPT !.heater = TRUE], Both(Says(0), Says(8)),
     Both([Says(2) EXCEPT !.fault = TRUE], [Says(Missing) EXCEPT !.ready = FALSE])}
MCInRadius == Stations \X Stations

VARIABLE part

Init ==
    /\ part \in {"epochs", "detector", "assurance", "spool", "dial", "environment", "pressure", "power", "agc", "reception"}
    /\ EpochInit
    /\ DetectorInit
    /\ AssuranceInit
    /\ SpoolInit
    /\ (part # "spool" => hardLinks)
    /\ DialInit
    /\ (part # "dial" => ~ntrip)
    /\ EnvInit
    /\ PressureInit
    /\ PowerInit
    /\ AgcInit
    /\ RcInit
    /\ (part # "reception" => rcKind = "power")

Next ==
    /\ UNCHANGED part
    /\ \/ /\ part = "epochs" /\ EpochNext
          /\ UNCHANGED <<detectorVars, assuranceVars, spoolVars, dialVars, envVars, pressureVars, powerVars, agcVars, rcVars>>
       \/ /\ part = "detector" /\ DetectorNext
          /\ UNCHANGED <<epochVars, assuranceVars, spoolVars, dialVars, envVars, pressureVars, powerVars, agcVars, rcVars>>
       \/ /\ part = "assurance" /\ AssuranceNext
          /\ UNCHANGED <<epochVars, detectorVars, spoolVars, dialVars, envVars, pressureVars, powerVars, agcVars, rcVars>>
       \/ /\ part = "spool" /\ SpoolNext
          /\ UNCHANGED <<epochVars, detectorVars, assuranceVars, dialVars, envVars, pressureVars, powerVars, agcVars, rcVars>>
       \/ /\ part = "dial" /\ DialNext
          /\ UNCHANGED <<epochVars, detectorVars, assuranceVars, spoolVars, envVars, pressureVars, powerVars, agcVars, rcVars>>
       \/ /\ part = "environment" /\ EnvNext
          /\ UNCHANGED <<epochVars, detectorVars, assuranceVars, spoolVars, dialVars, pressureVars, powerVars, agcVars, rcVars>>
       \/ /\ part = "pressure" /\ PressureNext
          /\ UNCHANGED <<epochVars, detectorVars, assuranceVars, spoolVars, dialVars, envVars, powerVars, agcVars, rcVars>>
       \/ /\ part = "power" /\ PowerNext
          /\ UNCHANGED <<epochVars, detectorVars, assuranceVars, spoolVars, dialVars, envVars, pressureVars, agcVars, rcVars>>
       \/ /\ part = "agc" /\ AgcNext
          /\ UNCHANGED <<epochVars, detectorVars, assuranceVars, spoolVars, dialVars, envVars, pressureVars, powerVars, rcVars>>
       \/ /\ part = "reception" /\ RcNext
          /\ UNCHANGED <<epochVars, detectorVars, assuranceVars, spoolVars, dialVars, envVars, pressureVars, powerVars, agcVars>>

Spec == Init /\ [][Next]_<<part, epochVars, detectorVars, assuranceVars, spoolVars, dialVars, envVars, pressureVars, powerVars, agcVars, rcVars>>

=============================================================================

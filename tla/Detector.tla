------------------------------ MODULE Detector ------------------------------
(***************************************************************************)
(* The DETECT stage (internal/detect): classifiers that turn one reading   *)
(* of a metric into a band, and the debounced machine of that metric,      *)
(* which confirms a change only after it has been observed for a dwell.    *)
(* A behaviour follows one (subject, metric) machine through the rounds of *)
(* its family: the detector's machines do not influence each other.        *)
(* Readings keep only what a classifier compares; a measured quantity is   *)
(* 0 below its thresholds, 1 at the first and 2 at the second.             *)
(***************************************************************************)
EXTENDS Integers

CONSTANTS
    Watched,            \* the metrics a behaviour may follow
    Debounce,           \* Detector.debounce, in steps of the clock
    StationClearDwell,  \* StationClearDwell
    MaxElapsed,         \* bound: steps of the clock between two rounds
    MaxLostRounds       \* bound: rounds that end in a recovered panic

ASSUME DetectorAssumption ==
    /\ Debounce \in Nat \ {0} /\ StationClearDwell \in Nat
    /\ MaxElapsed \in Nat \ {0} /\ MaxLostRounds \in Nat

VARIABLES
    metric,     \* the metric followed, "" until one is chosen
    machine,    \* its machine, NoMachine before the first observation
    confirmed,  \* the transition the last round confirmed
    reported,   \* history: the last state the event stream gave, since a reset
    steady,     \* history: the last observation and for how long it has held
    lostRounds

detectorVars == <<metric, machine, confirmed, reported, steady, lostRounds>>

Held == "(held)"              \* the classifier did not run
Nothing == "(nothing)"
Unknown == "unknown"          \* stateUnknown
NoMachine == [at |-> Nothing]
NoEvent == [old |-> Nothing, new |-> Nothing]
Absent == -1

-----------------------------------------------------------------------------
(* The classifiers.  Readings(m) is what the read model may hold for metric m,
   Band(m, r, now) the state its classifier passes to observe. *)

Flags == {"ura_alert", "wn", "leap", "osnma"}
Discos == {"orbit_disco", "clock_jump", "reference_orbit", "reference_almanac"}
Pressure == {"regional_pressure", "barometric_height"}
Environment == {"environment_health", "environment_change"}
RF == {"jamming", "antenna", "rf_degraded"}
Levels == {Absent, 0, 1, 2}
CheckStates == {"assured", "inconsistent", "unassured", "unavailable"}

\* A computed position of one signal: its IODnav, its epoch and the place.
XsigPosition == [iod : {1, 2}, epoch : {1, 2}, at : {0, 1}]

RfBands == [dep : {Absent, 1, 2}, cw : BOOLEAN, ant : {0, 3}, jam : {0, 2}]

Readings(m) ==
    CASE m = "health" -> 0..2
      [] m = "eph_age" -> [galileo : BOOLEAN, age : {Absent, 0, 1, 2}]
      [] m \in Discos -> Levels
      [] m = "sisa" -> [m : Levels, acc : {Absent, 1, 2}, rawOnly : BOOLEAN]
      [] m \in Flags -> {{}, {TRUE}, {FALSE}}
      [] m = "bds_integrity" -> [decoded : BOOLEAN, raised : SUBSET {"dif", "sif", "aif"}]
      [] m = "silence" -> [receivers : {0, 1}, unseen : BOOLEAN]
      [] m = "position" -> BOOLEAN
      [] m = "xsig" -> [{"E1B", "E5a"} -> {{}} \cup {{p} : p \in XsigPosition}]
      [] m = "sbas_silence" -> 0..2
      [] m = "sbas_health" -> [unseen : 0..2, code : {1, 3}]
      [] m \in RF -> [bands : {{}} \cup {{a, b} : a, b \in RfBands},
                      cn0 : BOOLEAN, neighbours : BOOLEAN]
      [] m = "offline" -> BOOLEAN
      [] m = "cap_lost" -> [alive : BOOLEAN, enough : BOOLEAN, unseen : BOOLEAN]
      [] m = "cap_impossible" -> [declared : SUBSET {1, 2}, observed : SUBSET {1, 2}]
      [] m = "spoofing" -> [physics : BOOLEAN, indicated : BOOLEAN]
      [] m = "assurance" -> CheckStates
      [] OTHER -> [evaluated : BOOLEAN, state : CheckStates, stale : BOOLEAN]

\* discoBand
DiscoBand(level) == CASE level = 2 -> "crit" [] level = 1 -> "warn" [] level = 0 -> "ok"

\* sisaBand: degraded from the alert threshold (2), ok again only below the
\* exit threshold (1), seen from the confirmed state.
SisaBand(level, now) ==
    IF now = "degraded" THEN IF level < 1 THEN "ok" ELSE "degraded"
    ELSE IF level = 2 THEN "degraded" ELSE "ok"

\* detectXSig compares the positions of two signals of one satellite that come
\* from the same IODnav and the same propagation epoch.
XsigPairs(r) == {p \in r["E1B"] \X r["E5a"] : p[1].iod = p[2].iod /\ p[1].epoch = p[2].epoch}

\* detectStationRF aggregates the bands before it classifies.
MaxDep(bands) == IF \E b \in bands : b.dep = 2 THEN 2
                 ELSE IF \E b \in bands : b.dep = 1 THEN 1 ELSE 0
Corroborated(r) == r.cn0 \/ r.neighbours \/ \E b \in r.bands : b.cw \/ b.jam >= 2
JamBand(r) ==
    CASE MaxDep(r.bands) = 2 -> "crit"
      [] MaxDep(r.bands) = 1 /\ Corroborated(r) -> "warn"
      [] OTHER -> "ok"
RfDegraded(r) ==
    /\ JamBand(r) = "ok"
    /\ MaxDep(r.bands) >= 1 \/ r.cn0 \/ \E b \in r.bands : b.cw \/ b.jam >= 2

\* detectStationRF: without a current band there is nothing to say.
RfBand(m, r) ==
    CASE r.bands = {} -> Held
      [] r.bands # {} /\ m = "jamming" -> JamBand(r)
      [] r.bands # {} /\ m = "antenna" ->
             IF \E b \in r.bands : b.ant \in {3, 4} THEN "fault" ELSE "ok"
      [] OTHER -> IF RfDegraded(r) THEN "degraded" ELSE "ok"

\* detectPressure and detectEnvironment: the band of a check that was evaluated.
CheckBand(m, r) ==
    LET bands == CASE m = "regional_pressure" -> <<"coherent", "local_change", "severe", Unknown>>
                   [] m = "barometric_height" -> <<"consistent", "inconsistent", "diverged", Unknown>>
                   [] m = "environment_health" -> <<"ok", "degraded", "fault",
                                                    IF r.stale THEN "stale" ELSE Unknown>>
                   [] m = "environment_change" -> <<"normal", "changed", "severe", Unknown>>
    IN  CASE ~r.evaluated -> Held
          [] r.evaluated /\ r.state = "assured" -> bands[1]
          [] r.evaluated /\ r.state = "inconsistent" -> bands[2]
          [] r.evaluated /\ r.state = "unassured" -> bands[3]
          [] r.evaluated /\ r.state = "unavailable" -> bands[4]

\* detectSV's accuracy switch: metres, a raw index, or the "no accuracy" index.
AccuracyBand(r, now) ==
    CASE r.m # Absent -> SisaBand(r.m, now)
      [] r.m = Absent /\ r.acc # Absent /\ r.rawOnly -> IF r.acc = 1 THEN "raw_1" ELSE "raw_2"
      [] r.m = Absent /\ r.acc # Absent /\ ~r.rawOnly -> "no_accuracy"
      [] OTHER -> Held

\* integrityFlagState: every combination of raised flags is a state of its own.
IntegrityFlagState(raised) ==
    CASE raised = {} -> "ok"
      [] raised = {"dif"} -> "dif" [] raised = {"sif"} -> "sif" [] raised = {"aif"} -> "aif"
      [] raised = {"dif", "sif"} -> "dif+sif" [] raised = {"dif", "aif"} -> "dif+aif"
      [] raised = {"sif", "aif"} -> "sif+aif" [] OTHER -> "dif+sif+aif"

\* detectSV's flags (URA alert, week number, leap seconds, OSNMA): a flag that
\* was not decoded is not classified.
FlagBand(r) == IF r = {} THEN Held ELSE IF TRUE \in r THEN "raised" ELSE "clear"

\* detectSV's silence classifier runs only for a fleet of SilenceMinReceivers.
SilenceBand(r) ==
    IF r.receivers = 0 THEN Held ELSE IF r.unseen THEN "silent" ELSE "seen"

\* detectXSig
XsigBand(r) ==
    IF XsigPairs(r) = {} THEN Held
    ELSE IF \E p \in XsigPairs(r) : p[1].at # p[2].at THEN "divergent" ELSE "ok"

\* detectSV: health, ephemeris age, discontinuities and position.
SatelliteBand(m, r) ==
    CASE m = "health" -> IF r = 0 THEN Held ELSE IF r = 1 THEN "1" ELSE "2"
      [] m = "eph_age" ->
             IF r.age = Absent THEN Held
             ELSE IF r.age > (IF r.galileo THEN 0 ELSE 1) THEN "aged" ELSE "fresh"
      [] m \in {"orbit_disco", "clock_jump"} -> IF r = Absent THEN Held ELSE DiscoBand(r)
      [] m = "position" -> IF r THEN "known" ELSE Unknown

\* TickOrbitReference: no comparison holds the machine.
ReferenceBand(r) == IF r = Absent THEN Held ELSE DiscoBand(r)

\* detectSBAS: a latch that decayed for lack of input is not classified.
SbasBand(m, r) ==
    CASE m = "sbas_silence" -> IF r = 2 THEN "silent" ELSE "seen"
      [] m = "sbas_health" -> IF r.unseen > 0 THEN Held
                              ELSE IF r.code = 3 THEN "do_not_use" ELSE "ok"

\* detectStationOffline
OfflineBand(r) == IF r THEN "offline" ELSE "online"

\* detectCapability: a dark station neither lost nor resumed a signal.
CapabilityBand(m, r) ==
    CASE m = "cap_lost" -> IF ~r.alive THEN Held
                           ELSE IF r.enough /\ r.unseen THEN "lost" ELSE "present"
      [] m = "cap_impossible" -> IF r.declared = {} THEN Held
                                 ELSE IF r.observed \subseteq r.declared THEN "ok" ELSE "impossible"

\* detectIntegrity: no verdict without a physics check, no state without one.
IntegrityBand(m, r) ==
    CASE m = "spoofing" -> IF ~r.physics THEN Held
                           ELSE IF r.indicated THEN "suspected" ELSE "ok"
      [] m = "assurance" -> IF r = "unavailable" THEN Held ELSE r

\* Which classifier feeds which metric.
Band(m, r, now) ==
    CASE m \in RF -> RfBand(m, r)
      [] m \in Pressure \cup Environment -> CheckBand(m, r)
      [] m \in {"sbas_silence", "sbas_health"} -> SbasBand(m, r)
      [] m = "offline" -> OfflineBand(r)
      [] m \in {"cap_lost", "cap_impossible"} -> CapabilityBand(m, r)
      [] m \in {"spoofing", "assurance"} -> IntegrityBand(m, r)
      [] m \in {"reference_orbit", "reference_almanac"} -> ReferenceBand(r)
      [] m = "xsig" -> XsigBand(r)
      [] m = "silence" -> SilenceBand(r)
      [] m \in Flags -> FlagBand(r)
      [] m = "bds_integrity" -> IF r.decoded THEN IntegrityFlagState(r.raised) ELSE Held
      [] m = "sisa" -> AccuracyBand(r, now)
      [] OTHER -> SatelliteBand(m, r)

-----------------------------------------------------------------------------
(* The debounced machine. *)

\* dwellPolicy.nominal; a family without one has no nominal state.
Nominal(m) ==
    CASE m \in RF \cup {"spoofing", "environment_health", "reference_orbit", "reference_almanac"} -> "ok"
      [] m = "assurance" -> "assured"
      [] m = "environment_change" -> "normal"
      [] m = "regional_pressure" -> "coherent"
      [] m = "barometric_height" -> "consistent"
      [] OTHER -> Nothing

\* policy and dwellPolicy.required.
Required(m, s) ==
    IF m \in RF /\ s = Nominal(m) /\ StationClearDwell > Debounce
    THEN StationClearDwell ELSE Debounce

MaxDwell == IF StationClearDwell > Debounce THEN StationClearDwell ELSE Debounce

\* Ages beyond the longest dwell are alike.
Aged(age, dt) == IF age + dt > MaxDwell THEN MaxDwell ELSE age + dt

Current == IF machine = NoMachine THEN Nothing ELSE machine.at
NewMachine(s, p) == [at |-> s, provisional |-> p, since |-> 0, seen |-> 0, missed |-> FALSE]

\* The machine dt later: since and seen are ages, missed says that a round of
\* its family passed without an observation of it.
Later(dt) == [machine EXCEPT !.since = Aged(@, dt), !.seen = Aged(@, dt)]

Outcome(m, ev) == [machine |-> m, event |-> ev]

\* A change that has been pending: it starts over after a hold of a whole
\* window, and is confirmed when it has lasted.
\* Mutant: a hold does not interrupt the dwell.
PendingAcrossHolds(s, m) ==
    IF m.since >= Required(metric, s)
    THEN Outcome([m EXCEPT !.at = s, !.provisional = Nothing, !.seen = 0, !.missed = FALSE],
                 [old |-> m.at, new |-> s])
    ELSE Outcome([m EXCEPT !.seen = 0, !.missed = FALSE], NoEvent)

Pending(s, m) ==
    IF m.missed /\ m.seen >= Required(metric, s)
    THEN Outcome([m EXCEPT !.since = 0, !.seen = 0, !.missed = FALSE], NoEvent)
    ELSE IF m.since >= Required(metric, s)
    THEN Outcome([m EXCEPT !.at = s, !.provisional = Nothing, !.seen = 0, !.missed = FALSE],
                 [old |-> m.at, new |-> s])
    ELSE Outcome([m EXCEPT !.seen = 0, !.missed = FALSE], NoEvent)

\* A first observation is confirmed silently unless it is a degradation.
Seeded(s) ==
    IF Nominal(metric) \in {Nothing, s}
    THEN Outcome(NewMachine(s, Nothing), NoEvent)
    ELSE Outcome(NewMachine(Unknown, s), NoEvent)

\* observe, on a machine m that already exists.
Folded(s, m) ==
    CASE m.at = Unknown /\ s = Nominal(metric) ->
             Outcome([m EXCEPT !.at = s, !.provisional = Nothing, !.seen = 0, !.missed = FALSE], NoEvent)
      [] ~(m.at = Unknown /\ s = Nominal(metric)) /\ s = m.at ->
             Outcome([m EXCEPT !.provisional = Nothing, !.seen = 0, !.missed = FALSE], NoEvent)
      [] s # m.at /\ s = m.provisional -> Pending(s, m)
      [] OTHER -> Outcome([m EXCEPT !.provisional = s, !.since = 0, !.seen = 0, !.missed = FALSE],
                          NoEvent)

Observed(s, dt) == IF machine = NoMachine THEN Seeded(s) ELSE Folded(s, Later(dt))

\* History: for how long the same band has been observed, counted afresh after
\* a hold of a whole window.
Continued(s, dt) ==
    IF /\ s = steady.band /\ machine # NoMachine
       /\ ~(machine.missed /\ Aged(machine.seen, dt) >= Required(metric, s))
    THEN [band |-> s, age |-> Aged(steady.age, machine.seen + dt)]
    ELSE [band |-> s, age |-> 0]

-----------------------------------------------------------------------------
DetectorInit ==
    /\ metric = "" /\ machine = NoMachine /\ confirmed = NoEvent
    /\ reported = Nothing /\ steady = [band |-> Nothing, age |-> 0]
    /\ lostRounds = 0

Watch(m) ==
    /\ metric = "" /\ metric' = m
    /\ UNCHANGED <<machine, confirmed, reported, steady, lostRounds>>

\* run: one round of the metric's family in which its subject is classified.
Round(dt, s) ==
    /\ metric # "" /\ s # Held
    /\ LET o == Observed(s, dt)
       IN  /\ machine' = o.machine
           /\ confirmed' = o.event
           /\ reported' = IF o.event = NoEvent THEN reported ELSE o.event.new
    /\ steady' = Continued(s, dt)
    /\ UNCHANGED <<metric, lostRounds>>

\* A round of the family in which the machine is held: its subject is absent or
\* its classifier has nothing to go by.
RoundHeld(dt) ==
    /\ machine # NoMachine
    /\ machine' = [Later(dt) EXCEPT !.missed = TRUE]
    /\ confirmed' = NoEvent
    /\ UNCHANGED <<metric, reported, steady, lostRounds>>

\* detectTick recovers a panic of a later classifier: the machines have moved
\* and the events of this tick are discarded.
RoundLost(dt, s) ==
    /\ metric # "" /\ s # Held
    /\ lostRounds < MaxLostRounds /\ lostRounds' = lostRounds + 1
    /\ machine' = Observed(s, dt).machine
    /\ confirmed' = NoEvent
    /\ steady' = Continued(s, dt)
    /\ UNCHANGED <<metric, reported>>

\* Detector.Reset
DetectorReset ==
    /\ machine # NoMachine
    /\ machine' = NoMachine /\ confirmed' = NoEvent
    /\ reported' = Nothing /\ steady' = [band |-> Nothing, age |-> 0]
    /\ UNCHANGED <<metric, lostRounds>>

\* The bands some reading gives; only sisa looks at the confirmed state.
BandsOf == [m \in Watched |-> [degraded \in BOOLEAN |->
              {Band(m, r, IF degraded THEN "degraded" ELSE "ok") : r \in Readings(m)}]]

DetectorNext ==
    \/ \E m \in Watched : Watch(m)
    \/ /\ metric # ""
       /\ \E dt \in 1..MaxElapsed : \E s \in BandsOf[metric][Current = "degraded"] :
            \/ Round(dt, s)
            \/ RoundLost(dt, s)
    \/ \E dt \in 1..MaxElapsed : RoundHeld(dt)
    \/ DetectorReset

DetectorSpec == DetectorInit /\ [][DetectorNext]_detectorVars

-----------------------------------------------------------------------------
(* Properties *)

\* Every variable has its type; no age outgrows the longest dwell.
DetectorTypeOK ==
    /\ metric \in Watched \cup {""}
    /\ machine = NoMachine
         \/ machine \in [at : STRING, provisional : STRING, since : 0..MaxDwell,
                         seen : 0..MaxDwell, missed : BOOLEAN]
    /\ confirmed \in [old : STRING, new : STRING]
    /\ reported \in STRING /\ lostRounds \in 0..MaxLostRounds
    /\ steady \in [band : STRING, age : 0..MaxDwell]

\* A transition is confirmed only after its new state was observed, and nothing
\* else, for the whole dwell of its family, with no hold as long as the dwell
\* between two of the observations (observe: "the debounce promises a
\* CONTINUOUS dwell").
DwellEarned ==
    confirmed # NoEvent =>
        /\ confirmed.new = steady.band
        /\ steady.age >= Required(metric, confirmed.new)

\* The converse: a state that lasts is confirmed, however often its machine is
\* held for less than the dwell in between.  The restart that was once
\* unconditional made such a machine silent for ever.
SteadyIsConfirmed ==
    steady.band # Nothing /\ steady.age >= Required(metric, steady.band) => Current = steady.band

\* Metrics one of whose bands has the name of stateUnknown.
UnknownBands == Pressure \cup Environment

\* The event stream tells where the machine is: once a metric has had an event,
\* its confirmed state is the last one reported, unless a recovered panic
\* discarded an event.
ReportedIsCurrent ==
    reported # Nothing /\ lostRounds = 0 /\ metric \notin UnknownBands => Current = reported

\* A recovery is announced only where a degradation was: a station that starts
\* degraded and turns nominal before its onset raises nothing.
NoPhantomRecovery ==
    [][confirmed' # NoEvent /\ confirmed'.new = Nominal(metric) /\ lostRounds = 0
         => reported # Nothing /\ reported # Nominal(metric)]_detectorVars

\* A change is confirmed after a continuous dwell, not before and not never,
\* and the events tell where the machine is (Detector.observe).
DetectorIsSound ==
    /\ [](/\ DetectorTypeOK
          /\ DwellEarned
          /\ SteadyIsConfirmed
          /\ ReportedIsCurrent)
    /\ NoPhantomRecovery

=============================================================================

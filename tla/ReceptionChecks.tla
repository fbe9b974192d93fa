-------------------------- MODULE ReceptionChecks --------------------------
(***************************************************************************)
(* The collector's own verdict on what a station receives                  *)
(* (go/internal/stationcontrol/manager.go, reception/reception.go).  A     *)
(* control writer computes forecasts outside the lock, the station reports *)
(* its observations against a forecast it holds, and a Machine turns the   *)
(* recomputed deficits into an alarm per constellation, with a dwell in    *)
(* both directions.  The power check runs two machines: against the        *)
(* delivered model, and on the entries the delivered and the station's     *)
(* local model both cover.  An operator may ask a station for a snapshot.  *)
(*                                                                         *)
(* A forecast is named by the tick it was issued in.  What Counts finds of *)
(* a reported sample is its covered and its bad constellations, an input;  *)
(* the comparison of a power sample is an input per entry, the quorum over *)
(* the entries is computed.  The masks that only compare the collector's   *)
(* result with the station's are left out.                                 *)
(***************************************************************************)
EXTENDS Integers, Sequences, FiniteSets

CONSTANTS
  Gnss,         \* constellations
  PowerEntries, \* the entries of a power forecast, all of PowerGnss
  PowerGnss,    \* the constellation they are of
  MinExpected,  \* quorum: entries covered
  MinMissing,   \* quorum: entries bad
  MissingPercent, \* quorum: share of the covered entries that are bad
  FcEvery,      \* forecastEvery, in ticks
  FcKeep,       \* forecasts kept per station
  FcLife,       \* Slots * SlotSeconds, in ticks
  FreshTicks,   \* a sample older than this is stale; so is a gap longer than it
  AheadTicks,   \* and one stamped further ahead than this
  AlarmDwell,   \* AlarmSeconds, in ticks
  ClearDwell,   \* ClearSeconds, in ticks
  RequestLife,  \* how long a snapshot request stands, in ticks
  Ids,          \* snapshot request ids
  RcTicks,      \* bound: ticks
  RcSessions    \* bound: sessions

ASSUME RcBounds ==
  /\ {FcEvery, FcKeep, FcLife, AlarmDwell, ClearDwell, RequestLife, MinExpected, MinMissing} \subseteq Nat \ {0}
  /\ {FreshTicks, AheadTicks, RcTicks, RcSessions} \subseteq Nat
  /\ MissingPercent \in 0..100 /\ PowerGnss \in Gnss /\ IsFiniteSet(PowerEntries)

VARIABLES
  rcKind,      \* the reports modelled: "reception", "power" or "snapshot"
  rcNow,       \* ticks passed
  rcStation,   \* session, lastControl, lastForecast, whether lastUptime is 0
  rcForecasts, \* forecasts or powerForecasts
  rcWriter,    \* per session: the tick of the forecast being computed
  rcMachines,  \* the machines of the check
  rcRuns,      \* ghost: the uninterrupted run of samples behind each machine
  rcVerdict,   \* the check published last: alarm and coverage per machine
  rcSnap       \* request, scopes, expires and the result, if any

machineVars == <<rcMachines, rcRuns, rcVerdict>>
rcVars == <<rcKind, rcNow, rcStation, rcForecasts, rcWriter, machineVars, rcSnap>>

None == -1
Names == [reception |-> {"check"}, power |-> {"remote", "joint"}, snapshot |-> {}][rcKind]
NoRun == [g \in Gnss |-> [want |-> FALSE, from |-> None]]
FreshMachine == [alarm |-> {}, pending |-> {}, target |-> {}, since |-> [g \in Gnss |-> None], last |-> None]
\* Machine{Alarm: m.Alarm}: the alarm is held, the dwell starts anew.
AlarmKept(m) == [FreshMachine EXCEPT !.alarm = m.alarm]
NoneAsked == [request |-> 0, scopes |-> {}, expires |-> 0, result |-> {}]

RcInit ==
  /\ rcKind \in {"reception", "power", "snapshot"}
  /\ rcNow = 0
  /\ rcStation = [session |-> 0, control |-> None, last |-> None, first |-> TRUE]
  /\ rcForecasts = <<>>
  /\ rcWriter = [s \in 1..RcSessions |-> None]
  /\ rcMachines = [n \in Names |-> FreshMachine]
  /\ rcRuns = [n \in Names |-> NoRun]
  /\ rcVerdict = [n \in Names |-> [alarm |-> {}, covered |-> {}]]
  /\ rcSnap = NoneAsked
-----------------------------------------------------------------------------
BeginRcSession ==
  /\ rcStation.session < RcSessions
  /\ rcStation' = [rcStation EXCEPT !.session = @ + 1, !.last = None, !.first = TRUE]
  /\ rcForecasts' = <<>>
  /\ rcMachines' = [n \in Names |-> AlarmKept(rcMachines[n])]
  /\ rcRuns' = [n \in Names |-> NoRun]
  /\ UNCHANGED <<rcKind, rcNow, rcWriter, rcVerdict, rcSnap>>

\* Pending, up to the unlock.
Due == rcStation.last = None \/ rcNow - rcStation.last >= FcEvery
BeginPending(s) ==
  /\ rcStation.session = s /\ rcWriter[s] = None
  /\ rcStation' = [rcStation EXCEPT !.control = rcNow, !.last = IF Due THEN rcNow ELSE @]
  /\ rcWriter' = [rcWriter EXCEPT ![s] = IF Due THEN rcNow ELSE None]
  /\ UNCHANGED <<rcKind, rcNow, rcForecasts, machineVars, rcSnap>>

LastOf(q) == IF Len(q) > FcKeep THEN SubSeq(q, Len(q) - FcKeep + 1, Len(q)) ELSE q

\* Pending, after the forecast: dropped when a newer session took the station,
\* or when it, or its power companion, could not be encoded.
\* Mutant: the session is not looked at again.
StillCurrentAlways(s) == TRUE
StillCurrent(s) == rcStation.session = s /\ rcStation.last = rcWriter[s]
EndForecast(s) ==
  /\ s \in 1..RcSessions /\ rcWriter[s] # None
  /\ rcWriter' = [rcWriter EXCEPT ![s] = None]
  /\ \/ /\ StillCurrent(s)
        /\ rcForecasts' = LastOf(Append(rcForecasts, [at |-> rcWriter[s], session |-> s]))
     \/ UNCHANGED rcForecasts
  /\ UNCHANGED <<rcKind, rcNow, rcStation, machineVars, rcSnap>>
-----------------------------------------------------------------------------
\* Machine.Step for a sample taken at tick t that covers some constellations
\* and finds some of them bad.
Interrupted(m, t) == m.last # None /\ (t < m.last \/ t - m.last > FreshTicks)
Dwell(want) == IF want THEN AlarmDwell ELSE ClearDwell
Step(m, covered, bad, t) ==
  LET k == IF Interrupted(m, t) THEN [m EXCEPT !.pending = {}] ELSE m
      changing == {g \in covered : (g \in bad) # (g \in k.alarm)}
      going == {g \in changing : g \in k.pending /\ (g \in k.target) = (g \in bad)}
      since == [g \in Gnss |-> IF g \in going THEN k.since[g] ELSE IF g \in changing THEN t ELSE None]
      done == {g \in changing : t - since[g] >= Dwell(g \in bad)}
  IN  IF k.last # None /\ t <= k.last THEN k
      ELSE [alarm |-> (k.alarm \ done) \cup (done \cap bad), pending |-> changing \ done,
            target |-> (changing \ done) \cap bad, since |-> [g \in Gnss |-> IF g \in done THEN None ELSE since[g]],
            last |-> t]

\* RetainCoverage.
RetainCoverage(m, covered) ==
  [m EXCEPT !.pending = @ \cap covered, !.target = @ \cap covered,
            !.since = [g \in Gnss |-> IF g \in covered THEN m.since[g] ELSE None]]

\* Check restarts a machine without any coverage; CheckPower does not.
Checked(m, c, t, new) ==
  IF rcKind = "reception" /\ c.covered = {} THEN AlarmKept(m)
  ELSE IF new THEN Step(RetainCoverage(m, c.covered), c.covered, c.bad, t) ELSE RetainCoverage(m, c.covered)

\* CountPower: the quorum over the entries an assessment covers.
Quorum(covered, bad) ==
  LET c == IF Cardinality(covered) >= MinExpected THEN {PowerGnss} ELSE {}
  IN  [covered |-> c,
       bad |-> IF Cardinality(bad) >= MinMissing /\ Cardinality(bad) * 100 >= MissingPercent * Cardinality(covered)
                 THEN c ELSE {}]
\* CheckPower: what a sample's entries say to each machine.  An assessment is
\* the entries it covers and those of them it calls bad.
Assessments == {a \in [covered : SUBSET PowerEntries, bad : SUBSET PowerEntries] : a.bad \subseteq a.covered}
Joint(r, l) == Quorum(r.covered \cap l.covered, r.bad \cap l.bad)
PowerFindings == {[remote |-> Quorum(r.covered, r.bad), joint |-> Joint(r, l)] : r, l \in Assessments}
ReceptionFindings == {[check |-> [covered |-> c, bad |-> b]] : c, b \in SUBSET Gnss}
Findings ==
  IF rcKind = "power" THEN PowerFindings
  ELSE IF rcKind = "reception" THEN {f \in ReceptionFindings : f["check"].bad \subseteq f["check"].covered} ELSE {}

\* Ghost: per constellation, samples with one finding, each within the gap of
\* the one before.
RunOf(r, last, c, t, new) ==
  [g \in Gnss |->
     IF g \notin c.covered THEN NoRun[g]
     ELSE IF ~new \/ t = last THEN r[g]
     ELSE IF t < last THEN NoRun[g]
     ELSE IF r[g].from # None /\ r[g].want = (g \in c.bad) /\ t - last <= FreshTicks THEN r[g]
     ELSE [want |-> g \in c.bad, from |-> t]]

Stale(t) == rcNow - t > FreshTicks \/ t - rcNow > AheadTicks
InForce(fc, t) == t - fc.at \in 0..(FcLife - 1)
Uncovered == [covered |-> {}, bad |-> {}]

\* A stale sample, an unknown forecast or another model: Check publishes the
\* alarm it holds, CheckPower none.
CheckUnknown ==
  /\ rcStation.session > 0 /\ Names # {}
  /\ rcMachines' = [n \in Names |-> AlarmKept(rcMachines[n])]
  /\ rcRuns' = [n \in Names |-> NoRun]
  /\ rcVerdict' = [n \in Names |-> [alarm |-> IF rcKind = "reception" THEN rcMachines[n].alarm ELSE {}, covered |-> {}]]
  /\ UNCHANGED <<rcKind, rcNow, rcStation, rcForecasts, rcWriter, rcSnap>>

\* Check and CheckPower of a fresh sample against a forecast of this session.
CheckKnown(fc, t, new, found) ==
  LET c == [n \in Names |-> IF InForce(fc, t) THEN found[n] ELSE Uncovered]
      fresh == new \/ rcStation.first
  IN  /\ ~Stale(t)
      /\ rcMachines' = [n \in Names |-> Checked(rcMachines[n], c[n], t, fresh)]
      /\ rcRuns' = [n \in Names |-> RunOf(rcRuns[n], rcMachines[n].last, c[n], t, fresh)]
      /\ rcVerdict' = [n \in Names |-> [alarm |-> rcMachines'[n].alarm, covered |-> c[n].covered]]
      /\ rcStation' = [rcStation EXCEPT !.first = @ /\ rcKind = "reception" /\ c["check"].covered = {}]
      /\ UNCHANGED <<rcKind, rcNow, rcForecasts, rcWriter, rcSnap>>

\* What a station may send: any forecast it holds, stamped before now or
\* ahead of it, with a new measurement or a repeated one.
SampleArrives ==
  \E i \in 1..Len(rcForecasts), t \in 0..(rcNow + AheadTicks), new \in BOOLEAN, found \in Findings :
    CheckKnown(rcForecasts[i], t, new, found)
-----------------------------------------------------------------------------
Scopes == {"environment", "receiver"}
SnapPending == rcSnap.request # 0 /\ rcSnap.result = {} /\ rcSnap.expires > rcNow

\* ServeHTTP: an operator posts a snapshot request while the station polls.
PostSnapshot(id, scopes) ==
  /\ rcKind = "snapshot" /\ scopes # {}
  /\ rcStation.control # None /\ rcNow - rcStation.control <= FreshTicks
  /\ id # rcSnap.request /\ ~SnapPending
  /\ rcSnap' = [request |-> id, scopes |-> scopes, expires |-> rcNow + RequestLife, result |-> {}]
  /\ UNCHANGED <<rcKind, rcNow, rcStation, rcForecasts, rcWriter, machineVars>>

\* SnapshotResult, from the session that has the station.
SnapshotReported(id, scopes) ==
  /\ rcKind = "snapshot" /\ rcStation.session > 0
  /\ rcSnap.request = id /\ scopes \subseteq rcSnap.scopes
  /\ rcSnap' = [rcSnap EXCEPT !.result = {scopes}]
  /\ UNCHANGED <<rcKind, rcNow, rcStation, rcForecasts, rcWriter, machineVars>>

RcTick ==
  /\ rcNow < RcTicks
  /\ rcNow' = rcNow + 1
  /\ UNCHANGED <<rcKind, rcStation, rcForecasts, rcWriter, machineVars, rcSnap>>

RcNext ==
  \/ BeginRcSession
  \/ \E s \in 1..RcSessions : BeginPending(s)
  \/ \E s \in 1..RcSessions : EndForecast(s)
  \/ SampleArrives
  \/ CheckUnknown
  \/ \E id \in Ids, scopes \in SUBSET Scopes : PostSnapshot(id, scopes)
  \/ \E id \in Ids, scopes \in SUBSET Scopes : SnapshotReported(id, scopes)
  \/ RcTick

RcSpec == RcInit /\ [][RcNext]_rcVars
-----------------------------------------------------------------------------
\* The forecasts a session's reports are checked against are those computed
\* for that session, whatever ran outside the lock while it began.
ForecastsOfTheSession ==
  \A i \in 1..Len(rcForecasts) : rcForecasts[i].session = rcStation.session

\* An alarm is raised or cleared only by an uninterrupted run of fresh samples
\* that all say so, as long as the dwell: RECEPTION.md's "consecutive fresh
\* samples; a gap over 15 seconds breaks the dwell".
DwellIsEarned ==
  [][\A n \in Names, g \in Gnss : (g \in rcMachines'[n].alarm) # (g \in rcMachines[n].alarm) =>
        /\ rcRuns'[n][g].want = (g \in rcMachines'[n].alarm)
        /\ rcRuns'[n][g].from # None
        /\ rcMachines'[n].last - rcRuns'[n][g].from >= Dwell(rcRuns'[n][g].want)]_rcVars

\* And such a run is enough: replacing the forecast within it does not
\* restart the dwell.
DwellIsEnough ==
  \A n \in Names, g \in Gnss :
    rcRuns[n][g].from # None /\ rcMachines[n].last - rcRuns[n][g].from >= Dwell(rcRuns[n][g].want)
      => (g \in rcMachines[n].alarm) = rcRuns[n][g].want

\* Unknown coverage never clears an alarm: the reception verdict published
\* carries the alarm the machine holds, and the joint check never covers what
\* the delivered model alone does not.
VerdictHolds ==
  /\ rcKind = "reception" => \A n \in Names : rcVerdict[n].alarm = rcMachines[n].alarm
  /\ rcKind = "power" => rcVerdict["joint"].covered \subseteq rcVerdict["remote"].covered

\* A request that stands unanswered is answered or runs out before the next,
\* and its answer stays within what was asked.
SnapshotsTakeTurns ==
  [][rcSnap'.request # rcSnap.request => rcSnap.request = 0 \/ rcSnap.result # {} \/ rcSnap.expires <= rcNow]_rcVars

\* Reception alarms rest on the forecasts of their session and on a whole
\* dwell of fresh samples, and on no less (Machine.Step, Manager).
ReceptionIsSound ==
    /\ [](ForecastsOfTheSession /\ DwellIsEnough /\ VerdictHolds)
    /\ DwellIsEarned
    /\ SnapshotsTakeTurns

=============================================================================

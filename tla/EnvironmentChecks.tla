-------------------------- MODULE EnvironmentChecks --------------------------
(***************************************************************************)
(* The checks on a station's board reports (internal/integrity).  First,   *)
(* environment.go: the health of the instruments, and the departure of     *)
(* what they measure from two references learned from earlier reports, a   *)
(* recent one and a persistent one.  Second, barometric.go with            *)
(* internal/state/integrity_pressure.go: a station's pressure tendency     *)
(* against its neighbours', and the height GNSS reports against both.      *)
(*                                                                         *)
(* One quantity stands for temperature, humidity and pressure, judged      *)
(* alike; Inconsistent and Unassured are one degraded verdict.  A report   *)
(* is a member of EnvReports: what the sensors of the enclosure read,      *)
(* whether the heater is on and whether the dew point is near.             *)
(***************************************************************************)
EXTENDS Integers, FiniteSets, SequencesExt

CONSTANTS
  EnvReports,         \* reports: [readings, heater, damp]
  Departure,          \* change bands: Inconsistent
  SteepRate,          \* rate bands: Inconsistent
  Disagreement,       \* disagreement bands: Inconsistent
  BaselineWindow, BaselineMinAge, BaselineMinSamples,
  PersistenceWindow, PersistenceMinAge,
  RateMin, RateMax,   \* RateMinInterval, RateMaxInterval
  FlatlineAfter, FlatlineMinSamples,
  MaxEnvBoots,        \* bound: starts of the board
  LastEnvReport,      \* bound: time of the last report
  Stations,           \* surveyed stations with a barometer
  Disturbed,          \* those whose enclosure pressure may change by itself
  InRadius,           \* pairs of stations within RadiusM
  PressureWindow, MaxTimeSkew, SampleMaxAge, SolutionMaxSkew, MinNeighbours,
  RateUnit,           \* a tendency is a multiple of one part in RateUnit
  PressureNoise, HeightNoise, ModelUncertainty, \* uncertainties, in metres
  RegionalDeparture, MaxRegionalSpread,
  BandSigmas, BandMin, BandMax, \* of Movement and Divergence: Inconsistent
  Weather, SensorOffset, Jump, \* metres: of the front per unit of time, of a session, of GNSS
  Disturbances,       \* metres an enclosure may be off
  Tracking,           \* stations whose receiver has a height
  MaxPressures, MaxSolutions, MaxUpsets, LastPressure \* bounds: reports, solutions and upsets, upsets, time

ASSUME EnvironmentBounds ==
  /\ {BaselineMinSamples, FlatlineMinSamples} \subseteq Nat \ {0, 1}
  /\ {BaselineMinAge, BaselineWindow, PersistenceMinAge, PersistenceWindow, RateMin, RateMax,
      FlatlineAfter, Departure, SteepRate, Disagreement} \subseteq Nat \ {0}
  /\ BaselineMinAge <= BaselineWindow /\ BaselineWindow <= PersistenceMinAge
  /\ PersistenceMinAge <= PersistenceWindow /\ RateMin <= RateMax
  /\ {MaxEnvBoots, LastEnvReport, MaxPressures, MaxSolutions, MaxUpsets, LastPressure} \subseteq Nat
  /\ {PressureWindow, SampleMaxAge, SolutionMaxSkew, MinNeighbours, RateUnit} \subseteq Nat \ {0}
  /\ MaxTimeSkew \in 0..(PressureWindow - 1)
  /\ \A d \in (PressureWindow - MaxTimeSkew)..(PressureWindow + MaxTimeSkew) : RateUnit % d = 0

VARIABLES
  envBoots,   \* when the board started, once for each of its sessions
  envLast,    \* the latest report: time, session, value, health and change
  env,        \* environmentChecks
  story       \* history: what this session has reported since its references are empty

envVars == <<envBoots, envLast, env, story>>

Missing == -1
NoPoint == [at |-> -1]
NoLine == [samples |-> 0]
Sensors == {"air", "hdc"}
FreshEnv == [history |-> <<>>, previous |-> NoPoint, flatlines |-> [n \in Sensors |-> NoLine],
             anomalous |-> FALSE]
\* Normal so far, and every value within lo..hi; oks, when it could be learned.
NoStory == [phase |-> "normal", lo |-> Missing, hi |-> Missing, oks |-> {}]

EnvInit ==
  /\ envBoots = <<0>>
  /\ envLast = [at |-> 0, of |-> 0, value |-> Missing, steep |-> FALSE, damp |-> FALSE,
                health |-> "none", change |-> "none"]
  /\ env = [checks |-> FreshEnv, uptime |-> -1, session |-> 0]
  /\ story = NoStory
-----------------------------------------------------------------------------
AbsOf(n) == IF n < 0 THEN 0 - n ELSE n

\* Twice the median, so that it stays an integer (median).
TwiceMedian(q) ==
  LET s == SortSeq(q, <)
      m == Len(s) \div 2
  IN  IF Len(s) % 2 = 1 THEN 2 * s[m + 1] ELSE s[m] + s[m + 1]

\* health.  A reading of a heated hygrometer may be missing; a saturated or
\* extended one counts against the sensor.
Withheld(r, n) == r.heater /\ n = "hdc"
Invalid(r, n) ==
  \/ ~r.readings[n].ready
  \/ r.readings[n].value = Missing /\ ~Withheld(r, n)

\* observeFlatline, clearFlatline
FlatlineOf(f, v, t) ==
  IF v = Missing THEN NoLine
  ELSE IF f = NoLine \/ f.value # v THEN [value |-> v, since |-> t, samples |-> 1]
  ELSE [f EXCEPT !.samples = @ + 1]
Flat(f, t) == f.samples >= FlatlineMinSamples /\ t - f.since >= FlatlineAfter

HealthOf(r, flatlines, t) ==
  LET known == {n \in DOMAIN r.readings : r.readings[n].value # Missing}
  IN  IF DOMAIN r.readings = {} THEN "unavailable"
      ELSE IF \/ \E n \in DOMAIN r.readings : Invalid(r, n) \/ r.readings[n].fault \/ r.readings[n].saturated
              \/ \E n \in known : Flat(flatlines[n], t)
              \/ \E m, n \in known : r.readings[m].value - r.readings[n].value >= Disagreement
      THEN "degraded" ELSE "assured"

\* aggregateEnvironment: the median over usable readings of the enclosure.
Usable(r) ==
  {n \in DOMAIN r.readings : /\ r.readings[n].ready /\ ~r.readings[n].fault
                             /\ r.readings[n].value # Missing /\ ~Withheld(r, n)}
Aggregate(r) ==
  IF Usable(r) = {} THEN Missing
  ELSE TwiceMedian([i \in 1..Cardinality(Usable(r)) |-> r.readings[SetToSeq(Usable(r))[i]].value]) \div 2

\* prune, historyAfter, historyBefore
After(q, t) == SelectSeq(q, LAMBDA p : p.at >= t)
Before(q, t) == SelectSeq(q, LAMBDA p : p.at <= t)
PrunedTo(q, t) == After(q, t - PersistenceWindow)

\* Mutant: the references age while a departure lasts.
KeptAlways(checks, t) == PrunedTo(checks.history, t)
Kept(checks, t) == IF checks.anomalous THEN checks.history ELSE PrunedTo(checks.history, t)

\* compareChange against the median of a reference.
Departs(v, q) == AbsOf(2 * v - TwiceMedian([i \in DOMAIN q |-> q[i].value])) >= 2 * Departure
Recent(q, t) == After(q, t - BaselineWindow)
Persistent(q, t) == Before(q, t - PersistenceMinAge)
Ready(q, t) == Len(Recent(q, t)) >= BaselineMinSamples /\ t - Recent(q, t)[1].at >= BaselineMinAge
Sustained(q, t) == Len(Persistent(q, t)) >= BaselineMinSamples
Steep(v, p, t) ==
  /\ p # NoPoint /\ t - p.at \in RateMin..RateMax
  /\ AbsOf(v - p.value) >= SteepRate * (t - p.at)

\* change: the verdict on value v at time t, the history being q.
ChangeOf(v, damp, q, previous, t) ==
  IF \/ damp
     \/ Ready(q, t) /\ Departs(v, Recent(q, t))
     \/ Sustained(q, t) /\ Departs(v, Persistent(q, t))
     \/ Steep(v, previous, t)
    THEN "degraded"
  ELSE IF Ready(q, t) \/ Sustained(q, t) THEN "assured" ELSE "unavailable"

\* change, the last switch: what is learned from a report with this verdict.
Learned(checks, q, v, t) ==
  [checks EXCEPT !.anomalous = FALSE, !.history = Append(PrunedTo(q, t), [at |-> t, value |-> v])]
Trained(checks, q, r, v, health, change, t) ==
  LET c == [checks EXCEPT !.history = q, !.previous = [at |-> t, value |-> v]]
  IN  IF health # "assured" \/ r.heater THEN c
      ELSE IF change = "degraded" THEN [c EXCEPT !.anomalous = TRUE]
      ELSE Learned(c, q, v, t)

\* evaluate, its first lines.  Mutant: a new session is told by its uptime alone.
StartsOverByUptime(s, uptime) == env.uptime # -1 /\ uptime < env.uptime
StartsOver(s, uptime) ==
  \/ env.session # 0 /\ s # env.session
  \/ env.uptime # -1 /\ uptime < env.uptime

\* What the reports of one session, up to now, have been: normal; then held, a
\* departure from all of them that a persistent reference was there to judge
\* and from which no report has returned for good; or anything else.
Distant(st, v) == v - st.hi >= Departure \/ st.lo - v >= Departure
Persisted(oks, t) ==
  Cardinality({o \in oks : o <= t - PersistenceMinAge /\ o >= t - PersistenceWindow}) >= BaselineMinSamples
Apart(st, v) == st.lo # Missing /\ Distant(st, v)
Inside(st, v) == st.lo # Missing /\ v \in st.lo..st.hi
Widened(st, v) == [st EXCEPT !.lo = IF @ = Missing \/ v < @ THEN v ELSE @,
                             !.hi = IF st.hi = Missing \/ v > @ THEN v ELSE @]
Retold(st, v, clean, ok, t) ==
  IF \/ st.phase = "other"
     \/ st.phase = "held" /\ Apart(st, v)
     \/ st.phase = "held" /\ Inside(st, v) /\ ~ok THEN st
  ELSE IF st.phase = "normal" /\ clean /\ Apart(st, v) /\ Persisted(st.oks, t) THEN [st EXCEPT !.phase = "held"]
  ELSE IF st.phase = "normal" /\ Widened(st, v).hi - Widened(st, v).lo < Departure THEN Widened(st, v)
  ELSE [st EXCEPT !.phase = "other"]
Told(st, v, clean, sudden, t) ==
  LET ok == clean /\ ~sudden
  IN  IF v = Missing THEN st
      ELSE [Retold(st, v, clean, ok, t) EXCEPT !.oks = IF ok THEN @ \cup {t} ELSE @]

\* applyBoard: no report of a session goes back behind the one before.
Ordered(s, uptime) == s = envLast.of => uptime >= env.uptime

\* integrityBoard and ApplyEnvironment for a report of session s.
EnvReport(r, s, t) ==
  LET uptime == t - envBoots[s]
      base == IF StartsOver(s, uptime) THEN FreshEnv ELSE env.checks
      flat == [n \in Sensors |-> IF n \in DOMAIN r.readings
                                   THEN FlatlineOf(base.flatlines[n], r.readings[n].value, t)
                                   ELSE base.flatlines[n]]
      checks == [base EXCEPT !.flatlines = flat]
      v == Aggregate(r)
      q == Kept(checks, t)
      health == HealthOf(r, flat, t)
      change == IF v = Missing THEN "unavailable" ELSE ChangeOf(v, r.damp, q, base.previous, t)
      steep == v # Missing /\ Steep(v, base.previous, t)
  IN  /\ Ordered(s, uptime)
      /\ env' = [checks |-> IF v = Missing THEN checks ELSE Trained(checks, q, r, v, health, change, t),
                 uptime |-> uptime, session |-> s]
      /\ envLast' = [at |-> t, of |-> s, value |-> v, steep |-> steep, damp |-> r.damp,
                     health |-> health, change |-> change]
      /\ story' = Told(IF s = envLast.of THEN story ELSE NoStory,
                      v, health = "assured" /\ ~r.heater, r.damp \/ steep, t)
      /\ UNCHANGED envBoots

\* The board starts again, with a session of its own.
EnvReboot ==
  /\ Len(envBoots) < MaxEnvBoots
  /\ envBoots' = Append(envBoots, envLast.at)
  /\ UNCHANGED <<envLast, env, story>>

\* startSegment: the receiver's epochs jumped, or an operator relocated it.
EnvSegmentStarts ==
  /\ env' = [env EXCEPT !.checks = FreshEnv]
  /\ story' = NoStory
  /\ UNCHANGED <<envBoots, envLast>>

EnvNext ==
  \/ \E r \in EnvReports, s \in DOMAIN envBoots, t \in (envLast.at + 1)..(envLast.at + 2) :
       t <= LastEnvReport /\ EnvReport(r, s, t)
  \/ EnvReboot
  \/ EnvSegmentStarts

EnvSpec == EnvInit /\ [][EnvNext]_envVars
-----------------------------------------------------------------------------
\* The references hold clean reports of the session they judge and of no other,
\* and while all is normal every one of the persistence window, however the
\* reports of two boots alternate (evaluate, change).
ReferencesAreThisSession ==
  LET learned == {env.checks.history[i].at : i \in DOMAIN env.checks.history}
  IN  /\ learned \subseteq story.oks
      /\ story.phase = "normal" =>
           \A o \in story.oks : o >= envLast.at - PersistenceWindow => o \in learned

\* While a station has only ever reported normal values its reports are not
\* departures; one that a persistent reference was there to judge is served as
\* long as it lasts, and the first return is not (change, anomalous).
DepartureIsServedThroughout ==
  LET judged == envLast.value # Missing /\ story.lo # Missing
      sudden == envLast.steep \/ envLast.damp
  IN  judged =>
        /\ story.phase = "normal" /\ ~sudden => envLast.change # "degraded"
        /\ story.phase = "held" /\ Apart(story, envLast.value) => envLast.change = "degraded"
        /\ story.phase = "held" /\ ~Apart(story, envLast.value) /\ ~sudden => envLast.change = "assured"

EnvReferencesAreSound ==
  /\ ReferencesAreThisSession
  /\ DepartureIsServedThroughout
-----------------------------------------------------------------------------
\* The logarithm of a pressure is counted in the metres of height it stands for
\* (pressurePhysics).  Weather is a steady front; a session has a sensor offset
\* of its own.  Health is an input here.
VARIABLES
  instant,   \* the collector's clock
  station,   \* of each: pressure, session, recent, anchors
  boots,     \* the session each board is in
  judgement, \* of each: the latest regional_pressure and barometric_height
  heard     \* history: reports, solutions and upsets counted, solutions given

pressureVars == <<instant, station, boots, judgement, heard>>

NoStation == [pressure |-> <<>>, session |-> 0, recent |-> <<>>, anchors |-> <<>>]
NoJudgement == [regional |-> "unavailable", barometric |-> "unavailable"]

PressureInit ==
  /\ instant = 0
  /\ station = [s \in Stations |-> NoStation]
  /\ boots = [s \in Stations |-> 1]
  /\ judgement = [s \in Stations |-> NoJudgement]
  /\ heard = [reports |-> 0, upsets |-> 0, solutions |-> {}]

\* observeSolution
Solution(s, height) ==
  LET fresh == After(station[s].recent, instant - 2 * SolutionMaxSkew)
  IN  /\ heard.upsets + Cardinality(heard.solutions) < MaxSolutions
      /\ heard.solutions = {} => height = 0
      /\ \A x \in heard.solutions : x.of = s => x.at # instant
      /\ station' = [station EXCEPT ![s].recent = Append(fresh, [at |-> instant, height |-> height])]
      /\ heard' = [heard EXCEPT !.solutions = @ \cup {[of |-> s, at |-> instant, height |-> height]}]
      /\ UNCHANGED <<instant, boots, judgement>>

\* nearestSolution: the first of the nearest.
FirstLeast(d) == CHOOSE i \in DOMAIN d : \A j \in DOMAIN d : d[i] < d[j] \/ (d[i] = d[j] /\ i <= j)
Near(q, t, skew) == {i \in DOMAIN q : AbsOf(q[i].at - t) <= skew}
Nearest(q, t, skew) == q[FirstLeast([i \in Near(q, t, skew) |-> AbsOf(q[i].at - t)])]

\* setAnchor, and the cutoff of evaluate.
Anchored(st, t) ==
  LET found == Near(st.recent, t, SolutionMaxSkew) # {}
      a == [at |-> t, height |-> Nearest(st.recent, t, SolutionMaxSkew).height]
      others == SelectSeq(st.anchors, LAMBDA x : x.at # t)
      q == IF found THEN Append(others, a) ELSE st.anchors
  IN  After(q, t - (PressureWindow + MaxTimeSkew + SampleMaxAge))

\* appendPressureObservation, of a board that reports once an instant, and the
\* cutoff of integrityPressure.
PressuresWith(q, o) ==
  After(Append(q, o), o.at - (2 * PressureWindow + 2 * MaxTimeSkew + SampleMaxAge))

\* pressureTendency: the sample nearest one window earlier, the first of two.
OffWindow(o, end) == AbsOf(end.at - o.at - PressureWindow)
Starts(q, end) == {i \in DOMAIN q : q[i].at < end.at /\ OffWindow(q[i], end) <= MaxTimeSkew}
StartOf(q, end) == q[FirstLeast([i \in Starts(q, end) |-> OffWindow(q[i], end)])]
Tendency(start, end) == ((end.log - start.log) * RateUnit) \div (end.at - start.at)

\* regionalPressureContext: the neighbours whose tendency can be compared.
Comparable(all, s, current) ==
  LET start == StartOf(all[s].pressure, current)
  IN  {n \in Stations \ {s} :
         /\ <<s, n>> \in InRadius /\ all[n].pressure # <<>>
         /\ current.at - Last(all[n].pressure).at \in 0..SampleMaxAge
         /\ Starts(all[n].pressure, Last(all[n].pressure)) # {}
         /\ AbsOf(StartOf(all[n].pressure, Last(all[n].pressure)).at - start.at) <= SampleMaxAge}
RateOf(q) == Tendency(StartOf(q, Last(q)), Last(q))
Rates(all, ns) == LET order == SetToSeq(ns) IN [i \in DOMAIN order |-> RateOf(all[order[i]].pressure)]

\* classify of a scaled band, v and the variance in units of u.
Exceeds(v, variance, u) ==
  \/ v > BandMax * u
  \/ v > BandMin * u /\ v * v > BandSigmas * BandSigmas * variance

\* Mutant: the departure is not widened by what the neighbours disagree on.
DepartedPlain(residual, spread, u) == residual >= RegionalDeparture * u
Departed(residual, spread, u) ==
  /\ residual >= RegionalDeparture * u
  /\ residual * residual >= 9 * (PressureNoise * PressureNoise * u * u + spread * spread)

\* regionalPressureVerdict and barometricHeightVerdict, in units of 1/u metres.
RegionalOf(residual, spread, u) ==
  IF spread > MaxRegionalSpread * u THEN "unavailable"
  ELSE IF Departed(AbsOf(residual), spread, u) THEN "departed" ELSE "assured"
BarometricOf(anchors, start, end, regional, residual, spread, u) ==
  LET from == Near(anchors, start.at, 0)
      to == Near(anchors, end.at, 0)
      moved == (Nearest(anchors, end.at, 0).height - Nearest(anchors, start.at, 0).height) * u
      gnss == 2 * HeightNoise * HeightNoise * u * u
      combined == gnss + (PressureNoise * PressureNoise + ModelUncertainty * ModelUncertainty) * u * u
                  + spread * spread
      diverged == Exceeds(AbsOf(moved + residual), combined, u)
  IN  IF from = {} \/ to = {} \/ regional = "unavailable" THEN "unavailable"
      ELSE IF ~Exceeds(AbsOf(moved), gnss, u) \/ ~diverged THEN "assured"
      ELSE IF regional = "departed" THEN "unavailable" ELSE "diverged"

\* evaluate, given the stations as they are once the sample is recorded.
JudgementOf(all, s, o) ==
  LET mine == all[s].pressure
      start == StartOf(mine, o)
      near == Comparable(all, s, o)
      rates == Rates(all, near)
      u == 2 * RateUnit
      spread == LET d == {AbsOf(2 * rates[i] - TwiceMedian(rates)) : i \in DOMAIN rates}
                IN  (CHOOSE m \in d : \A e \in d : e <= m) * (o.at - start.at)
      residual == u * (o.log - start.log) - TwiceMedian(rates) * (o.at - start.at)
      regional == RegionalOf(residual, spread, u)
  IN  IF Starts(mine, o) = {} THEN NoJudgement
      ELSE IF Cardinality(near) < MinNeighbours THEN NoJudgement
      ELSE [regional |-> regional, from |-> start.at, to |-> o.at, near |-> near, spread |-> spread,
            barometric |-> BarometricOf(all[s].anchors, start, o, regional, residual, spread, u)]

\* Mutant: a new session keeps the pressures of the one before.
OfSessionAny(st, session) == st.pressure
OfSession(st, session) ==
  IF st.session # 0 /\ session # st.session THEN <<>> ELSE st.pressure

\* integrityPressure for a report that reads log, or that has no usable
\* pressure: unhealthy instruments, or the configured sensor missing.
Upset ==
  /\ heard.upsets < MaxUpsets /\ heard.upsets + Cardinality(heard.solutions) < MaxSolutions
  /\ heard' = [heard EXCEPT !.upsets = @ + 1]
NoPressure(s) ==
  /\ Upset
  /\ station' = [station EXCEPT ![s].pressure = OfSession(station[s], boots[s]), ![s].session = boots[s]]
  /\ judgement' = [judgement EXCEPT ![s] = NoJudgement]
  /\ UNCHANGED <<instant, boots>>
\* Only differences count: the first pressure of a history is where they start.
Offsets(s) == IF s \in Disturbed /\ station[s].pressure # <<>> THEN Disturbances ELSE {0}
PressureReport(s, local) ==
  LET o == [at |-> instant, log |-> Weather * instant + SensorOffset * boots[s] + local]
      st == [station[s] EXCEPT !.session = boots[s], !.anchors = Anchored(station[s], instant),
                               !.pressure = PressuresWith(OfSession(station[s], boots[s]), o)]
      all == [station EXCEPT ![s] = st]
  IN  /\ heard.reports < MaxPressures
      /\ \A i \in DOMAIN station[s].pressure : station[s].pressure[i].at < instant
      /\ station' = all
      /\ judgement' = [judgement EXCEPT ![s] = JudgementOf(all, s, o)]
      /\ heard' = [heard EXCEPT !.reports = @ + 1]
      /\ UNCHANGED <<instant, boots>>

\* The board starts again; startSegment; FeedStationIntegrity drops a station
\* that has been silent, or SetIntegrity all of them.
PressureReboot(s) ==
  /\ Upset
  /\ boots' = [boots EXCEPT ![s] = @ + 1]
  /\ UNCHANGED <<instant, station, judgement>>
PressureSegment(s) ==
  /\ Upset
  /\ station' = [station EXCEPT ![s].recent = <<>>, ![s].anchors = <<>>]
  /\ UNCHANGED <<instant, boots, judgement>>
Dropped(s) ==
  /\ Upset
  /\ station' = [station EXCEPT ![s] = NoStation]
  /\ judgement' = [judgement EXCEPT ![s] = NoJudgement]
  /\ UNCHANGED <<instant, boots>>
InstantPasses ==
  /\ instant < LastPressure
  /\ instant' = instant + 1
  /\ UNCHANGED <<station, boots, judgement, heard>>

PressureNext ==
  \/ \E s \in Stations : \/ s \in Tracking /\ \E h \in {0, Jump} : Solution(s, h)
                        \/ \E l \in Offsets(s) : PressureReport(s, l)
                        \/ NoPressure(s) \/ PressureReboot(s) \/ PressureSegment(s) \/ Dropped(s)
  \/ InstantPasses

PressureSpec == PressureInit /\ [][PressureNext]_pressureVars
-----------------------------------------------------------------------------
\* A station whose own pressure only follows the weather is never found apart
\* from the region, whatever offset its sensor has in each session, as long as
\* one neighbour compared with is like it: what the others report widens the
\* band at least as much as it moves the median (regionalPressureVerdict).
QuietStationIsNotApart ==
  \A s \in Stations \ Disturbed :
    judgement[s].regional # "unavailable" /\ judgement[s].near \ Disturbed # {} =>
      judgement[s].regional = "assured"

\* While its neighbours agree, its height is evidence against GNSS exactly if
\* GNSS reported different heights about the two instants whose pressures were
\* compared, with no other height near them to choose from
\* (barometricHeightVerdict, anchors).
Heights(s, t) == {x.height : x \in {y \in heard.solutions : y.of = s /\ AbsOf(y.at - t) <= SolutionMaxSkew}}
HeightEvidenceIsReal ==
  \A s \in Stations \ Disturbed :
    LET j == judgement[s]
        fair == j.regional = "assured" /\ j.near \ Disturbed # {} /\ j.spread = 0
    IN
    fair /\ j.barometric # "unavailable" =>
      /\ Heights(s, j.from) # {} /\ Heights(s, j.to) # {}
      /\ Heights(s, j.from) \cup Heights(s, j.to) \in {{0}, {Jump}} => j.barometric = "assured"
      /\ <<Heights(s, j.from), Heights(s, j.to)>> \in {<<{0}, {Jump}>>, <<{Jump}, {0}>>} =>
           j.barometric = "diverged"

\* The checks on board reports: references that hold what they should, and
\* pressures that accuse neither a quiet station nor a steady height.
EnvironmentIsSound ==
  /\ EnvReferencesAreSound
  /\ QuietStationIsNotApart
  /\ HeightEvidenceIsReal

=============================================================================

------------------------------ MODULE Assurance ------------------------------
(***************************************************************************)
(* Station assurance (internal/integrity): the tracker that filters a      *)
(* check's raw evaluations (M of the last N) and holds its recovery, and   *)
(* the fusion of the checks' served states into a station's state.         *)
(* A behaviour either follows one check's tracker through evaluations and  *)
(* silences, or assesses one combination of served states.  Instants are   *)
(* ages, cut off where they no longer matter.                              *)
(***************************************************************************)
EXTENDS Integers, Sequences, FiniteSets, FiniteSetsExt

CONSTANTS
    FilterM, FilterN,   \* FilterPolicy.M and N
    RecoveryHold,       \* FilterPolicy.RecoveryHold
    StaleAfter,         \* Profile.StaleAfter
    MaxPause,           \* bound: time between two steps of a tracker
    FusedChecks         \* the checks fusion is tried on

ASSUME AssuranceAssumption ==
    /\ FilterM \in Nat \ {0} /\ FilterN \in Nat /\ FilterM <= FilterN
    /\ RecoveryHold \in Nat \ {0} /\ StaleAfter \in Nat /\ MaxPause \in Nat \ {0}

States == {"unavailable", "unassured", "inconsistent", "assured"}

\* State.rank: lower is worse.
Rank(s) == CASE s = "unassured" -> 0 [] s = "inconsistent" -> 1
             [] s = "unavailable" -> 2 [] s = "assured" -> 3
RankedWorse(a, b) == Rank(a) < Rank(b)
Degraded(s) == s \in {"unassured", "inconsistent"}

VARIABLES
    tracked,    \* "" until chosen; else whether the check is UnknownImmediate
    tracker,    \* the check's tracker
    unwell,     \* history: age of the newest degraded candidate; RecoveryHold if old
    served      \* the served states fused, <<>> unless a fusion was chosen

assuranceVars == <<tracked, tracker, unwell, served>>

NewTracker == [window |-> <<>>, candidate |-> "unavailable", served |-> "unavailable",
               recovering |-> FALSE, since |-> 0, floor |-> "unavailable",
               hidden |-> "none", age |-> 0, seen |-> FALSE]

-----------------------------------------------------------------------------
(* tracker.go *)

\* filterWindow
FilterWindow(w) ==
    LET count(S) == Cardinality({i \in DOMAIN w : w[i] \in S})
    IN  IF Len(w) < FilterM THEN "unavailable"
        ELSE IF count({"unassured"}) >= FilterM THEN "unassured"
        ELSE IF count({"unassured", "inconsistent"}) >= FilterM THEN "inconsistent"
        ELSE "assured"

LastN(w) == IF Len(w) > FilterN THEN SubSeq(w, Len(w) - FilterN + 1, Len(w)) ELSE w

\* Mutant: a fault hidden by missing input is forgotten.
HeldUnknownForgetful(t, c) ==
    [t EXCEPT !.served = "unavailable", !.recovering = FALSE]

\* hold, for a check whose missing input is shown at once: the degraded state it
\* hides is remembered.
HeldUnknown(t, c) ==
    [t EXCEPT !.hidden = IF t.seen /\ Degraded(t.served) THEN t.served ELSE @,
              !.served = "unavailable", !.recovering = FALSE]

\* hold, when input returns to such a check.
HeldReturn(t, c) ==
    IF Rank(c) <= Rank(t.hidden)
    THEN [t EXCEPT !.served = c, !.recovering = FALSE, !.hidden = "none"]
    ELSE [t EXCEPT !.served = t.hidden, !.hidden = "none",
                   !.recovering = TRUE, !.since = 0, !.floor = c]

\* hold, while the candidates are better than a served degraded state.
HeldRecovery(t, c) ==
    LET since == IF t.recovering THEN t.since ELSE 0
        floor == IF t.recovering /\ RankedWorse(t.floor, c) THEN t.floor ELSE c
    IN  IF since >= RecoveryHold
        THEN [t EXCEPT !.served = floor, !.recovering = FALSE]
        ELSE [t EXCEPT !.recovering = TRUE, !.since = since, !.floor = floor]

\* tracker.hold: one-sided hysteresis.
Hold(t, c, immediate) ==
    CASE immediate /\ c = "unavailable" -> HeldUnknown(t, c)
      [] immediate /\ c # "unavailable" /\ t.served = "unavailable" /\ t.hidden # "none" ->
             HeldReturn(t, c)
      [] OTHER ->
             IF ~t.seen \/ RankedWorse(c, t.served) \/ c = t.served
                        \/ t.served = "unavailable"
             THEN [t EXCEPT !.served = c, !.recovering = FALSE]
             ELSE HeldRecovery(t, c)

\* tracker.update, dt after the previous step of the tracker.
Updated(t, s) ==
    LET w == IF s = "unavailable" THEN <<>> ELSE LastN(Append(t.window, s))
        c == FilterWindow(w)
        h == Hold(t, c, tracked = "immediate")
    IN  [h EXCEPT !.window = w, !.candidate = c, !.age = 0, !.seen = TRUE]

Cut(n, max) == IF n > max THEN max ELSE n
Elapsed(t, dt) == [t EXCEPT !.since = Cut(@ + dt, RecoveryHold), !.age = Cut(@ + dt, StaleAfter + 1)]

\* tracker.expire: no evaluation for longer than StaleAfter counts as one that
\* found nothing; staleness is measured from the last real evaluation.
Expirable(t) == t.seen /\ t.age > StaleAfter
                /\ ~(t.candidate = "unavailable" /\ t.served = "unavailable")
Expired(t) == [Updated(t, "unavailable") EXCEPT !.age = t.age]

-----------------------------------------------------------------------------
AssuranceInit ==
    /\ tracked = "" /\ tracker = NewTracker
    /\ unwell = RecoveryHold /\ served = <<>>

Follow(kind) ==
    /\ tracked = "" /\ served = <<>> /\ tracked' = kind
    /\ UNCHANGED <<tracker, unwell, served>>

\* History kept with every step that leaves the tracker as t, dt later.
Recorded(t, dt) ==
    /\ tracker' = t
    /\ unwell' = IF Degraded(t.candidate) THEN 0 ELSE Cut(unwell + dt, RecoveryHold)

\* Station.update
Evaluate(dt, s) ==
    /\ tracked # ""
    /\ Recorded(Updated(Elapsed(tracker, dt), s), dt)
    /\ UNCHANGED <<tracked, served>>

\* Station.Assess and Served age out a check without input.
Expire(dt) ==
    /\ tracked # "" /\ Expirable(Elapsed(tracker, dt))
    /\ Recorded(Expired(Elapsed(tracker, dt)), dt)
    /\ UNCHANGED <<tracked, served>>

\* startSegment replaces the tracker of a check that depends on continuity.
StartSegment ==
    /\ tracked = "plain" /\ tracker.seen
    /\ tracker' = Updated(NewTracker, "unavailable")
    /\ unwell' = RecoveryHold
    /\ UNCHANGED <<tracked, served>>

-----------------------------------------------------------------------------
(* fuse.go *)

PhysicsDomains == {"signal_power", "position", "receiver_clock", "time_reference",
                   "barometric_position"}

\* Every domain with an unassured check that is not advisory.
UnassuredDomains(v) == {c.domain : c \in {x \in FusedChecks : ~x.advisory /\ v[x] = "unassured"}}

Level(s) == CASE s = "unassured" -> -1 [] s = "inconsistent" -> 0 [] s = "assured" -> 1

\* Which checks enter the weighted mean.
TakesPart(c, s) ==
    ~c.advisory /\ s # "unavailable" /\ ~(c.lowerOnly /\ s = "assured") /\ c.weight > 0

\* The domain rule: a physics domain and a second one that agrees with it.
Condemned(domains) ==
    LET physics == domains \cap PhysicsDomains
    IN  /\ physics # {}
        /\ Cardinality(physics \cup (domains \cap {"receiver_verdict", "rf_environment"})) >= 2

\* The spoofing evidence rule.
SpoofingIndicated(domains) ==
    LET physics == domains \cap PhysicsDomains
    IN  Cardinality(physics) >= 2 \/ (physics # {} /\ "receiver_verdict" \in domains)

\* Fuse.  The mean score is compared with 1/2 through the sums.
Fuse(v) ==
    LET part == {c \in FusedChecks : TakesPart(c, v[c])}
        sum == MapThenSumSet(LAMBDA c : c.weight * Level(v[c]), part)
        weight == MapThenSumSet(LAMBDA c : c.weight, part)
        domains == UnassuredDomains(v)
        mean == IF part = {} THEN "unavailable"
                ELSE IF 2 * sum < -weight THEN "unassured"
                ELSE IF 2 * sum <= weight THEN "inconsistent" ELSE "assured"
    IN  IF Condemned(domains) THEN "unassured"
        ELSE IF domains # {} THEN "inconsistent" ELSE mean

Assess(v) ==
    /\ tracked = "" /\ served = <<>> /\ served' = v
    /\ UNCHANGED <<tracked, tracker, unwell>>

AssuranceNext ==
    \/ \E kind \in {"plain", "immediate"} : Follow(kind)
    \/ \E dt \in 1..MaxPause, s \in States : Evaluate(dt, s)
    \/ \E dt \in 1..MaxPause : Expire(dt)
    \/ StartSegment
    \/ tracked = "" /\ served = <<>> /\ \E v \in [FusedChecks -> States] : Assess(v)

AssuranceSpec == AssuranceInit /\ [][AssuranceNext]_assuranceVars

-----------------------------------------------------------------------------
(* Properties *)

\* Every variable has its type; the window keeps its length.
AssuranceTypeOK ==
    /\ tracked \in {"", "plain", "immediate"}
    /\ tracker \in [window : UNION {[1..n -> States] : n \in 0..FilterN}, candidate : States,
                    served : States, recovering : BOOLEAN, since : 0..RecoveryHold,
                    floor : States, hidden : States \cup {"none"},
                    age : 0..(StaleAfter + 1), seen : BOOLEAN]
    /\ unwell \in 0..RecoveryHold

\* Degradation is served at once: no evaluation, silence or hold leaves a check
\* better than its own filtered evidence.
NeverBetterThanEvidence == Rank(tracker.served) <= Rank(tracker.candidate)

\* A check is served as assured only after a whole recovery hold without any
\* degraded candidate, also when its input was missing in between (HeldUnknown
\* remembers the fault that an immediate "unavailable" hides).
RecoveryEarned == tracker.served = "assured" => unwell >= RecoveryHold

\* A single outlier does not degrade a check: it takes M evaluations of the last
\* N that are degraded.
OutlierFiltered ==
    Degraded(tracker.candidate) =>
        Cardinality({i \in DOMAIN tracker.window : Degraded(tracker.window[i])}) >= FilterM

\* A station is not condemned on the word of one domain, and an unassured check
\* is never hidden by the mean of the others.
CondemnedByTwo ==
    served # <<>> =>
        LET domains == UnassuredDomains(served)
        IN  /\ Fuse(served) = "unassured" => Cardinality(domains) >= 2
            /\ domains # {} => Degraded(Fuse(served))
            /\ SpoofingIndicated(domains) => Fuse(served) = "unassured"

\* Fusion is monotone: a check that reports worse never improves the station, a
\* lower-only check never improves it at all, and an advisory check does nothing.
FusionMonotone ==
    served # <<>> =>
        \A c \in FusedChecks : \A s \in States :
            LET other == [served EXCEPT ![c] = s]
            IN  /\ RankedWorse(s, served[c]) => Rank(Fuse(other)) <= Rank(Fuse(served))
                /\ c.advisory => Fuse(other) = Fuse(served)
                /\ c.lowerOnly => Rank(Fuse(served)) <=
                                  Rank(Fuse([served EXCEPT ![c] = "unavailable"]))

\* The served assurance is never better than the evidence, recovers only
\* after a whole hold, and is fused monotonically (tracker, Fuse).
AssuranceIsSound ==
    /\ AssuranceTypeOK
    /\ NeverBetterThanEvidence
    /\ RecoveryEarned
    /\ OutlierFiltered
    /\ CondemnedByTwo
    /\ FusionMonotone

=============================================================================

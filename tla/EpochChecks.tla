----------------------------- MODULE EpochChecks -----------------------------
(***************************************************************************)
(* The checks of internal/integrity that follow a receiver from epoch to   *)
(* epoch: position and motion (position.go, kinematics.go), the receiver   *)
(* clock (clock.go) and the survey (survey.go), with Station's handlers    *)
(* that feed them.  A behaviour observes one honest receiver of one kind:  *)
(* it moves at a constant speed along a line and its time of week is true, *)
(* unless a fault says otherwise.  Solutions are lost, repeated or late,   *)
(* and a cold start reports a wrong time of week before its first fix.     *)
(* The code compares differences of continuous receiver time and of        *)
(* position only, so both are kept relative to the newest epoch.           *)
(***************************************************************************)
EXTENDS Integers, Sequences, FiniteSets, SequencesExt

CONSTANTS
    WeekLength,      \* weekMS
    EpochGap,        \* maxEpochGapMS
    PVWindow, PVSlack,              \* PositionVelocityProfile
    DriftWindow, DriftMinEpochs,    \* StaticPositionProfile
    MeanLimit,       \* StaticPositionProfile.DriftHorizontalM
    ReferenceAge,    \* MotionBoundProfile.MaxReferenceAge
    SpeedLimit,      \* StationProfile.MaxSpeedMPS
    SegmentGap,      \* MotionPolicy.Gap of an installation with ResetAfterGap
    ClockMinWindow, ClockMaxWindow, ClockLimit,   \* ClockBiasDriftProfile
    Millisecond,     \* msNs
    SurveySpan, SurveySamples,      \* SurveyPolicy
    Noise,           \* bound: how far a fixed receiver's solution may lie off
    JumpSize,        \* size of the position fault
    MaxSilence,      \* bound: time the receiver runs without an accepted epoch
    MaxLate,         \* bound: how late a solution is delivered
    MaxBogus         \* bound: wrong times of week reported

ASSUME EpochAssumption ==
    /\ WeekLength % 2 = 0 /\ EpochGap < WeekLength \div 2
    /\ MaxSilence + MaxLate < WeekLength \div 2
    /\ ReferenceAge + MaxSilence < WeekLength /\ PVWindow + PVSlack < WeekLength
    /\ DriftMinEpochs > 0 /\ Noise <= MeanLimit /\ ClockMinWindow > 0

Kinds == {"fixed", "mobile", "segmenting", "clock", "survey"}

VARIABLES
    kind,       \* the installation observed, "" until chosen
    truth,      \* the receiver: time of week, speed, silence since an accepted epoch
    epochs,     \* positionChecks, clockChecks or Survey: what is kept between epochs
    verdict,    \* the last verdicts given
    faulty,     \* history: a fault changed position or clock
    behind      \* history: how far behind the newest epoch the last refused one lay

epochVars == <<kind, truth, epochs, verdict, faulty, behind>>

NoReference == [age |-> 0, back |-> 0, set |-> FALSE]
NoSurvey == [n |-> 0, last |-> 0, since |-> 0, hole |-> 0, elapsed |-> 0, sum |-> 0, squares |-> 0, ready |-> FALSE]
NewEpochs == [started |-> FALSE, last |-> 0, history |-> <<>>, sum |-> 0, count |-> 0,
              reference |-> NoReference, usable |-> -1, jump |-> 0, survey |-> NoSurvey]

-----------------------------------------------------------------------------
(* inputs.go, position.go: receiver time *)

\* towDelta: the difference of two times of week that is within half a week.
TowDelta(a, b) ==
    LET d == b - a
    IN  IF d > WeekLength \div 2 THEN d - WeekLength
        ELSE IF d < -(WeekLength \div 2) THEN d + WeekLength ELSE d

\* positionChecks.reset, clockChecks.reset
ClearedHistory(e) == [e EXCEPT !.history = <<>>, !.sum = 0, !.count = 0]

\* Mutant: motion_bound's reference survives a step of receiver time.
ResyncedHistory(e) == ClearedHistory(e)

\* resync: nothing before the step compares with anything after it.
Resynced(e) == [ClearedHistory(e) EXCEPT !.reference = NoReference]

\* Receiver time advances by d: everything kept grows older.  A reference older
\* than ReferenceAge is replaced when next looked at, which is what no reference is.
Advanced(e, d) ==
    [e EXCEPT !.history = [i \in DOMAIN @ |-> [@[i] EXCEPT !.age = @ + d]],
              !.usable = IF @ = -1 \/ @ > SegmentGap THEN @ ELSE @ + d,
              !.reference = IF @.set /\ @.age + d <= ReferenceAge
                            THEN [@ EXCEPT !.age = @ + d] ELSE NoReference]

\* accept, for a step forward; the second part is Motion.ResetAfterGap.
Forward(e, d) ==
    LET a == Advanced(e, d)
        segment == kind = "segmenting" /\ (d > SegmentGap \/ a.usable > SegmentGap)
        b == IF segment THEN [Resynced(a) EXCEPT !.usable = -1] ELSE a
    IN  IF d > EpochGap THEN ClearedHistory(b) ELSE b

\* accept: a duplicate, or reordered within an epoch gap.
RefusedTow(e, tow) ==
    e.started /\ TowDelta(e.last, tow) <= 0 /\ -TowDelta(e.last, tow) <= EpochGap

\* positionChecks.accept and the same rule at the head of clockChecks.evaluate
Accepted(e, tow) ==
    LET d == TowDelta(e.last, tow)
        moved == IF ~e.started THEN e ELSE IF d < 0 THEN Resynced(e) ELSE Forward(e, d)
    IN  [moved EXCEPT !.started = TRUE, !.last = tow]

-----------------------------------------------------------------------------
(* position.go: the checks of one accepted solution at s.back behind the     *)
(* receiver's true position, s.off off the surveyed one                      *)

\* trim
TrimmedHistory(e, age) ==
    LET gone == SelectSeq(e.history, LAMBDA x : x.age > age)
    IN  [e EXCEPT !.history = SelectSeq(@, LAMBDA x : x.age <= age),
                  !.sum = @ - FoldSeq(LAMBDA x, n : n + x.off, 0, gone),
                  !.count = @ - Len(gone)]

EpochAbs(n) == IF n < 0 THEN -n ELSE n

\* staticPosition: the mean over the window, this epoch included.  The noise is
\* within the instantaneous bands, a jump is not.
StaticPosition(e, s) ==
    IF ~s.usable THEN "unavailable"
    ELSE IF s.off > Noise THEN "unassured"
    ELSE IF e.count + 1 >= DriftMinEpochs /\ EpochAbs(e.sum + s.off) > MeanLimit * (e.count + 1)
         THEN "inconsistent" ELSE "assured"

\* motionBound: <<verdict, reference>>.  The reference is the last epoch within
\* bounds.
MotionBound(e, s) ==
    LET here == [age |-> 0, back |-> s.back, set |-> TRUE]
    IN  CASE ~s.usable -> <<"unavailable", e.reference>>
          [] s.usable /\ ~e.reference.set -> <<"unavailable", here>>
          [] s.usable /\ e.reference.set ->
                 IF EpochAbs(e.reference.back - s.back) > SpeedLimit * e.reference.age
                 THEN <<"unassured", e.reference>> ELSE <<"assured", here>>

\* positionVelocity: the newest epoch a window old is the base; over a constant
\* reported velocity the trapezoid rule gives speed times time.
PositionVelocity(e, s) ==
    LET old == {i \in DOMAIN e.history : e.history[i].age >= PVWindow}
        base == e.history[CHOOSE i \in old : \A j \in old : j <= i]
    IN  IF ~s.usable \/ old = {} THEN "unavailable"
        ELSE IF base.age > PVWindow + PVSlack THEN "unavailable"
        ELSE IF base.back - s.back # truth.speed * base.age THEN "unassured" ELSE "assured"

\* kinematics: the change of velocity since the previous epoch of a continuous
\* history; the reported velocity is constant.
MotionKinematics(e, s) ==
    IF ~s.usable \/ e.history = <<>> THEN "unavailable"
    ELSE IF Last(e.history).age > SegmentGap THEN "unavailable" ELSE "assured"

\* evaluate: an installation with a motion or fixed policy forgets its history
\* with an unusable solution.
Judged(e0, s) ==
    LET e1 == IF ~s.usable /\ kind = "segmenting" THEN ClearedHistory(e0) ELSE e0
        e2 == TrimmedHistory(e1, IF DriftWindow > PVWindow + PVSlack THEN DriftWindow
                           ELSE PVWindow + PVSlack)
        bound == IF kind = "fixed" THEN <<"unavailable", NoReference>> ELSE MotionBound(e2, s)
        entry == [age |-> 0, back |-> s.back, off |-> s.off]
    IN  [given |-> [static |-> IF kind = "fixed" THEN StaticPosition(e2, s) ELSE "unavailable",
                    bound |-> bound[1],
                    kinematics |-> IF kind = "segmenting" THEN MotionKinematics(e2, s)
                                   ELSE "unavailable",
                    velocity |-> PositionVelocity(e2, s)],
         kept |-> IF s.usable
                  THEN [e2 EXCEPT !.reference = bound[2], !.usable = 0,
                                  !.history = Append(@, entry),
                                  !.sum = @ + s.off, !.count = @ + 1]
                  ELSE [e2 EXCEPT !.reference = bound[2]]]

-----------------------------------------------------------------------------
(* clock.go: an entry is [age, back |-> residual of its step, off |-> unused]; *)
(* epochs.jump is what the bias moved beyond its drift since the last sample   *)

\* evaluate: a residual of whole milliseconds is a clock adjustment.
Residual(r) == IF r # 0 /\ r % Millisecond = 0 THEN 0 ELSE r

\* base: the newest sample at least the minimal and at most the maximal window old.
ClockBase(h) ==
    LET old == {i \in 1..(Len(h) - 1) : h[i].age >= ClockMinWindow}
        newest == CHOOSE i \in old : \A j \in old : j <= i
    IN  IF old = {} THEN 0 ELSE IF h[newest].age <= ClockMaxWindow THEN newest ELSE 0

\* biasDrift
BiasDrift(h) ==
    IF ClockBase(h) = 0 THEN "unavailable"
    ELSE IF EpochAbs(FoldSeq(LAMBDA x, n : n + x.back, 0, SubSeq(h, ClockBase(h) + 1, Len(h))))
            > ClockLimit
         THEN "unassured" ELSE "assured"

\* evaluate after the clock was advanced: without a fix the samples are dropped.
ClockJudged(e, s) ==
    LET step == IF e.history = <<>> THEN 0 ELSE Residual(e.jump)
        all == Append(e.history, [age |-> 0, back |-> step, off |-> 0])
        kept == SelectSeq(all, LAMBDA x : x.age <= ClockMaxWindow)
    IN  IF ~s.usable THEN [given |-> "unavailable", kept |-> ClearedHistory(e)]
        ELSE [given |-> BiasDrift(kept), kept |-> [e EXCEPT !.history = kept, !.jump = 0]]

-----------------------------------------------------------------------------
(* survey.go: since is the true time since the newest sample, hole the longest *)
(* such time within the survey (history)                                       *)

\* Apply: a gap, or UTC that does not step with the time of week.  Both come from
\* the receiver's clock; only the time of week of a cold start is wrong, and that
\* solution is not usable.
SurveyBroken(d) == d < 0 \/ d > EpochGap

\* Apply.  A survey keeps its own newest time of week; poor solutions start it again,
\* and so does a spread (the variance of the positions) beyond the limit.
Surveyed(v, s, tow) ==
    LET d == TowDelta(v.last, tow)
        repeated == v.n > 0 /\ d <= 0 /\ -d <= EpochGap
        base == IF v.n > 0 /\ SurveyBroken(d) THEN NoSurvey ELSE v
        more == [base EXCEPT !.n = @ + 1, !.last = tow,
                             !.elapsed = IF base.n = 0 THEN 0 ELSE @ + d,
                             !.since = 0, !.hole = IF base.since > @ THEN base.since ELSE @,
                             !.sum = @ + s.off, !.squares = @ + s.off * s.off]
        spread == more.n * more.squares - more.sum * more.sum
    IN  IF v.ready THEN v
        ELSE IF ~s.usable THEN NoSurvey
        ELSE IF repeated THEN v
        ELSE IF spread > MeanLimit * MeanLimit * more.n * more.n THEN NoSurvey
        ELSE [more EXCEPT !.ready = more.n >= SurveySamples /\ more.elapsed >= SurveySpan]

-----------------------------------------------------------------------------
NoVerdict == [static |-> "unavailable", bound |-> "unavailable",
              kinematics |-> "unavailable", velocity |-> "unavailable", clock |-> "unavailable"]

EpochInit ==
    /\ kind = "" /\ truth = [tow |-> 0, speed |-> 0, silence |-> 0, off |-> 0, bogus |-> 0]
    /\ epochs = NewEpochs /\ verdict = NoVerdict /\ faulty = FALSE
    /\ behind = 0

\* NewStation, for one kind of installation and a receiver of some constant speed.
Install(k, v) ==
    /\ kind = "" /\ kind' = k
    /\ v # 0 => k \in {"mobile", "segmenting"}
    /\ truth' = [truth EXCEPT !.speed = v]
    /\ UNCHANGED <<epochs, verdict, faulty, behind>>

\* Time passes and the receiver moves (external).
Run(dt) ==
    /\ kind # "" /\ truth.silence + dt <= MaxSilence
    /\ truth' = [truth EXCEPT !.tow = (@ + dt) % WeekLength, !.silence = @ + dt]
    /\ epochs' = [epochs EXCEPT
           !.history = IF kind = "clock" THEN @
                       ELSE [i \in DOMAIN @ |-> [@[i] EXCEPT !.back = @ + truth.speed * dt]],
           !.reference = IF @.set THEN [@ EXCEPT !.back = @ + truth.speed * dt] ELSE @,
           !.survey = IF @.n > 0 /\ ~@.ready /\ @.since <= EpochGap
                      THEN [@ EXCEPT !.since = @ + dt] ELSE @]
    /\ UNCHANGED <<kind, verdict, faulty, behind>>

\* ApplySolution or ApplyClock with solution s at time of week tow.
Applied(s, tow) ==
    LET d == TowDelta(epochs.last, tow)
        a == Accepted(epochs, tow)
        p == Judged(a, s)
        c == ClockJudged(a, s)
    IN  IF RefusedTow(epochs, tow)
        THEN behind' = -d /\ UNCHANGED <<epochs, verdict>>
        ELSE /\ behind' = 0
             /\ CASE kind = "clock" ->
                       /\ epochs' = c.kept
                       /\ verdict' = [NoVerdict EXCEPT !.clock = c.given]
                  [] kind = "survey" ->
                       /\ epochs' = [a EXCEPT !.survey = Surveyed(@, s, tow)]
                       /\ UNCHANGED verdict
                  [] OTHER ->
                       /\ epochs' = p.kept
                       /\ verdict' = p.given @@ [clock |-> "unavailable"]

\* A solution taken late ago arrives, usable or not; noise is its error.
Solve(late, usable, noise) ==
    /\ kind # "" /\ (late > 0 => kind \notin {"clock", "survey"})
    /\ noise # 0 => usable /\ (kind = "fixed" \/ (kind = "survey" /\ noise > 0))
    /\ Applied([usable |-> usable, back |-> truth.speed * late - truth.off,
                off |-> truth.off + noise],
               (truth.tow - late) % WeekLength)
    /\ truth' = [truth EXCEPT !.silence = IF RefusedTow(epochs, (truth.tow - late) % WeekLength)
                                          THEN @ ELSE late]
    /\ UNCHANGED <<kind, faulty>>

\* A cold start reports a default time of week before its first fix.
ColdStart(tow) ==
    /\ kind # "" /\ ~faulty /\ truth.bogus < MaxBogus
    /\ Applied([usable |-> FALSE, back |-> 0, off |-> 0], tow)
    /\ truth' = [truth EXCEPT !.bogus = @ + 1]
    /\ UNCHANGED <<kind, faulty>>

\* ApplyStatus with a smaller time since start: the next epoch re-anchors.
Restarted(e) == [Resynced(e) EXCEPT !.started = FALSE]

\* The receiver restarts and its status says so; its clock bias starts anew.
RestartReceiver(bias) ==
    /\ kind # "" /\ epochs.started /\ (bias # 0 => kind = "clock")
    /\ epochs' = [Restarted(epochs) EXCEPT !.jump = bias]
    /\ UNCHANGED <<kind, truth, verdict, faulty, behind>>

\* Station.Relocate, an operator action on a portable installation.
RelocateStation ==
    /\ kind = "segmenting" /\ epochs.started
    /\ epochs' = [Restarted(epochs) EXCEPT !.usable = -1]
    /\ truth' = [truth EXCEPT !.off = 0] /\ verdict' = NoVerdict
    /\ UNCHANGED <<kind, faulty, behind>>

\* The receiver adjusts its clock by a whole millisecond.
AdjustClock ==
    /\ kind = "clock" /\ epochs.jump = 0 /\ epochs' = [epochs EXCEPT !.jump = Millisecond]
    /\ UNCHANGED <<kind, truth, verdict, faulty, behind>>

\* A fault: the position or the clock bias jumps.  A behaviour has a fault or cold
\* starts, not both.
JumpAway ==
    /\ kind # "" /\ ~faulty /\ truth.bogus = 0 /\ faulty' = TRUE
    /\ IF kind = "clock" THEN epochs' = [epochs EXCEPT !.jump = JumpSize] /\ UNCHANGED truth
       ELSE truth' = [truth EXCEPT !.off = JumpSize] /\ UNCHANGED epochs
    /\ UNCHANGED <<kind, verdict, behind>>

EpochNext ==
    \/ \E k \in Kinds, v \in 0..SpeedLimit : Install(k, v)
    \/ \E dt \in 1..MaxSilence : Run(dt)
    \/ \E late \in 0..MaxLate, usable \in BOOLEAN, noise \in (-Noise)..Noise :
           Solve(late, usable, noise)
    \/ \E tow \in 0..(WeekLength - 1) : ColdStart(tow)
    \/ \E bias \in {0, JumpSize} : RestartReceiver(bias)
    \/ RelocateStation
    \/ AdjustClock
    \/ JumpAway

EpochSpec == EpochInit /\ [][EpochNext]_epochVars

-----------------------------------------------------------------------------
(* Properties *)

\* Everything kept stays bounded: the window, the reference and the survey.
EpochTypeOK ==
    /\ kind \in Kinds \cup {""}
    /\ epochs.last \in 0..(WeekLength - 1)
    /\ \A i \in DOMAIN epochs.history :
           epochs.history[i].age \in 0..(IF kind = "clock" THEN ClockMaxWindow
                                         ELSE DriftWindow + PVWindow + PVSlack)
    /\ epochs.reference.age \in 0..ReferenceAge

\* staticPosition's running sums are those of the epochs in its window, whatever
\* was trimmed, reset or re-anchored on the way.
SumsMatchHistory ==
    kind # "clock" =>
        /\ epochs.count = Len(epochs.history)
        /\ epochs.sum = FoldSeq(LAMBDA x, n : n + x.off, 0, epochs.history)

\* An honest receiver is never flagged: lost, repeated and late epochs, week
\* rollovers, restarts, cold starts with a wrong time, whole-millisecond clock
\* adjustments and declared relocations leave nothing to compare wrongly.
HonestNeverFlagged ==
    ~faulty => \A c \in DOMAIN verdict : verdict[c] \in {"assured", "unavailable"}

\* A solution is refused only when it lies at most an epoch gap behind the newest
\* one: a wrong time of week cannot make the checks refuse genuine epochs until
\* true time has caught up (accept's comment).
RefusedWithinGap == behind <= EpochGap

\* A survey candidate rests on a continuous run of good solutions that really
\* were no more than an epoch gap apart.
SurveyEarned ==
    epochs.survey.ready =>
        /\ epochs.survey.n >= SurveySamples
        /\ epochs.survey.elapsed >= SurveySpan /\ epochs.survey.hole <= EpochGap

\* The position and clock checks compare what is comparable: an honest
\* receiver is never flagged nor refused for long (positionChecks).
EpochsAreSound ==
    /\ EpochTypeOK
    /\ SumsMatchHistory
    /\ HonestNeverFlagged
    /\ RefusedWithinGap
    /\ SurveyEarned

=============================================================================

-------------------------- MODULE LearnedReferences --------------------------
(***************************************************************************)
(* The received-power model of one station                                 *)
(* (go/internal/reception/power_model.go) and its checkpoints: the decode  *)
(* loop trains it (stationcontrol ObservePower), a loop snapshots it under *)
(* the lock and stores the snapshot outside it, a restart reads it back.   *)
(* A cell collects the C/N0 samples of one sidereal pass and folds them    *)
(* into its history when the first sample of a later pass arrives.         *)
(*                                                                         *)
(* One phase bin; the satellites of PowerSvs share it.  Passes, unlike the *)
(* ring of bytes, are kept oldest first.  A blob is the model it encodes,  *)
(* with the antenna epoch standing for the fingerprint.                    *)
(***************************************************************************)
EXTENDS Integers, Sequences, TLC

CONSTANTS
  PowerSvs,       \* satellites
  Cn0s,           \* the C/N0 values heard
  PowerHistory,   \* PowerHistoryDays
  PowerSupport,   \* PowerMinSupport
  PowerDeviation, \* PowerMinDeviation
  PowerMad,       \* PowerMADMultiplier
  PassSamples,    \* samples a pass can count (2^16 - 1)
  MaxPass,        \* bound: sidereal passes
  MaxPowerEpoch,  \* bound: antenna epochs
  MaxPowerRuns    \* bound: starts of the collector

ASSUME PowerBounds ==
  /\ {PowerHistory, PowerSupport, PowerDeviation, PowerMad, PassSamples} \subseteq Nat \ {0}
  /\ PowerSupport <= PowerHistory
  /\ {MaxPass, MaxPowerEpoch, MaxPowerRuns} \subseteq Nat
  /\ Cn0s \subseteq Nat \ {0}

VARIABLES
  pass,        \* the sidereal cycle the sky is in
  power,       \* run or down, antenna epoch and starts of the collector
  model,       \* the station's cells, modelRevision and savedRevision
  checkpoint,  \* the snapshot being stored, if any
  blob         \* the row of reception_power_models, if any

powerVars == <<pass, power, model, checkpoint, blob>>

NoCell == [cycle |-> -1]
NoBlob == [epoch |-> 0]
NoSnapshot == [revision |-> -1]
ColdCells == [v \in PowerSvs |-> NoCell]
\* A cell's history is its values; taken is a ghost, the passes they are of.
NewCell(c) == [cycle |-> c, sum |-> 0, count |-> 0, history |-> <<>>, taken |-> <<>>]
Cold(r) == [cells |-> ColdCells, revision |-> r, saved |-> r]

PowerInit ==
  /\ pass = 0
  /\ power = [phase |-> "run", epoch |-> 1, starts |-> 1]
  /\ model = Cold(0)
  /\ checkpoint = NoSnapshot
  /\ blob = NoBlob
-----------------------------------------------------------------------------
Distance(a, b) == IF a > b THEN a - b ELSE b - a

Median(q) ==
  LET s == SortSeq(q, <)
      n == Len(s)
  IN  IF n % 2 # 0 THEN s[n \div 2 + 1] ELSE (s[n \div 2] + s[n \div 2 + 1] + 1) \div 2

Mature(c) == Len(c.history) >= PowerSupport
Deviation(c) == Median([i \in 1..Len(c.history) |-> Distance(c.history[i], Median(c.history))])
Threshold(c) == IF PowerMad * Deviation(c) < PowerDeviation THEN PowerDeviation ELSE PowerMad * Deviation(c)

Accept(c, cn0) == ~Mature(c) \/ Distance(cn0, Median(c.history)) < Threshold(c)

Tailed(q) == IF Len(q) > PowerHistory THEN Tail(q) ELSE q
Finalize(c) ==
  IF c.count = 0 THEN c
  ELSE [c EXCEPT !.history = Tailed(Append(@, (c.sum + c.count \div 2) \div c.count)),
                 !.taken = Tailed(Append(@, <<power.epoch, c.cycle>>))]

\* Mutant: any other pass closes the one in progress.
PassRefusedNever(c, cycle) == FALSE
PassRefused(c, cycle) == cycle < c.cycle
Opened(c, cycle) ==
  IF cycle = c.cycle THEN c ELSE [Finalize(c) EXCEPT !.cycle = cycle, !.sum = 0, !.count = 0]

\* ObservePower for one observation of satellite v, stamped in pass cycle.  A
\* sample that closes a pass and is refused changes the cell all the same.
ObservePower(v, cycle, cn0) ==
  LET c == IF model.cells[v] = NoCell THEN NewCell(cycle) ELSE Opened(model.cells[v], cycle)
      taken == Accept(c, cn0) /\ c.count < PassSamples
      d == IF taken THEN [c EXCEPT !.sum = @ + cn0, !.count = @ + 1] ELSE c
  IN  /\ power.phase = "run"
      /\ model.cells[v] # NoCell => ~PassRefused(model.cells[v], cycle)
      /\ model' = [model EXCEPT !.cells[v] = d, !.revision = IF taken THEN @ + 1 ELSE @]
      /\ UNCHANGED <<pass, power, checkpoint, blob>>

\* The sky moves on; a spool may still bring samples of the pass before.
NextPass ==
  /\ pass < MaxPass
  /\ pass' = pass + 1
  /\ UNCHANGED <<power, model, checkpoint, blob>>
-----------------------------------------------------------------------------
\* PowerModels(dirtyOnly), in the five minute loop and, once the decode loop
\* has drained, at shutdown: there it is a snapshot no observation follows.
TakeSnapshot ==
  /\ power.phase = "run" /\ checkpoint = NoSnapshot
  /\ model.revision # model.saved
  /\ checkpoint' = [revision |-> model.revision, cells |-> model.cells]
  /\ UNCHANGED <<pass, power, model, blob>>

Marked(r) == IF r > model.saved /\ r <= model.revision THEN r ELSE model.saved
Store == blob' = [epoch |-> power.epoch, cells |-> checkpoint.cells]
\* SaveReceptionPowerModel returned, then MarkPowerModelSaved.
SaveSucceeds ==
  /\ checkpoint # NoSnapshot
  /\ Store
  /\ model' = [model EXCEPT !.saved = Marked(checkpoint.revision)]
  /\ checkpoint' = NoSnapshot
  /\ UNCHANGED <<pass, power>>
\* It returned an error; the statement may have committed.
SaveFails ==
  /\ checkpoint # NoSnapshot
  /\ Store \/ UNCHANGED blob
  /\ checkpoint' = NoSnapshot
  /\ UNCHANGED <<pass, power, model>>

\* The process ends: killed at any point, or after the last checkpoint.
PowerStops ==
  /\ power.phase # "down"
  /\ power' = [power EXCEPT !.phase = "down"]
  /\ model' = Cold(0) /\ checkpoint' = NoSnapshot
  /\ UNCHANGED <<pass, blob>>

Applicable(e) == blob # NoBlob /\ blob.epoch = e
\* restoreReceptionPowerModels, under the configuration of this start.
PowerStarts(e) ==
  /\ power.phase = "down" /\ power.starts < MaxPowerRuns
  /\ power' = [phase |-> "run", epoch |-> e, starts |-> power.starts + 1]
  /\ model' = IF Applicable(e) THEN [Cold(1) EXCEPT !.cells = blob.cells] ELSE Cold(0)
  /\ UNCHANGED <<pass, checkpoint, blob>>

PowerNext ==
  \/ \E v \in PowerSvs, c \in (pass - 1)..pass, n \in Cn0s : c >= 0 /\ ObservePower(v, c, n)
  \/ NextPass
  \/ TakeSnapshot
  \/ SaveSucceeds
  \/ SaveFails
  \/ PowerStops
  \/ \E e \in power.epoch..MaxPowerEpoch : PowerStarts(e)

PowerSpec == PowerInit /\ [][PowerNext]_powerVars
-----------------------------------------------------------------------------
\* A reference rests on distinct passes of this antenna's epoch, in order:
\* repeated and replayed reports and restarts never count a pass twice.
SupportIsPasses ==
  \A v \in PowerSvs : model.cells[v] # NoCell =>
    LET t == model.cells[v].taken
    IN  /\ \A i \in 1..Len(t) : t[i][1] = power.epoch
        /\ \A i, j \in 1..Len(t) : i < j => t[i][2] < t[j][2]
        /\ Len(t) = Len(model.cells[v].history)

\* Only samples within the threshold of a mature reference reach it: the
\* value a pass adds is within the threshold of the reference it joins.
ReferenceIsGuarded ==
  [][\A v \in PowerSvs :
       LET c == model.cells[v]
           d == model'.cells[v]
       IN  c # NoCell /\ d # NoCell /\ power'.phase = "run" /\ power.phase = "run"
             => \/ d.history = c.history
                \/ ~Mature(c)
                \/ Distance(d.history[Len(d.history)], Median(c.history)) < Threshold(c)]_powerVars

\* What a restart makes of a cell: a pass still open is closed.
Settled(c) == IF c = NoCell THEN <<>> ELSE Finalize(c).history

\* A model the loop takes for saved is recovered by a restart: every accepted
\* sample is stored, and at most the closing of a pass is still to be redone.
CleanIsRecoverable ==
  power.phase # "down" /\ model.revision = model.saved /\ model.revision > 0 =>
    /\ blob # NoBlob /\ blob.epoch = power.epoch
    /\ \A v \in PowerSvs : Settled(blob.cells[v]) = Settled(model.cells[v])

\* The power reference counts every pass once, takes in nothing far from it,
\* and what was marked saved survives a restart (PowerModel).
PowerIsSound ==
    /\ [](SupportIsPasses /\ CleanIsRecoverable)
    /\ ReferenceIsGuarded

-----------------------------------------------------------------------------
(***************************************************************************)
(* The clear-sky AGC baseline of one band of one station                   *)
(* (go/internal/state/rf.go) and its checkpoints                           *)
(* (go/cmd/navlistener/agc_baseline.go).  Quiet samples are collected per  *)
(* minute, the baseline follows the median of the minutes of a window at a *)
(* bounded rate, a gain cut beyond the learn band is measured but never    *)
(* learned, and a band that stays above its baseline starts learning again.*)
(*                                                                         *)
(* Times are ages in ticks, AgcMinute ticks to the minute; ages stop       *)
(* growing where nothing tells them apart any more.  Levels are multiples  *)
(* of four, so that the two medians stay whole numbers.                    *)
(***************************************************************************)

CONSTANTS
  Clear, Ramp, Jam, \* the levels heard: clear sky, a departure within the learn band, one beyond it
  LearnBand,        \* agcLearnBand
  AgcMinute,        \* ticks in a minute
  MinSamples,       \* agcMinuteMinSamples
  MaxSamples,       \* agcMinuteMaxSamples
  Warmup,           \* agcWarmupMinutes
  AgcWindow,        \* agcBaselineWindow
  Drift,            \* agcDriftPerHour, per tick
  RelearnAfter,     \* agcRelearnAfter
  RestoreAge,       \* agcRestoreMaxAge
  AgeCap,           \* bound: ages saturate here
  MaxAgcRestarts    \* bound: restarts of the collector

ASSUME AgcBounds ==
  /\ {AgcMinute, MinSamples, MaxSamples, Warmup, AgcWindow, Drift, RelearnAfter} \subseteq Nat \ {0}
  /\ {Clear, Ramp, Jam, LearnBand, RestoreAge, MaxAgcRestarts} \subseteq Nat
  /\ Clear - Ramp \in 0..LearnBand /\ Ramp - Jam > LearnBand
  /\ AgeCap > RestoreAge /\ AgeCap > AgcWindow /\ AgeCap > RelearnAfter + 2 * Warmup * AgcMinute /\ Drift * AgeCap >= Clear

VARIABLES
  band,       \* the band's agcBaseline; NoBand before it reports
  queued,     \* agcRestore: the checkpoint to install when it does
  agcRow,     \* the row of agc_baselines
  antenna,    \* the station's antenna epoch and the collector's restarts
  clearFor    \* ghost: ticks of an unbroken run of clear samples

agcVars == <<band, queued, agcRow, antenna, clearFor>>

NoAge == -1
NoBase == -1
NoBand == [base |-> -2]
NoRow == [base |-> NoBase]
\* first and tainted are ghosts: the value established with its age, and
\* whether a jammed sample was learned before there was a baseline.
EmptyBand == [base |-> NoBase, at |-> NoAge, minutes |-> <<>>, start |-> NoAge, current |-> <<>>,
              above |-> NoAge, first |-> [base |-> NoBase, age |-> 0], tainted |-> FALSE]

AgcInit ==
  /\ band = NoBand /\ queued = NoRow /\ agcRow = NoRow
  /\ antenna = [epoch |-> 1, restarts |-> 0]
  /\ clearFor = 0
-----------------------------------------------------------------------------
Older(a) == IF a = NoAge THEN NoAge ELSE IF a = AgeCap THEN AgeCap ELSE a + 1
OlderMinutes(q) == [i \in 1..Len(q) |-> [q[i] EXCEPT !.age = Older(@)]]

MedianOf(q) ==
  LET s == SortSeq(q, <)
      n == Len(s)
  IN  IF n % 2 # 0 THEN s[n \div 2 + 1] ELSE (s[n \div 2] + s[n \div 2 + 1]) \div 2

Clamp(d, limit) == IF d > limit THEN limit ELSE IF d < -limit THEN -limit ELSE d

Move(b, target) == [b EXCEPT !.base = @ + Clamp(target - @, Drift * b.at), !.at = 0]
Update(b) ==
  LET target == MedianOf([i \in 1..Len(b.minutes) |-> b.minutes[i].median])
  IN  IF b.minutes = <<>> THEN b
      ELSE IF b.base # NoBase THEN Move(b, target)
      ELSE IF Len(b.minutes) >= Warmup
           THEN [b EXCEPT !.base = target, !.at = 0, !.first = [base |-> target, age |-> 0]]
      ELSE b

Within(q) == SelectSeq(q, LAMBDA m : m.age <= AgcWindow)
CloseMinute(b) ==
  LET kept == IF Len(b.current) >= MinSamples
              THEN Append(b.minutes, [age |-> b.start, median |-> MedianOf(b.current)]) ELSE b.minutes
  IN  Update([b EXCEPT !.minutes = Within(kept), !.current = <<>>, !.start = 0])

\* The sample joins the minute in progress.
Sampled(b, level) ==
  LET opened == IF b.start = NoAge THEN [b EXCEPT !.start = 0] ELSE b
      c == IF opened.start >= AgcMinute THEN CloseMinute(opened) ELSE opened
  IN  [c EXCEPT !.current = IF Len(@) < MaxSamples THEN Append(@, level) ELSE @,
                !.tainted = @ \/ (b.base = NoBase /\ level = Jam)]

\* Mutant: a gain cut is learned like any sample.
GainCutNever(b, level) == FALSE
GainCut(b, level) == b.base # NoBase /\ level - b.base < -LearnBand
Quieter(b, level) == b.base # NoBase /\ level - b.base > LearnBand
Relearns(b) == b.above >= RelearnAfter
Learn(b, level) ==
  IF GainCut(b, level) THEN [b EXCEPT !.above = NoAge]
  ELSE IF Quieter(b, level)
       THEN LET w == IF b.above = NoAge THEN [b EXCEPT !.above = 0] ELSE b
            IN  IF Relearns(w) THEN Sampled(EmptyBand, level) ELSE w
  ELSE Sampled([b EXCEPT !.above = NoAge], level)

AgedBand(b) ==
  IF b = NoBand THEN b
  ELSE [b EXCEPT !.at = Older(@), !.minutes = OlderMinutes(@), !.start = Older(@), !.above = Older(@),
                 !.first.age = Older(@)]
AgedQueue(r) ==
  IF r = NoRow THEN r ELSE [r EXCEPT !.at = Older(@), !.minutes = OlderMinutes(@), !.first.age = Older(@)]

\* A row too old to be restored is as good as none.
AgedRow(r) == IF r # NoRow /\ r.at >= RestoreAge THEN NoRow ELSE AgedQueue(r)

\* A band's first report installs the baseline queued for it.
Restored(r) ==
  [EmptyBand EXCEPT !.base = r.base, !.at = r.at, !.minutes = Within(r.minutes), !.first = r.first, !.tainted = r.tainted]
Reporting == IF band # NoBand THEN band ELSE IF queued # NoRow THEN Restored(queued) ELSE EmptyBand

\* applyRF of a sample, and the time to the next.
Sample(level) ==
  /\ band' = AgedBand(Learn(Reporting, level))
  /\ queued' = AgedQueue(IF band = NoBand THEN NoRow ELSE queued)
  /\ agcRow' = AgedRow(agcRow)
  /\ clearFor' = IF level # Clear THEN 0 ELSE IF clearFor = AgeCap THEN AgeCap ELSE clearFor + 1
  /\ UNCHANGED antenna
\* A tick without one: the station is silent or its frames are lost.
Silence ==
  /\ band' = AgedBand(band) /\ queued' = AgedQueue(queued) /\ agcRow' = AgedRow(agcRow)
  /\ clearFor' = 0
  /\ UNCHANGED antenna
-----------------------------------------------------------------------------
\* AGCBaselines: what an established baseline is stored as.
Exported(b) == [base |-> b.base, at |-> b.at, minutes |-> b.minutes, epoch |-> antenna.epoch,
                first |-> b.first, tainted |-> b.tainted]
\* saveAGCBaselines.  (A row that no further start can read is not kept.)
SaveBaseline ==
  /\ band # NoBand /\ band.base # NoBase /\ band.at <= RestoreAge
  /\ antenna.restarts < MaxAgcRestarts
  /\ agcRow' = Exported(band)
  /\ UNCHANGED <<band, queued, antenna, clearFor>>

Restorable(e) == agcRow # NoRow /\ agcRow.epoch = e /\ agcRow.at <= RestoreAge
\* The process ends, checkpointed or not, and starts under a configuration
\* that may name another antenna.
AgcRestart(e) ==
  /\ antenna.restarts < MaxAgcRestarts
  /\ antenna' = [epoch |-> e, restarts |-> antenna.restarts + 1]
  /\ band' = NoBand
  /\ queued' = IF Restorable(e) THEN agcRow ELSE NoRow
  /\ clearFor' = 0
  /\ agcRow' = IF antenna'.restarts < MaxAgcRestarts THEN agcRow ELSE NoRow

AgcNext ==
  \/ \E level \in {Clear, Ramp, Jam} : Sample(level)
  \/ Silence
  \/ SaveBaseline
  \/ \E e \in {antenna.epoch, antenna.epoch + 1} : AgcRestart(e)

AgcSpec == AgcInit /\ [][AgcNext]_agcVars
-----------------------------------------------------------------------------
HasBaseline(b) == b # NoBand /\ b.base # NoBase

\* A jammer's departure cannot poison the baseline it is measured against:
\* unless it was already there while the baseline was learned, the baseline
\* stays within the levels of an unjammed sky, restarts included.
JamIsNotLearned == HasBaseline(band) /\ ~band.tainted => band.base \in Ramp..Clear

\* Nor can one that stays within the learn band drag it along: since it was
\* established, the baseline moved by at most the drift for the time passed.
HeldToDrift ==
  HasBaseline(band) =>
    LET d == band.base - band.first.base IN (IF d < 0 THEN -d ELSE d) <= Drift * band.first.age

HealTime == RelearnAfter + 2 * Warmup * AgcMinute + 1

\* A baseline learned under a jammer is given up: after the warm-up that may
\* still establish it, RelearnAfter and a warm-up of unbroken clear samples,
\* the baseline is within the learn band of the clear sky.
PoisonHeals ==
  clearFor >= HealTime => HasBaseline(band) /\ Clear - band.base <= LearnBand

\* A baseline learned on one antenna is never restored to another.
RestoredOfThisAntenna == queued # NoRow => queued.epoch = antenna.epoch

\* The AGC baseline is not taught by a jammer, and heals when it was (learn).
BaselineIsSound ==
    /\ JamIsNotLearned
    /\ HeldToDrift
    /\ PoisonHeals
    /\ RestoredOfThisAntenna

\* Both learned references of a station, its signal power and its gain.
ReferencesAreSound == PowerIsSound /\ []BaselineIsSound

=============================================================================

--------------------------- MODULE HistorianFlush ---------------------------
(***************************************************************************)
(* The historian's writer, go/internal/store/store.go: the bounded queue,  *)
(* the batch loop of Run, one flush cycle with its retries and poison-row  *)
(* bisection (persistAtomicRetry, persistSub), the transaction that claims *)
(* replay keys and copies rows (persistAtomicOnce), the verdict on single  *)
(* rows, the health streaks and the shutdown drain.                        *)
(*                                                                         *)
(* The recursion of persistSub is a list of sub-batches still to be        *)
(* persisted, left to right.  A cut context ends every remaining call at   *)
(* once, so the frames of the whole list share one fate, as they do in the *)
(* code when the results of the halves are combined.                       *)
(***************************************************************************)
EXTENDS Integers, Sequences, FiniteSets, SequencesExt

CONSTANTS
    Frames,         \* frames handed to Enqueue, each once
    KeyOf,          \* KeyOf[f]: (source, session, seq), or NoKey in dial mode
    NoKey,
    TableOf,        \* TableOf[f]: "nav", "board" or "rf"
    Content,        \* Content[f]: "good", "poison", "check" or "nil"
    Schema,         \* Schema[t]: "ok", or "check"/"notnull": every row trips it
    QueueMax,       \* queue depth
    BatchSize,
    MaxAttempts,    \* retry.attempts
    MaxFaults,      \* bound: transient failures and expired budgets
    MaxUnknown      \* bound: commits whose answer is lost

Tables == {"nav", "board", "rf"}

ASSUME HistorianAssumption ==
    /\ \A f \in Frames : TableOf[f] \in Tables
    /\ \A f \in Frames : Content[f] \in {"good", "poison", "check", "nil"}
    /\ \A t \in Tables : Schema[t] \in {"ok", "check", "notnull"}
    /\ {QueueMax, BatchSize, MaxAttempts} \subseteq Nat \ {0}
    /\ {MaxFaults, MaxUnknown} \subseteq Nat

VARIABLES
    offered,    \* frames Enqueue has seen
    queue,
    batch,      \* Run's batch
    work,       \* sub-batches of the flush under way, left to right
    attempt,    \* attempt number on the first of them
    cycle,      \* persistCycle and the sums of the flush under way
    flushing,
    expired,    \* the deadline of the flush, or of the drain, has passed
    ended,    \* Run's context has ended
    phase,      \* "run", "drain" or "closed"
    ledger,     \* database: claimed keys
    rows,       \* database: rows copied per frame
    resolved,   \* frames reported to onDurable
    discarded,  \* frames quarantined or refused: never to be stored
    dropped,    \* frames given up, left to be replayed
    streak,     \* flushFailStreak, overflowStreak, quarantineStreak
    overflowed, \* cycleOverflow > 0
    failures,   \* history: consecutive cycles that resolved no frame at all
    faults,
    unknown

queueVars == <<offered, queue, overflowed>>
flushVars == <<batch, work, attempt, cycle, flushing>>
dbVars == <<ledger, rows>>
fateVars == <<resolved, discarded, dropped>>
healthVars == <<streak, failures>>
envVars == <<expired, ended, phase, faults, unknown>>

historianVars == <<queueVars, flushVars, dbVars, fateVars, healthVars, envVars>>

\* Degraded looks no further than two.
degradedCycles == 2

NewCycle == [committed |-> FALSE, deferred |-> {}, written |-> 0, dropped |-> 0,
             quarantined |-> 0, gaveUp |-> FALSE]

HistorianInit ==
    /\ offered = {} /\ queue = <<>> /\ overflowed = FALSE
    /\ batch = <<>> /\ work = <<>> /\ attempt = 1 /\ cycle = NewCycle
    /\ flushing = FALSE /\ expired = FALSE /\ ended = FALSE /\ phase = "run"
    /\ ledger = {} /\ rows = [f \in Frames |-> 0]
    /\ resolved = {} /\ discarded = {} /\ dropped = {}
    /\ streak = [flushFail |-> 0, overflow |-> 0, quarantine |-> 0]
    /\ failures = 0 /\ faults = 0 /\ unknown = 0

More(n) == IF n < degradedCycles THEN n + 1 ELSE n

-----------------------------------------------------------------------------
(* Queue and loop.                                                         *)

\* Enqueue: a frame without raw bytes is resolved on the spot; a full queue
\* drops the newest frame.
Enqueue(f) ==
    /\ f \notin offered
    /\ ~ended
    /\ offered' = offered \cup {f}
    /\ \/ /\ Content[f] = "nil"
          /\ resolved' = resolved \cup {f}
          /\ discarded' = discarded \cup {f}
          /\ UNCHANGED <<queue, dropped, overflowed>>
       \/ /\ Content[f] # "nil"
          /\ Len(queue) < QueueMax
          /\ queue' = Append(queue, f)
          /\ UNCHANGED <<fateVars, overflowed>>
       \/ /\ Content[f] # "nil"
          /\ Len(queue) >= QueueMax
          /\ dropped' = dropped \cup {f}
          /\ overflowed' = TRUE
          /\ UNCHANGED <<queue, resolved, discarded>>
    /\ UNCHANGED <<flushVars, dbVars, healthVars, envVars>>

\* flush begins, with the batch as its only sub-batch.
FlushOf(b) ==
    /\ flushing' = TRUE
    /\ work' = <<b>>
    /\ attempt' = 1
    /\ cycle' = NewCycle

\* The shutdown has begun and its drain has not: no flush starts.
Interrupted == phase = "run" /\ ended

\* Run and drain take one frame off the queue; a full batch is flushed.
Take ==
    /\ ~flushing
    /\ phase # "closed"
    /\ queue # <<>>
    /\ batch' = Append(batch, Head(queue))
    /\ queue' = Tail(queue)
    /\ IF Len(batch') >= BatchSize /\ ~Interrupted
       THEN FlushOf(batch')
       ELSE UNCHANGED <<flushing, work, attempt, cycle>>
    /\ UNCHANGED <<offered, overflowed, dbVars, fateVars, healthVars, envVars>>

\* Mutant: the drain flushes full chunks only.
FlushRestNever ==
    /\ ~flushing
    /\ batch # <<>>
    /\ phase = "run" /\ ~ended
    /\ FlushOf(batch)
    /\ UNCHANGED <<queueVars, batch, dbVars, fateVars, healthVars, envVars>>

\* The ticker flushes what there is; the drain, what an empty queue leaves.
FlushRest ==
    /\ ~flushing
    /\ batch # <<>>
    /\ \/ phase = "run" /\ ~ended
       \/ phase = "drain" /\ queue = <<>>
    /\ FlushOf(batch)
    /\ UNCHANGED <<queueVars, batch, dbVars, fateVars, healthVars, envVars>>

\* clearStreakIfIdleHealthy on an empty batch after a quiet window; the ping
\* decides about the failure streak.
IdleProbe ==
    /\ ~flushing /\ phase = "run" /\ ~ended
    /\ batch = <<>> /\ queue = <<>>
    /\ \E healthy \in BOOLEAN :
          /\ streak' = [flushFail |-> IF healthy THEN 0 ELSE streak.flushFail,
                        overflow |-> 0, quarantine |-> 0]
          /\ failures' = IF healthy THEN 0 ELSE failures
    /\ UNCHANGED <<queueVars, flushVars, dbVars, fateVars, envVars>>

-----------------------------------------------------------------------------
(* One attempt on the first sub-batch.                                     *)

\* The context of the flush has ended.
Cut == expired \/ Interrupted

\* Indices of a sub-batch whose row the transaction copies: unsequenced frames,
\* and the first of every key it newly claims.
Emitted(b) ==
    {i \in DOMAIN b :
        \/ KeyOf[b[i]] = NoKey
        \/ /\ KeyOf[b[i]] \notin ledger
           /\ \A j \in 1..(i - 1) : KeyOf[b[j]] # KeyOf[b[i]]}

\* classifyPersistError of the error one row's copy returns.
RowClass(f) ==
    CASE Content[f] = "poison" -> "poison"
      [] Content[f] # "poison" /\ Schema[TableOf[f]] = "notnull" -> "systemic"
      [] OTHER -> IF Content[f] = "check" \/ Schema[TableOf[f]] = "check"
                  THEN "isolated" ELSE "ok"

\* The rows of one table are copied together, tables one after the other; the
\* transaction fails with the first row that is refused.
CopyOrder(b) ==
    LET of(t) == SelectSeq([i \in DOMAIN b |-> IF i \in Emitted(b) /\ TableOf[b[i]] = t
                                               THEN <<b[i]>> ELSE <<>>],
                           LAMBDA x : x # <<>>)
    IN  FlattenSeq(of("nav") \o of("board") \o of("rf"))

Verdict(b) ==
    LET bad == SelectSeq(CopyOrder(b), LAMBDA f : RowClass(f) # "ok")
    IN  IF bad = <<>> THEN "ok" ELSE RowClass(Head(bad))

\* persistAtomicOnce commits: claims and rows together.
CommitOf(b) ==
    LET stored == {b[i] : i \in Emitted(b)}
    IN  /\ ledger' = ledger \cup ({KeyOf[f] : f \in stored} \ {NoKey})
        /\ rows' = [f \in Frames |-> IF f \in stored THEN rows[f] + 1 ELSE rows[f]]

\* The attempt succeeds: every frame of the sub-batch is durable, stored now or
\* by an earlier transaction.
SubCommit ==
    /\ flushing /\ work # <<>> /\ ~Cut
    /\ Verdict(Head(work)) = "ok"
    /\ CommitOf(Head(work))
    /\ resolved' = resolved \cup ToSet(Head(work))
    /\ cycle' = [cycle EXCEPT !.committed = TRUE,
                              !.written = @ + Cardinality(Emitted(Head(work)))]
    /\ streak' = [streak EXCEPT !.flushFail = 0]
    /\ work' = Tail(work)
    /\ attempt' = 1
    /\ UNCHANGED <<queueVars, batch, flushing, discarded, dropped, failures, envVars>>

\* A deterministic row error in a batch of several: bisect.
SubSplit ==
    /\ flushing /\ work # <<>> /\ ~Cut
    /\ LET b == Head(work)
           mid == Len(b) \div 2
       IN  /\ Verdict(b) \in {"poison", "isolated"}
           /\ Len(b) > 1
           /\ work' = <<SubSeq(b, 1, mid), SubSeq(b, mid + 1, Len(b))>> \o Tail(work)
    /\ attempt' = 1
    /\ UNCHANGED <<queueVars, batch, cycle, flushing, dbVars, fateVars, healthVars, envVars>>

\* A single row is quarantined, or its verdict waits for a commit of the cycle.
Isolated(f) == RowClass(f) = "poison" \/ cycle.committed

SubSingle ==
    /\ flushing /\ work # <<>> /\ ~Cut
    /\ Len(Head(work)) = 1
    /\ LET f == Head(work)[1]
       IN  /\ Verdict(<<f>>) \in {"poison", "isolated"}
           /\ IF Isolated(f)
              THEN /\ cycle' = [cycle EXCEPT !.dropped = @ + 1, !.quarantined = @ + 1]
                   /\ resolved' = resolved \cup {f}
                   /\ discarded' = discarded \cup {f}
              ELSE /\ cycle' = [cycle EXCEPT !.deferred = @ \cup {f}]
                   /\ UNCHANGED <<resolved, discarded>>
    /\ work' = Tail(work)
    /\ attempt' = 1
    /\ UNCHANGED <<queueVars, batch, flushing, dbVars, dropped, healthVars, envVars>>

\* The sub-batch is given up: unacknowledged, replayable, counted.
GiveUp ==
    /\ dropped' = dropped \cup ToSet(Head(work))
    /\ cycle' = [cycle EXCEPT !.dropped = @ + Len(Head(work)), !.gaveUp = TRUE]
    /\ work' = Tail(work)
    /\ attempt' = 1

\* A constraint that is not about any one row.
SubSystemic ==
    /\ flushing /\ work # <<>> /\ ~Cut
    /\ Verdict(Head(work)) = "systemic"
    /\ GiveUp
    /\ UNCHANGED <<queueVars, batch, flushing, dbVars, resolved, discarded, healthVars,
                   envVars>>

\* The retry loop after a transient failure.
Retry ==
    IF attempt >= MaxAttempts
    THEN GiveUp
    ELSE attempt' = attempt + 1 /\ UNCHANGED <<work, cycle, dropped>>

SubTransient ==
    /\ flushing /\ work # <<>> /\ ~Cut
    /\ faults < MaxFaults
    /\ faults' = faults + 1
    /\ Retry
    /\ UNCHANGED <<queueVars, batch, flushing, dbVars, resolved, discarded, healthVars,
                   expired, ended, phase, unknown>>

\* The server commits, the answer is lost: a transient failure to the writer.
SubUnknown ==
    /\ flushing /\ work # <<>> /\ ~Cut
    /\ unknown < MaxUnknown
    /\ unknown' = unknown + 1
    /\ Verdict(Head(work)) = "ok"
    /\ CommitOf(Head(work))
    /\ Retry
    /\ UNCHANGED <<queueVars, batch, flushing, resolved, discarded, healthVars, expired,
                   ended, phase, faults>>

Remaining == ToSet(FlattenSeq(work))

\* The whole batch may be retained: nothing of the cycle is final.
NothingResolved == cycle.written = 0 /\ cycle.dropped = 0

\* The wall budget ran out with nothing resolved.
BudgetSpent ==
    /\ dropped' = dropped \cup ToSet(batch)
    /\ cycle' = [cycle EXCEPT !.gaveUp = TRUE, !.deferred = {}]

\* The attempt fails because the context has ended.  With nothing resolved the
\* whole call is aborted: retained for the drain when the shutdown did it,
\* dropped when the budget ran out.  Otherwise the rest counts as dropped.
SubAbort ==
    /\ flushing /\ work # <<>> /\ Cut
    /\ work' = <<>>
    /\ attempt' = 1
    /\ IF NothingResolved
       THEN IF Interrupted
            THEN flushing' = FALSE /\ UNCHANGED <<dropped, cycle>>
            ELSE BudgetSpent /\ UNCHANGED flushing
       ELSE /\ dropped' = dropped \cup Remaining
            /\ cycle' = [cycle EXCEPT !.dropped = @ + Len(FlattenSeq(work))]
            /\ UNCHANGED flushing
    /\ UNCHANGED <<queueVars, batch, dbVars, resolved, discarded, healthVars, envVars>>

-----------------------------------------------------------------------------
\* quarantineDegradeDivisor: more than a tenth of the rows attempted.
Flood(n) == n > 0 /\ n * 10 > Len(batch)

\* The end of persistAtomicRetry and of flush: the verdict on the deferred rows,
\* one step of the failure streak, endCycle, and the batch is done with.
FlushEnd ==
    /\ flushing /\ work = <<>>
    /\ LET quarantine == IF cycle.committed THEN cycle.deferred ELSE {}
           giveUp == cycle.gaveUp \/ (~cycle.committed /\ cycle.deferred # {})
           n == cycle.quarantined + Cardinality(quarantine)
       IN  /\ resolved' = resolved \cup quarantine
           /\ discarded' = discarded \cup quarantine
           /\ dropped' = dropped \cup (cycle.deferred \ quarantine)
           /\ streak' = [flushFail |-> IF giveUp THEN More(streak.flushFail)
                                                 ELSE streak.flushFail,
                         overflow |-> IF overflowed THEN More(streak.overflow) ELSE 0,
                         quarantine |-> IF Flood(n) THEN More(streak.quarantine) ELSE 0]
           /\ failures' = IF ToSet(batch) \cap resolved' = {} THEN More(failures) ELSE 0
    /\ overflowed' = FALSE
    /\ flushing' = FALSE
    /\ batch' = <<>>
    /\ cycle' = NewCycle
    /\ expired' = (expired /\ phase = "drain")
    /\ UNCHANGED <<offered, queue, work, attempt, dbVars, ended, phase, faults, unknown>>

\* The wall budget of the flush, or the shared one of the drain, runs out.
Expire ==
    /\ flushing
    /\ ~expired
    /\ faults < MaxFaults
    /\ faults' = faults + 1
    /\ expired' = TRUE
    /\ UNCHANGED <<queueVars, flushVars, dbVars, fateVars, healthVars, ended, phase,
                   unknown>>

\* storeCancel, after the decode loop has ended.
EndContext ==
    /\ ~ended
    /\ ended' = TRUE
    /\ UNCHANGED <<queueVars, flushVars, dbVars, fateVars, healthVars, expired, phase,
                   faults, unknown>>

\* Mutant: the drain starts from an empty batch.
BeginDrainAfresh ==
    /\ ended /\ phase = "run" /\ ~flushing
    /\ phase' = "drain"
    /\ expired' = FALSE
    /\ batch' = <<>>
    /\ UNCHANGED <<queueVars, work, attempt, cycle, flushing, dbVars, fateVars, healthVars,
                   ended, faults, unknown>>

\* Run meets ctx.Done: one deadline for the whole drain.
BeginDrain ==
    /\ ended /\ phase = "run" /\ ~flushing
    /\ phase' = "drain"
    /\ expired' = FALSE
    /\ UNCHANGED <<queueVars, flushVars, dbVars, fateVars, healthVars, ended, faults,
                   unknown>>

\* "store drained and closed"
Close ==
    /\ phase = "drain" /\ ~flushing
    /\ queue = <<>> /\ batch = <<>>
    /\ phase' = "closed"
    /\ UNCHANGED <<queueVars, flushVars, dbVars, fateVars, healthVars, expired, ended,
                   faults, unknown>>

Writer ==
    \/ Take \/ FlushRest \/ BeginDrain \/ Close
    \/ SubCommit \/ SubSplit \/ SubSingle \/ SubSystemic \/ SubAbort \/ FlushEnd

HistorianNext ==
    \/ \E f \in Frames : Enqueue(f)
    \/ Writer \/ IdleProbe \/ SubTransient \/ SubUnknown \/ Expire \/ EndContext

HistorianSpec == HistorianInit /\ [][HistorianNext]_historianVars

\* The writer goroutine keeps running.
HistorianFairSpec == HistorianSpec /\ WF_historianVars(Writer)

-----------------------------------------------------------------------------
\* Every variable has its type; the queue keeps its capacity and no sub-batch
\* is tried more than the retry budget allows.
HistorianTypeOK ==
    /\ offered \subseteq Frames
    /\ queue \in Seq(Frames) /\ Len(queue) <= QueueMax
    /\ batch \in Seq(Frames)
    /\ work \in Seq(Seq(Frames) \ {<<>>})
    /\ attempt \in 1..MaxAttempts
    /\ cycle \in [committed : BOOLEAN, deferred : SUBSET Frames, written : Nat,
                  dropped : Nat, quarantined : Nat, gaveUp : BOOLEAN]
    /\ phase \in {"run", "drain", "closed"}
    /\ ledger \subseteq {KeyOf[f] : f \in Frames} \ {NoKey}
    /\ rows \in [Frames -> Nat]
    /\ UNION {resolved, discarded, dropped} \subseteq offered
    /\ streak \in [{"flushFail", "overflow", "quarantine"} -> 0..degradedCycles]

\* Frames in the writer's hands; a flush hands the batch to its sub-batches.
Waiting ==
    ToSet(queue) \cup cycle.deferred
        \cup (IF flushing THEN Remaining ELSE ToSet(batch))

\* No frame vanishes and none meets two fates: through bisection, deferral,
\* abort, retention, give-up and the shutdown drain, a frame that was offered is
\* waiting, or resolved, or left for replay, and a frame the writer has given up
\* is not also acknowledged, except a replay of a record already stored.
NoFrameVanishes ==
    /\ offered = Waiting \cup resolved \cup dropped
    /\ \A f \in dropped \cap resolved : KeyOf[f] \in ledger
    /\ (dropped \cup resolved) \cap ToSet(queue) = {}
    /\ phase = "closed" => Waiting = {}

\* "aborted => written==0 && dropped==0 lets flush() safely retain the whole
\* batch" (persistAtomicRetry): a retained or retried batch never stores a frame
\* twice, and no two frames with the same key are both stored.
StoredOnce ==
    /\ \A f \in Frames : rows[f] <= 1
    /\ \A f, g \in Frames : f # g /\ KeyOf[f] = KeyOf[g] /\ KeyOf[f] # NoKey
                               => rows[f] + rows[g] <= 1

\* A frame is reported durable only when its record is in the database or its
\* own content can never be stored.
ResolvedIsFinal ==
    \A f \in resolved :
        \/ rows[f] > 0
        \/ KeyOf[f] \in ledger
        \/ Content[f] \in {"poison", "check", "nil"}

\* Degraded: the streaks that have reached the threshold.
Degraded == {r \in DOMAIN streak : streak[r] >= degradedCycles}

\* "two consecutive ones do" (degradedCycles): after two completed cycles in a
\* row that left their whole batch for replay the historian is reported
\* degraded, whether they ended by retries, by the budget or by a constraint,
\* and whichever sub-batches of earlier cycles reset the streak; only an idle
\* probe that reaches the database clears it.
GiveUpsReported ==
    ~flushing /\ ~ended /\ failures >= degradedCycles => "flushFail" \in Degraded

\* The shutdown drain ends, whatever the database does.
StopCloses == ended ~> (phase = "closed")

\* Every frame taken is in exactly one place: queued, in the batch, stored once
\* or accounted for as lost, for good, and the counters keep their bounds
\* (Store.Run, flush).
OneFate == HistorianTypeOK /\ NoFrameVanishes /\ StoredOnce /\ ResolvedIsFinal

\* The drain of a stopping historian ends, stores nothing twice, forgets no
\* verdict and reports what it gave up (Store.Run, flush).
StopsCleanly == [](StoredOnce /\ ResolvedIsFinal /\ GiveUpsReported) /\ StopCloses

=============================================================================

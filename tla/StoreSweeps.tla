----------------------------- MODULE StoreSweeps -----------------------------
(***************************************************************************)
(* The two background sweeps of the historian's database                   *)
(* (go/internal/store, go/cmd/navlistener/evidence.go).                    *)
(*                                                                         *)
(* First, the capture of the stored inputs behind a station event and the  *)
(* paged read of what was captured.  Sample t is received at time t and    *)
(* committed by the historian at some time after; raw retention drops it   *)
(* later.  A sweep asks for the events that are due and captures them one  *)
(* transaction at a time, until a call writes less than a batch, its time  *)
(* is up or a transaction fails; the event writer, the historian,          *)
(* retention and a crash act in between.                                   *)
(*                                                                         *)
(* Second, the replay ledger.  A flush resolves a boot session to its key, *)
(* from the cache of the process or from nav_frames_sessions, and claims   *)
(* each sequence number under that key in the transaction that stores the  *)
(* rows.  The hourly sweep runs on a goroutine of its own: it deletes the  *)
(* claims older than the retention in chunks, then the sessions with no    *)
(* claim left, then their cached keys, with the writer at work between any *)
(* two of these.  One session is modelled; sessions share nothing but the  *)
(* sweep.  A row is forgotten once it is older than the retention, which   *)
(* is when a replay of it may be stored again.                             *)
(***************************************************************************)
EXTENDS Integers, FiniteSets, FiniteSetsExt

CONSTANTS
  EventTimes,    \* when the station events happen
  PreRoll, PostRoll, Horizon, CaptureBatch, KeepSamples,  \* EvidencePolicy
  KeepRaw,       \* raw retention
  EvidencePage,     \* EvidenceQuery.Limit
  LastInstant    \* bound: the last time

ASSUME EvidencePolicyValid ==
  /\ {PreRoll, CaptureBatch, KeepSamples, KeepRaw, EvidencePage, LastInstant} \subseteq Nat \ {0}
  /\ PostRoll \in Nat /\ Horizon \in Nat /\ Horizon > PostRoll
  \* evidencePolicy keeps the whole window of the oldest event in retention.
  /\ Horizon + PreRoll <= KeepRaw
  /\ EventTimes \subseteq 0..LastInstant

VARIABLES
  instant,
  audienceOf,   \* the audience each event is stored for
  eventRows,    \* gnss_events: the events stored
  rawRows,      \* the samples committed and not dropped
  everRaw,      \* the samples committed at any time
  evidence,     \* event_evidence: the bundle of each event, or NoBundle
  capture,      \* the sweep: its time, the events asked for, the bundles written
  reader        \* a client paging through one bundle

evidenceVars == <<instant, audienceOf, eventRows, rawRows, everRaw, evidence, capture, reader>>

Samples == 0..LastInstant
\* Every other sample belongs to the organization of the private audience.
MayHold(audience) ==
  CASE audience = "public" -> {}
    [] audience = "organization" -> {t \in Samples : t % 2 = 0}
    [] audience = "operator" -> Samples
NoBundle == [held |-> FALSE]
NoCapture == [on |-> FALSE]
NoReader == [on |-> FALSE]

EvidenceInit ==
  /\ instant = 0
  /\ audienceOf \in [EventTimes -> {"public", "organization", "operator"}]
  /\ eventRows = {} /\ rawRows = {} /\ everRaw = {}
  /\ evidence = [e \in EventTimes |-> NoBundle]
  /\ capture = NoCapture /\ reader = NoReader
-----------------------------------------------------------------------------
\* Time passes; a sweep lasts less than a tick.
InstantPasses ==
  /\ instant < LastInstant
  /\ capture = NoCapture
  /\ instant' = instant + 1
  /\ UNCHANGED <<audienceOf, eventRows, rawRows, everRaw, evidence, capture, reader>>
\* The event writer and the historian commit what has been received, in any
\* order; retention drops what is older than it.
EventStored ==
  /\ \E e \in EventTimes : e <= instant /\ eventRows' = eventRows \cup {e}
  /\ eventRows' # eventRows
  /\ UNCHANGED <<instant, audienceOf, rawRows, everRaw, evidence, capture, reader>>
SampleStored ==
  \E t \in Samples \ everRaw :
    /\ t <= instant
    /\ rawRows' = rawRows \cup {t} /\ everRaw' = everRaw \cup {t}
    /\ UNCHANGED <<instant, audienceOf, eventRows, evidence, capture, reader>>
SampleDropped ==
  \E t \in rawRows :
    /\ t < instant - KeepRaw
    /\ rawRows' = rawRows \ {t}
    /\ UNCHANGED <<instant, audienceOf, eventRows, everRaw, evidence, capture, reader>>
-----------------------------------------------------------------------------
\* The events due: old enough for the post-roll, young enough for their
\* inputs to be there, and without a bundle; the oldest of them, a batch.
\* Mutant: the horizon is not applied.
DueNoHorizon(e) == e \in eventRows /\ e <= instant - PostRoll /\ evidence[e] = NoBundle
Due(e) ==
  /\ e \in eventRows /\ evidence[e] = NoBundle
  /\ e >= instant - Horizon /\ e <= instant - PostRoll
DueEvents == {e \in EventTimes : Due(e)}
FirstDue == {e \in DueEvents : Cardinality({d \in DueEvents : d < e}) < CaptureBatch}
Asked == [on |-> TRUE, due |-> FirstDue, all |-> DueEvents, written |-> 0, done |-> FALSE]
StartSweep ==
  /\ capture = NoCapture
  /\ capture' = Asked
  /\ UNCHANGED <<instant, audienceOf, eventRows, rawRows, everRaw, evidence, reader>>

\* captureOne: one statement copies the newest samples of the window that the
\* audience may see, and says whether there were more.
Window(e) == {t \in Samples : t >= e - PreRoll /\ t <= e + PostRoll}
Candidates(e) == rawRows \cap Window(e) \cap MayHold(audienceOf[e])
Newest(S) == {t \in S : Cardinality({u \in S : u > t}) < KeepSamples}
BundleOf(e) ==
  [held |-> TRUE, kept |-> Newest(Candidates(e)),
   truncated |-> Cardinality(Candidates(e)) > KeepSamples,
   \* what the historian had not committed yet
   late |-> Window(e) \ everRaw]
CaptureOne ==
  /\ capture.on /\ capture.due # {}
  /\ LET e == Min(capture.due)
     IN  /\ evidence' = [evidence EXCEPT ![e] = BundleOf(e)]
         /\ capture' = [capture EXCEPT !.due = @ \ {e}, !.written = @ + 1]
  /\ UNCHANGED <<instant, audienceOf, eventRows, rawRows, everRaw, reader>>
\* A failed transaction, an expired sweep or a crash ends it; what is
\* committed stays, the rest waits for the next sweep.
SweepAbandoned ==
  /\ capture.on
  /\ capture' = NoCapture
  /\ UNCHANGED <<instant, audienceOf, eventRows, rawRows, everRaw, evidence, reader>>
FullBatch == capture.written >= CaptureBatch
NextBatch ==
  /\ capture.on /\ capture.due = {} /\ ~capture.done
  /\ capture' = IF FullBatch THEN Asked ELSE [capture EXCEPT !.done = TRUE]
  /\ UNCHANGED <<instant, audienceOf, eventRows, rawRows, everRaw, evidence, reader>>
-----------------------------------------------------------------------------
\* QueryEventEvidence: the bundle, then a page of its samples in receipt
\* order; one more than the limit tells whether there is another page.
OpenEvidence ==
  /\ reader = NoReader
  /\ \E e \in EventTimes :
       /\ evidence[e].held /\ audienceOf[e] # "public"
       /\ reader' = [on |-> TRUE, event |-> e, got |-> {}, more |-> TRUE]
  /\ UNCHANGED <<instant, audienceOf, eventRows, rawRows, everRaw, evidence, capture>>
PageAt(S, offset, limit) ==
  {t \in S : Cardinality({u \in S : u < t}) \in offset..(offset + limit - 1)}
HasMore(S, offset) == PageAt(S, offset + EvidencePage, 1) # {}
ReadPage ==
  /\ reader.on /\ reader.more
  /\ LET S == evidence[reader.event].kept
         offset == Cardinality(reader.got)
     IN  reader' = [reader EXCEPT !.got = @ \cup PageAt(S, offset, EvidencePage), !.more = HasMore(S, offset)]
  /\ UNCHANGED <<instant, audienceOf, eventRows, rawRows, everRaw, evidence, capture>>
CloseEvidence ==
  /\ reader.on
  /\ reader' = NoReader
  /\ UNCHANGED <<instant, audienceOf, eventRows, rawRows, everRaw, evidence, capture>>

EvidenceNext ==
  \/ InstantPasses \/ EventStored \/ SampleStored \/ SampleDropped
  \/ StartSweep \/ CaptureOne \/ SweepAbandoned \/ NextBatch
  \/ OpenEvidence \/ ReadPage \/ CloseEvidence

EvidenceSpec == EvidenceInit /\ [][EvidenceNext]_evidenceVars
-----------------------------------------------------------------------------
\* A bundle lacks a sample of its window that its audience may see only if
\* the historian had not committed it at the capture, or the bundle is marked
\* truncated and the sample is older than all it keeps: retention never gets
\* there before the capture.
MissingIsExplained ==
  \A e \in EventTimes : evidence[e].held =>
    \A t \in (Window(e) \cap MayHold(audienceOf[e])) \ (evidence[e].kept \cup evidence[e].late) :
      evidence[e].truncated /\ \A u \in evidence[e].kept : u > t

\* Nothing the audience may not see is copied into its evidence, which
\* outlives the rows it was copied from.
EvidenceStaysInScope ==
  \A e \in EventTimes : evidence[e].held => evidence[e].kept \subseteq MayHold(audienceOf[e]) \cap Window(e)

\* A sweep that ends of itself leaves no event that was due at its last
\* question, however many there were: a batch bounds a call, not the sweep.
SweepDrains ==
  capture.on /\ capture.done => \A e \in capture.all : evidence[e].held

\* A client that follows the pages to the last has the whole bundle, with
\* captures going on meanwhile.
PagesAreComplete ==
  reader.on /\ ~reader.more => reader.got = evidence[reader.event].kept

\* The evidence of an event is what its audience could see of its window, or
\* says what it lacks, and reaches the reader whole (CaptureEventEvidence).
EvidenceIsComplete ==
    /\ MissingIsExplained
    /\ EvidenceStaysInScope
    /\ SweepDrains
    /\ PagesAreComplete
-----------------------------------------------------------------------------

CONSTANTS
  Seqs,            \* sequence numbers of the session
  RowRetention,    \* raw_retention, in ticks
  MaxSessionKeys   \* bound: session rows ever created

ASSUME LedgerBounds == {RowRetention, MaxSessionKeys} \subseteq Nat \ {0}

VARIABLES
  sessionRow,   \* nav_frames_sessions: the key and its age, or NoRow
  keysUsed,     \* identity values handed out
  claims,       \* nav_frames_seq_seen: claims[k][s] is an age, or Gone
  storedRows,   \* the stored rows: age by the key they were claimed under
  orphans,      \* rows stored under a key whose session row was already gone
  keyCache,     \* sessionKeys: the cached key, or 0
  flush,        \* the writer's transaction
  sweep         \* pruneSeqSeen

ledgerVars == <<sessionRow, keysUsed, claims, storedRows, orphans, keyCache, flush, sweep>>

SessionKeys == 1..MaxSessionKeys
\* Older than the retention even at the cutoff of a sweep begun a tick ago.
OldestClaim == RowRetention + 2
Gone == OldestClaim + 1
NoRow == [key |-> 0, age |-> 0]
NoFlush == [key |-> 0, created |-> FALSE, seqs |-> {}]
NoSweep == [at |-> "idle", lag |-> 0, retired |-> 0]
AllGone == [k \in SessionKeys |-> [s \in Seqs |-> Gone]]

LedgerInit ==
  /\ sessionRow = NoRow /\ keysUsed = 0
  /\ claims = AllGone /\ storedRows = AllGone /\ orphans = {}
  /\ keyCache = 0 /\ flush = NoFlush /\ sweep = NoSweep
-----------------------------------------------------------------------------
\* resolveSessionKeys: the cached key, the session's row, or a row created in
\* the transaction, which nobody else sees before the commit.
ResolveSessionKeys ==
  /\ flush = NoFlush
  /\ \E batch \in SUBSET Seqs \ {{}} :
       flush' = IF keyCache # 0 THEN [key |-> keyCache, created |-> FALSE, seqs |-> batch]
                ELSE IF sessionRow # NoRow THEN [key |-> sessionRow.key, created |-> FALSE, seqs |-> batch]
                ELSE [key |-> keysUsed + 1, created |-> TRUE, seqs |-> batch]
  /\ flush'.created => keysUsed < MaxSessionKeys
  /\ UNCHANGED <<sessionRow, keysUsed, claims, storedRows, orphans, keyCache, sweep>>

\* claimSeqKeys: the claims that are not in the ledger under this key.
FreshSeqs == {s \in flush.seqs : claims[flush.key][s] = Gone}
Renewed(f) == [f EXCEPT ![flush.key] = [s \in Seqs |-> IF s \in FreshSeqs THEN 0 ELSE @[s]]]
\* persistAtomicOnce commits claims and rows; rememberSessionKeys follows.
CommitClaims ==
  /\ flush # NoFlush
  /\ claims' = Renewed(claims) /\ storedRows' = Renewed(storedRows)
  /\ sessionRow' = IF flush.created THEN [key |-> flush.key, age |-> 0] ELSE sessionRow
  /\ keysUsed' = IF flush.created THEN flush.key ELSE keysUsed
  /\ orphans' = IF flush.created \/ flush.key = sessionRow.key THEN orphans
                ELSE orphans \cup ({flush.key} \X FreshSeqs)
  /\ keyCache' = flush.key
  /\ flush' = NoFlush
  /\ UNCHANGED sweep
\* A failed transaction takes the session row it created with it.
RollBackClaims ==
  /\ flush # NoFlush
  /\ flush' = NoFlush
  /\ UNCHANGED <<sessionRow, keysUsed, claims, storedRows, orphans, keyCache, sweep>>
-----------------------------------------------------------------------------
\* startPrune: one sweep at a time; the cutoff is fixed here.
StartPrune ==
  /\ sweep = NoSweep
  /\ sweep' = [NoSweep EXCEPT !.at = "chunks"]
  /\ UNCHANGED <<sessionRow, keysUsed, claims, storedRows, orphans, keyCache, flush>>
\* seen_at < cutoff.
\* Mutant: the cutoff moves a tick into the retention.
PastCutoffEarly(age) == age # Gone /\ age - sweep.lag >= RowRetention
PastCutoff(age) == age # Gone /\ age - sweep.lag > RowRetention
ExpiredClaims == {c \in SessionKeys \X Seqs : PastCutoff(claims[c[1]][c[2]])}
\* One chunk: any of the expired claims.
PruneChunk ==
  /\ sweep.at = "chunks"
  /\ \E c \in ExpiredClaims : claims' = [claims EXCEPT ![c[1]][c[2]] = Gone]
  /\ UNCHANGED <<sessionRow, keysUsed, storedRows, orphans, keyCache, flush, sweep>>
\* Nothing left, or the budget is spent: the sessions are next all the same.
ChunksEnd ==
  /\ sweep.at = "chunks"
  /\ sweep' = [sweep EXCEPT !.at = "sessions"]
  /\ UNCHANGED <<sessionRow, keysUsed, claims, storedRows, orphans, keyCache, flush>>
Retirable ==
  /\ sessionRow # NoRow /\ PastCutoff(sessionRow.age)
  /\ \A s \in Seqs : claims[sessionRow.key][s] = Gone
RetireSessions ==
  /\ sweep.at = "sessions"
  /\ IF Retirable
     THEN /\ sweep' = [sweep EXCEPT !.at = "evict", !.retired = sessionRow.key]
          /\ sessionRow' = NoRow
     ELSE sweep' = NoSweep /\ UNCHANGED sessionRow
  /\ UNCHANGED <<keysUsed, claims, storedRows, orphans, keyCache, flush>>
\* The cached keys of the sessions deleted.
EvictKeys ==
  /\ sweep.at = "evict"
  /\ keyCache' = 0
  /\ sweep' = NoSweep
  /\ UNCHANGED <<sessionRow, keysUsed, claims, storedRows, orphans, flush>>
\* A failed statement ends the sweep; what it deleted stays deleted.
PruneFails ==
  /\ sweep.at \in {"chunks", "sessions"}
  /\ sweep' = NoSweep
  /\ UNCHANGED <<sessionRow, keysUsed, claims, storedRows, orphans, keyCache, flush>>
-----------------------------------------------------------------------------
\* A new process: the database stays.
LedgerRestart ==
  /\ keyCache' = 0 /\ flush' = NoFlush /\ sweep' = NoSweep
  /\ UNCHANGED <<sessionRow, keysUsed, claims, storedRows, orphans>>
\* Time passes.  A flush is far shorter than a tick, so it falls on one side
\* of it; a sweep's budget is shorter than one, so it meets at most one.
Older1(age, last) == IF age >= last THEN last ELSE age + 1
LedgerTick ==
  /\ flush = NoFlush
  /\ sweep = NoSweep \/ sweep.lag = 0
  /\ sweep' = IF sweep = NoSweep THEN sweep ELSE [sweep EXCEPT !.lag = 1]
  /\ claims' = [k \in SessionKeys |-> [s \in Seqs |->
       IF claims[k][s] = Gone THEN Gone ELSE Older1(claims[k][s], OldestClaim)]]
  /\ storedRows' = [k \in SessionKeys |-> [s \in Seqs |->
       IF storedRows[k][s] >= RowRetention THEN Gone ELSE storedRows[k][s] + 1]]
  /\ orphans' = {o \in orphans : storedRows'[o[1]][o[2]] # Gone}
  /\ sessionRow' = IF sessionRow = NoRow THEN NoRow
                   ELSE [sessionRow EXCEPT !.age = Older1(@, OldestClaim)]
  /\ UNCHANGED <<keysUsed, keyCache, flush>>

LedgerNext ==
  \/ ResolveSessionKeys \/ CommitClaims \/ RollBackClaims
  \/ StartPrune \/ PruneChunk \/ ChunksEnd \/ RetireSessions \/ EvictKeys \/ PruneFails
  \/ LedgerRestart \/ LedgerTick

LedgerSpec == LedgerInit /\ [][LedgerNext]_ledgerVars
-----------------------------------------------------------------------------
Stored(k, s) == storedRows[k][s] # Gone

\* The sweep never forgets a claim before its row has left the retention: a
\* replay of a row still kept finds its claim, whatever chunk was deleted
\* when and however long the sweep has been running.
ClaimOutlivesRow ==
  \A k \in SessionKeys, s \in Seqs : Stored(k, s) => claims[k][s] # Gone

\* A row is stored twice within the retention only if the earlier copy was
\* committed under a key whose session the sweep had retired between the
\* resolution and the commit.
TwiceOnlyByRetirement ==
  \A s \in Seqs, k1, k2 \in SessionKeys :
    k1 < k2 /\ Stored(k1, s) /\ Stored(k2, s) => <<k1, s>> \in orphans

\* A replay of a row still kept finds its claim, but for the race with the
\* retirement of its session (pruneSeqSeen, claimSeqKeys).
ReplayIsRecognised ==
    /\ ClaimOutlivesRow
    /\ TwiceOnlyByRetirement

=============================================================================

--------------------------- MODULE DurableTracker ---------------------------
(***************************************************************************)
(* The collector's receipt tracker, go/internal/ingest/durable.go.         *)
(*                                                                         *)
(* For every (observer, session) the tracker remembers the highest GNF1    *)
(* sequence received and the set of received sequences whose durable fate  *)
(* is still open.  Watermark, one below the oldest open sequence, is what  *)
(* the push server may acknowledge: an acknowledged record is deleted from *)
(* the feeder's spool, so a watermark that runs ahead of the historian     *)
(* destroys the only other copy of the evidence.  Every budget is finite   *)
(* and a sweep forgets silent sessions, so the question is whether the     *)
(* forgetting can ever raise a watermark over an open record.              *)
(*                                                                         *)
(* Each exported method runs under one mutex, so each is one action.       *)
(* Wall-clock times appear only through their distance to now: idle[k] is  *)
(* now - touched, pruneIn is how long nextPrune lies ahead.                *)
(***************************************************************************)
EXTENDS Integers, FiniteSets, FiniteSetsExt

CONSTANTS
    Sources,            \* observer identities
    Keys,               \* the <<observer, session>> pairs that feeders present
    MaxSessions,        \* maxDurableSessions
    MaxOutstanding,     \* maxDurableOutstanding
    MaxPerSession,      \* maxDurablePerSession
    MaxPerSource,       \* maxDurableSessionsPerSource
    ResolvedIdle,       \* durableResolvedIdle, in clock ticks
    HoleAbandonAfter,   \* durableHoleAbandonAfter, in clock ticks
    PruneEvery          \* the minute between two sweeps, in clock ticks

\* Caps are positive, and a resolved session ages out before an open one.
ASSUME BudgetAssumption ==
    /\ MaxSessions \in Nat \ {0}
    /\ MaxOutstanding \in Nat \ {0}
    /\ MaxPerSession \in Nat \ {0}
    /\ MaxPerSource \in Nat \ {0}
    /\ ResolvedIdle \in Nat
    /\ HoleAbandonAfter \in Nat
    /\ ResolvedIdle <= HoleAbandonAfter
    /\ PruneEvery \in Nat \ {0}

\* durableKey: an observer and the random identity of one feeder process
ASSUME KeyAssumption == \A k \in Keys : k[1] \in Sources

VARIABLES
    sessions,      \* the keys of t.m
    highest,       \* highest[k]: highest sequence received, 0 when k is unknown
    holes,         \* all <<k, seq>> of the per-session pending heaps
    idle,          \* idle[k]: time since the session was touched
    outstanding,   \* the global count the budget compares with its cap
    perSource,     \* live sessions per observer
    pruneIn        \* time until a sweep is allowed again

trackerVars ==
    <<sessions, highest, holes, idle, outstanding, perSource, pruneIn>>

\* sessionDurable.pending of k
Pending(k) == {h[2] : h \in {x \in holes : x[1] = k}}

\* The holes of a set of sessions.
HolesOf(ks) == {h \in holes : h[1] \in ks}

SessionsOf(s, ks) == {k \in ks : k[1] = s}

\* Mutant: the newest open sequence instead of the oldest.
WatermarkFromNewest(k) ==
    IF k \notin sessions THEN 0
    ELSE IF Pending(k) = {} THEN highest[k]
    ELSE Max(Pending(k)) - 1

\* DurableTracker.Watermark
Watermark(k) ==
    IF k \notin sessions THEN 0
    ELSE IF Pending(k) = {} THEN highest[k]
    ELSE Min(Pending(k)) - 1

\* An age beyond the longest threshold is not told apart from any older one.
MaxIdle == HoleAbandonAfter + 1

TrackerInit ==
    /\ sessions = {}
    /\ highest = [k \in Keys |-> 0]
    /\ holes = {}
    /\ idle = [k \in Keys |-> 0]
    /\ outstanding = 0
    /\ perSource = [s \in Sources |-> 0]
    /\ pruneIn = 0

-----------------------------------------------------------------------------
\* What pruneLocked would forget now.
Reclaimable ==
    {k \in sessions : idle[k] > IF Pending(k) = {} THEN ResolvedIdle
                                                   ELSE HoleAbandonAfter}

\* The rate-limited sweep taken under budget pressure.
Swept(pressure) == IF pressure /\ pruneIn = 0 THEN Reclaimable ELSE {}

PruneStamp(pressure) == IF pressure /\ pruneIn = 0 THEN PruneEvery ELSE pruneIn

\* evictResolvedLocked: the least recently touched fully resolved session of s
\* among ks; map iteration order decides between equals.
Evictable(s, ks) ==
    {k \in SessionsOf(s, ks) :
        /\ Pending(k) = {}
        /\ \A j \in SessionsOf(s, ks) : Pending(j) = {} => idle[j] <= idle[k]}

\* forgetLocked for every session of gone, then one session added or not.
Retable(gone, added) ==
    /\ sessions' = (sessions \ gone) \cup added
    /\ perSource' = [s \in Sources |->
                        perSource[s] - Cardinality(SessionsOf(s, gone))
                                     + Cardinality(SessionsOf(s, added))]

\* A record is taken in: the session is touched and its highest raised.  What
\* was in forgotten sessions is deleted with them.
Track(k, n, gone) ==
    /\ highest' = [j \in Keys |->
          IF j = k THEN IF j \in sessions \ gone /\ highest[j] >= n
                        THEN highest[j] ELSE n
          ELSE IF j \in gone THEN 0 ELSE highest[j]]
    /\ idle' = [j \in Keys |-> IF j = k \/ j \in gone THEN 0 ELSE idle[j]]

-----------------------------------------------------------------------------
\* Received on a session that is in the table, returning true.
ReceivedKnown(k, n, persistable) ==
    /\ k \in sessions
    /\ IF persistable /\ <<k, n>> \notin holes
       THEN LET full == outstanding >= MaxOutstanding
                gone == Swept(full)
                left == outstanding - Cardinality(HolesOf(gone))
            IN  /\ Cardinality(Pending(k)) < MaxPerSession
                /\ left < MaxOutstanding
                /\ outstanding' = left + 1
                /\ pruneIn' = PruneStamp(full)
                /\ Retable(gone, {})
                \* The sweep can take k itself: the record then goes into a
                \* session object that is no longer in the table.
                /\ IF k \in gone
                   THEN /\ holes' = holes \ HolesOf(gone)
                        /\ highest' = [j \in Keys |->
                                         IF j \in gone THEN 0 ELSE highest[j]]
                        /\ idle' = [j \in Keys |->
                                      IF j \in gone THEN 0 ELSE idle[j]]
                   ELSE /\ holes' = (holes \ HolesOf(gone)) \cup {<<k, n>>}
                        /\ Track(k, n, gone)
       ELSE /\ Track(k, n, {})
            /\ UNCHANGED <<sessions, holes, outstanding, perSource, pruneIn>>

\* atCapacity in Received
AtCapacity(k, persistable) ==
    \/ Cardinality(sessions) >= MaxSessions
    \/ perSource[k[1]] >= MaxPerSource
    \/ persistable /\ outstanding >= MaxOutstanding

\* Mutant: the observer's cap is not looked at.
RoomInTable(k, swept, evicted) ==
    /\ Cardinality(sessions \ swept) < MaxSessions
    /\ evicted = {}

\* The session table after the sweep and, at the observer's cap, one eviction.
\* evicted is the singleton of the victim, or empty below the cap.
RoomFor(k, swept, evicted) ==
    LET kept == sessions \ swept
    IN  /\ Cardinality(kept) < MaxSessions
        /\ IF perSource[k[1]] - Cardinality(SessionsOf(k[1], swept)) >= MaxPerSource
           THEN \E v \in Evictable(k[1], kept) : evicted = {v}
           ELSE evicted = {}

\* Received that creates its session, returning true.
ReceivedNew(k, n, persistable) ==
    /\ k \notin sessions
    /\ LET pressure == AtCapacity(k, persistable)
           swept == Swept(pressure)
           left == outstanding - Cardinality(HolesOf(swept))
       IN  \E evicted \in SUBSET (sessions \ swept) :
             /\ RoomFor(k, swept, evicted)
             /\ persistable => left < MaxOutstanding
             /\ outstanding' = IF persistable THEN left + 1 ELSE left
             /\ holes' = (holes \ HolesOf(swept))
                            \cup (IF persistable THEN {<<k, n>>} ELSE {})
             /\ pruneIn' = PruneStamp(pressure)
             /\ Retable(swept \cup evicted, {k})
             /\ Track(k, n, swept \cup evicted)

\* Received returning true.  Sequence 0 is outside the assigned space and is
\* ignored without being tracked.
Received(k, n, persistable) ==
    \/ n = 0 /\ UNCHANGED trackerVars
    \/ n > 0 /\ ReceivedKnown(k, n, persistable)
    \/ n > 0 /\ ReceivedNew(k, n, persistable)

\* Mutant: an abandoned session loses its holes and keeps its place.
RefusedKeeping(gone, pressure) ==
    /\ holes' = holes \ HolesOf(gone)
    /\ outstanding' = outstanding - Cardinality(HolesOf(gone))
    /\ pruneIn' = PruneStamp(pressure)
    /\ UNCHANGED <<sessions, highest, idle, perSource>>

\* Mutant: the holes of a swept session stay on the global count.
RefusedUnsettled(gone, pressure) ==
    /\ Retable(gone, {})
    /\ holes' = holes \ HolesOf(gone)
    /\ pruneIn' = PruneStamp(pressure)
    /\ highest' = [j \in Keys |-> IF j \in gone THEN 0 ELSE highest[j]]
    /\ idle' = [j \in Keys |-> IF j \in gone THEN 0 ELSE idle[j]]
    /\ UNCHANGED outstanding

\* The sessions a refused call leaves behind: the sweep and the eviction it made
\* before it met the full budget stay done.
RefusedAfter(gone, pressure) ==
    /\ Retable(gone, {})
    /\ holes' = holes \ HolesOf(gone)
    /\ outstanding' = outstanding - Cardinality(HolesOf(gone))
    /\ pruneIn' = PruneStamp(pressure)
    /\ highest' = [j \in Keys |-> IF j \in gone THEN 0 ELSE highest[j]]
    /\ idle' = [j \in Keys |-> IF j \in gone THEN 0 ELSE idle[j]]

\* Received on a session in the table, returning false.
RefusedKnown(k, n, persistable) ==
    /\ k \in sessions
    /\ persistable
    /\ <<k, n>> \notin holes
    /\ \/ /\ Cardinality(Pending(k)) >= MaxPerSession   \* "session_outstanding"
          /\ UNCHANGED trackerVars
       \/ /\ Cardinality(Pending(k)) < MaxPerSession    \* "outstanding"
          /\ outstanding >= MaxOutstanding
          /\ LET gone == Swept(TRUE)
             IN  /\ outstanding - Cardinality(HolesOf(gone)) >= MaxOutstanding
                 /\ RefusedAfter(gone, TRUE)

\* Received for a session not in the table, returning false.
RefusedNew(k, persistable) ==
    /\ k \notin sessions
    /\ LET pressure == AtCapacity(k, persistable)
           swept == Swept(pressure)
           left == outstanding - Cardinality(HolesOf(swept))
       IN  \/ /\ \A evicted \in SUBSET (sessions \ swept) :
                    ~RoomFor(k, swept, evicted)  \* "sessions", "observer_sessions"
              /\ RefusedAfter(swept, pressure)
           \/ /\ persistable /\ left >= MaxOutstanding             \* "outstanding"
              /\ \E evicted \in SUBSET (sessions \ swept) :
                    /\ RoomFor(k, swept, evicted)
                    /\ RefusedAfter(swept \cup evicted, pressure)

\* Received returning false.
Refused(k, n, persistable) ==
    /\ n > 0
    /\ \/ RefusedKnown(k, n, persistable)
       \/ RefusedNew(k, persistable)

\* Mutant: a resolution of a sequence that is not open is counted again.
ResolvedTwice(k, n) ==
    IF k \in sessions
    THEN /\ idle' = [idle EXCEPT ![k] = 0]
         /\ holes' = holes \ {<<k, n>>}
         /\ outstanding' = outstanding - 1
         /\ UNCHANGED <<sessions, highest, perSource, pruneIn>>
    ELSE UNCHANGED trackerVars

\* DurableTracker.Resolved
Resolved(k, n) ==
    IF k \in sessions
    THEN /\ idle' = [idle EXCEPT ![k] = 0]
         /\ holes' = holes \ {<<k, n>>}
         /\ outstanding' = IF <<k, n>> \in holes THEN outstanding - 1
                                                 ELSE outstanding
         /\ UNCHANGED <<sessions, highest, perSource, pruneIn>>
    ELSE UNCHANGED trackerVars

\* The clock: every retained session ages and the next sweep comes closer.
Elapse ==
    /\ idle' = [k \in Keys |-> IF k \in sessions /\ idle[k] < MaxIdle
                               THEN idle[k] + 1 ELSE idle[k]]
    /\ pruneIn' = IF pruneIn > 0 THEN pruneIn - 1 ELSE 0
    /\ UNCHANGED <<sessions, highest, holes, outstanding, perSource>>

\* NewDurableTracker: a collector restart starts from an empty table.
NewDurableTracker ==
    /\ sessions' = {}
    /\ highest' = [k \in Keys |-> 0]
    /\ holes' = {}
    /\ idle' = [k \in Keys |-> 0]
    /\ outstanding' = 0
    /\ perSource' = [s \in Sources |-> 0]
    /\ pruneIn' = 0

-----------------------------------------------------------------------------
TrackerTypeOK ==
    /\ sessions \subseteq Keys
    /\ highest \in [Keys -> Nat]
    /\ holes \subseteq Keys \X (Nat \ {0})
    /\ idle \in [Keys -> Nat]
    /\ outstanding \in Nat
    /\ perSource \in [Sources -> Nat]
    /\ pruneIn \in Nat

=============================================================================

----------------------------- MODULE HistoryReads -----------------------------
(***************************************************************************)
(* The historian's read API for one private audience: sensor history and   *)
(* event history (internal/serve, internal/store).                         *)
(*                                                                         *)
(* A reader walks through the pages of a window while rows are stored, the *)
(* audience's policy moves its visibility boundary, and the reader's       *)
(* grants change.  Time is a small clock; a row is its receipt time and    *)
(* the bytes it takes.                                                     *)
(***************************************************************************)
EXTENDS Integers, FiniteSets, Sequences, SequencesExt

CONSTANTS
    Handlers,       \* handlers serving the same reader
    HistorySlots,   \* capacity of Server.historySlots
    PerPrincipal,   \* historyPerPrincipal
    PageLimit,      \* limit of one page
    PageBytes,      \* historyMaxPageBytes
    SampleBytes,    \* historyMaxSampleBytes
    MaxOffset,      \* ObserverHistoryMaxOffset
    MaxWindow,      \* eventsMaxWindow, ObserverHistoryMaxWindow
    DefaultWindow,  \* the window of a request that names no since
    Sinces, Untils, \* the windows readers ask for; NoTime names none
    MaxNow,         \* bound: the clock
    MaxRows,        \* bound: stored rows
    MaxBoundaries,  \* bound: policy transitions
    MaxGrantChanges \* bound: changes of the reader's grants

ASSUME HistoryAssumption ==
    /\ {HistorySlots, PerPrincipal, PageLimit, SampleBytes, MaxOffset} \subseteq Nat \ {0}
    /\ PageBytes \in Nat /\ PageBytes >= SampleBytes
    /\ {MaxWindow, DefaultWindow, MaxNow, MaxRows, MaxBoundaries, MaxGrantChanges} \subseteq Nat
    /\ DefaultWindow <= MaxWindow
    /\ Sinces \cup Untils \subseteq 0..(MaxNow + 1)

VARIABLES
    hclock,    \* the collector's clock
    stored,    \* the audience's rows, in receipt order: [t, bytes]
    visibleAt, \* PolicyEpochs: visibleAt and ...
    boundary,  \* ... generation of the audience
    closingAll,\* Advance happened, the connections are not closed yet
    grants,    \* revision of the reader's authorization
    poolUsed,  \* Server.historySlots
    shareUsed, \* Server.historyInUse of the reader
    elsewhere, \* slots the same reader holds in other handlers
    handler,   \* the handlers
    walk       \* what the reader of each handler has collected

historyWorld == <<hclock, stored, visibleAt, boundary, closingAll, grants>>
historySlots == <<poolUsed, shareUsed, elsewhere>>
historyVars == <<historyWorld, historySlots, handler, walk>>

NoTime == 0
IdleHandler == [at |-> "idle", gen |-> 0, grant |-> 0, read |-> 0, conn |-> FALSE, page |-> <<>>,
                more |-> FALSE, since |-> 0, until |-> 0, limited |-> FALSE]
NoWalk == [on |-> FALSE, since |-> NoTime, until |-> NoTime, offset |-> 0, got |-> <<>>,
           effective |-> 0,
           revision |-> <<>>, stable |-> TRUE, end |-> "none"]

HistoryInit ==
    /\ hclock = 1 /\ stored = <<>> /\ visibleAt = 1 /\ boundary = 0
    /\ closingAll = FALSE /\ grants = 0 /\ poolUsed = 0 /\ shareUsed = 0 /\ elsewhere = 0
    /\ handler = [h \in Handlers |-> IdleHandler]
    /\ walk = [h \in Handlers |-> NoWalk]

-----------------------------------------------------------------------------
(* What changes around the readers. *)

HistoryTick ==
    /\ hclock < MaxNow /\ hclock' = hclock + 1
    /\ UNCHANGED <<stored, visibleAt, boundary, closingAll, grants, historySlots,
                   handler, walk>>

\* The historian stores a sample received now (external to the read path).
RowStored ==
    /\ Len(stored) < MaxRows
    /\ \E bytes \in 1..SampleBytes : stored' = Append(stored, [t |-> hclock, bytes |-> bytes])
    /\ walk' = [h \in Handlers |-> [walk[h] EXCEPT !.stable = FALSE]]
    /\ UNCHANGED <<hclock, visibleAt, boundary, closingAll, grants, historySlots, handler>>

\* PolicyEpochs.Advance; the connections are closed a moment later.
BoundaryMoves ==
    /\ ~closingAll /\ boundary < MaxBoundaries
    /\ boundary' = boundary + 1 /\ closingAll' = TRUE
    /\ visibleAt' = IF visibleAt < hclock THEN hclock ELSE visibleAt
    /\ UNCHANGED <<hclock, stored, grants, historySlots, handler, walk>>

BoundaryCloses ==
    /\ closingAll /\ closingAll' = FALSE
    /\ handler' = [h \in Handlers |-> [handler[h] EXCEPT !.conn = FALSE]]
    /\ UNCHANGED <<hclock, stored, visibleAt, boundary, grants, historySlots, walk>>

GrantsChange ==
    /\ grants < MaxGrantChanges /\ grants' = grants + 1
    /\ UNCHANGED <<hclock, stored, visibleAt, boundary, closingAll, historySlots,
                   handler, walk>>

-----------------------------------------------------------------------------
(* Windows *)

MaxOf2(a, b) == IF a < b THEN b ELSE a
MinOf2(a, b) == IF a < b THEN a ELSE b

\* parseTimeParam and the clamp to now: history has no future.
Until(until, now) == IF until = NoTime THEN now ELSE MinOf2(until, now)

\* observerHistoryParams with ObserverSampleQuery.Validate: an inverted or an
\* oversized window is refused.
SamplesWindow(since, until, now) ==
    LET u == Until(until, now)
        s == IF since = NoTime THEN u - DefaultWindow ELSE since
    IN  [ok |-> s <= u /\ u - s <= MaxWindow, since |-> s, until |-> u]

\* serveEventsQuery: an oversized window is pulled forward to the anchor.
EventsWindow(since, until, now) ==
    LET u == Until(until, now)
        s == IF since = NoTime THEN u - DefaultWindow ELSE since
    IN  [ok |-> s <= u, since |-> MaxOf2(s, u - MaxWindow), until |-> u]

\* The policy clamp, reported as history_limited.
Effective(since, visible) ==
    [since |-> MaxOf2(since, visible), limited |-> visible > since]

Matching(since, until) == SelectSeq(stored, LAMBDA row : since <= row.t /\ row.t <= until)

\* The bytes of the first n rows.
Bytes(rows, n) == FoldLeft(LAMBDA sum, row : sum + row.bytes, 0, SubSeq(rows, 1, n))

\* QueryObserverSamples: LIMIT/OFFSET in receipt order, and the page stops in
\* front of the sample that would cross historyMaxPageBytes.
PageOf(rows, offset) ==
    LET rest == SubSeq(rows, offset + 1, Len(rows))
        fits == {n \in 0..MinOf2(PageLimit, Len(rest)) : Bytes(rest, n) <= PageBytes}
        n == CHOOSE m \in fits : \A k \in fits : k <= m
    IN  [rows |-> SubSeq(rest, 1, n), more |-> n < Len(rest)]

-----------------------------------------------------------------------------
(* A page of serveObserverSamples. *)

\* discoveryRevision: an opaque hash of the grants and the audience's epoch.
Revision == <<grants, boundary>>

WalkBegins(h) ==
    /\ handler[h].at = "idle" /\ ~walk[h].on /\ walk[h].end = "none"
    /\ \E since \in Sinces, until \in Untils :
         walk' = [walk EXCEPT ![h] = [NoWalk EXCEPT !.on = TRUE, !.since = since, !.until = until]]
    /\ UNCHANGED <<historyWorld, historySlots, handler>>

\* The view is resolved and the connection registered; the parameters are read.
PageBegins(h) ==
    /\ walk[h].on /\ handler[h].at = "idle"
    /\ LET w == SamplesWindow(walk[h].since, walk[h].until, hclock)
           stale == walk[h].revision # <<>> /\ walk[h].revision # Revision
       IN  IF ~w.ok \/ stale
           THEN /\ walk' = [walk EXCEPT ![h].on = FALSE,
                                        ![h].end = IF w.ok THEN "conflict" ELSE "refused"]
                /\ UNCHANGED handler
           ELSE /\ handler' = [handler EXCEPT ![h] =
                     [IdleHandler EXCEPT !.at = "slot", !.gen = boundary, !.grant = grants,
                        !.conn = TRUE, !.until = w.until,
                        !.since = Effective(w.since, visibleAt).since,
                        !.limited = Effective(w.since, visibleAt).limited]]
                \* the reader goes on with the answered bounds, not with "now"
                /\ walk' = [walk EXCEPT ![h].since = w.since, ![h].until = w.until,
                                        ![h].effective = Effective(w.since, visibleAt).since,
                                        ![h].revision = Revision]
    /\ UNCHANGED <<historyWorld, historySlots>>

\* acquireHistorySlot never waits: 503 when the reader or the pool is at its limit.
TakeSlot(h) ==
    /\ handler[h].at = "slot"
    /\ IF shareUsed < PerPrincipal /\ poolUsed < HistorySlots
       THEN /\ shareUsed' = shareUsed + 1 /\ poolUsed' = poolUsed + 1
            /\ handler' = [handler EXCEPT ![h].at = "query"]
       ELSE /\ handler' = [handler EXCEPT ![h] = IdleHandler]
            /\ UNCHANGED <<poolUsed, shareUsed>>
    /\ UNCHANGED <<historyWorld, elsewhere, walk>>

\* A window that ends before the boundary is answered empty without a query.
QueryRows(h) ==
    /\ handler[h].at = "query"
    /\ \/ LET page == IF handler[h].since > handler[h].until THEN [rows |-> <<>>, more |-> FALSE]
                      ELSE PageOf(Matching(handler[h].since, handler[h].until), walk[h].offset)
          IN  handler' = [handler EXCEPT ![h].at = "reauthorize", ![h].page = page.rows,
                                         ![h].more = page.more, ![h].read = grants]
       \/ handler' = [handler EXCEPT ![h].at = "share"]
    /\ UNCHANGED <<historyWorld, historySlots, walk>>

\* AuthorizeRead once more: the same principal with the same grants.
SameGrants(h) == handler[h].grant = grants

Reauthorize(h) ==
    /\ handler[h].at = "reauthorize"
    /\ handler' = [handler EXCEPT ![h].at = IF SameGrants(h) THEN "write" ELSE "share"]
    /\ UNCHANGED <<historyWorld, historySlots, walk>>

\* Mutant: the next page starts a full limit further on.
NextOffsetByLimit(h) == walk[h].offset + PageLimit

\* next_offset counts the samples of this page, which its bytes may have cut short.
NextOffset(h) == walk[h].offset + Len(handler[h].page)

\* The reader takes the page and follows next_offset, up to the pagination limit.
Taken(h) ==
    [walk[h] EXCEPT !.got = @ \o handler[h].page, !.offset = NextOffset(h),
                    !.on = handler[h].more /\ NextOffset(h) <= MaxOffset,
                    !.end = IF ~handler[h].more THEN "complete"
                            ELSE IF NextOffset(h) > MaxOffset THEN "limited" ELSE @]

\* responseDelivery.write: a page of an older generation is not written, and a
\* closed connection takes nothing.
WritePage(h) ==
    /\ handler[h].at = "write"
    /\ handler' = [handler EXCEPT ![h].at = "share"]
    /\ walk' = IF handler[h].gen = boundary /\ handler[h].conn
               THEN [walk EXCEPT ![h] = Taken(h)] ELSE walk
    /\ UNCHANGED <<historyWorld, historySlots>>

\* release: the reader's share under the lock, then the slot of the pool.
GiveShare(h) ==
    /\ handler[h].at = "share"
    /\ shareUsed' = shareUsed - 1 /\ handler' = [handler EXCEPT ![h].at = "pool"]
    /\ UNCHANGED <<historyWorld, poolUsed, elsewhere, walk>>

GivePool(h) ==
    /\ handler[h].at = "pool"
    /\ poolUsed' = poolUsed - 1 /\ handler' = [handler EXCEPT ![h] = IdleHandler]
    /\ UNCHANGED <<historyWorld, shareUsed, elsewhere, walk>>

\* Another request of the same reader takes a slot and gives it back.
ElsewhereTakes ==
    /\ shareUsed < PerPrincipal /\ poolUsed < HistorySlots
    /\ shareUsed' = shareUsed + 1 /\ poolUsed' = poolUsed + 1 /\ elsewhere' = elsewhere + 1
    /\ UNCHANGED <<historyWorld, handler, walk>>

ElsewhereGives ==
    /\ elsewhere > 0
    /\ shareUsed' = shareUsed - 1 /\ poolUsed' = poolUsed - 1 /\ elsewhere' = elsewhere - 1
    /\ UNCHANGED <<historyWorld, handler, walk>>

HistoryNext ==
    \/ ElsewhereTakes \/ ElsewhereGives
    \/ HistoryTick \/ RowStored \/ BoundaryMoves \/ BoundaryCloses \/ GrantsChange
    \/ \E h \in Handlers :
         \/ WalkBegins(h) \/ PageBegins(h) \/ TakeSlot(h) \/ QueryRows(h) \/ Reauthorize(h)
         \/ WritePage(h) \/ GiveShare(h) \/ GivePool(h)

HistorySpec == HistoryInit /\ [][HistoryNext]_historyVars

-----------------------------------------------------------------------------
(* Properties *)

\* A reader never receives a row from before the audience's current boundary,
\* however long its query took, once the boundary's connections are closed.
RowsBehindBoundary ==
    [][\A h \in Handlers : Len(walk'[h].got) > Len(walk[h].got) =>
         \/ closingAll
         \/ \A i \in (Len(walk[h].got) + 1)..Len(walk'[h].got) : walk'[h].got[i].t >= visibleAt]_historyVars

\* No page is sent when the reader's grants changed before the historian had
\* answered, whatever the order of the two (serveObserverSamples).
NoPageAfterRevocation ==
    \A h \in Handlers : handler[h].at = "write" => handler[h].grant = handler[h].read

\* Following next_offset visits every row of the effective window once and in
\* order, whether the limit or the byte budget ends a page, if nothing is stored
\* meanwhile; and the walk ends: a page that says has_more is not empty.
PagesComplete ==
    \A h \in Handlers :
      /\ walk[h].end = "complete" /\ walk[h].stable =>
           walk[h].got = Matching(walk[h].effective, walk[h].until)
      /\ handler[h].at = "write" /\ handler[h].more => handler[h].page # <<>>

\* The windows both endpoints query are never inverted silently, never longer
\* than the limit, never in the future, and a cut at the boundary is reported.
WindowsHonest ==
    \A since, until \in 0..(MaxNow + 1) :
      \A w \in {SamplesWindow(since, until, hclock), EventsWindow(since, until, hclock)} :
        w.ok => LET e == Effective(w.since, visibleAt)
                IN  /\ w.since <= w.until /\ w.until <= hclock
                    /\ w.until - e.since <= MaxWindow
                    /\ e.since > w.until => e.limited

\* Slots are neither leaked nor given back twice on any return of the handler.
SlotsBalance ==
    LET holding == {h \in Handlers : handler[h].at \in {"query", "reauthorize", "write", "share"}}
        returning == {h \in Handlers : handler[h].at = "pool"}
    IN  /\ shareUsed = Cardinality(holding) + elsewhere /\ shareUsed <= PerPrincipal
        /\ poolUsed = Cardinality(holding) + Cardinality(returning) + elsewhere
        /\ poolUsed <= HistorySlots

\* Pages are complete, windows are what they say, slots come back, and neither
\* a revocation nor a moved boundary is outrun by a query under way.
HistoryIsHonest ==
    /\ [](/\ PagesComplete
          /\ WindowsHonest
          /\ SlotsBalance
          /\ NoPageAfterRevocation)
    /\ RowsBehindBoundary

=============================================================================

---------------------------- MODULE EventPipeline ----------------------------
(***************************************************************************)
(* How a confirmed integrity event becomes durable and is then published.  *)
(*                                                                         *)
(* One audience of the collector: its live store and detector, the bounded *)
(* FIFO of cmd/navlistener (eventPipeline), the idempotent transaction of  *)
(* store.WriteEvent, the policy generation of audience.PolicyEpochs, and   *)
(* scopeController.Apply, which withdraws what the audience may show.      *)
(* A detector tick, the writer goroutine, the scope controller and the     *)
(* database are separate actors; each action is what one of them does      *)
(* while it holds one lock.                                                *)
(***************************************************************************)
EXTENDS Integers, Sequences, FiniteSets, SequencesExt

CONSTANTS
    ScopedModes,      \* TRUE: scopedDetectLoop, FALSE: detectLoop
    EventPendingMax,  \* eventPendingMax, the capacity of the FIFO
    EventAttempts,    \* defaultEventRetry.attempts
    SseRecentCap,     \* sseRecentCap, the length of the replay ring
    MaxEvents,        \* bound: confirmed events
    MaxChanges,       \* bound: policy transitions
    MaxDbFaults,      \* bound: failed database calls and recovered panics
    MaxCrashes,       \* bound: restarts of the process
    MaxDisturbances   \* bound: of the last three together

ASSUME PipelineAssumption ==
    /\ ScopedModes \subseteq BOOLEAN
    /\ EventPendingMax \in Nat /\ EventPendingMax > 1
    /\ EventAttempts \in Nat \ {0}
    /\ SseRecentCap \in Nat \ {0}
    /\ {MaxEvents, MaxChanges, MaxDbFaults, MaxCrashes, MaxDisturbances} \subseteq Nat

VARIABLES
    scoped,     \* which detector loop serves the audience
    policyGen,  \* PolicyEpochs: the audience's generation
    storeGen,   \* state.Store: how often the live store was reset
    applying,   \* the step scopeController.Apply has reached
    detector,   \* oldest store generation its machines remember, or NoSample
    remembered, \* scopedState.generation
    tick,       \* the detector tick in progress
    pending,    \* eventPipeline.pending
    writing,    \* eventPipeline.writing
    writer,     \* the writer goroutine
    stopping,   \* the daemon's context is cancelled
    rows,       \* gnss_events: audience_seq of every stored dedupe key
    inflight,   \* dedupe keys whose COMMIT was sent and whose client gave up
    recent,     \* Broker.recent
    brokerGen,  \* Broker.generation
    fate,       \* history: what became of every confirmed event
    published,  \* history: what this process admitted to the ring, in order
    faults, changes, crashes

dbVars == <<rows, inflight>>
policyVars == <<scoped, policyGen, storeGen, applying, changes>>
detectVars == <<detector, remembered, tick>>
queueVars == <<pending, writing>>
ringVars == <<recent, brokerGen, published>>
pipelineVars == <<policyVars, detectVars, queueVars, writer, stopping, dbVars,
                  ringVars, fate, faults, crashes>>

Undisturbed == changes + faults + crashes < MaxDisturbances

NoSample == -1
EventKeys == 1..MaxEvents
ConfirmedKeys == DOMAIN fate
PendingKeys == {pending[i].key : i \in DOMAIN pending}

\* pendingEvent: its dedupe key, the generation read before the sample and the
\* store generation of the sample.
PipelineEvent == [key : EventKeys, gen : 0..MaxChanges, sample : 0..MaxChanges]
RingEvent == [key : EventKeys, gen : 0..MaxChanges, sample : 0..MaxChanges,
              id : Nat \ {0}, bgen : Nat]

IdleTick == [at |-> "idle", gen |-> 0, sample |-> 0]
IdleWriter == [at |-> "idle", attempt |-> 0, ok |-> FALSE, id |-> 0, final |-> FALSE,
               ev |-> <<>>]

PipelineInit ==
    /\ scoped \in ScopedModes
    /\ policyGen = 0 /\ storeGen = 0 /\ applying = "idle"
    /\ detector = NoSample /\ remembered = 0 /\ tick = IdleTick
    /\ pending = <<>> /\ writing = FALSE /\ writer = IdleWriter
    /\ stopping = FALSE
    /\ rows = <<>> /\ inflight = {}
    /\ recent = <<>> /\ brokerGen = 0 /\ published = <<>>
    /\ fate = <<>>
    /\ faults = 0 /\ changes = 0 /\ crashes = 0

-----------------------------------------------------------------------------
(* scopeController.Apply, one step per lock.  A revocation comes out of the
   decode channel, so Apply never runs twice at once. *)

\* Registry.ResetContext empties the audience's live store.
ApplyReset ==
    /\ applying = "idle" /\ changes < MaxChanges /\ Undisturbed
    /\ storeGen' = storeGen + 1
    /\ changes' = changes + 1
    /\ applying' = IF scoped THEN "advance" ELSE "detector"
    /\ UNCHANGED <<scoped, policyGen, detectVars, queueVars, writer, stopping, dbVars,
                   ringVars, fate, faults, crashes>>

\* Detector.Reset; only the fixed audiences' detectors belong to the controller.
ApplyDetector ==
    /\ applying = "detector"
    /\ detector' = NoSample
    /\ applying' = "advance"
    /\ UNCHANGED <<scoped, policyGen, storeGen, changes, remembered, tick, queueVars,
                   writer, stopping, dbVars, ringVars, fate, faults, crashes>>

\* PolicyEpochs.Advance.
ApplyAdvance ==
    /\ applying = "advance"
    /\ policyGen' = policyGen + 1
    /\ applying' = "invalidate"
    /\ UNCHANGED <<scoped, storeGen, changes, detectVars, queueVars, writer, stopping,
                   dbVars, ringVars, fate, faults, crashes>>

\* Server.InvalidateAudiences: invalidateDeliveries closes the connections ...
ApplyInvalidate ==
    /\ applying = "invalidate"
    /\ applying' = "broker"
    /\ UNCHANGED <<scoped, policyGen, storeGen, changes, detectVars, queueVars, writer,
                   stopping, dbVars, ringVars, fate, faults, crashes>>

\* ... and Broker.Reset empties the ring.
ApplyBroker ==
    /\ applying = "broker"
    /\ recent' = <<>> /\ brokerGen' = brokerGen + 1
    /\ applying' = "idle"
    /\ UNCHANGED <<scoped, policyGen, storeGen, changes, detectVars, queueVars, writer,
                   stopping, dbVars, published, fate, faults, crashes>>

-----------------------------------------------------------------------------
(* The detector's goroutine. *)

\* scopedDetectLoop compares the store's generation first and forgets the
\* detector's machines when it changed.
TickCheck ==
    /\ scoped /\ ~stopping
    /\ tick.at = "idle"
    /\ detector' = IF remembered = storeGen THEN detector ELSE NoSample
    /\ remembered' = storeGen
    /\ tick' = [tick EXCEPT !.at = "generation"]
    /\ UNCHANGED <<policyVars, queueVars, writer, stopping, dbVars, ringVars,
                   fate, faults, crashes>>

\* The policy generation is read before the live state is.
TickGeneration ==
    /\ tick.at = IF scoped THEN "generation" ELSE "idle"
    /\ scoped \/ ~stopping
    /\ tick' = [tick EXCEPT !.at = "sample", !.gen = policyGen]
    /\ UNCHANGED <<policyVars, detector, remembered, queueVars, writer, stopping,
                   dbVars, ringVars, fate, faults, crashes>>

\* detectEvents reads the feeds of the live store.
TickSample ==
    /\ tick.at = "sample"
    /\ tick' = [tick EXCEPT !.at = "classify", !.sample = storeGen]
    /\ UNCHANGED <<policyVars, detector, remembered, queueVars, writer, stopping,
                   dbVars, ringVars, fate, faults, crashes>>

\* enqueue spares the event a database call is in progress for.
DroppedAt == IF writing THEN 2 ELSE 1

\* Mutant: the event is stamped with the generation found when it is queued.
EnqueuedRestamped(e) ==
    LET now == [e EXCEPT !.gen = policyGen]
    IN  IF Len(pending) < EventPendingMax
        THEN [queue |-> Append(pending, now), dropped |-> {}]
        ELSE [queue |-> Append(RemoveAt(pending, DroppedAt), now),
              dropped |-> {pending[DroppedAt].key}]

\* enqueue: at capacity the oldest event that is not being written goes.
Enqueued(e) ==
    IF Len(pending) < EventPendingMax
    THEN [queue |-> Append(pending, e), dropped |-> {}]
    ELSE [queue |-> Append(RemoveAt(pending, DroppedAt), e),
          dropped |-> {pending[DroppedAt].key}]

\* Detector.Tick under its lock, then prepareEvent and enqueue.  A machine with
\* nothing to compare is seeded silently; otherwise the sample may confirm a
\* transition, revert one, or hold nothing about the subject.
TickClassify ==
    /\ tick.at = "classify"
    /\ tick' = IdleTick
    /\ \/ /\ detector = NoSample
          /\ detector' \in {NoSample, tick.sample}
          /\ UNCHANGED <<queueVars, fate>>
       \/ /\ detector # NoSample
          /\ UNCHANGED <<detector, queueVars, fate>>
       \/ /\ detector # NoSample /\ Len(fate) < MaxEvents
          /\ LET new == Enqueued([key |-> Len(fate) + 1, gen |-> tick.gen,
                                  sample |-> tick.sample])
             IN  /\ pending' = new.queue
                 /\ fate' = [k \in 1..(Len(fate) + 1) |->
                               IF k \in new.dropped THEN "dropped"
                               ELSE IF k \in ConfirmedKeys THEN fate[k] ELSE "open"]
          /\ detector' = tick.sample
          /\ UNCHANGED writing
    /\ UNCHANGED <<policyVars, remembered, writer, stopping, dbVars, ringVars,
                   faults, crashes>>

\* The recover of detectTick and detectEventsSafely: the tick's events are lost,
\* also those of machines that had moved before the panic.
TickPanics ==
    /\ tick.at \in {"sample", "classify"}
    /\ faults < MaxDbFaults /\ Undisturbed
    /\ tick' = IdleTick /\ faults' = faults + 1
    /\ detector' \in {detector} \cup (IF tick.at = "classify" THEN {tick.sample} ELSE {})
    /\ UNCHANGED <<policyVars, remembered, queueVars, writer, stopping,
                   dbVars, ringVars, fate, crashes>>

-----------------------------------------------------------------------------
(* The writer goroutine: eventPipeline.run, flushFinal, writeAndPublishRetry. *)

\* The writer's own copy of the event it took from the head.
HeadEvent == writer.ev[1]

\* head(); after cancellation flushFinal takes every event once more.
WriterHead ==
    /\ writer.at = "idle" /\ pending # <<>>
    /\ writing' = TRUE
    /\ writer' = [IdleWriter EXCEPT !.at = "guard", !.attempt = 1, !.final = stopping,
                              !.ev = <<pending[1]>>]
    /\ UNCHANGED <<policyVars, detectVars, pending, stopping, dbVars, ringVars,
                   fate, faults, crashes>>

WriterDone ==
    /\ writer.at = "idle" /\ pending = <<>> /\ stopping
    /\ writer' = [writer EXCEPT !.at = "done"]
    /\ UNCHANGED <<policyVars, detectVars, queueVars, stopping, dbVars, ringVars,
                   fate, faults, crashes>>

Finishing(w, ok) == [w EXCEPT !.at = "finish", !.ok = ok]

\* The first authorized() check: an event of an older generation is dropped.
WriterGuard ==
    /\ writer.at = "guard"
    /\ IF HeadEvent.gen = policyGen
       THEN /\ writer' = [writer EXCEPT !.at = "call"]
            /\ UNCHANGED fate
       ELSE /\ writer' = Finishing(writer, TRUE)
            /\ fate' = [fate EXCEPT ![HeadEvent.key] = "withheld"]
    /\ UNCHANGED <<policyVars, detectVars, queueVars, stopping, dbVars, ringVars,
                   faults, crashes>>

\* The sequence a transaction finds under the advisory lock, or allocates.
AudienceSeq(key) == IF key \in DOMAIN rows THEN rows[key] ELSE Cardinality(DOMAIN rows) + 1

\* A transaction waits for the advisory lock of its key, and a new key also
\* for the audience's cursor row, while another transaction's COMMIT is open.
EventBlocked(key) == inflight # {} /\ (key \in inflight \/ key \notin DOMAIN rows)

StoredWith(key) == [k \in DOMAIN rows \cup {key} |-> IF k = key THEN AudienceSeq(key) ELSE rows[k]]

\* WriteEvent answers with the event's sequence.
WriterCallSucceeds ==
    /\ writer.at = "call" /\ ~EventBlocked(HeadEvent.key)
    /\ rows' = StoredWith(HeadEvent.key)
    /\ writer' = [writer EXCEPT !.at = "recheck", !.id = AudienceSeq(HeadEvent.key)]
    /\ UNCHANGED <<policyVars, detectVars, queueVars, stopping, inflight, ringVars,
                   fate, faults, crashes>>

\* The call fails and its transaction is rolled back: an error of the database,
\* or the deadline while it waits for a lock, or shutdown.
WriterCallFails ==
    /\ writer.at = "call"
    /\ \/ faults < MaxDbFaults /\ Undisturbed /\ faults' = faults + 1
       \/ (EventBlocked(HeadEvent.key) \/ (stopping /\ ~writer.final)) /\ UNCHANGED faults
    /\ writer' = [writer EXCEPT !.at = "failed"]
    /\ UNCHANGED <<policyVars, detectVars, queueVars, stopping, dbVars, ringVars,
                   fate, crashes>>

\* The client gives up while its COMMIT is on the way.
WriterCallUnanswered ==
    /\ writer.at = "call" /\ ~EventBlocked(HeadEvent.key)
    /\ HeadEvent.key \notin DOMAIN rows
    /\ faults < MaxDbFaults /\ Undisturbed /\ faults' = faults + 1
    /\ inflight' = inflight \cup {HeadEvent.key}
    /\ writer' = [writer EXCEPT !.at = "failed"]
    /\ UNCHANGED <<policyVars, detectVars, queueVars, stopping, rows, ringVars,
                   fate, crashes>>

\* A panic of the event store, before or after its commit, is recovered by
\* writeSafely; the head is kept.
WriterPanics ==
    /\ writer.at = "call" /\ ~EventBlocked(HeadEvent.key)
    /\ faults < MaxDbFaults /\ Undisturbed /\ faults' = faults + 1
    /\ rows' \in {rows, StoredWith(HeadEvent.key)}
    /\ writer' = Finishing(writer, FALSE)
    /\ fate' = IF writer.final THEN [fate EXCEPT ![HeadEvent.key] = "dropped"] ELSE fate
    /\ UNCHANGED <<policyVars, detectVars, queueVars, stopping, inflight, ringVars,
                   crashes>>

\* The database decides an open COMMIT.
InflightResolves(key) ==
    /\ key \in inflight
    /\ rows' \in {rows, StoredWith(key)}
    /\ inflight' = inflight \ {key}
    /\ UNCHANGED <<policyVars, detectVars, queueVars, writer, stopping, ringVars,
                   fate, faults, crashes>>

\* writeEventRetry: another attempt, unless they are used up or ctx is gone.
WriterRetry ==
    /\ writer.at = "failed"
    /\ LET last == writer.final \/ stopping \/ writer.attempt >= EventAttempts
       IN  /\ writer' = IF last THEN Finishing(writer, FALSE)
                        ELSE [writer EXCEPT !.at = "call", !.attempt = @ + 1]
           /\ fate' = IF writer.final THEN [fate EXCEPT ![HeadEvent.key] = "dropped"] ELSE fate
    /\ UNCHANGED <<policyVars, detectVars, queueVars, stopping, dbVars, ringVars,
                   faults, crashes>>

\* The second authorized() check, after the write.
WriterRecheck ==
    /\ writer.at = "recheck"
    /\ IF HeadEvent.gen = policyGen
       THEN /\ writer' = [writer EXCEPT !.at = "publish"]
            /\ UNCHANGED fate
       ELSE /\ writer' = Finishing(writer, TRUE)
            /\ fate' = [fate EXCEPT ![HeadEvent.key] = "withheld"]
    /\ UNCHANGED <<policyVars, detectVars, queueVars, stopping, dbVars, ringVars,
                   faults, crashes>>

\* PolicyEpochs.IfCurrent, held across the admission.
RingAdmits(e) == e.gen = policyGen

RingEntry(e, id) == [key |-> e.key, gen |-> e.gen, sample |-> e.sample,
                     id |-> id, bgen |-> brokerGen]

RingTrimmed(ring) == IF Len(ring) > SseRecentCap
                 THEN SubSeq(ring, Len(ring) - SseRecentCap + 1, Len(ring)) ELSE ring

\* Broker.Publish: an admitted event enters the ring.
WriterPublish ==
    /\ writer.at = "publish"
    /\ writer' = Finishing(writer, TRUE)
    /\ IF RingAdmits(HeadEvent)
       THEN /\ recent' = RingTrimmed(Append(recent, RingEntry(HeadEvent, writer.id)))
            /\ published' = Append(published, RingEntry(HeadEvent, writer.id))
            /\ fate' = [fate EXCEPT ![HeadEvent.key] = "published"]
       ELSE /\ fate' = [fate EXCEPT ![HeadEvent.key] = "withheld"]
            /\ UNCHANGED <<recent, published>>
    /\ UNCHANGED <<policyVars, detectVars, queueVars, stopping, dbVars, brokerGen,
                   faults, crashes>>

\* finishHead: a failed event stays at the head, except in the final flush.
WriterFinish ==
    /\ writer.at = "finish"
    /\ pending' = IF writer.ok \/ writer.final THEN Tail(pending) ELSE pending
    /\ writing' = FALSE /\ writer' = IdleWriter
    /\ UNCHANGED <<policyVars, detectVars, stopping, dbVars, ringVars, fate,
                   faults, crashes>>

-----------------------------------------------------------------------------
\* The daemon's context is cancelled.
StopPipeline ==
    /\ ~stopping
    /\ stopping' = TRUE
    /\ UNCHANGED <<policyVars, detectVars, queueVars, writer, dbVars, ringVars,
                   fate, faults, crashes>>

\* A new process: only the database survives, with its open COMMITs.
PipelineRestart ==
    /\ crashes < MaxCrashes /\ Undisturbed /\ crashes' = crashes + 1
    /\ policyGen' = 0 /\ storeGen' = 0 /\ applying' = "idle"
    /\ detector' = NoSample /\ remembered' = 0 /\ tick' = IdleTick
    /\ pending' = <<>> /\ writing' = FALSE /\ writer' = IdleWriter
    /\ stopping' = FALSE
    /\ recent' = <<>> /\ brokerGen' = 0 /\ published' = <<>>
    /\ fate' = [k \in ConfirmedKeys |-> IF fate[k] = "open" THEN "lost" ELSE fate[k]]
    /\ UNCHANGED <<scoped, dbVars, faults, changes>>

WriterStep ==
    \/ WriterHead \/ WriterDone \/ WriterGuard \/ WriterCallSucceeds
    \/ WriterCallFails \/ WriterCallUnanswered \/ WriterPanics
    \/ WriterRetry \/ WriterRecheck \/ WriterFinish

TickStep == TickCheck \/ TickGeneration \/ TickSample \/ TickClassify \/ TickPanics

\* Steps that neither publish nor touch a connection or the ring.
QuietStep ==
    \/ ApplyReset \/ ApplyDetector \/ ApplyAdvance
    \/ TickStep \/ WriterStep \/ StopPipeline
    \/ \E key \in EventKeys : InflightResolves(key)

PipelineNext ==
    QuietStep \/ ApplyInvalidate \/ ApplyBroker \/ WriterPublish \/ PipelineRestart

PipelineSpec == PipelineInit /\ [][PipelineNext]_pipelineVars

-----------------------------------------------------------------------------
(* Properties *)

\* The queue and the ring keep their bounds, and every variable has its type.
PipelineTypeOK ==
    /\ policyGen \in 0..MaxChanges /\ storeGen \in 0..MaxChanges
    /\ applying \in {"idle", "detector", "advance", "invalidate", "broker"}
    /\ detector \in 0..MaxChanges \cup {NoSample} /\ remembered \in 0..MaxChanges
    /\ tick \in [at : {"idle", "generation", "sample", "classify"},
                 gen : 0..MaxChanges, sample : 0..MaxChanges]
    /\ pending \in Seq(PipelineEvent) /\ Len(pending) <= EventPendingMax
    /\ writing \in BOOLEAN /\ stopping \in BOOLEAN
    /\ writer \in [at : {"idle", "guard", "call", "failed", "recheck", "publish",
                         "finish", "done"},
                   attempt : 0..EventAttempts, ok : BOOLEAN, id : 0..MaxEvents,
                   final : BOOLEAN, ev : {<<>>} \cup {<<e>> : e \in PipelineEvent}]
    /\ DOMAIN rows \subseteq EventKeys /\ \A k \in DOMAIN rows : rows[k] \in Nat
    /\ inflight \subseteq EventKeys
    /\ recent \in Seq(RingEvent) /\ Len(recent) <= SseRecentCap /\ published \in Seq(RingEvent)
    /\ brokerGen \in 0..MaxChanges
    /\ fate \in Seq({"open", "published", "withheld", "dropped", "lost"})
    /\ faults \in 0..MaxDbFaults /\ changes \in 0..MaxChanges
    /\ crashes \in 0..MaxCrashes

\* The audience cursor has no holes and no event has two rows, whatever calls
\* time out, are repeated, or commit behind the client's back (WriteEvent).
CursorDense ==
    /\ {rows[k] : k \in DOMAIN rows} = 1..Cardinality(DOMAIN rows)
    /\ inflight \cap DOMAIN rows = {}

\* No confirmed event disappears: it is queued, or something was done with it
\* that the log tells.  finishHead removes the event that was written, although
\* enqueue may drop another one while the database call is in progress.
NoEventVanishes ==
    /\ \A k \in ConfirmedKeys : fate[k] = "open" => k \in PendingKeys
    /\ \A i \in DOMAIN pending : fate[pending[i].key] = "open"
                                 \/ (i = 1 /\ writer.at = "finish")

\* What is published is durable, carries the row's own id, and comes once and in
\* the order of detection, so that the ring's ids increase: a live event is
\* compared with the last replayed id on that assumption.
PublishedInOrder ==
    /\ \A i \in DOMAIN published :
         /\ published[i].key \in DOMAIN rows
         /\ published[i].id = rows[published[i].key]
    /\ \A i, j \in DOMAIN published : i < j => published[i].id < published[j].id
                                               /\ published[i].key < published[j].key

\* An event is published under a policy only when the sample that confirmed it
\* was taken from the store as reset for that policy, and once the transition is
\* complete the ring holds nothing older.
SampleIsCurrent ==
    /\ \A i \in DOMAIN published : published[i].sample >= published[i].gen
    /\ applying \in {"idle", "detector", "advance"} =>
           \A i \in DOMAIN recent : recent[i].gen = policyGen

\* Events are numbered without holes, published once, in order, when durable
\* and under the policy of their sample, and none vanishes (eventPipeline).
PipelineIsSound ==
    /\ PipelineTypeOK
    /\ CursorDense
    /\ NoEventVanishes
    /\ PublishedInOrder
    /\ SampleIsCurrent

=============================================================================

----------------------------- MODULE EventStream -----------------------------
(***************************************************************************)
(* The clients of one audience's event stream (serve.Broker, serveEvents). *)
(*                                                                         *)
(* The publisher is what EventPipeline shows of its writer: events with    *)
(* increasing ids, each guarded by the generation its detector tick read,  *)
(* some of them withheld.  A policy transition advances the generation,    *)
(* closes the audience's connections and resets the broker, in that order. *)
(* A restart empties the ring.  A client reconnects with the last id it    *)
(* saw.                                                                    *)
(***************************************************************************)
EXTENDS Integers, Sequences, FiniteSets, SequencesExt

CONSTANTS
    Clients,          \* readers of the stream
    StreamRecentCap,  \* sseRecentCap, the length of the replay ring
    SseClientBuffer,  \* sseClientBuffer, the queue of one subscriber
    SseReplayNoLast,  \* sseReplayNoLast, the tail sent without a cursor
    SseShare,         \* sseAudienceShare, subscribers of this audience
    MaxPublished,     \* bound: events given an id
    MaxResets,        \* bound: policy transitions
    MaxRestarts,      \* bound: restarts of the process
    MaxConnects       \* bound: connections of one client

ASSUME StreamAssumption ==
    /\ {StreamRecentCap, SseClientBuffer, SseReplayNoLast, SseShare} \subseteq Nat \ {0}
    /\ {MaxPublished, MaxResets, MaxRestarts, MaxConnects} \subseteq Nat

VARIABLES
    epoch,     \* PolicyEpochs: the audience's generation
    transition,\* the step of the policy transition in progress
    guarded,   \* generation of the event that passed the writer's guards, or None
    ids,       \* ids given to events so far (audience_seq, durable)
    ring,      \* Broker.recent
    ringGen,   \* Broker.generation
    log,       \* history: ids that were published, by any process
    closing,   \* Broker.done is closed
    client,    \* the handler goroutine of each client's connection
    seen,      \* what each client received: [id, gen], id 0 for replay_gap
    connects,  \* connections each client has made
    resets, restarts

brokerVars == <<ring, ringGen, log>>
publisherVars == <<guarded, ids>>
transitionVars == <<epoch, transition, resets>>
readerVars == <<client, seen, connects>>
othersVars == <<transitionVars, publisherVars, brokerVars, closing, restarts>>
streamVars == <<othersVars, readerVars>>

NoEvent == -1
GapItem == [id |-> 0, gen |-> 0]
NoStream == [at |-> "off", conn |-> FALSE, bgen |-> 0, pgen |-> 0, kicked |-> FALSE,
             chan |-> <<>>, todo |-> <<>>, last |-> 0]

Subscribed == {c \in Clients : client[c].at \in {"snapshot", "replay", "write", "live"}}

StreamInit ==
    /\ epoch = 0 /\ transition = "idle" /\ resets = 0
    /\ guarded = NoEvent /\ ids = 0
    /\ ring = <<>> /\ ringGen = 0 /\ log = {}
    /\ closing = FALSE /\ restarts = 0
    /\ client = [c \in Clients |-> NoStream]
    /\ seen = [c \in Clients |-> <<>>]
    /\ connects = [c \in Clients |-> 0]

-----------------------------------------------------------------------------
(* The handler: serveEventStream, Broker.serveEvents. *)

\* serveEventStream registers the connection (beginDelivery) before it serves.
StreamBegin(c) ==
    /\ client[c].at = "off" /\ connects[c] < MaxConnects /\ ~closing
    /\ connects' = [connects EXCEPT ![c] = @ + 1]
    /\ client' = [client EXCEPT ![c] = [NoStream EXCEPT !.at = "begun", !.conn = TRUE]]
    /\ UNCHANGED <<othersVars, seen>>

\* Broker.subscribe: a full audience is refused; both generations are noted.
StreamSubscribe(c) ==
    /\ client[c].at = "begun"
    /\ client' = [client EXCEPT ![c] =
         IF Cardinality(Subscribed) >= SseShare THEN NoStream
         ELSE [@ EXCEPT !.at = "snapshot", !.bgen = ringGen, !.pgen = epoch]]
    /\ UNCHANGED <<othersVars, seen, connects>>

\* The cursor EventSource sends back: the last id received, 0 for none.
LastEventID(c) ==
    LET events == SelectSeq(seen[c], LAMBDA item : item.id # 0)
    IN  IF events = <<>> THEN 0 ELSE Last(events).id

\* Mutant: a cursor that left the ring gets the ordinary tail, with no marker.
ReplaySnapshotSilent(lastID) ==
    SelectSeq(ring, LAMBDA e : e.id > lastID)

\* Broker.replaySnapshot: a cursor that is not in the ring is told replay_gap.
ReplaySnapshot(lastID) ==
    IF lastID = 0
    THEN <<GapItem>> \o SubSeq(ring, Max({1, Len(ring) - SseReplayNoLast + 1}), Len(ring))
    ELSE (IF \E i \in DOMAIN ring : ring[i].id = lastID THEN <<>> ELSE <<GapItem>>)
         \o SelectSeq(ring, LAMBDA e : e.id > lastID)

StreamSnapshot(c) ==
    /\ client[c].at = "snapshot"
    /\ client' = [client EXCEPT ![c].at = "replay", ![c].todo = ReplaySnapshot(LastEventID(c))]
    /\ UNCHANGED <<othersVars, seen, connects>>

\* Broker.clientCurrent.
ClientCurrent(s) == s.bgen = ringGen /\ s.pgen = epoch /\ ~s.kicked

\* Broker.eventCurrent; the status frames only ask for a current client.
EventCurrent(s, item) ==
    /\ ClientCurrent(s)
    /\ item.id # 0 => item.bgen = s.bgen /\ item.gen = s.pgen

\* The replay loop and the checks in front of the next write.
StreamReplay(c) ==
    /\ client[c].at = "replay"
    /\ client' = [client EXCEPT ![c] =
         CASE @.todo = <<>> -> [@ EXCEPT !.at = "live"]
           [] @.todo # <<>> /\ EventCurrent(@, Head(@.todo)) -> [@ EXCEPT !.at = "write"]
           [] OTHER -> NoStream]
    /\ UNCHANGED <<othersVars, seen, connects>>

\* The write itself: a closed connection ends the stream, and a connection the
\* network broke takes the bytes with it.
StreamWrite(c) ==
    /\ client[c].at = "write"
    /\ \/ /\ client[c].conn
          /\ LET item == Head(client[c].todo)
             IN  /\ seen' = [seen EXCEPT ![c] = Append(@, [id |-> item.id, gen |-> item.gen])]
                 /\ client' = [client EXCEPT ![c].at = "replay", ![c].todo = Tail(@),
                                             ![c].last = Max({@, item.id})]
       \/ /\ client' = [client EXCEPT ![c] = NoStream]
          /\ UNCHANGED seen
    /\ UNCHANGED <<othersVars, connects>>

\* Mutant: an event the live loop takes is not written.
StreamLiveForgets(c) ==
    /\ client[c].at = "live" /\ client[c].chan # <<>>
    /\ client' = [client EXCEPT ![c].chan = Tail(@)]
    /\ UNCHANGED <<othersVars, seen, connects>>

\* The live loop takes an event; one the replay already wrote is skipped.
StreamLive(c) ==
    /\ client[c].at = "live" /\ client[c].chan # <<>>
    /\ LET e == Head(client[c].chan)
           s == [client[c] EXCEPT !.chan = Tail(@)]
       IN  client' = [client EXCEPT ![c] =
             CASE ~EventCurrent(s, e) -> NoStream
               [] EventCurrent(s, e) /\ e.id <= s.last -> s
               [] OTHER -> [s EXCEPT !.at = "write", !.todo = <<e>>]]
    /\ UNCHANGED <<othersVars, seen, connects>>

\* kick, done, the request's context, or a heartbeat that finds the client stale.
StreamLeave(c) ==
    /\ client[c].at = "live"
    /\ client[c].kicked \/ closing \/ ~client[c].conn \/ ~ClientCurrent(client[c])
    /\ client' = [client EXCEPT ![c] = NoStream]
    /\ UNCHANGED <<othersVars, seen, connects>>

\* The reader closes its side, or the network does.
StreamBreaks(c) ==
    /\ client[c].at = "live" /\ client[c].conn
    /\ client' = [client EXCEPT ![c].conn = FALSE]
    /\ UNCHANGED <<othersVars, seen, connects>>

-----------------------------------------------------------------------------
(* What the broker does to its subscribers. *)

\* publishLocked never blocks: a full queue costs the subscriber its stream.
Offered(s, e) ==
    IF Len(s.chan) < SseClientBuffer THEN [s EXCEPT !.chan = Append(@, e)]
    ELSE [s EXCEPT !.kicked = TRUE]

\* writeAndPublish: the generation the event was detected under is compared
\* before it is written and published.
StreamGuard ==
    /\ guarded = NoEvent /\ ids < MaxPublished
    /\ ids' = ids + 1
    /\ guarded' \in {epoch, NoEvent}
    /\ UNCHANGED <<transitionVars, brokerVars, closing, restarts, readerVars>>

\* PolicyEpochs.IfCurrent, held across the admission.
Admits == guarded = epoch

NewEntry == [id |-> ids, gen |-> guarded, bgen |-> ringGen]

\* Broker.Publish: ring, then every subscriber.
StreamPublish ==
    /\ guarded # NoEvent
    /\ guarded' = NoEvent
    /\ IF Admits
       THEN /\ ring' = LET r == Append(ring, NewEntry)
                       IN  SubSeq(r, Max({1, Len(r) - StreamRecentCap + 1}), Len(r))
            /\ log' = log \cup {ids}
            /\ client' = [c \in Clients |->
                  IF c \in Subscribed THEN Offered(client[c], NewEntry) ELSE client[c]]
       ELSE UNCHANGED <<ring, log, client>>
    /\ UNCHANGED <<transitionVars, ids, ringGen, closing, restarts, seen, connects>>

\* PolicyEpochs.Advance.
StreamAdvance ==
    /\ transition = "idle" /\ resets < MaxResets
    /\ resets' = resets + 1 /\ epoch' = epoch + 1 /\ transition' = "invalidate"
    /\ UNCHANGED <<publisherVars, brokerVars, closing, restarts, readerVars>>

\* invalidateDeliveries closes every registered connection of the audience.
CloseDeliveries == [c \in Clients |-> [client[c] EXCEPT !.conn = FALSE]]

StreamInvalidate ==
    /\ transition = "invalidate" /\ transition' = "broker"
    /\ client' = CloseDeliveries
    /\ UNCHANGED <<epoch, resets, publisherVars, brokerVars, closing, restarts, seen, connects>>

\* Broker.Reset: a new generation, an empty ring, every subscriber dropped.
StreamBrokerReset ==
    /\ transition = "broker" /\ transition' = "idle"
    /\ ring' = <<>> /\ ringGen' = ringGen + 1
    /\ client' = [c \in Clients |->
                    IF c \in Subscribed THEN [client[c] EXCEPT !.kicked = TRUE] ELSE client[c]]
    /\ UNCHANGED <<epoch, resets, publisherVars, log, closing, restarts, seen, connects>>

\* Broker.Close on shutdown.
StreamClose ==
    /\ ~closing /\ closing' = TRUE
    /\ UNCHANGED <<transitionVars, publisherVars, brokerVars, restarts, readerVars>>

\* A new process: the ids go on, everything else starts empty.
StreamRestart ==
    /\ restarts < MaxRestarts /\ restarts' = restarts + 1
    /\ epoch' = 0 /\ transition' = "idle" /\ guarded' = NoEvent
    /\ ring' = <<>> /\ ringGen' = 0 /\ closing' = FALSE
    /\ client' = [c \in Clients |-> NoStream]
    /\ UNCHANGED <<ids, log, resets, seen, connects>>

HandlerStep(c) ==
    \/ StreamSubscribe(c) \/ StreamSnapshot(c) \/ StreamReplay(c)
    \/ StreamWrite(c) \/ StreamLive(c) \/ StreamLeave(c)

StreamNext ==
    \/ StreamGuard \/ StreamPublish
    \/ StreamAdvance \/ StreamInvalidate \/ StreamBrokerReset
    \/ StreamClose \/ StreamRestart
    \/ \E c \in Clients : StreamBegin(c) \/ StreamBreaks(c) \/ HandlerStep(c)

\* The handler goroutines run: a write ends at the latest at its deadline, and
\* the select loop takes what is ready.
StreamFairness == \A c \in Clients : WF_streamVars(HandlerStep(c))

StreamSpec == StreamInit /\ [][StreamNext]_streamVars /\ StreamFairness

-----------------------------------------------------------------------------
(* Properties *)

\* The broker's ring, each subscriber's queue and the number of subscribers keep
\* their bounds, and every variable has its type.
StreamTypeOK ==
    /\ epoch \in 0..MaxResets /\ transition \in {"idle", "invalidate", "broker"}
    /\ guarded \in 0..MaxResets \cup {NoEvent} /\ ids \in 0..MaxPublished
    /\ Len(ring) <= StreamRecentCap /\ ringGen \in 0..MaxResets
    /\ log \subseteq 1..ids /\ closing \in BOOLEAN
    /\ \A c \in Clients :
         /\ client[c].at \in {"off", "begun", "snapshot", "replay", "write", "live"}
         /\ Len(client[c].chan) <= SseClientBuffer
         /\ connects[c] \in 0..MaxConnects
    /\ Cardinality(Subscribed) <= SseShare

\* What a client knows is complete: between two ids it received with no
\* replay_gap between them lies no event that was published, in this process or
\* an earlier one, and ids only grow.  It covers a full queue, a cursor that left
\* the ring, a policy reset, a restart, and an event published between the
\* subscription and the snapshot (serveEvents).
NoSilentGap ==
    \A c \in Clients : \A i \in 1..(Len(seen[c]) - 1) :
        LET a == seen[c][i].id
            b == seen[c][i + 1].id
        IN  a # 0 /\ b # 0 => a < b /\ log \cap (a + 1)..(b - 1) = {}

\* Once InvalidateAudiences has closed the connections nothing derived under the
\* withdrawn policy reaches a client, even one that connected in the middle of
\* the transition (Broker.Reset, beginDelivery, eventCurrent).
WithdrawnNeverDelivered ==
    [][\A c \in Clients :
         (Len(seen'[c]) > Len(seen[c]) /\ Last(seen'[c]).id # 0) =>
             Last(seen'[c]).gen = epoch \/ transition = "invalidate"]_streamVars

\* What was queued for a subscriber or is left to replay reaches it, or its
\* stream ends and it has to reconnect.
SubscriberCatchesUp ==
    \A c \in Clients : \A n \in 1..MaxPublished :
        (\E e \in Range(client[c].chan) \cup Range(client[c].todo) : e.id = n) ~>
            (client[c].at = "off" \/ LastEventID(c) >= n)

\* A subscriber the broker dropped, and every subscriber after Close, gives its
\* slot back: http.Server.Shutdown never cancels the requests by itself.
DroppedLeaves ==
    \A c \in Clients :
        (c \in Subscribed /\ (client[c].kicked \/ closing)) ~> (c \notin Subscribed)

\* A reader of the stream is told of every gap and gets nothing that was
\* withdrawn, and queues and subscribers keep their bounds (Broker).
StreamIsHonest ==
    /\ [](StreamTypeOK /\ NoSilentGap)
    /\ WithdrawnNeverDelivered

\* A reader that keeps reading catches up, and one that was dropped leaves
\* (Broker.serveEvents).
StreamMovesOn == SubscriberCatchesUp /\ DroppedLeaves

=============================================================================

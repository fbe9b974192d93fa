---------------------------- MODULE PushDelivery ----------------------------
(***************************************************************************)
(* One feeder session from its spool to the historian and back: the feeder *)
(* loop (serve_collector, navfeeder.c), the collector's stream             *)
(* (push.go), the tracker (DurableTracker.tla), the decode stage, the      *)
(* historian's queue and flush, and the ACK that lets the feeder delete.   *)
(*                                                                         *)
(* Connections are FIFO and die at any moment; a collector can still be    *)
(* reading a connection its feeder has long left.  The collector process   *)
(* can crash between any two steps, before or after the commit it was      *)
(* waiting for.  Other observers share the tracker and its budgets.        *)
(***************************************************************************)
EXTENDS DurableTracker, Sequences

CONSTANTS
    Feeder,         \* the key whose session is followed record by record
    Conns,          \* connection identities, reused once both ends are gone
    NoConn,
    MaxSeq,         \* bound: records the receiver produces
    OtherSeq,       \* bound: records of any other observer
    Unpersistable,  \* sequences of raw observables: forwarded, never stored
    Malformed,      \* sequences whose body fails validation
    Closing,        \* sequences after which the stream closes by itself
    MaxUnforwarded, \* maxConsecutiveUnforwarded
    MaxInFlight,    \* bound: records in the socket buffers of a connection
    QueueMax,       \* historian queue depth
    OutMax,         \* decode channel depth
    MaxFaults       \* bound: crashes, lost connections and failed flushes

ASSUME DeliveryAssumption ==
    /\ Feeder \in Keys
    /\ NoConn \notin Conns
    /\ MaxSeq \in Nat /\ OtherSeq \in Nat /\ MaxFaults \in Nat
    /\ Unpersistable \subseteq 1..MaxSeq
    /\ Malformed \subseteq 1..MaxSeq
    /\ Closing \subseteq 1..MaxSeq
    /\ {MaxInFlight, QueueMax, OutMax, MaxUnforwarded} \subseteq Nat \ {0}

Others == Keys \ {Feeder}

VARIABLES
    seq,          \* feeder: last sequence assigned
    acked,        \* feeder: highest ACK taken; 1..acked are deleted
    cur,          \* feeder: its connection
    sentUpto,     \* feeder: sent_upto on that connection
    conn,         \* both ends of every connection
    out,          \* collector: channel from the streams to decodeLoop
    queue,        \* historian: accepted frames not yet in a flush
    batch,        \* historian: the flush in progress
    committed,    \* historian: the flush's transaction has committed
    ledger,       \* database: sequences claimed in nav_frames_seq_seen
    rows,         \* database: rows per sequence
    faults

feederVars == <<seq, acked, cur, sentUpto>>
storeVars == <<queue, batch, committed>>
dbVars == <<ledger, rows>>

vars == <<trackerVars, feederVars, conn, out, storeVars, dbVars, faults>>

\* A record is persistable when it reaches the historian at all.
Persistable(n) == n \notin Unpersistable \cup Malformed

Stages == {"read", "admit", "drain", "retry", "handoff", "flood", "last"}

\* highest, acked and junk (unforwarded) are stream()'s locals; pend is the
\* record in its hands.
Idle == [up |-> FALSE, data |-> <<>>, acks |-> <<>>, highest |-> 0, acked |-> 0,
         junk |-> 0, pend |-> 0, stage |-> "read"]

Init ==
    /\ TrackerInit
    /\ seq = 0 /\ acked = 0 /\ cur = NoConn /\ sentUpto = 0
    /\ conn = [c \in Conns |-> Idle]
    /\ out = <<>> /\ queue = <<>> /\ batch = <<>> /\ committed = FALSE
    /\ ledger = {} /\ rows = [n \in 1..MaxSeq |-> 0]
    /\ faults = 0

Lower(a, b) == IF a < b THEN a ELSE b

\* Mutant: receipt is taken for durability.
AckOnReceipt(c) == conn[c].highest

\* The value sendAck selects.
AckValue(c) == Lower(conn[c].highest, Watermark(Feeder))

-----------------------------------------------------------------------------
(* The feeder.                                                             *)

\* producer_thread -> spool_append: the next sequence enters the spool.
Produce ==
    /\ seq < MaxSeq
    /\ seq' = seq + 1
    /\ UNCHANGED <<trackerVars, acked, cur, sentUpto, conn, out, storeVars, dbVars,
                   faults>>

\* serve_collector up to its loop: a fresh connection resumes after the last
\* acknowledged record.
Connect(c) ==
    /\ cur = NoConn
    /\ conn[c] = Idle
    /\ cur' = c
    /\ sentUpto' = acked
    /\ conn' = [conn EXCEPT ![c].up = TRUE]
    /\ UNCHANGED <<trackerVars, seq, acked, out, storeVars, dbVars, faults>>

\* disk_drain and the ring loop: the oldest unsent record goes out.  Bytes sent
\* to a stream the collector has closed are lost.
Send ==
    /\ cur # NoConn
    /\ sentUpto < seq
    /\ Len(conn[cur].data) < MaxInFlight
    /\ sentUpto' = sentUpto + 1
    /\ conn' = IF conn[cur].up
               THEN [conn EXCEPT ![cur].data = Append(@, sentUpto + 1)]
               ELSE conn
    /\ UNCHANGED <<trackerVars, seq, acked, cur, out, storeVars, dbVars, faults>>

\* reader_thread -> spool_ack: an ACK is clamped to what was assigned and never
\* lowers the pruning mark.
SpoolAck ==
    /\ cur # NoConn
    /\ conn[cur].acks # <<>>
    /\ LET n == Head(conn[cur].acks)
           m == IF n > seq THEN seq ELSE n
       IN  acked' = IF m > acked THEN m ELSE acked
    /\ conn' = [conn EXCEPT ![cur].acks = Tail(@)]
    /\ UNCHANGED <<trackerVars, seq, cur, sentUpto, out, storeVars, dbVars, faults>>

\* The feeder's end of the connection is gone.  What the collector has not yet
\* read stays in its socket buffer.
Leave ==
    /\ cur' = NoConn
    /\ conn' = [conn EXCEPT ![cur] = IF @.up THEN [@ EXCEPT !.acks = <<>>] ELSE Idle]
    /\ UNCHANGED <<trackerVars, seq, acked, sentUpto, out, storeVars, dbVars>>

\* A network failure as the feeder sees it.
ConnLost ==
    /\ cur # NoConn
    /\ faults < MaxFaults
    /\ Leave
    /\ faults' = faults + 1

\* The collector closed its end and the feeder's reader meets the end of the
\* stream behind the last ACK.  (Meeting a write error first is a ConnLost.)
Disconnected ==
    /\ cur # NoConn
    /\ ~conn[cur].up
    /\ conn[cur].acks = <<>>
    /\ Leave
    /\ UNCHANGED faults

\* Decode stage and historian have nothing left to settle.
PipelineEmpty == out = <<>> /\ queue = <<>> /\ batch = <<>>

\* Nothing the collector holds can still raise this connection's ACK.  The
\* stall watchdog waits ACK_STALL_S, which outlasts every step of the pipeline.
Quiet ==
    /\ conn[cur].data = <<>> /\ conn[cur].acks = <<>> /\ conn[cur].stage = "read"
    /\ AckValue(cur) <= conn[cur].acked
    /\ PipelineEmpty

\* serve_collector's ack-stall watchdog.
AckStall ==
    /\ cur # NoConn
    /\ sentUpto > acked
    /\ Quiet
    /\ Leave
    /\ UNCHANGED faults

-----------------------------------------------------------------------------
(* The collector's stream.                                                 *)

\* sendAck under stream's mutex.  Nobody reads an ACK written to a connection
\* the feeder has left.
Acking(c, r) ==
    IF AckValue(c) > r.acked
    THEN [r EXCEPT !.acked = AckValue(c),
                   !.acks = IF cur = c THEN Append(@, AckValue(c)) ELSE @]
    ELSE r

\* The connection's end in the collector is closed; the feeder may still read
\* the ACKs in flight.
Closed(c, r) == IF cur = c THEN [Idle EXCEPT !.acks = r.acks] ELSE Idle

Raise(r, n) == IF n > r.highest THEN n ELSE r.highest

\* The ACK ticker.
AckTick(c) ==
    /\ conn[c].up
    /\ AckValue(c) > conn[c].acked
    /\ conn' = [conn EXCEPT ![c] = Acking(c, @)]
    /\ UNCHANGED <<trackerVars, feederVars, out, storeVars, dbVars, faults>>

\* wire.ReadFrame and the validation switch: the next record is in hand.
ReadFrame(c) ==
    /\ conn[c].up
    /\ conn[c].stage = "read"
    /\ conn[c].data # <<>>
    /\ conn' = [conn EXCEPT ![c].pend = Head(conn[c].data),
                            ![c].data = Tail(@),
                            ![c].stage = "admit"]
    /\ UNCHANGED <<trackerVars, feederVars, out, storeVars, dbVars, faults>>

\* A receipt the tracker took: a malformed record ends here, any other goes on
\* to the decode stage.
Admitted(r) ==
    IF r.pend \in Malformed
    THEN [r EXCEPT !.highest = Raise(r, r.pend), !.pend = 0, !.junk = r.junk + 1,
                   !.stage = IF r.junk + 1 >= MaxUnforwarded THEN "flood" ELSE "read"]
    ELSE [r EXCEPT !.stage = "handoff"]

\* admitReceipt: the first call of Received, and the second after a drain.
AdmitReceipt(c) ==
    /\ conn[c].stage \in {"admit", "retry"}
    /\ Received(Feeder, conn[c].pend, Persistable(conn[c].pend))
    /\ conn' = [conn EXCEPT ![c] = Admitted(@)]
    /\ UNCHANGED <<feederVars, out, storeVars, dbVars, faults>>

\* Mutant: no backpressure, a refusal closes the connection at once.
AdmitRefusedAtOnce(c) ==
    /\ conn[c].stage \in {"admit", "retry"}
    /\ Refused(Feeder, conn[c].pend, Persistable(conn[c].pend))
    /\ conn' = [conn EXCEPT ![c] = Closed(c, Acking(c, @))]
    /\ UNCHANGED <<feederVars, out, storeVars, dbVars, faults>>

\* Refused at first: wait for the prefix to become durable.  Refused again:
\* acknowledge what a partial commit earned and close for replay.
AdmitRefused(c) ==
    /\ conn[c].stage \in {"admit", "retry"}
    /\ Refused(Feeder, conn[c].pend, Persistable(conn[c].pend))
    /\ conn' = [conn EXCEPT ![c] =
                   IF @.stage = "admit" THEN [@ EXCEPT !.stage = "drain"]
                                        ELSE Closed(c, Acking(c, @))]
    /\ UNCHANGED <<feederVars, out, storeVars, dbVars, faults>>

\* waitForDurable succeeded.
Drained(c) ==
    /\ conn[c].stage = "drain"
    /\ conn[c].highest # 0
    /\ Watermark(Feeder) >= conn[c].highest
    /\ conn' = [conn EXCEPT ![c] = [Acking(c, @) EXCEPT !.stage = "retry"]]
    /\ UNCHANGED <<trackerVars, feederVars, out, storeVars, dbVars, faults>>

\* waitForDurable times out because nothing more is coming or (a failure)
\* because the database is slower than writeTimeout.
WaitFails ==
    IF PipelineEmpty THEN UNCHANGED faults
                     ELSE faults < MaxFaults /\ faults' = faults + 1

\* This connection has delivered nothing to wait for, or the wait failed.
DrainTimeout(c) ==
    /\ conn[c].stage = "drain"
    /\ conn[c].highest # 0 => Watermark(Feeder) < conn[c].highest
    /\ IF conn[c].highest = 0 THEN UNCHANGED faults ELSE WaitFails
    /\ conn' = [conn EXCEPT ![c] = Closed(c, Acking(c, @))]
    /\ UNCHANGED <<trackerVars, feederVars, out, storeVars, dbVars>>

\* Too many unusable records in a row: acknowledge the resolved run and close.
FloodClose(c) ==
    /\ conn[c].stage = "flood"
    /\ conn' = [conn EXCEPT ![c] = Closed(c, Acking(c, @))]
    /\ UNCHANGED <<trackerVars, feederVars, out, storeVars, dbVars, faults>>

\* p.out <- f, after which the record counts for this connection's highest.  A
\* record whose reception check or update report panicked is the connection's
\* last.
Handoff(c) ==
    /\ conn[c].stage = "handoff"
    /\ Len(out) < OutMax
    /\ out' = Append(out, conn[c].pend)
    /\ conn' = [conn EXCEPT ![c].highest = Raise(conn[c], conn[c].pend),
                   ![c].pend = IF @ \in Closing THEN @ ELSE 0,
                   ![c].junk = 0,
                   ![c].stage = IF conn[c].pend \in Closing THEN "last" ELSE "read"]
    /\ UNCHANGED <<trackerVars, feederVars, storeVars, dbVars, faults>>

\* closeAfterDurable: the last record is durable, acknowledged and the
\* connection closed, or the wait times out and it is closed unacknowledged.
CloseAfterDurable(c) ==
    /\ conn[c].stage = "last"
    /\ \/ /\ Watermark(Feeder) >= conn[c].pend
          /\ conn' = [conn EXCEPT ![c] = Closed(c, Acking(c, @))]
          /\ UNCHANGED faults
       \/ /\ Watermark(Feeder) < conn[c].pend
          /\ WaitFails
          /\ conn' = [conn EXCEPT ![c] = Closed(c, @)]
    /\ UNCHANGED <<trackerVars, feederVars, out, storeVars, dbVars>>

\* Read error, EOF or idle timeout on a connection the feeder has left.
StreamEnds(c) ==
    /\ conn[c].up
    /\ cur # c
    /\ conn[c].stage = "read"
    /\ conn' = [conn EXCEPT ![c] = Idle]
    /\ UNCHANGED <<trackerVars, feederVars, out, storeVars, dbVars, faults>>

\* The session's context ends, by a policy transition or by the daemon's
\* teardown: the record in hand stays received, unforwarded and unacknowledged.
StreamCancelled(c) ==
    /\ conn[c].up
    /\ conn[c].stage \in {"read", "drain", "handoff", "last"}
    /\ faults < MaxFaults
    /\ faults' = faults + 1
    /\ conn' = [conn EXCEPT ![c] =
                   Closed(c, IF @.stage = "drain" THEN Acking(c, @) ELSE @)]
    /\ UNCHANGED <<trackerVars, feederVars, out, storeVars, dbVars>>

-----------------------------------------------------------------------------
(* Decode stage and historian.                                             *)

\* decodeLoop -> Store.Enqueue: observables stay live-only, a full queue drops
\* the newest record without a word to the tracker.
Decode ==
    /\ out # <<>>
    /\ out' = Tail(out)
    /\ queue' = IF Persistable(Head(out)) /\ Len(queue) < QueueMax
                THEN Append(queue, Head(out)) ELSE queue
    /\ UNCHANGED <<trackerVars, feederVars, conn, batch, committed, dbVars, faults>>

\* Store.Run hands the accumulated batch to flush.
Flush ==
    /\ batch = <<>>
    /\ queue # <<>>
    /\ batch' = queue
    /\ queue' = <<>>
    /\ UNCHANGED <<trackerVars, feederVars, conn, out, committed, dbVars, faults>>

\* Mutant: every frame of the batch is copied, claimed before or not.
CommitUnclaimed ==
    /\ batch # <<>> /\ ~committed
    /\ ledger' = ledger \cup {batch[i] : i \in DOMAIN batch}
    /\ rows' = [n \in 1..MaxSeq |->
                  IF \E i \in DOMAIN batch : batch[i] = n THEN rows[n] + 1 ELSE rows[n]]
    /\ committed' = TRUE
    /\ UNCHANGED <<trackerVars, feederVars, conn, out, queue, batch, faults>>

\* persistAtomicOnce: one transaction claims every sequence of the batch in the
\* ledger and copies the rows it claimed first.
Commit ==
    /\ batch # <<>> /\ ~committed
    /\ LET claimed == {batch[i] : i \in DOMAIN batch} \ ledger
       IN  /\ ledger' = ledger \cup claimed
           /\ rows' = [n \in 1..MaxSeq |-> IF n \in claimed THEN rows[n] + 1
                                                            ELSE rows[n]]
    /\ committed' = TRUE
    /\ UNCHANGED <<trackerVars, feederVars, conn, out, queue, batch, faults>>

\* notifyDurable: the tracker hears of the batch one frame at a time.
NotifyDurable ==
    /\ committed
    /\ Resolved(Feeder, Head(batch))
    /\ batch' = Tail(batch)
    /\ committed' = (Len(batch) > 1)
    /\ UNCHANGED <<feederVars, conn, out, queue, dbVars, faults>>

\* Mutant: a flush that gave up reports its batch as if it had committed.
FlushGivesUpAcking ==
    /\ batch # <<>> /\ ~committed
    /\ faults < MaxFaults
    /\ faults' = faults + 1
    /\ committed' = TRUE
    /\ UNCHANGED <<trackerVars, feederVars, conn, out, queue, batch, dbVars>>

\* persistSub out of attempts: the batch is dropped and stays unacknowledged.
FlushGivesUp ==
    /\ batch # <<>> /\ ~committed
    /\ faults < MaxFaults
    /\ faults' = faults + 1
    /\ batch' = <<>>
    /\ UNCHANGED <<trackerVars, feederVars, conn, out, queue, committed, dbVars>>

\* The collector process dies; the database and the feeder's spool remain.
Crash ==
    /\ faults < MaxFaults
    /\ faults' = faults + 1
    /\ NewDurableTracker
    /\ conn' = [c \in Conns |-> Closed(c, conn[c])]
    /\ out' = <<>> /\ queue' = <<>> /\ batch' = <<>> /\ committed' = FALSE
    /\ UNCHANGED <<feederVars, dbVars>>

-----------------------------------------------------------------------------
(* Everyone else.                                                          *)

\* Another observer's stream or the historian calls the tracker.
OtherObserver(k, n) ==
    /\ \/ Received(k, n, TRUE)
       \/ Refused(k, n, TRUE)
       \/ Resolved(k, n)
    /\ UNCHANGED <<feederVars, conn, out, storeVars, dbVars, faults>>

\* A quarter of an hour passes.  By then every record of a connected feeder has
\* been acknowledged or the stall watchdog has left the connection, and every
\* abandoned connection has run into the collector's idle timeout.
TimePasses ==
    /\ cur = NoConn \/ acked = seq
    /\ \A c \in Conns : conn[c].up =>
          c = cur /\ conn[c].data = <<>> /\ conn[c].stage = "read"
    /\ out = <<>>
    /\ Elapse
    /\ UNCHANGED <<feederVars, conn, out, storeVars, dbVars, faults>>

Stream(c) ==
    \/ ReadFrame(c) \/ AdmitReceipt(c) \/ AdmitRefused(c) \/ Drained(c)
    \/ DrainTimeout(c) \/ FloodClose(c) \/ Handoff(c) \/ CloseAfterDurable(c)
    \/ StreamEnds(c)

Next ==
    \/ Produce \/ Send \/ SpoolAck \/ ConnLost \/ Disconnected \/ AckStall
    \/ \E c \in Conns : Connect(c) \/ AckTick(c) \/ Stream(c) \/ StreamCancelled(c)
    \/ Decode \/ Flush \/ Commit \/ NotifyDurable \/ FlushGivesUp \/ Crash
    \/ \E k \in Others, n \in 1..OtherSeq : OtherObserver(k, n)
    \/ TimePasses

\* Threads, goroutines and tickers keep running, the feeder keeps reconnecting,
\* and a flush that is not made to fail commits.  Failures happen at most
\* MaxFaults times, so none of them is fair.
Fairness ==
    /\ WF_vars(Produce) /\ WF_vars(Send) /\ WF_vars(SpoolAck)
    /\ WF_vars(Disconnected) /\ WF_vars(AckStall)
    /\ WF_vars(\E c \in Conns : Connect(c))
    /\ \A c \in Conns : WF_vars(AckTick(c)) /\ WF_vars(Stream(c))
    /\ WF_vars(Decode) /\ WF_vars(Flush) /\ WF_vars(Commit) /\ WF_vars(NotifyDurable)

Spec == Init /\ [][Next]_vars

FairSpec == Spec /\ Fairness

-----------------------------------------------------------------------------
\* Every variable has its type, and no connection, queue or counter of the path
\* is ahead of the sequences the feeder has assigned.
TypeOK ==
    /\ TrackerTypeOK
    /\ seq \in 0..MaxSeq /\ acked \in 0..seq /\ sentUpto \in 0..seq
    /\ cur \in Conns \cup {NoConn}
    /\ conn \in [Conns -> [up : BOOLEAN, data : Seq(1..seq), acks : Seq(1..seq),
                           highest : 0..seq, acked : 0..seq, pend : 0..seq,
                           junk : 0..MaxUnforwarded, stage : Stages]]
    /\ out \in Seq(1..seq) /\ queue \in Seq(1..seq) /\ batch \in Seq(1..seq)
    /\ committed \in BOOLEAN
    /\ ledger \subseteq 1..seq
    /\ rows \in [1..MaxSeq -> Nat]
    /\ faults \in 0..MaxFaults

\* Records whose fate no crash, lost connection or database outage can change:
\* stored, or never meant to be stored.
Settled == ledger \cup Unpersistable \cup Malformed

\* The contract of the ACK (durable.go, type DurableTracker): a record the
\* feeder has deleted is committed or was never persistable.
AckedIsDurable == 1..acked \subseteq Settled

\* The historian's replay ledger: however often a record is replayed, across
\* reconnects, overlapping connections, dropped batches and crashes after the
\* commit, it has at most one row, and it has one exactly when it is claimed.
OneRowPerRecord ==
    \A n \in 1..MaxSeq : rows[n] = IF n \in ledger THEN 1 ELSE 0

\* Nothing on the path is ahead of the feeder, and no record is stored twice.
PathIsSound == TypeOK /\ OneRowPerRecord

\* Some copy of n is still on its way to the historian.
InPipeline(n) ==
    \/ \E c \in Conns : conn[c].pend = n /\ conn[c].stage # "last"
    \/ \E i \in DOMAIN out : out[i] = n
    \/ \E i \in DOMAIN queue : queue[i] = n
    \/ \E i \in DOMAIN batch : batch[i] = n

\* A hole can be filled: what the tracker waits for is on its way, or the feeder
\* still has the record and replays it.  This is what makes "a replayed
\* duplicate ... harmless" (comment of stream) also for the watermark.
HolesCanHeal ==
    \A n \in Pending(Feeder) : n > acked \/ InPipeline(n)

Delivery == INSTANCE ReliableDelivery WITH
                Exempt <- Unpersistable \cup Malformed,
                produced <- seq, settled <- Settled, released <- acked

\* The push path implements the abstract promise: the feeder's spool releases
\* only what is settled, in order, and what is settled stays settled.
ImplementsDelivery == Delivery!Spec

\* Every record the receiver produced is acknowledged for good.
AllAcked == seq = MaxSeq /\ acked = MaxSeq

\* The session is at its cap with holes that all lie above the next record the
\* feeder must replay.  That record is stored and no longer open, so the cap
\* refuses its replay, and the holes behind it are never replayed.
StuckAtCap ==
    /\ Feeder \in sessions
    /\ Cardinality(Pending(Feeder)) >= MaxPerSession
    /\ acked + 1 \in ledger
    /\ \A n \in Pending(Feeder) : n > acked + 1

\* "Reconnect can replay already tracked holes even at capacity and thereby
\* release budget after commit" (comment of Received): once failures stop,
\* everything is acknowledged.
EverythingAcked == <>[]AllAcked

\* What holds instead: once failures stop, everything is acknowledged, whatever
\* was dropped, refused or replayed on the way, or the session stays stuck at
\* its cap, until the pressure of another session or a restart of the collector
\* has it forgotten.  No other hole, refusal or lost ACK stops a session.
AckedOrStuckAtCap == <>[]AllAcked \/ <>[]StuckAtCap

=============================================================================

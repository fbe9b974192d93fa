------------------------- MODULE PushDeliveryProofs -------------------------
(***************************************************************************)
(* The push path for every number of connections, observers and records    *)
(* and for every budget: nothing on it runs ahead of the feeder, no record *)
(* is stored twice, and, as long as no receipt is orphaned by its own      *)
(* sweep, an acknowledged record is a settled one and the path implements  *)
(* ReliableDelivery.                                                       *)
(***************************************************************************)
EXTENDS PushDelivery, TrackerProofs

\* Both ends of a connection, no field ahead of the assigned sequences.
ConnType == [up : BOOLEAN, data : Seq(1..seq), acks : Seq(1..seq),
             highest : 0..seq, acked : 0..seq, pend : 0..seq,
             junk : 0..MaxUnforwarded, stage : Stages]

\* A stream that holds a record it has read and not yet forwarded.
InHand(r) == r.stage \in {"admit", "drain", "retry", "handoff"}

\* A stream below the limit of unusable records; the record it holds is one.
Steady(r) ==
    /\ r.stage # "flood" => r.junk < MaxUnforwarded
    /\ InHand(r) => r.pend # 0

\* What the historian is reporting to the tracker is in the database.
BatchHolds ==
    committed => batch # <<>> /\ \A i \in 1..Len(batch) : batch[i] \in ledger

PathInv ==
    /\ TypeOK
    /\ Books
    /\ OneRowPerRecord
    /\ BatchHolds
    /\ \A c \in Conns : Steady(conn[c])

-----------------------------------------------------------------------------
(* Sequences.                                                              *)

\* A sequence over a set is one over every larger set.
LEMMA SeqGrows ==
    ASSUME NEW S, NEW T, S \subseteq T, NEW s \in Seq(S)
    PROVE  s \in Seq(T)
<1>1. Len(s) \in Nat /\ s \in [1..Len(s) -> S]
  OBVIOUS
<1>2. s \in [1..Len(s) -> T]
  BY <1>1
<1>. QED BY <1>1, <1>2

\* The elements of a sequence.
LEMMA ElementsOf ==
    ASSUME NEW S, NEW s \in Seq(S)
    PROVE  Len(s) \in Nat /\ DOMAIN s = 1..Len(s) /\ \A i \in 1..Len(s) : s[i] \in S
OBVIOUS

\* What is left after the first element is taken.
LEMMA Taken ==
    ASSUME NEW S, NEW s \in Seq(S), s # <<>>
    PROVE  /\ Head(s) \in S /\ Head(s) = s[1] /\ Tail(s) \in Seq(S)
           /\ Len(s) \in Nat \ {0} /\ Len(Tail(s)) = Len(s) - 1
           /\ \A i \in 1..Len(Tail(s)) : Tail(s)[i] = s[i + 1]
OBVIOUS

\* What one more element adds.
LEMMA Appended ==
    ASSUME NEW S, NEW s \in Seq(S), NEW e \in S
    PROVE  /\ Append(s, e) \in Seq(S) /\ Append(s, e) # <<>>
           /\ Len(Append(s, e)) = Len(s) + 1
           /\ Append(s, e)[Len(s) + 1] = e
           /\ \A i \in 1..Len(s) : Append(s, e)[i] = s[i]
OBVIOUS

-----------------------------------------------------------------------------
(* What the stream makes of a connection.                                  *)

\* The types the steps below need, one fact each.
LEMMA Typed ==
    ASSUME TypeOK
    PROVE  /\ seq \in Nat /\ MaxSeq \in Nat /\ seq <= MaxSeq
           /\ acked \in 0..seq /\ sentUpto \in 0..seq
           /\ cur \in Conns \cup {NoConn}
           /\ conn \in [Conns -> ConnType]
           /\ faults \in 0..MaxFaults /\ MaxFaults \in Nat
BY DeliveryAssumption DEF TypeOK, ConnType

\* An unused connection.
LEMMA IdleHolds ==
    ASSUME TypeOK
    PROVE  Idle \in ConnType /\ Steady(Idle)
<1>1. seq \in Nat /\ MaxUnforwarded \in Nat \ {0}
  BY Typed, DeliveryAssumption
<1>2. <<>> \in Seq(1..seq)
  OBVIOUS
<1>. QED BY <1>1, <1>2 DEF Idle, ConnType, Steady, InHand, Stages

\* The value sendAck selects is a sequence this connection delivered.
LEMMA AckValueType ==
    ASSUME TypeOK, Books, NEW c \in Conns
    PROVE  /\ AckValue(c) \in 0..seq
           /\ AckValue(c) <= conn[c].highest /\ AckValue(c) <= Watermark(Feeder)
<1>1. Watermark(Feeder) \in Nat
  BY WatermarkBelow, DeliveryAssumption
<1>2. conn[c].highest \in 0..seq /\ seq \in Nat
  BY Typed DEF ConnType
<1>. QED BY <1>1, <1>2 DEF AckValue, Lower

\* sendAck touches the acknowledged mark and what is in flight to the feeder.
LEMMA AckingHolds ==
    ASSUME TypeOK, Books, NEW c \in Conns, NEW r \in ConnType
    PROVE  /\ Acking(c, r) \in ConnType
           /\ Acking(c, r).up = r.up /\ Acking(c, r).data = r.data
           /\ Acking(c, r).highest = r.highest /\ Acking(c, r).pend = r.pend
           /\ Acking(c, r).junk = r.junk /\ Acking(c, r).stage = r.stage
           /\ \/ Acking(c, r).acks = r.acks
              \/ AckValue(c) \in 1..seq /\ Acking(c, r).acks = Append(r.acks, AckValue(c))
<1>1. PICK v : v = AckValue(c)
  OBVIOUS
<1>2. v \in 0..seq /\ seq \in Nat
  BY <1>1, AckValueType, Typed
<1>3. CASE v > r.acked
  <2>1. PICK sent : sent = IF cur = c THEN Append(r.acks, v) ELSE r.acks
    OBVIOUS
  <2>2. v \in 1..seq /\ r.acked \in Nat
    BY <1>2, <1>3 DEF ConnType
  <2>3. r.acks \in Seq(1..seq)
    BY DEF ConnType
  <2>4. sent \in Seq(1..seq)
    BY <2>1, <2>2, <2>3, Appended
  <2>5. Acking(c, r) = [r EXCEPT !.acked = v, !.acks = sent]
    BY <1>1, <1>3, <2>1 DEF Acking
  <2>6. /\ Acking(c, r) \in ConnType
        /\ Acking(c, r).up = r.up /\ Acking(c, r).data = r.data
        /\ Acking(c, r).highest = r.highest /\ Acking(c, r).pend = r.pend
        /\ Acking(c, r).junk = r.junk /\ Acking(c, r).stage = r.stage
        /\ Acking(c, r).acks = sent
    BY <1>2, <2>4, <2>5 DEF ConnType
  <2>. QED BY <1>1, <2>1, <2>2, <2>6
<1>4. CASE ~(v > r.acked)
  <2>1. Acking(c, r) = r
    BY <1>1, <1>4 DEF Acking
  <2>. QED BY <2>1
<1>. QED BY <1>3, <1>4

\* The collector's end is closed: only ACKs in flight may remain.
LEMMA ClosedHolds ==
    ASSUME TypeOK, NEW c \in Conns, NEW r \in ConnType
    PROVE  /\ Closed(c, r) \in ConnType /\ Steady(Closed(c, r))
           /\ ~Closed(c, r).up /\ Closed(c, r).data = <<>>
           /\ Closed(c, r).highest = 0 /\ Closed(c, r).pend = 0
           /\ Closed(c, r).stage = "read"
           /\ Closed(c, r).acks \in {r.acks, <<>>}
<1>1. Idle \in ConnType /\ Steady(Idle)
  BY IdleHolds
<1>2. /\ ~Idle.up /\ Idle.data = <<>> /\ Idle.acks = <<>> /\ Idle.highest = 0
      /\ Idle.pend = 0 /\ Idle.junk = 0 /\ Idle.stage = "read"
  BY DEF Idle
<1>3. CASE cur = c
  <2>1. PICK next : next = [Idle EXCEPT !.acks = r.acks]
    OBVIOUS
  <2>2. r.acks \in Seq(1..seq)
    BY DEF ConnType
  <2>3. next \in ConnType /\ next.acks = r.acks
        /\ ~next.up /\ next.data = <<>> /\ next.highest = 0 /\ next.pend = 0
        /\ next.junk = 0 /\ next.stage = "read"
    BY <1>1, <1>2, <2>1, <2>2 DEF ConnType
  <2>4. Steady(next)
    BY <2>3, DeliveryAssumption DEF Steady, InHand
  <2>5. Closed(c, r) = next
    BY <1>3, <2>1 DEF Closed
  <2>. QED BY <2>3, <2>4, <2>5
<1>4. CASE cur # c
  BY <1>1, <1>2, <1>4 DEF Closed
<1>. QED BY <1>3, <1>4

-----------------------------------------------------------------------------
(* Nothing runs ahead of the feeder and no record is stored twice.         *)

\* A step that leaves the tracker alone leaves its books balanced.
LEMMA BooksStay ==
    ASSUME Books, UNCHANGED trackerVars
    PROVE  Books'
<1>1. UNCHANGED <<sessions, highest, holes, idle, outstanding, perSource, pruneIn>>
  BY DEF trackerVars
<1>. QED BY <1>1 DEF Books, TrackerTypeOK

\* A step of one connection, and of the feeder's marks.
LEMMA ConnStep ==
    ASSUME PathInv, Books', NEW c \in Conns, NEW r \in ConnType, Steady(r),
           conn' = [conn EXCEPT ![c] = r],
           UNCHANGED <<seq, storeVars, dbVars>>,
           acked' \in 0..seq, sentUpto' \in 0..seq, cur' \in Conns \cup {NoConn},
           out' \in Seq(1..seq), faults' \in 0..MaxFaults
    PROVE  PathInv'
<1>0. /\ TypeOK /\ OneRowPerRecord /\ BatchHolds
      /\ \A d \in Conns : Steady(conn[d])
  BY DEF PathInv
<1>1. seq' = seq /\ queue' = queue /\ batch' = batch /\ committed' = committed
      /\ ledger' = ledger /\ rows' = rows
  BY DEF storeVars, dbVars
<1>2. ConnType' = ConnType
  BY <1>1 DEF ConnType
<1>3. conn' \in [Conns -> ConnType] /\ \A d \in Conns : conn'[d] = IF d = c THEN r ELSE conn[d]
  BY <1>0, Typed
<1>4. \A d \in Conns : Steady(conn[d])'
  BY <1>0, <1>3 DEF Steady, InHand
<1>5. TypeOK'
  BY <1>0, <1>1, <1>2, <1>3 DEF TypeOK, ConnType, Books
<1>6. OneRowPerRecord' /\ BatchHolds'
  BY <1>0, <1>1 DEF OneRowPerRecord, BatchHolds
<1>. QED BY <1>4, <1>5, <1>6 DEF PathInv

\* A step of the decode stage, the historian or another observer.
LEMMA PipeStep ==
    ASSUME PathInv, Books', UNCHANGED <<feederVars, conn>>,
           out' \in Seq(1..seq), queue' \in Seq(1..seq), batch' \in Seq(1..seq),
           committed' \in BOOLEAN, ledger' \subseteq 1..seq,
           rows' \in [1..MaxSeq -> Nat], faults' \in 0..MaxFaults,
           OneRowPerRecord', BatchHolds'
    PROVE  PathInv'
<1>0. TypeOK /\ \A d \in Conns : Steady(conn[d])
  BY DEF PathInv
<1>1. seq' = seq /\ acked' = acked /\ cur' = cur /\ sentUpto' = sentUpto /\ conn' = conn
  BY DEF feederVars
<1>2. TypeOK'
  BY <1>0, <1>1 DEF TypeOK, Books
<1>3. \A d \in Conns : Steady(conn[d])'
  BY <1>0, <1>1 DEF Steady, InHand
<1>. QED BY <1>2, <1>3 DEF PathInv

\* The receiver assigns the next sequence.
LEMMA ProduceKeeps ==
    ASSUME PathInv, Produce
    PROVE  PathInv'
<1>0. TypeOK /\ Books /\ OneRowPerRecord /\ BatchHolds /\ \A d \in Conns : Steady(conn[d])
  BY DEF PathInv
<1>1. /\ seq' = seq + 1 /\ seq < MaxSeq
      /\ UNCHANGED <<trackerVars, acked, cur, sentUpto, conn, out, queue, batch,
                     committed, ledger, rows, faults>>
  BY DEF Produce, storeVars, dbVars
<1>2. seq \in Nat /\ MaxSeq \in Nat /\ 1..seq \subseteq 1..seq' /\ 0..seq \subseteq 0..seq'
      /\ seq' \in 0..MaxSeq
  BY <1>0, <1>1, Typed
<1>3. \A s \in Seq(1..seq) : s \in Seq(1..seq')
  BY <1>2, SeqGrows
<1>4. ASSUME NEW c \in Conns PROVE conn[c] \in ConnType'
  <2>1. conn[c] \in ConnType
    BY <1>0, Typed
  <2>2. /\ conn[c].data \in Seq(1..seq') /\ conn[c].acks \in Seq(1..seq')
        /\ conn[c].highest \in 0..seq' /\ conn[c].acked \in 0..seq' /\ conn[c].pend \in 0..seq'
    BY <1>2, <1>3, <2>1 DEF ConnType
  <2>. QED BY <2>1, <2>2 DEF ConnType
<1>5. conn' \in [Conns -> ConnType']
  BY <1>0, <1>1, <1>4, Typed
<1>6. Books'
  BY <1>0, <1>1, BooksStay
<1>7. /\ acked \in 0..seq /\ sentUpto \in 0..seq /\ out \in Seq(1..seq)
      /\ queue \in Seq(1..seq) /\ batch \in Seq(1..seq) /\ ledger \subseteq 1..seq
  BY <1>0 DEF TypeOK
<1>8. /\ acked' \in 0..seq' /\ sentUpto' \in 0..seq' /\ out' \in Seq(1..seq')
      /\ queue' \in Seq(1..seq') /\ batch' \in Seq(1..seq') /\ ledger' \subseteq 1..seq'
  BY <1>1, <1>2, <1>3, <1>7
<1>9. TypeOK'
  BY <1>0, <1>1, <1>2, <1>5, <1>6, <1>8 DEF TypeOK, ConnType, Books
<1>10. OneRowPerRecord' /\ BatchHolds' /\ \A d \in Conns : Steady(conn[d])'
  BY <1>0, <1>1 DEF OneRowPerRecord, BatchHolds, Steady, InHand
<1>. QED BY <1>6, <1>9, <1>10 DEF PathInv

\* serve_collector starts a connection.
LEMMA ConnectKeeps ==
    ASSUME PathInv, NEW c \in Conns, Connect(c)
    PROVE  PathInv'
<1>0. TypeOK /\ Books
  BY DEF PathInv
<1>1. PICK r : r = [Idle EXCEPT !.up = TRUE]
  OBVIOUS
<1>2. Idle \in ConnType /\ Steady(Idle) /\ conn[c] = Idle
  BY <1>0, IdleHolds DEF Connect
<1>3. r \in ConnType /\ r.stage = Idle.stage /\ r.junk = Idle.junk
  BY <1>1, <1>2 DEF ConnType
<1>4. Steady(r)
  BY <1>2, <1>3 DEF Steady, InHand, Idle
<1>5. conn' = [conn EXCEPT ![c] = r]
  BY <1>0, <1>1, <1>2, Typed DEF Connect
<1>6. /\ UNCHANGED trackerVars /\ UNCHANGED <<seq, storeVars, dbVars>>
      /\ acked' = acked /\ sentUpto' = acked /\ cur' = c /\ out' = out /\ faults' = faults
  BY DEF Connect
<1>7. /\ acked' \in 0..seq /\ sentUpto' \in 0..seq /\ cur' \in Conns \cup {NoConn}
      /\ out' \in Seq(1..seq) /\ faults' \in 0..MaxFaults
  BY <1>0, <1>6 DEF TypeOK
<1>8. Books'
  BY <1>0, <1>6, BooksStay
<1>. QED BY <1>3, <1>4, <1>5, <1>6, <1>7, <1>8, ConnStep

\* disk_drain and the ring loop send the oldest unsent record.
LEMMA SendKeeps ==
    ASSUME PathInv, Send
    PROVE  PathInv'
<1>0. TypeOK /\ Books /\ \A d \in Conns : Steady(conn[d])
  BY DEF PathInv
<1>1. cur \in Conns /\ conn \in [Conns -> ConnType] /\ conn[cur] \in ConnType
  BY <1>0, Typed DEF Send
<1>2. seq \in Nat /\ sentUpto \in 0..seq /\ sentUpto < seq
  BY <1>0, Typed DEF Send
<1>3. sentUpto + 1 \in 1..seq /\ sentUpto + 1 \in 0..seq
  BY <1>2
<1>4. PICK r : r = IF conn[cur].up THEN [conn[cur] EXCEPT !.data = Append(conn[cur].data, sentUpto + 1)]
                                   ELSE conn[cur]
  OBVIOUS
<1>5. Append(conn[cur].data, sentUpto + 1) \in Seq(1..seq)
  BY <1>1, <1>3, Appended DEF ConnType
<1>6. r \in ConnType /\ r.stage = conn[cur].stage /\ r.junk = conn[cur].junk /\ r.pend = conn[cur].pend
  BY <1>1, <1>4, <1>5 DEF ConnType
<1>7. Steady(r)
  BY <1>0, <1>1, <1>6 DEF Steady, InHand
<1>8. conn' = [conn EXCEPT ![cur] = r]
  BY <1>1, <1>4 DEF Send
<1>9. /\ UNCHANGED trackerVars /\ UNCHANGED <<seq, storeVars, dbVars>>
      /\ acked' = acked /\ sentUpto' = sentUpto + 1 /\ cur' = cur /\ out' = out /\ faults' = faults
  BY DEF Send
<1>10. /\ acked' \in 0..seq /\ sentUpto' \in 0..seq /\ cur' \in Conns \cup {NoConn}
       /\ out' \in Seq(1..seq) /\ faults' \in 0..MaxFaults
  BY <1>0, <1>3, <1>9 DEF TypeOK
<1>11. Books'
  BY <1>0, <1>9, BooksStay
<1>. QED BY <1>1, <1>6, <1>7, <1>8, <1>9, <1>10, <1>11, ConnStep

\* The value an ACK raises the pruning mark to.
LEMMA AckTaken ==
    ASSUME PathInv, SpoolAck
    PROVE  /\ cur \in Conns /\ conn[cur] \in ConnType /\ conn[cur].acks # <<>>
           /\ Head(conn[cur].acks) \in 1..seq
           /\ acked' \in {acked, Head(conn[cur].acks)} /\ acked' >= acked
           /\ acked' \in 0..seq
<1>0. TypeOK
  BY DEF PathInv
<1>1. cur \in Conns /\ conn[cur] \in ConnType /\ conn[cur].acks # <<>>
  BY <1>0, Typed DEF SpoolAck
<1>2. PICK n : n = Head(conn[cur].acks)
  OBVIOUS
<1>3. n \in 1..seq
  BY <1>1, <1>2, Taken DEF ConnType
<1>4. acked \in 0..seq /\ seq \in Nat
  BY <1>0, Typed
<1>5. acked' = IF (IF n > seq THEN seq ELSE n) > acked THEN (IF n > seq THEN seq ELSE n) ELSE acked
  BY <1>2 DEF SpoolAck
<1>6. acked' \in {acked, n} /\ acked' >= acked /\ acked' \in 0..seq
  BY <1>3, <1>4, <1>5
<1>. QED BY <1>1, <1>2, <1>3, <1>6

\* spool_ack takes the next ACK.
LEMMA SpoolAckKeeps ==
    ASSUME PathInv, SpoolAck
    PROVE  PathInv'
<1>0. TypeOK /\ Books /\ \A d \in Conns : Steady(conn[d])
  BY DEF PathInv
<1>1. /\ cur \in Conns /\ conn \in [Conns -> ConnType] /\ conn[cur] \in ConnType
      /\ conn[cur].acks # <<>> /\ acked' \in 0..seq
  BY <1>0, Typed, AckTaken
<1>2. PICK r : r = [conn[cur] EXCEPT !.acks = Tail(conn[cur].acks)]
  OBVIOUS
<1>3. Tail(conn[cur].acks) \in Seq(1..seq)
  BY <1>1, Taken DEF ConnType
<1>4. r \in ConnType /\ r.stage = conn[cur].stage /\ r.junk = conn[cur].junk /\ r.pend = conn[cur].pend
  BY <1>1, <1>2, <1>3 DEF ConnType
<1>5. Steady(r)
  BY <1>0, <1>1, <1>4 DEF Steady, InHand
<1>6. conn' = [conn EXCEPT ![cur] = r]
  BY <1>1, <1>2 DEF SpoolAck
<1>7. /\ UNCHANGED trackerVars /\ UNCHANGED <<seq, storeVars, dbVars>>
      /\ sentUpto' = sentUpto /\ cur' = cur /\ out' = out /\ faults' = faults
  BY DEF SpoolAck
<1>8. /\ sentUpto' \in 0..seq /\ cur' \in Conns \cup {NoConn}
      /\ out' \in Seq(1..seq) /\ faults' \in 0..MaxFaults
  BY <1>0, <1>7 DEF TypeOK
<1>9. Books'
  BY <1>0, <1>7, BooksStay
<1>. QED BY <1>1, <1>4, <1>5, <1>6, <1>7, <1>8, <1>9, ConnStep

\* The feeder's end of a connection goes, for whatever reason.
LEMMA LeaveKeeps ==
    ASSUME PathInv, cur # NoConn, Leave, faults' \in 0..MaxFaults
    PROVE  PathInv'
<1>0. TypeOK /\ Books /\ \A d \in Conns : Steady(conn[d])
  BY DEF PathInv
<1>1. cur \in Conns /\ conn \in [Conns -> ConnType] /\ conn[cur] \in ConnType
  BY <1>0, Typed
<1>2. PICK r : r = IF conn[cur].up THEN [conn[cur] EXCEPT !.acks = <<>>] ELSE Idle
  OBVIOUS
<1>3. r \in ConnType /\ Steady(r)
  <2>1. CASE conn[cur].up
    <3>1. <<>> \in Seq(1..seq)
      OBVIOUS
    <3>2. r \in ConnType /\ r.stage = conn[cur].stage /\ r.junk = conn[cur].junk /\ r.pend = conn[cur].pend
      BY <1>1, <1>2, <2>1, <3>1 DEF ConnType
    <3>. QED BY <1>0, <1>1, <3>2 DEF Steady, InHand
  <2>2. CASE ~conn[cur].up
    BY <1>0, <1>2, <2>2, IdleHolds
  <2>. QED BY <2>1, <2>2
<1>4. conn' = [conn EXCEPT ![cur] = r]
  BY <1>1, <1>2 DEF Leave
<1>5. /\ UNCHANGED trackerVars /\ UNCHANGED <<seq, storeVars, dbVars>>
      /\ acked' = acked /\ sentUpto' = sentUpto /\ cur' = NoConn /\ out' = out
  BY DEF Leave
<1>6. /\ acked' \in 0..seq /\ sentUpto' \in 0..seq /\ cur' \in Conns \cup {NoConn}
      /\ out' \in Seq(1..seq)
  BY <1>0, <1>5 DEF TypeOK
<1>7. Books'
  BY <1>0, <1>5, BooksStay
<1>. QED BY <1>1, <1>3, <1>4, <1>5, <1>6, <1>7, ConnStep

\* A step of the collector's stream: one connection changes, and perhaps the
\* tracker and the decode channel.
LEMMA StreamStep ==
    ASSUME PathInv, Books', NEW c \in Conns, NEW r \in ConnType, Steady(r),
           conn' = [conn EXCEPT ![c] = r], UNCHANGED <<feederVars, storeVars, dbVars>>,
           out' \in Seq(1..seq), faults' \in 0..MaxFaults
    PROVE  PathInv'
<1>1. UNCHANGED <<seq, storeVars, dbVars>> /\ acked' = acked /\ sentUpto' = sentUpto /\ cur' = cur
  BY DEF feederVars
<1>2. acked' \in 0..seq /\ sentUpto' \in 0..seq /\ cur' \in Conns \cup {NoConn}
  BY <1>1 DEF PathInv, TypeOK
<1>. QED BY <1>1, <1>2, ConnStep

\* A step of the stream that leaves the tracker and the channel alone.
LEMMA StreamOnly ==
    ASSUME PathInv, NEW c \in Conns, NEW r \in ConnType, Steady(r),
           conn' = [conn EXCEPT ![c] = r],
           UNCHANGED <<trackerVars, feederVars, out, storeVars, dbVars>>,
           faults' \in 0..MaxFaults
    PROVE  PathInv'
<1>1. Books'
  BY BooksStay DEF PathInv
<1>2. out' \in Seq(1..seq)
  BY DEF PathInv, TypeOK
<1>. QED BY <1>1, <1>2, StreamStep

\* The stream closes its end, after a last ACK or without one.
LEMMA CloseKeeps ==
    ASSUME PathInv, Books', NEW c \in Conns,
           \/ conn' = [conn EXCEPT ![c] = Closed(c, Acking(c, conn[c]))]
           \/ conn' = [conn EXCEPT ![c] = Closed(c, conn[c])],
           UNCHANGED <<feederVars, out, storeVars, dbVars>>,
           faults' \in 0..MaxFaults
    PROVE  PathInv'
<1>0. TypeOK /\ Books /\ out' \in Seq(1..seq)
  BY DEF PathInv, TypeOK
<1>1. PICK r \in {Acking(c, conn[c]), conn[c]} : conn' = [conn EXCEPT ![c] = Closed(c, r)]
  OBVIOUS
<1>2. r \in ConnType
  BY <1>0, <1>1, AckingHolds, Typed
<1>3. Closed(c, r) \in ConnType /\ Steady(Closed(c, r))
  BY <1>0, <1>2, ClosedHolds
<1>. QED BY <1>0, <1>1, <1>3, StreamStep

\* The ACK ticker.
LEMMA AckTickKeeps ==
    ASSUME PathInv, NEW c \in Conns, AckTick(c)
    PROVE  PathInv'
<1>0. TypeOK /\ Books /\ conn[c] \in ConnType /\ Steady(conn[c]) /\ faults' \in 0..MaxFaults
  BY Typed DEF PathInv, AckTick
<1>1. PICK r : r = Acking(c, conn[c])
  OBVIOUS
<1>2. r \in ConnType /\ r.stage = conn[c].stage /\ r.junk = conn[c].junk /\ r.pend = conn[c].pend
  BY <1>0, <1>1, AckingHolds
<1>3. Steady(r)
  BY <1>0, <1>2 DEF Steady, InHand
<1>4. conn' = [conn EXCEPT ![c] = r] /\ UNCHANGED <<trackerVars, feederVars, out, storeVars, dbVars>>
  BY <1>1 DEF AckTick
<1>. QED BY <1>0, <1>2, <1>3, <1>4, StreamOnly

\* The next record comes into the stream's hands.
LEMMA ReadFrameKeeps ==
    ASSUME PathInv, NEW c \in Conns, ReadFrame(c)
    PROVE  PathInv'
<1>0. /\ TypeOK /\ conn \in [Conns -> ConnType] /\ conn[c] \in ConnType
      /\ Steady(conn[c]) /\ faults' \in 0..MaxFaults
  BY Typed DEF PathInv, ReadFrame
<1>1. PICK r : r = [conn[c] EXCEPT !.pend = Head(conn[c].data), !.data = Tail(conn[c].data),
                                   !.stage = "admit"]
  OBVIOUS
<1>2. Head(conn[c].data) \in 1..seq /\ Tail(conn[c].data) \in Seq(1..seq)
  BY <1>0, Taken DEF ReadFrame, ConnType
<1>3. seq \in Nat
  BY <1>0, Typed
<1>4. Head(conn[c].data) \in 0..seq /\ Head(conn[c].data) # 0
  BY <1>2, <1>3
<1>5. /\ r \in ConnType /\ r.stage = "admit" /\ r.junk = conn[c].junk
      /\ r.pend = Head(conn[c].data)
  BY <1>0, <1>1, <1>2, <1>4 DEF ConnType, Stages
<1>6. conn[c].stage = "read"
  BY DEF ReadFrame
<1>7. Steady(r)
  BY <1>0, <1>4, <1>5, <1>6 DEF Steady, InHand
<1>8. conn' = [conn EXCEPT ![c] = r] /\ UNCHANGED <<trackerVars, feederVars, out, storeVars, dbVars>>
  BY <1>0, <1>1 DEF ReadFrame
<1>. QED BY <1>0, <1>5, <1>7, <1>8, StreamOnly

\* What becomes of a record the tracker took.
LEMMA AdmittedHolds ==
    ASSUME TypeOK, NEW r \in ConnType, Steady(r), r.stage \in {"admit", "retry"}
    PROVE  /\ Admitted(r) \in ConnType /\ Steady(Admitted(r))
           /\ Admitted(r).up = r.up /\ Admitted(r).data = r.data /\ Admitted(r).acks = r.acks
           /\ IF r.pend \in Malformed
              THEN /\ Admitted(r).stage \in {"read", "flood"}
                   /\ Admitted(r).highest = Raise(r, r.pend)
              ELSE /\ Admitted(r).stage = "handoff" /\ Admitted(r).pend = r.pend
                   /\ Admitted(r).highest = r.highest
<1>1. /\ r.pend \in 0..seq /\ r.highest \in 0..seq /\ r.junk \in 0..MaxUnforwarded
      /\ r.junk < MaxUnforwarded /\ seq \in Nat /\ MaxUnforwarded \in Nat \ {0}
  BY Typed, DeliveryAssumption DEF ConnType, Steady
<1>2. CASE r.pend \in Malformed
  <2>1. PICK full \in BOOLEAN : full <=> r.junk + 1 >= MaxUnforwarded
    OBVIOUS
  <2>2. PICK stage : stage = IF full THEN "flood" ELSE "read"
    OBVIOUS
  <2>3. Admitted(r) = [r EXCEPT !.highest = Raise(r, r.pend), !.pend = 0, !.junk = r.junk + 1,
                                !.stage = stage]
    BY <1>2, <2>1, <2>2 DEF Admitted
  <2>4. Raise(r, r.pend) \in 0..seq
    BY <1>1 DEF Raise
  <2>5. r.junk + 1 \in 0..MaxUnforwarded /\ 0 \in 0..seq
    BY <1>1
  <2>6. /\ Admitted(r) \in ConnType /\ Admitted(r).stage = stage /\ Admitted(r).junk = r.junk + 1
        /\ Admitted(r).up = r.up /\ Admitted(r).data = r.data /\ Admitted(r).acks = r.acks
        /\ Admitted(r).highest = Raise(r, r.pend)
    BY <2>2, <2>3, <2>4, <2>5 DEF ConnType, Stages
  <2>7. Steady(Admitted(r))
    BY <1>1, <2>1, <2>2, <2>6 DEF Steady, InHand
  <2>. QED BY <1>2, <2>2, <2>6, <2>7
<1>3. CASE r.pend \notin Malformed
  <2>1. Admitted(r) = [r EXCEPT !.stage = "handoff"]
    BY <1>3 DEF Admitted
  <2>2. /\ Admitted(r) \in ConnType /\ Admitted(r).stage = "handoff" /\ Admitted(r).pend = r.pend
        /\ Admitted(r).up = r.up /\ Admitted(r).data = r.data /\ Admitted(r).acks = r.acks
        /\ Admitted(r).highest = r.highest /\ Admitted(r).junk = r.junk
    BY <2>1 DEF ConnType, Stages
  <2>3. Steady(Admitted(r))
    BY <1>1, <2>2 DEF Steady, InHand
  <2>. QED BY <1>3, <2>2, <2>3
<1>. QED BY <1>2, <1>3

\* admitReceipt, the tracker takes the record.
LEMMA AdmitReceiptKeeps ==
    ASSUME PathInv, NEW c \in Conns, AdmitReceipt(c)
    PROVE  PathInv' /\ SilentLose /\ AgesReset /\ idle'[Feeder] = 0
<1>0. /\ TypeOK /\ Books /\ conn[c] \in ConnType /\ Steady(conn[c])
      /\ out' \in Seq(1..seq) /\ faults' \in 0..MaxFaults
  BY Typed DEF PathInv, TypeOK, AdmitReceipt
<1>1. conn[c].pend \in Nat \ {0} /\ conn[c].stage \in {"admit", "retry"}
  BY <1>0, Typed DEF AdmitReceipt, Steady, InHand, ConnType
<1>2. Feeder \in Keys /\ Persistable(conn[c].pend) \in BOOLEAN
      /\ Received(Feeder, conn[c].pend, Persistable(conn[c].pend))
  BY DeliveryAssumption DEF AdmitReceipt, Persistable
<1>3. Books' /\ SilentLose /\ AgesReset /\ idle'[Feeder] = 0
  BY <1>0, <1>1, <1>2, ReceivedKeeps
<1>4. Admitted(conn[c]) \in ConnType /\ Steady(Admitted(conn[c]))
  BY <1>0, <1>1, AdmittedHolds
<1>5. conn' = [conn EXCEPT ![c] = Admitted(conn[c])] /\ UNCHANGED <<feederVars, storeVars, dbVars>>
  BY DEF AdmitReceipt
<1>. QED BY <1>0, <1>3, <1>4, <1>5, StreamStep

\* admitReceipt, the tracker has no room.
LEMMA AdmitRefusedKeeps ==
    ASSUME PathInv, NEW c \in Conns, AdmitRefused(c)
    PROVE  PathInv' /\ SilentLose /\ AgesReset
<1>0. /\ TypeOK /\ Books /\ conn[c] \in ConnType /\ Steady(conn[c])
      /\ out' \in Seq(1..seq) /\ faults' \in 0..MaxFaults
  BY Typed DEF PathInv, TypeOK, AdmitRefused
<1>1. conn[c].pend \in Nat \ {0} /\ conn[c].stage \in {"admit", "retry"}
  BY <1>0, Typed DEF AdmitRefused, Steady, InHand, ConnType
<1>2. Feeder \in Keys /\ Persistable(conn[c].pend) \in BOOLEAN
      /\ Refused(Feeder, conn[c].pend, Persistable(conn[c].pend))
  BY DeliveryAssumption DEF AdmitRefused, Persistable
<1>3. Books' /\ SilentLose /\ AgesReset
  BY <1>0, <1>1, <1>2, RefusedKeeps
<1>4. UNCHANGED <<feederVars, out, storeVars, dbVars>>
  BY DEF AdmitRefused
<1>5. CASE conn[c].stage = "admit"
  <2>1. PICK r : r = [conn[c] EXCEPT !.stage = "drain"]
    OBVIOUS
  <2>2. r \in ConnType /\ r.stage = "drain" /\ r.junk = conn[c].junk /\ r.pend = conn[c].pend
    BY <1>0, <2>1 DEF ConnType, Stages
  <2>3. Steady(r)
    BY <1>0, <1>1, <1>5, <2>2 DEF Steady, InHand
  <2>4. conn' = [conn EXCEPT ![c] = r]
    BY <1>5, <2>1 DEF AdmitRefused
  <2>. QED BY <1>0, <1>3, <1>4, <2>2, <2>3, <2>4, StreamStep
<1>6. CASE conn[c].stage # "admit"
  <2>1. conn' = [conn EXCEPT ![c] = Closed(c, Acking(c, conn[c]))]
    BY <1>6 DEF AdmitRefused
  <2>. QED BY <1>0, <1>3, <1>4, <2>1, CloseKeeps
<1>. QED BY <1>5, <1>6

\* waitForDurable succeeded: the receipt is tried once more.
LEMMA DrainedKeeps ==
    ASSUME PathInv, NEW c \in Conns, Drained(c)
    PROVE  PathInv'
<1>0. TypeOK /\ Books /\ conn[c] \in ConnType /\ Steady(conn[c]) /\ faults' \in 0..MaxFaults
  BY Typed DEF PathInv, Drained
<1>1. PICK a : a = Acking(c, conn[c])
  OBVIOUS
<1>2. PICK r : r = [a EXCEPT !.stage = "retry"]
  OBVIOUS
<1>3. a \in ConnType /\ a.junk = conn[c].junk /\ a.pend = conn[c].pend
  BY <1>0, <1>1, AckingHolds
<1>4. r \in ConnType /\ r.stage = "retry" /\ r.junk = conn[c].junk /\ r.pend = conn[c].pend
  BY <1>2, <1>3 DEF ConnType, Stages
<1>5. Steady(r)
  BY <1>0, <1>4 DEF Steady, InHand, Drained
<1>6. conn' = [conn EXCEPT ![c] = r] /\ UNCHANGED <<trackerVars, feederVars, out, storeVars, dbVars>>
  BY <1>1, <1>2 DEF Drained
<1>. QED BY <1>0, <1>4, <1>5, <1>6, StreamOnly

\* The record goes to the decode stage.
LEMMA HandoffKeeps ==
    ASSUME PathInv, NEW c \in Conns, Handoff(c)
    PROVE  PathInv'
<1>0. /\ TypeOK /\ Books /\ conn \in [Conns -> ConnType] /\ conn[c] \in ConnType
      /\ Steady(conn[c]) /\ faults' \in 0..MaxFaults /\ out \in Seq(1..seq)
  BY Typed DEF PathInv, TypeOK, Handoff
<1>1. /\ conn[c].pend \in 1..seq /\ conn[c].pend \in 0..seq /\ conn[c].highest \in 0..seq
      /\ seq \in Nat /\ MaxUnforwarded \in Nat \ {0} /\ 0 \in 0..seq
      /\ 0 \in 0..MaxUnforwarded
  BY <1>0, Typed, DeliveryAssumption DEF Handoff, Steady, InHand, ConnType
<1>2. Raise(conn[c], conn[c].pend) \in 0..seq
  BY <1>1 DEF Raise
<1>3. PICK pend, stage :
         /\ pend = IF conn[c].pend \in Closing THEN conn[c].pend ELSE 0
         /\ stage = IF conn[c].pend \in Closing THEN "last" ELSE "read"
  OBVIOUS
<1>4. PICK r : r = [conn[c] EXCEPT !.highest = Raise(conn[c], conn[c].pend), !.pend = pend,
                                   !.junk = 0, !.stage = stage]
  OBVIOUS
<1>5. pend \in 0..seq /\ stage \in {"read", "last"}
  BY <1>1, <1>3
<1>6. r \in ConnType /\ r.stage = stage /\ r.junk = 0
  BY <1>0, <1>1, <1>2, <1>4, <1>5 DEF ConnType, Stages
<1>7. Steady(r)
  BY <1>1, <1>5, <1>6 DEF Steady, InHand
<1>8. conn' = [conn EXCEPT ![c] = r]
  BY <1>0, <1>3, <1>4 DEF Handoff
<1>9. /\ UNCHANGED trackerVars /\ UNCHANGED <<feederVars, storeVars, dbVars>>
      /\ out' = Append(out, conn[c].pend)
  BY DEF Handoff
<1>10. out' \in Seq(1..seq)
  BY <1>0, <1>1, <1>9, Appended
<1>11. Books'
  BY <1>0, <1>9, BooksStay
<1>. QED BY <1>0, <1>6, <1>7, <1>8, <1>9, <1>10, <1>11, StreamStep

\* A wait that fails is one of the bounded failures, or none.
LEMMA WaitFaults ==
    ASSUME TypeOK, WaitFails
    PROVE  faults' \in 0..MaxFaults
BY Typed DEF WaitFails

\* Every way the stream ends.
LEMMA EndKeeps ==
    ASSUME PathInv, NEW c \in Conns,
           \/ DrainTimeout(c) \/ FloodClose(c) \/ CloseAfterDurable(c)
           \/ StreamEnds(c) \/ StreamCancelled(c)
    PROVE  PathInv'
<1>0. TypeOK /\ Books /\ faults \in 0..MaxFaults /\ MaxFaults \in Nat
  BY Typed DEF PathInv
<1>1. UNCHANGED <<feederVars, out, storeVars, dbVars>> /\ UNCHANGED trackerVars
  BY DEF DrainTimeout, FloodClose, CloseAfterDurable, StreamEnds, StreamCancelled
<1>2. Books'
  BY <1>0, <1>1, BooksStay
<1>3. faults' \in 0..MaxFaults
  BY <1>0, WaitFaults DEF DrainTimeout, FloodClose, CloseAfterDurable, StreamEnds, StreamCancelled
<1>4. CASE StreamEnds(c)
  <2>1. conn' = [conn EXCEPT ![c] = Idle] /\ UNCHANGED <<trackerVars, feederVars, out, storeVars, dbVars>>
    BY <1>1, <1>4 DEF StreamEnds
  <2>2. Idle \in ConnType /\ Steady(Idle)
    BY <1>0, IdleHolds
  <2>. QED BY <1>3, <2>1, <2>2, StreamOnly
<1>5. CASE ~StreamEnds(c)
  <2>1. \/ conn' = [conn EXCEPT ![c] = Closed(c, Acking(c, conn[c]))]
        \/ conn' = [conn EXCEPT ![c] = Closed(c, conn[c])]
    BY <1>5 DEF DrainTimeout, FloodClose, CloseAfterDurable, StreamCancelled
  <2>. QED BY <1>1, <1>2, <1>3, <2>1, CloseKeeps
<1>. QED BY <1>4, <1>5

\* Decode, flush and the flush that gives up.
LEMMA QueueKeeps ==
    ASSUME PathInv, Decode \/ Flush \/ FlushGivesUp
    PROVE  PathInv'
<1>0. /\ TypeOK /\ Books /\ OneRowPerRecord /\ BatchHolds
      /\ out \in Seq(1..seq) /\ queue \in Seq(1..seq) /\ batch \in Seq(1..seq)
      /\ committed \in BOOLEAN /\ ledger \subseteq 1..seq /\ rows \in [1..MaxSeq -> Nat]
  BY DEF PathInv, TypeOK
<1>1. UNCHANGED trackerVars /\ UNCHANGED <<feederVars, conn>> /\ ledger' = ledger /\ rows' = rows
      /\ committed' = committed
  BY DEF Decode, Flush, FlushGivesUp, dbVars
<1>2. Books' /\ OneRowPerRecord'
  BY <1>0, <1>1, BooksStay DEF OneRowPerRecord
<1>3. faults' \in 0..MaxFaults
  BY <1>0, Typed DEF Decode, Flush, FlushGivesUp
<1>4. CASE Decode
  <2>1. Head(out) \in 1..seq /\ Tail(out) \in Seq(1..seq)
    BY <1>0, <1>4, Taken DEF Decode
  <2>2. Append(queue, Head(out)) \in Seq(1..seq)
    BY <1>0, <2>1, Appended
  <2>3. out' \in Seq(1..seq) /\ queue' \in Seq(1..seq) /\ batch' = batch
    BY <1>0, <1>4, <2>1, <2>2 DEF Decode
  <2>4. BatchHolds'
    BY <1>0, <1>1, <2>3 DEF BatchHolds
  <2>. QED BY <1>0, <1>1, <1>2, <1>3, <2>3, <2>4, PipeStep
<1>5. CASE Flush \/ FlushGivesUp
  <2>1. <<>> \in Seq(1..seq)
    OBVIOUS
  <2>2. out' \in Seq(1..seq) /\ queue' \in Seq(1..seq) /\ batch' \in Seq(1..seq)
    BY <1>0, <1>5, <2>1 DEF Flush, FlushGivesUp
  <2>3. ~committed
    BY <1>0, <1>5 DEF Flush, FlushGivesUp, BatchHolds
  <2>4. BatchHolds'
    BY <1>1, <2>3 DEF BatchHolds
  <2>. QED BY <1>0, <1>1, <1>2, <1>3, <2>2, <2>4, PipeStep
<1>. QED BY <1>4, <1>5

\* One transaction claims the batch and copies what it claimed first.
LEMMA CommitKeeps ==
    ASSUME PathInv, Commit
    PROVE  /\ PathInv' /\ ledger \subseteq ledger' /\ ledger' \subseteq 1..seq
<1>0. /\ TypeOK /\ Books /\ OneRowPerRecord
      /\ out \in Seq(1..seq) /\ queue \in Seq(1..seq) /\ batch \in Seq(1..seq)
      /\ ledger \subseteq 1..seq /\ rows \in [1..MaxSeq -> Nat]
  BY DEF PathInv, TypeOK
<1>1. PICK claimed : claimed = {batch[i] : i \in DOMAIN batch} \ ledger
  OBVIOUS
<1>2. /\ ledger' = ledger \cup claimed
      /\ rows' = [n \in 1..MaxSeq |-> IF n \in claimed THEN rows[n] + 1 ELSE rows[n]]
      /\ committed' = TRUE /\ batch # <<>>
      /\ UNCHANGED trackerVars /\ UNCHANGED <<feederVars, conn, out, queue, batch, faults>>
  BY <1>1 DEF Commit
<1>3. DOMAIN batch = 1..Len(batch) /\ \A i \in 1..Len(batch) : batch[i] \in 1..seq
  BY <1>0, ElementsOf
<1>4. ledger' \subseteq 1..seq
  BY <1>0, <1>1, <1>2, <1>3
<1>5. rows' \in [1..MaxSeq -> Nat]
  BY <1>0, <1>2
<1>6. OneRowPerRecord'
  <2> SUFFICES ASSUME NEW n \in 1..MaxSeq PROVE rows'[n] = IF n \in ledger' THEN 1 ELSE 0
    BY DEF OneRowPerRecord
  <2>1. rows[n] = IF n \in ledger THEN 1 ELSE 0
    BY <1>0 DEF OneRowPerRecord
  <2>2. rows'[n] = IF n \in claimed THEN rows[n] + 1 ELSE rows[n]
    BY <1>2
  <2>3. n \in claimed => n \notin ledger
    BY <1>1
  <2>. QED BY <1>2, <2>1, <2>2, <2>3
<1>7. BatchHolds'
  BY <1>1, <1>2, <1>3 DEF BatchHolds
<1>8. Books' /\ faults' \in 0..MaxFaults
  BY <1>0, <1>2, BooksStay, Typed
<1>9. PathInv'
  BY <1>0, <1>2, <1>4, <1>5, <1>6, <1>7, <1>8, PipeStep
<1>. QED BY <1>2, <1>4, <1>9

\* notifyDurable tells the tracker of one frame of a committed batch.
LEMMA NotifyKeeps ==
    ASSUME PathInv, NotifyDurable
    PROVE  /\ PathInv' /\ AgesReset /\ Head(batch) \in ledger
           /\ \A h \in holes : h \in holes' \/ h = <<Feeder, Head(batch)>>
<1>0. /\ TypeOK /\ Books /\ OneRowPerRecord /\ BatchHolds
      /\ out \in Seq(1..seq) /\ queue \in Seq(1..seq) /\ batch \in Seq(1..seq)
      /\ ledger \subseteq 1..seq /\ rows \in [1..MaxSeq -> Nat]
  BY DEF PathInv, TypeOK
<1>1. /\ batch # <<>> /\ \A i \in 1..Len(batch) : batch[i] \in ledger
      /\ Feeder \in Keys
  BY <1>0, DeliveryAssumption DEF NotifyDurable, BatchHolds
<1>2. /\ Head(batch) \in 1..seq /\ Head(batch) = batch[1] /\ Tail(batch) \in Seq(1..seq)
      /\ Len(batch) \in Nat \ {0} /\ Len(Tail(batch)) = Len(batch) - 1
      /\ \A i \in 1..Len(Tail(batch)) : Tail(batch)[i] = batch[i + 1]
  BY <1>0, <1>1, Taken
<1>3. Head(batch) \in ledger /\ Head(batch) \in Nat
  BY <1>1, <1>2
<1>4. /\ Resolved(Feeder, Head(batch)) /\ batch' = Tail(batch)
      /\ committed' = (Len(batch) > 1) /\ ledger' = ledger /\ rows' = rows
      /\ UNCHANGED <<feederVars, conn, out, queue, faults>>
  BY DEF NotifyDurable, dbVars
<1>5. /\ Books' /\ AgesReset /\ \A h \in holes : h \in holes' \/ h = <<Feeder, Head(batch)>>
  BY <1>0, <1>1, <1>3, <1>4, ResolvedKeeps
<1>6. BatchHolds'
  <2> SUFFICES ASSUME Len(batch) > 1
               PROVE  Tail(batch) # <<>> /\ \A i \in 1..Len(Tail(batch)) : Tail(batch)[i] \in ledger
    BY <1>4 DEF BatchHolds
  <2>1. Len(Tail(batch)) >= 1
    BY <1>2
  <2>2. \A i \in 1..Len(Tail(batch)) : i + 1 \in 1..Len(batch)
    BY <1>2
  <2>3. \A i \in 1..Len(Tail(batch)) : Tail(batch)[i] \in ledger
    BY <1>1, <1>2, <2>2
  <2>4. Tail(batch) # <<>>
    BY <2>1
  <2>. QED BY <2>3, <2>4
<1>7. OneRowPerRecord' /\ faults' \in 0..MaxFaults /\ committed' \in BOOLEAN
  BY <1>0, <1>4, Typed DEF OneRowPerRecord
<1>8. PathInv'
  BY <1>0, <1>2, <1>4, <1>5, <1>6, <1>7, PipeStep
<1>. QED BY <1>3, <1>5, <1>8

\* The collector process dies.
LEMMA CrashKeeps ==
    ASSUME PathInv, Crash
    PROVE  PathInv'
<1>0. /\ TypeOK /\ OneRowPerRecord /\ conn \in [Conns -> ConnType]
  BY Typed DEF PathInv
<1>1. /\ NewDurableTracker /\ conn' = [c \in Conns |-> Closed(c, conn[c])]
      /\ out' = <<>> /\ queue' = <<>> /\ batch' = <<>> /\ committed' = FALSE
      /\ seq' = seq /\ acked' = acked /\ cur' = cur /\ sentUpto' = sentUpto
      /\ ledger' = ledger /\ rows' = rows
  BY DEF Crash, feederVars, dbVars
<1>2. \A c \in Conns : Closed(c, conn[c]) \in ConnType /\ Steady(Closed(c, conn[c]))
  BY <1>0, ClosedHolds
<1>3. ConnType' = ConnType
  BY <1>1 DEF ConnType
<1>4. conn' \in [Conns -> ConnType'] /\ \A c \in Conns : Steady(conn'[c])
  BY <1>1, <1>2, <1>3
<1>5. faults' \in 0..MaxFaults
  BY <1>0, Typed DEF Crash
<1>6. Books'
  BY <1>1, RestartedBooks
<1>7. <<>> \in Seq(1..seq)
  OBVIOUS
<1>8. TypeOK'
  BY <1>0, <1>1, <1>4, <1>5, <1>6, <1>7 DEF TypeOK, ConnType, Books
<1>9. OneRowPerRecord' /\ BatchHolds'
  BY <1>0, <1>1 DEF OneRowPerRecord, BatchHolds
<1>. QED BY <1>4, <1>6, <1>8, <1>9 DEF PathInv, Steady, InHand

\* Another observer's stream, or the clock.
LEMMA OthersKeep ==
    ASSUME PathInv, NEW k \in Others, NEW n \in 1..OtherSeq, OtherObserver(k, n)
    PROVE  /\ PathInv' /\ AgesReset
           /\ \A h \in holes : h \in holes' \/ idle[h[1]] > 0 \/ h[1] # Feeder
<1>0. /\ TypeOK /\ Books /\ OneRowPerRecord /\ BatchHolds
      /\ out \in Seq(1..seq) /\ queue \in Seq(1..seq) /\ batch \in Seq(1..seq)
      /\ committed \in BOOLEAN /\ ledger \subseteq 1..seq /\ rows \in [1..MaxSeq -> Nat]
  BY DEF PathInv, TypeOK
<1>1. k \in Keys /\ k # Feeder /\ n \in Nat \ {0} /\ n \in Nat /\ TRUE \in BOOLEAN
  BY DeliveryAssumption DEF Others
<1>2. /\ UNCHANGED <<feederVars, conn>> /\ out' = out /\ queue' = queue /\ batch' = batch
      /\ committed' = committed /\ ledger' = ledger /\ rows' = rows /\ faults' = faults
  BY DEF OtherObserver, storeVars, dbVars
<1>4. /\ Books' /\ AgesReset
      /\ \A h \in holes : h \in holes' \/ idle[h[1]] > 0 \/ h[1] # Feeder
  <2>1. CASE Received(k, n, TRUE)
    BY <1>0, <1>1, <2>1, ReceivedKeeps DEF SilentLose
  <2>2. CASE Refused(k, n, TRUE)
    BY <1>0, <1>1, <2>2, RefusedKeeps DEF SilentLose
  <2>3. CASE Resolved(k, n)
    <3>1. Books' /\ AgesReset /\ \A h \in holes : h \in holes' \/ h = <<k, n>>
      BY <1>0, <1>1, <2>3, ResolvedKeeps
    <3>. QED BY <1>1, <3>1
  <2>. QED BY <2>1, <2>2, <2>3 DEF OtherObserver
<1>5. OneRowPerRecord' /\ BatchHolds' /\ faults' \in 0..MaxFaults
  BY <1>0, <1>2, Typed DEF OneRowPerRecord, BatchHolds
<1>6. PathInv'
  BY <1>0, <1>2, <1>4, <1>5, PipeStep
<1>. QED BY <1>4, <1>6

\* A quarter of an hour passes.
LEMMA TimeKeeps ==
    ASSUME PathInv, TimePasses
    PROVE  PathInv' /\ holes' = holes
<1>0. /\ TypeOK /\ Books /\ OneRowPerRecord /\ BatchHolds
      /\ out \in Seq(1..seq) /\ queue \in Seq(1..seq) /\ batch \in Seq(1..seq)
      /\ committed \in BOOLEAN /\ ledger \subseteq 1..seq /\ rows \in [1..MaxSeq -> Nat]
  BY DEF PathInv, TypeOK
<1>1. /\ UNCHANGED <<feederVars, conn>> /\ out' = out /\ queue' = queue /\ batch' = batch
      /\ committed' = committed /\ ledger' = ledger /\ rows' = rows /\ faults' = faults
      /\ Elapse
  BY DEF TimePasses, storeVars, dbVars
<1>2. Books' /\ holes' = holes
  BY <1>0, <1>1, ElapseKeeps
<1>3. OneRowPerRecord' /\ BatchHolds' /\ faults' \in 0..MaxFaults
  BY <1>0, <1>1, Typed DEF OneRowPerRecord, BatchHolds
<1>4. PathInv'
  BY <1>0, <1>1, <1>2, <1>3, PipeStep
<1>. QED BY <1>2, <1>4

\* A step that changes nothing.
LEMMA StutterKeeps ==
    ASSUME PathInv, UNCHANGED vars
    PROVE  PathInv'
<1>0. /\ TypeOK /\ Books /\ OneRowPerRecord /\ BatchHolds
      /\ out \in Seq(1..seq) /\ queue \in Seq(1..seq) /\ batch \in Seq(1..seq)
      /\ committed \in BOOLEAN /\ ledger \subseteq 1..seq /\ rows \in [1..MaxSeq -> Nat]
  BY DEF PathInv, TypeOK
<1>1. /\ UNCHANGED <<feederVars, conn>> /\ out' = out /\ queue' = queue /\ batch' = batch
      /\ committed' = committed /\ ledger' = ledger /\ rows' = rows /\ faults' = faults
      /\ UNCHANGED trackerVars
  BY DEF vars, storeVars, dbVars
<1>2. Books' /\ OneRowPerRecord' /\ BatchHolds' /\ faults' \in 0..MaxFaults
  BY <1>0, <1>1, BooksStay, Typed DEF OneRowPerRecord, BatchHolds
<1>. QED BY <1>0, <1>1, <1>2, PipeStep

\* Every step of the path, of the historian and of the others keeps PathInv.
LEMMA PathStep == PathInv /\ [Next]_vars => PathInv'
<1> SUFFICES ASSUME PathInv, [Next]_vars PROVE PathInv'
  OBVIOUS
<1>0. TypeOK
  BY DEF PathInv
<1>1. CASE Produce \/ Send \/ SpoolAck
  BY <1>1, ProduceKeeps, SendKeeps, SpoolAckKeeps
<1>2. CASE ConnLost \/ Disconnected \/ AckStall
  <2>1. cur # NoConn /\ Leave /\ faults' \in 0..MaxFaults
    BY <1>0, <1>2, Typed DEF ConnLost, Disconnected, AckStall
  <2>. QED BY <2>1, LeaveKeeps
<1>3. ASSUME NEW c \in Conns, Connect(c) \/ AckTick(c) \/ Stream(c) \/ StreamCancelled(c)
      PROVE  PathInv'
  BY <1>3, ConnectKeeps, AckTickKeeps, ReadFrameKeeps, AdmitReceiptKeeps, AdmitRefusedKeeps,
     DrainedKeeps, HandoffKeeps, EndKeeps DEF Stream
<1>4. CASE Decode \/ Flush \/ FlushGivesUp
  BY <1>4, QueueKeeps
<1>5. CASE Commit \/ NotifyDurable \/ Crash \/ TimePasses
  BY <1>5, CommitKeeps, NotifyKeeps, CrashKeeps, TimeKeeps
<1>6. ASSUME NEW k \in Others, NEW n \in 1..OtherSeq, OtherObserver(k, n)
      PROVE  PathInv'
  BY <1>6, OthersKeep
<1>7. CASE UNCHANGED vars
  BY <1>7, StutterKeeps
<1>. QED BY <1>1, <1>2, <1>3, <1>4, <1>5, <1>6, <1>7 DEF Next

\* An empty path.
LEMMA PathInit == Init => PathInv
<1> SUFFICES ASSUME Init PROVE PathInv
  OBVIOUS
<1>1. Books
  BY EmptyBooks DEF Init
<1>2. /\ seq = 0 /\ acked = 0 /\ cur = NoConn /\ sentUpto = 0
      /\ conn = [c \in Conns |-> Idle] /\ out = <<>> /\ queue = <<>> /\ batch = <<>>
      /\ committed = FALSE /\ ledger = {} /\ rows = [n \in 1..MaxSeq |-> 0] /\ faults = 0
  BY DEF Init
<1>3. MaxUnforwarded \in Nat \ {0} /\ MaxSeq \in Nat /\ MaxFaults \in Nat
  BY DeliveryAssumption
<1>4. <<>> \in Seq(1..seq)
  OBVIOUS
<1>5. Idle \in ConnType /\ Steady(Idle)
  BY <1>2, <1>3, <1>4 DEF Idle, ConnType, Steady, InHand, Stages
<1>6. conn \in [Conns -> ConnType] /\ \A c \in Conns : Steady(conn[c])
  BY <1>2, <1>5
<1>7. TypeOK
  <2>0. seq = 0 /\ acked = 0 /\ sentUpto = 0 /\ faults = 0 /\ ledger = {}
    BY <1>2
  <2>1. /\ seq \in 0..MaxSeq /\ acked \in 0..seq /\ sentUpto \in 0..seq /\ ledger \subseteq 1..seq
        /\ faults \in 0..MaxFaults
    BY <1>3, <2>0
  <2>4. cur \in Conns \cup {NoConn} /\ committed \in BOOLEAN
    BY <1>2
  <2>2. rows \in [1..MaxSeq -> Nat]
    BY <1>2
  <2>3. out \in Seq(1..seq) /\ queue \in Seq(1..seq) /\ batch \in Seq(1..seq)
    BY <1>2, <1>4
  <2>. QED BY <1>1, <1>6, <2>1, <2>2, <2>3, <2>4 DEF TypeOK, ConnType, Books
<1>8. OneRowPerRecord /\ BatchHolds
  BY <1>2 DEF OneRowPerRecord, BatchHolds
<1>. QED BY <1>1, <1>6, <1>7, <1>8 DEF PathInv

\* stream, spool_ack, the tracker and persistAtomicOnce together: whatever
\* crashes, drops, replays or is refused, no mark, buffer or queue runs ahead of
\* what the feeder assigned, and no record has two rows or a row without its
\* claim.
THEOREM NothingStoredTwice == Spec => []PathIsSound
<1>1. Init => PathInv
  BY PathInit
<1>2. PathInv /\ [Next]_vars => PathInv'
  BY PathStep
<1>3. PathInv => PathIsSound
  BY DEF PathInv, PathIsSound
<1>. QED BY <1>1, <1>2, <1>3, PTL DEF Spec

-----------------------------------------------------------------------------
(* An acknowledged record is settled.                                      *)

\* The orphaned receipt: Received says the record is taken, but the sweep it
\* made took the session, and with it the record, out of the table.
Orphans ==
    \E c \in Conns : /\ AdmitReceipt(c)
                     /\ Persistable(conn[c].pend)
                     /\ <<Feeder, conn[c].pend>> \notin holes'

\* How far a stream vouches for the prefix of the feeder's records.
Mark(r, a) == IF r.highest > a THEN r.highest ELSE a

\* Sequences arrive without a gap: what a stream holds and what is buffered
\* behind it continue the prefix it vouches for, or repeat a part of it.
InOrder(r, a) ==
    /\ ~r.up => r.stage = "read" /\ r.data = <<>> /\ r.highest = 0
    /\ InHand(r) => r.pend <= Mark(r, a) + 1
    /\ \A i \in 1..Len(r.data) : r.data[i] = r.data[1] + i - 1
    /\ r.data # <<>> => IF InHand(r) THEN r.data[1] = r.pend + 1
                                     ELSE r.data[1] <= Mark(r, a) + 1

\* The feeder's sent mark is the end of what it sent on its connection.
SentMatches(r, a, upto) ==
    r.up => IF r.data # <<>> THEN upto = r.data[1] + Len(r.data) - 1
            ELSE IF InHand(r) THEN upto = r.pend ELSE upto <= Mark(r, a)

\* The record is settled or the tracker knows it is not.
Tracked(n) == n \in Settled \/ <<Feeder, n>> \in holes

\* All a stream vouches for is tracked, the record it is about to hand off too.
OnBooks(r) ==
    /\ \A n \in (acked + 1)..r.highest : Tracked(n)
    /\ r.stage = "handoff" => Tracked(r.pend)

\* Every ACK on its way to the feeder is earned.
Earned(r) == \A i \in 1..Len(r.acks) : 1..r.acks[i] \subseteq Settled

\* A stream that vouches for nothing the feeder still holds.
Dormant(r) == r.highest <= acked /\ r.stage \in {"read", "admit", "drain", "retry"}

\* A session is silent only when none of its streams needs its holes: this is
\* why a sweep, which forgets silent sessions alone, costs no acknowledged
\* record.
ConnInv(c) ==
    /\ InOrder(conn[c], acked)
    /\ cur = c => SentMatches(conn[c], acked, sentUpto)
    /\ OnBooks(conn[c])
    /\ Earned(conn[c])
    /\ idle[Feeder] > 0 => Dormant(conn[c])

DeliveryInv ==
    /\ PathInv
    /\ 1..acked \subseteq Settled
    /\ \A c \in Conns : ConnInv(c)

\* What every step but a crash and the clock does: nothing becomes unsettled, no
\* mark goes back, and a hole is lost only if it was settled or the session was
\* silent.
Keeps ==
    /\ Settled \subseteq Settled'
    /\ acked' \in Nat /\ acked' >= acked
    /\ \A n \in Nat : <<Feeder, n>> \in holes
          => <<Feeder, n>> \in holes' \/ n \in Settled' \/ idle[Feeder] > 0
    /\ idle'[Feeder] \in {idle[Feeder], 0}

\* The facts of a connection that the lemmas below use.
LEMMA ConnFacts ==
    ASSUME TypeOK, NEW c \in Conns
    PROVE  /\ conn[c] \in ConnType
           /\ conn[c].data \in Seq(1..seq) /\ conn[c].acks \in Seq(1..seq)
           /\ conn[c].highest \in Nat /\ conn[c].pend \in Nat /\ conn[c].up \in BOOLEAN
           /\ acked \in Nat /\ sentUpto \in Nat /\ seq \in Nat
<1>1. conn[c] \in ConnType /\ seq \in Nat /\ acked \in 0..seq /\ sentUpto \in 0..seq
  BY Typed
<1>2. /\ conn[c].data \in Seq(1..seq) /\ conn[c].acks \in Seq(1..seq) /\ conn[c].up \in BOOLEAN
      /\ conn[c].highest \in 0..seq /\ conn[c].pend \in 0..seq
  BY <1>1 DEF ConnType
<1>3. conn[c].highest \in Nat /\ conn[c].pend \in Nat /\ acked \in Nat /\ sentUpto \in Nat
  BY <1>1, <1>2
<1>. QED BY <1>1, <1>2, <1>3

\* A higher acknowledged mark leaves the order intact.
LEMMA OrderGrows ==
    ASSUME NEW r, r.highest \in Nat, r.pend \in Nat, r.data \in Seq(Nat),
           NEW a \in Nat, NEW b \in Nat, b >= a, InOrder(r, a)
    PROVE  /\ InOrder(r, b)
           /\ \A upto \in Nat : SentMatches(r, a, upto) => SentMatches(r, b, upto)
<1>1. Mark(r, a) \in Nat /\ Mark(r, b) \in Nat /\ Mark(r, a) <= Mark(r, b)
  BY DEF Mark
<1>2. CASE InHand(r)
  <2>1. r.pend <= Mark(r, a) + 1 => r.pend <= Mark(r, b) + 1
    BY <1>1
  <2>. QED BY <1>2, <2>1 DEF InOrder, SentMatches
<1>3. CASE ~InHand(r)
  <2>1. r.data # <<>> => r.data[1] \in Nat
    OBVIOUS
  <2>3. r.data[1] \in Nat => (r.data[1] <= Mark(r, a) + 1 => r.data[1] <= Mark(r, b) + 1)
    BY <1>1
  <2>2. \A upto \in Nat : upto <= Mark(r, a) => upto <= Mark(r, b)
    BY <1>1
  <2>. QED BY <1>3, <2>1, <2>2, <2>3 DEF InOrder, SentMatches
<1>. QED BY <1>2, <1>3

\* What was tracked stays tracked unless the session was silent, and then
\* nothing depends on it.
LEMMA StillTracked ==
    ASSUME DeliveryInv, Keeps, NEW c \in Conns, NEW r, r = conn[c]
    PROVE  /\ \A n \in (acked' + 1)..r.highest : Tracked(n)'
           /\ r.stage = "handoff" => Tracked(r.pend)'
<1>0. PICK a, b, h, p : a = acked /\ b = acked' /\ h = conn[c].highest /\ p = conn[c].pend
  OBVIOUS
<1>1. a \in Nat /\ b \in Nat /\ h \in Nat /\ p \in Nat /\ b >= a
  BY <1>0, ConnFacts DEF DeliveryInv, PathInv, Keeps
<1>2. ConnInv(c)
  BY DEF DeliveryInv
<1>3. SUFFICES (\A n \in (b + 1)..h : Tracked(n)') /\ (r.stage = "handoff" => Tracked(p)')
  BY <1>0
<1>4. CASE idle[Feeder] > 0
  <2>1. h <= a /\ conn[c].stage # "handoff"
    BY <1>0, <1>2, <1>4 DEF ConnInv, Dormant
  <2>2. ASSUME NEW n \in (b + 1)..h PROVE FALSE
    BY <1>1, <2>1
  <2>. QED BY <2>1, <2>2
<1>5. CASE ~(idle[Feeder] > 0)
  <2>1. ASSUME NEW n \in Nat, Tracked(n) PROVE Tracked(n)'
    BY <1>5, <2>1 DEF Keeps, Tracked
  <2>2. (\A n \in (a + 1)..h : Tracked(n)) /\ (conn[c].stage = "handoff" => Tracked(p))
    BY <1>0, <1>2 DEF ConnInv, OnBooks
  <2>3. ASSUME NEW n \in (b + 1)..h PROVE Tracked(n)'
    <3>1. n \in Nat /\ n \in (a + 1)..h
      BY <1>1
    <3>. QED BY <2>1, <2>2, <3>1
  <2>. QED BY <1>1, <2>1, <2>2, <2>3
<1>. QED BY <1>4, <1>5

\* ACKs stay earned.
LEMMA StillEarned ==
    ASSUME NEW r, Earned(r), Settled \subseteq Settled'
    PROVE  \A i \in 1..Len(r.acks) : 1..r.acks[i] \subseteq Settled'
BY DEF Earned

\* A connection the step does not touch.
LEMMA Untouched ==
    ASSUME DeliveryInv, Keeps, NEW c \in Conns, conn'[c] = conn[c],
           cur' = c => cur = c /\ sentUpto' = sentUpto
    PROVE  ConnInv(c)'
<1>0. /\ conn[c].highest \in Nat /\ acked \in Nat /\ acked' \in Nat /\ acked' >= acked
      /\ idle[Feeder] \in Nat /\ sentUpto \in Nat
  BY ConnFacts, DeliveryAssumption DEF DeliveryInv, PathInv, Keeps, Books, TrackerTypeOK
<1>1. ConnInv(c)
  BY DEF DeliveryInv
<1>2. PICK r : r = conn[c]
  OBVIOUS
<1>3. InOrder(r, acked) /\ r.highest \in Nat /\ r.pend \in Nat /\ r.data \in Seq(Nat)
  BY <1>1, <1>2, ConnFacts, SeqGrows DEF ConnInv, DeliveryInv, PathInv
<1>4. InOrder(r, acked') /\ \A upto \in Nat : SentMatches(r, acked, upto) => SentMatches(r, acked', upto)
  BY <1>0, <1>3, OrderGrows
<1>5. InOrder(conn[c], acked)'
  BY <1>2, <1>4
<1>6. (cur = c => SentMatches(conn[c], acked, sentUpto))'
  <2> SUFFICES ASSUME cur' = c PROVE SentMatches(r, acked', sentUpto)
    BY <1>2
  <2>1. SentMatches(r, acked, sentUpto)
    BY <1>1, <1>2 DEF ConnInv
  <2>. QED BY <1>0, <1>4, <2>1
<1>7. OnBooks(conn[c])'
  BY <1>2, StillTracked DEF OnBooks
<1>8. Earned(conn[c])'
  BY <1>1, StillEarned DEF ConnInv, Keeps, Earned
<1>9. (idle[Feeder] > 0 => Dormant(conn[c]))'
  <2>1. idle'[Feeder] > 0 => idle[Feeder] > 0
    BY <1>0 DEF Keeps
  <2>. QED BY <1>0, <1>1, <2>1 DEF ConnInv, Dormant
<1>. QED BY <1>5, <1>6, <1>7, <1>8, <1>9 DEF ConnInv

\* A step that touches one connection.
LEMMA Touched ==
    ASSUME DeliveryInv, PathInv', Keeps, 1..acked' \subseteq Settled',
           NEW c \in Conns, NEW r, conn' = [conn EXCEPT ![c] = r],
           \A d \in Conns : d # c /\ cur' = d => cur = d /\ sentUpto' = sentUpto,
           InOrder(r, acked'), cur' = c => SentMatches(r, acked', sentUpto'),
           OnBooks(r)', Earned(r)', idle'[Feeder] > 0 => Dormant(r)'
    PROVE  DeliveryInv'
<1>1. conn \in [Conns -> ConnType]
  BY Typed DEF DeliveryInv, PathInv
<1>2. ASSUME NEW d \in Conns, d # c PROVE ConnInv(d)'
  <2>1. conn'[d] = conn[d]
    BY <1>1, <1>2
  <2>. QED BY <1>2, <2>1, Untouched
<1>3. ConnInv(c)'
  <2>1. conn'[c] = r
    BY <1>1
  <2>2. InOrder(conn[c], acked)' /\ (cur = c => SentMatches(conn[c], acked, sentUpto))'
    BY <2>1
  <2>3. OnBooks(conn[c])' /\ Earned(conn[c])' /\ (idle[Feeder] > 0 => Dormant(conn[c]))'
    BY <2>1 DEF OnBooks, Earned, Dormant
  <2>. QED BY <2>2, <2>3 DEF ConnInv
<1>. QED BY <1>2, <1>3 DEF DeliveryInv

\* A step that touches none.
LEMMA NoneTouched ==
    ASSUME DeliveryInv, PathInv', Keeps,
           acked' = acked, cur' = cur, sentUpto' = sentUpto, conn' = conn
    PROVE  DeliveryInv'
<1>1. 1..acked' \subseteq Settled'
  BY DEF DeliveryInv, Keeps
<1>2. \A c \in Conns : ConnInv(c)'
  BY Untouched
<1>. QED BY <1>1, <1>2 DEF DeliveryInv

\* A step that leaves the tracker, the feeder's mark and the database alone.
LEMMA KeepsAll ==
    ASSUME DeliveryInv, UNCHANGED trackerVars, acked' = acked, ledger' = ledger
    PROVE  Keeps /\ Settled' = Settled /\ 1..acked' \subseteq Settled' /\ idle' = idle
<1>1. holes' = holes /\ idle' = idle
  BY DEF trackerVars
<1>2. Settled' = Settled
  BY DEF Settled
<1>3. acked \in Nat
  BY Typed DEF DeliveryInv, PathInv
<1>. QED BY <1>1, <1>2, <1>3 DEF Keeps, DeliveryInv

\* sendAck: the prefix up to the value it selects is settled, because all of it
\* is settled or tracked and the value is below everything tracked.
LEMMA AckIsEarned ==
    ASSUME DeliveryInv, NEW c \in Conns
    PROVE  1..AckValue(c) \subseteq Settled
<1>0. TypeOK /\ Books /\ ConnInv(c) /\ 1..acked \subseteq Settled
  BY DEF DeliveryInv, PathInv
<1>1. PICK v, a, h, w : v = AckValue(c) /\ a = acked /\ h = conn[c].highest /\ w = Watermark(Feeder)
  OBVIOUS
<1>2. v \in Nat /\ a \in Nat /\ h \in Nat /\ w \in Nat /\ v <= h /\ v <= w
  BY <1>0, <1>1, AckValueType, ConnFacts, WatermarkBelow, DeliveryAssumption
<1>3. \A n \in Nat : <<Feeder, n>> \in holes => w < n
  BY <1>0, <1>1, WatermarkBelow, DeliveryAssumption
<1>4. SUFFICES ASSUME NEW n \in 1..v PROVE n \in Settled
  BY <1>1
<1>5. CASE n <= a
  <2>1. n \in 1..a
    BY <1>2, <1>5
  <2>. QED BY <1>0, <1>1, <2>1
<1>6. CASE ~(n <= a)
  <2>1. n \in (a + 1)..h /\ n \in Nat /\ ~(w < n)
    BY <1>2, <1>6
  <2>2. Tracked(n)
    BY <1>0, <1>1, <2>1 DEF ConnInv, OnBooks
  <2>. QED BY <1>3, <2>1, <2>2 DEF Tracked
<1>. QED BY <1>5, <1>6

\* One more earned ACK in flight, or none.
LEMMA AckingEarned ==
    ASSUME DeliveryInv, NEW c \in Conns
    PROVE  Earned(Acking(c, conn[c]))
<1>0. TypeOK /\ Books /\ ConnInv(c) /\ conn[c] \in ConnType /\ conn[c].acks \in Seq(1..seq)
  BY ConnFacts DEF DeliveryInv, PathInv
<1>1. Earned(conn[c])
  BY <1>0 DEF ConnInv
<1>2. PICK v, s, t : v = AckValue(c) /\ s = conn[c].acks /\ t = Acking(c, conn[c]).acks
  OBVIOUS
<1>3. t = s \/ (v \in 1..seq /\ t = Append(s, v))
  BY <1>0, <1>2, AckingHolds
<1>4. 1..v \subseteq Settled
  BY <1>2, AckIsEarned
<1>5. \A i \in 1..Len(s) : 1..s[i] \subseteq Settled
  BY <1>1, <1>2 DEF Earned
<1>6. \A i \in 1..Len(t) : 1..t[i] \subseteq Settled
  <2>1. CASE t = s
    BY <1>5, <2>1
  <2>2. CASE v \in 1..seq /\ t = Append(s, v)
    <3>1. Len(s) \in Nat /\ Len(t) = Len(s) + 1 /\ t[Len(s) + 1] = v
          /\ \A i \in 1..Len(s) : t[i] = s[i]
      BY <1>0, <1>2, <2>2, Appended
    <3>2. ASSUME NEW i \in 1..Len(t) PROVE 1..t[i] \subseteq Settled
      <4>1. i \in 1..Len(s) \/ i = Len(s) + 1
        BY <3>1
      <4>. QED BY <1>4, <1>5, <3>1, <4>1
    <3>. QED BY <3>2
  <2>. QED BY <1>3, <2>1, <2>2
<1>. QED BY <1>2, <1>6 DEF Earned

\* A closed connection vouches for nothing.
LEMMA EmptyConn ==
    ASSUME NEW r, ~r.up, r.data = <<>>, r.highest = 0, r.stage = "read", acked' \in Nat
    PROVE  /\ InOrder(r, acked') /\ \A upto : SentMatches(r, acked', upto)
           /\ OnBooks(r)' /\ Dormant(r)'
<1>1. Len(r.data) = 0
  OBVIOUS
<1>2. \A i \in 1..Len(r.data) : FALSE
  BY <1>1
<1>3. InOrder(r, acked') /\ \A upto : SentMatches(r, acked', upto)
  BY <1>2 DEF InOrder, SentMatches, InHand
<1>4. PICK b : b = acked'
  OBVIOUS
<1>5. b \in Nat /\ 0 <= b
  BY <1>4
<1>6. \A n \in (b + 1)..0 : FALSE
  BY <1>5
<1>7. OnBooks(r)'
  BY <1>4, <1>6 DEF OnBooks
<1>8. Dormant(r)'
  BY <1>4, <1>5 DEF Dormant
<1>. QED BY <1>3, <1>7, <1>8

\* The stream closes its end, after a last ACK or without one; the tracker may
\* have refused a record in the same step.
LEMMA CloseDelivers ==
    ASSUME DeliveryInv, PathInv', Keeps, NEW c \in Conns,
           \/ conn' = [conn EXCEPT ![c] = Closed(c, Acking(c, conn[c]))]
           \/ conn' = [conn EXCEPT ![c] = Closed(c, conn[c])],
           UNCHANGED <<feederVars, dbVars>>
    PROVE  DeliveryInv'
<1>0. TypeOK /\ Books /\ conn[c] \in ConnType
  BY Typed DEF DeliveryInv, PathInv
<1>1. acked' = acked /\ cur' = cur /\ sentUpto' = sentUpto
  BY DEF feederVars
<1>2. PICK s \in {Acking(c, conn[c]), conn[c]} : conn' = [conn EXCEPT ![c] = Closed(c, s)]
  OBVIOUS
<1>3. s \in ConnType /\ Earned(s)
  BY <1>0, <1>2, AckingHolds, AckingEarned DEF DeliveryInv, ConnInv
<1>4. PICK r : r = Closed(c, s)
  OBVIOUS
<1>5. ~r.up /\ r.data = <<>> /\ r.highest = 0 /\ r.stage = "read" /\ r.acks \in {s.acks, <<>>}
  BY <1>0, <1>3, <1>4, ClosedHolds
<1>6. /\ InOrder(r, acked') /\ SentMatches(r, acked', sentUpto')
      /\ OnBooks(r)' /\ Dormant(r)'
  BY <1>5, EmptyConn DEF Keeps
<1>7. Earned(r)
  <2>1. \A i \in 1..Len(<<>>) : FALSE
    OBVIOUS
  <2>. QED BY <1>3, <1>5, <2>1 DEF Earned
<1>8. Earned(r)'
  BY <1>7, StillEarned DEF Keeps, Earned
<1>9. 1..acked' \subseteq Settled'
  BY <1>1 DEF DeliveryInv, Keeps
<1>. QED BY <1>1, <1>2, <1>4, <1>6, <1>8, <1>9, Touched

\* Every way the stream ends.
LEMMA EndDelivers ==
    ASSUME DeliveryInv, PathInv', NEW c \in Conns,
           \/ DrainTimeout(c) \/ FloodClose(c) \/ CloseAfterDurable(c)
           \/ StreamEnds(c) \/ StreamCancelled(c)
    PROVE  DeliveryInv'
<1>1. /\ UNCHANGED <<feederVars, dbVars>> /\ UNCHANGED trackerVars
      /\ acked' = acked /\ ledger' = ledger /\ cur' = cur /\ sentUpto' = sentUpto
  BY DEF DrainTimeout, FloodClose, CloseAfterDurable, StreamEnds, StreamCancelled, feederVars, dbVars
<1>2. Keeps /\ 1..acked' \subseteq Settled'
  BY <1>1, KeepsAll
<1>3. CASE StreamEnds(c)
  <2>1. PICK r : r = Idle
    OBVIOUS
  <2>2. ~r.up /\ r.data = <<>> /\ r.highest = 0 /\ r.stage = "read" /\ r.acks = <<>>
    BY <2>1 DEF Idle
  <2>3. /\ InOrder(r, acked') /\ SentMatches(r, acked', sentUpto')
        /\ OnBooks(r)' /\ Dormant(r)'
    BY <1>2, <2>2, EmptyConn DEF Keeps
  <2>4. \A i \in 1..Len(<<>>) : FALSE
    OBVIOUS
  <2>5. Earned(r)'
    BY <2>2, <2>4 DEF Earned
  <2>6. conn' = [conn EXCEPT ![c] = r]
    BY <1>3, <2>1 DEF StreamEnds
  <2>. QED BY <1>1, <1>2, <2>3, <2>5, <2>6, Touched
<1>4. CASE ~StreamEnds(c)
  <2>1. \/ conn' = [conn EXCEPT ![c] = Closed(c, Acking(c, conn[c]))]
        \/ conn' = [conn EXCEPT ![c] = Closed(c, conn[c])]
    BY <1>4 DEF DrainTimeout, FloodClose, CloseAfterDurable, StreamCancelled
  <2>. QED BY <1>1, <1>2, <2>1, CloseDelivers
<1>. QED BY <1>3, <1>4

\* A stream that only sends an ACK, or moves between the stages in which it
\* waits for room.
LEMMA WaitDelivers ==
    ASSUME DeliveryInv, PathInv', Keeps, NEW c \in Conns, NEW r,
           conn' = [conn EXCEPT ![c] = r], UNCHANGED <<feederVars, dbVars>>,
           r.up = conn[c].up, r.data = conn[c].data, r.highest = conn[c].highest,
           r.pend = conn[c].pend, Earned(r),
           \/ r.stage = conn[c].stage
           \/ InHand(conn[c]) /\ InHand(r) /\ r.stage \in {"drain", "retry"}
    PROVE  DeliveryInv'
<1>0. ConnInv(c) /\ acked' = acked /\ cur' = cur /\ sentUpto' = sentUpto /\ ledger' = ledger
  BY DEF DeliveryInv, feederVars, dbVars
<1>1. InHand(r) <=> InHand(conn[c])
  BY DEF InHand
<1>2. r.up \/ (~r.up /\ conn[c].stage = "read")
  BY <1>0 DEF ConnInv, InOrder
<1>3. ~r.up => r.stage = "read"
  BY <1>2 DEF InHand
<1>4. InOrder(r, acked')
  BY <1>0, <1>1, <1>3 DEF ConnInv, InOrder, Mark
<1>5. cur' = c => SentMatches(r, acked', sentUpto')
  BY <1>0, <1>1 DEF ConnInv, SentMatches, Mark
<1>6. PICK s : s = conn[c]
  OBVIOUS
<1>7. OnBooks(r)'
  <2>1. /\ \A n \in (acked' + 1)..s.highest : Tracked(n)'
        /\ s.stage = "handoff" => Tracked(s.pend)'
    BY <1>6, StillTracked
  <2>2. r.stage = "handoff" => s.stage = "handoff"
    BY <1>6
  <2>3. r.highest = s.highest /\ r.pend = s.pend
    BY <1>6
  <2>. QED BY <2>1, <2>2, <2>3 DEF OnBooks
<1>8. Earned(r)'
  BY StillEarned DEF Keeps, Earned
<1>9. idle'[Feeder] > 0 => Dormant(r)'
  <2>1. idle[Feeder] \in Nat
    BY DeliveryAssumption DEF DeliveryInv, PathInv, Books, TrackerTypeOK
  <2>2. idle'[Feeder] > 0 => idle[Feeder] > 0
    BY <2>1 DEF Keeps
  <2>. QED BY <1>0, <2>2 DEF ConnInv, Dormant
<1>10. 1..acked' \subseteq Settled'
  BY <1>0 DEF DeliveryInv, Keeps
<1>. QED BY <1>0, <1>4, <1>5, <1>7, <1>8, <1>9, <1>10, Touched

\* The ACK ticker and a wait that ends well.
LEMMA AckDelivers ==
    ASSUME DeliveryInv, PathInv', NEW c \in Conns, AckTick(c) \/ Drained(c)
    PROVE  DeliveryInv'
<1>0. TypeOK /\ Books /\ conn[c] \in ConnType
  BY Typed DEF DeliveryInv, PathInv
<1>1. /\ UNCHANGED <<feederVars, dbVars>> /\ UNCHANGED trackerVars
      /\ acked' = acked /\ ledger' = ledger
  BY DEF AckTick, Drained, feederVars, dbVars
<1>2. Keeps
  BY <1>1, KeepsAll
<1>3. PICK a : a = Acking(c, conn[c])
  OBVIOUS
<1>4. /\ a \in ConnType /\ a.up = conn[c].up /\ a.data = conn[c].data /\ a.highest = conn[c].highest
      /\ a.pend = conn[c].pend /\ a.stage = conn[c].stage /\ Earned(a)
  BY <1>0, <1>3, AckingHolds, AckingEarned
<1>5. CASE AckTick(c)
  <2>1. conn' = [conn EXCEPT ![c] = a]
    BY <1>3, <1>5 DEF AckTick
  <2>. QED BY <1>1, <1>2, <1>4, <2>1, WaitDelivers
<1>6. CASE Drained(c)
  <2>1. PICK r : r = [a EXCEPT !.stage = "retry"]
    OBVIOUS
  <2>2. /\ r.up = a.up /\ r.data = a.data /\ r.highest = a.highest /\ r.pend = a.pend
        /\ r.stage = "retry" /\ r.acks = a.acks
    BY <1>4, <2>1 DEF ConnType
  <2>3. InHand(conn[c]) /\ InHand(r) /\ Earned(r)
    BY <1>4, <1>6, <2>2 DEF Drained, InHand, Earned
  <2>4. conn' = [conn EXCEPT ![c] = r]
    BY <1>3, <1>6, <2>1 DEF Drained
  <2>. QED BY <1>1, <1>2, <1>4, <2>2, <2>3, <2>4, WaitDelivers
<1>. QED BY <1>5, <1>6

\* The next record comes into the stream's hands: it continues the prefix.
LEMMA ReadDelivers ==
    ASSUME DeliveryInv, PathInv', NEW c \in Conns, ReadFrame(c)
    PROVE  DeliveryInv'
<1>0. /\ TypeOK /\ ConnInv(c) /\ conn \in [Conns -> ConnType]
  BY Typed DEF DeliveryInv, PathInv
<1>1. /\ UNCHANGED trackerVars /\ acked' = acked /\ cur' = cur /\ sentUpto' = sentUpto
      /\ ledger' = ledger
  BY DEF ReadFrame, feederVars, dbVars
<1>2. Keeps /\ Settled' = Settled /\ 1..acked' \subseteq Settled' /\ idle' = idle
  BY <1>1, KeepsAll
<1>3. PICK s, d, a, u : s = conn[c] /\ d = conn[c].data /\ a = acked /\ u = sentUpto
  OBVIOUS
<1>4. s \in ConnType /\ d \in Seq(1..seq) /\ a \in Nat /\ u \in Nat /\ s.highest \in Nat /\ seq \in Nat
  BY <1>0, <1>3, ConnFacts
<1>5. d # <<>> /\ s.stage = "read" /\ s.up /\ ~InHand(s)
  BY <1>3 DEF ReadFrame, InHand
<1>6. /\ InOrder(s, a) /\ (cur = c => SentMatches(s, a, u)) /\ OnBooks(s) /\ Earned(s)
      /\ (idle[Feeder] > 0 => Dormant(s))
  BY <1>0, <1>3 DEF ConnInv
<1>7. PICK t : t = Tail(d)
  OBVIOUS
<1>8. /\ Head(d) = d[1] /\ d[1] \in 1..seq /\ Len(d) \in Nat \ {0} /\ Len(t) = Len(d) - 1
      /\ t \in Seq(1..seq) /\ \A i \in 1..Len(t) : t[i] = d[i + 1]
  BY <1>4, <1>5, <1>7, Taken
<1>9. PICK r : r = [s EXCEPT !.pend = d[1], !.data = t, !.stage = "admit"]
  OBVIOUS
<1>10. /\ r.up = s.up /\ r.data = t /\ r.highest = s.highest /\ r.pend = d[1]
       /\ r.stage = "admit" /\ r.acks = s.acks /\ InHand(r)
  BY <1>4, <1>9 DEF ConnType, InHand
<1>11. conn' = [conn EXCEPT ![c] = r]
  BY <1>0, <1>3, <1>7, <1>8, <1>9 DEF ReadFrame
<1>12. Mark(r, a) = Mark(s, a) /\ Mark(s, a) \in Nat
  BY <1>4, <1>10 DEF Mark
<1>13. /\ d[1] <= Mark(s, a) + 1
       /\ \A i \in 1..Len(d) : d[i] = d[1] + i - 1
  BY <1>3, <1>5, <1>6 DEF InOrder
<1>14. ASSUME t # <<>> PROVE Len(t) \in Nat \ {0} /\ t[1] = d[1] + 1
  <2>1. Len(t) \in Nat \ {0}
    BY <1>8, <1>14
  <2>2. 1 \in 1..Len(t) /\ 2 \in 1..Len(d) /\ d[1] \in Nat
    BY <1>4, <1>8, <2>1
  <2>3. t[1] = d[2] /\ d[2] = d[1] + 2 - 1
    BY <1>8, <1>13, <2>2
  <2>. QED BY <2>1, <2>2, <2>3
<1>15. ASSUME NEW i \in 1..Len(t) PROVE t[i] = t[1] + i - 1
  <2>1. t # <<>> /\ i + 1 \in 1..Len(d) /\ i \in Nat /\ d[1] \in Nat
    BY <1>4, <1>8
  <2>2. t[i] = d[1] + (i + 1) - 1
    BY <1>8, <1>13, <2>1
  <2>. QED BY <1>14, <2>1, <2>2
<1>16. InOrder(r, a)
  BY <1>5, <1>10, <1>12, <1>13, <1>14, <1>15 DEF InOrder
<1>17. cur = c => SentMatches(r, a, u)
  <2> SUFFICES ASSUME cur = c PROVE SentMatches(r, a, u)
    OBVIOUS
  <2>1. u = d[1] + Len(d) - 1
    BY <1>3, <1>5, <1>6 DEF SentMatches
  <2>2. PICK x, l, m : x = d[1] /\ l = Len(d) /\ m = Len(t)
    OBVIOUS
  <2>3. x \in Nat /\ l \in Nat /\ m = l - 1 /\ u = x + l - 1
    BY <1>4, <1>8, <2>1, <2>2
  <2>4. u = (x + 1) + m - 1 /\ (m = 0 => u = x)
    BY <2>3
  <2>5. t = <<>> => Len(t) = 0
    OBVIOUS
  <2>6. t # <<>> => u = t[1] + Len(t) - 1
    BY <1>14, <2>2, <2>4
  <2>7. t = <<>> => u = d[1]
    BY <2>2, <2>4, <2>5
  <2>. QED BY <1>10, <2>6, <2>7 DEF SentMatches
<1>18. OnBooks(r)'
  <2>1. \A n \in (acked' + 1)..s.highest : Tracked(n)'
    BY <1>2, <1>3, StillTracked
  <2>. QED BY <1>10, <2>1 DEF OnBooks
<1>19. Earned(r)' /\ (idle'[Feeder] > 0 => Dormant(r)')
  BY <1>1, <1>2, <1>6, <1>10 DEF Earned, Dormant
<1>. QED BY <1>1, <1>2, <1>3, <1>11, <1>16, <1>17, <1>18, <1>19, Touched

\* The record in hand counts for the connection: the prefix it vouches for
\* grows by one, or not at all.
LEMMA ForwardDelivers ==
    ASSUME DeliveryInv, PathInv', Keeps, NEW c \in Conns, NEW r, NEW p,
           conn' = [conn EXCEPT ![c] = r], UNCHANGED <<feederVars, dbVars>>,
           InHand(conn[c]), p = conn[c].pend, Tracked(p)',
           r.up = conn[c].up, r.data = conn[c].data, r.acks = conn[c].acks,
           r.highest = Raise(conn[c], p), r.stage \in {"read", "flood", "last"},
           ~(idle'[Feeder] > 0)
    PROVE  DeliveryInv'
<1>0. /\ TypeOK /\ ConnInv(c) /\ acked' = acked /\ cur' = cur /\ sentUpto' = sentUpto
  BY DEF DeliveryInv, PathInv, feederVars
<1>1. PICK s, a, u : s = conn[c] /\ a = acked /\ u = sentUpto
  OBVIOUS
<1>2. s.data \in Seq(1..seq) /\ a \in Nat /\ u \in Nat /\ s.highest \in Nat /\ p \in Nat /\ seq \in Nat
  BY <1>0, <1>1, ConnFacts
<1>3. InOrder(s, a) /\ (cur = c => SentMatches(s, a, u)) /\ Earned(s) /\ s.up
  BY <1>0, <1>1 DEF ConnInv, InOrder, InHand
<1>4. /\ p <= Mark(s, a) + 1 /\ \A i \in 1..Len(s.data) : s.data[i] = s.data[1] + i - 1
      /\ (s.data # <<>> => s.data[1] = p + 1)
  BY <1>1, <1>3 DEF InOrder
<1>5. r.highest \in Nat /\ p <= r.highest /\ s.highest <= r.highest
      /\ (r.highest = p \/ r.highest = s.highest)
  BY <1>1, <1>2 DEF Raise
<1>6. Mark(r, a) \in Nat /\ p <= Mark(r, a) /\ ~InHand(r) /\ r.up /\ r.data = s.data
  BY <1>1, <1>2, <1>3, <1>5 DEF Mark, InHand
<1>7. InOrder(r, a)
  <2>1. s.data # <<>> => s.data[1] <= Mark(r, a) + 1
    BY <1>2, <1>4, <1>6
  <2>. QED BY <1>4, <1>6, <2>1 DEF InOrder
<1>8. cur = c => SentMatches(r, a, u)
  <2>1. cur = c => IF s.data # <<>> THEN u = s.data[1] + Len(s.data) - 1 ELSE u = p
    BY <1>1, <1>3 DEF SentMatches
  <2>2. u = p => u <= Mark(r, a)
    BY <1>2, <1>6
  <2>. QED BY <1>6, <2>1, <2>2 DEF SentMatches
<1>9. OnBooks(r)'
  <2>1. \A n \in (a + 1)..s.highest : Tracked(n)'
    BY <1>0, <1>1, StillTracked
  <2>2. ASSUME NEW n \in (a + 1)..r.highest PROVE Tracked(n)'
    <3>1. n \in (a + 1)..s.highest \/ n = p
      BY <1>2, <1>4, <1>5 DEF Mark
    <3>. QED BY <2>1, <3>1
  <2>. QED BY <1>0, <1>1, <2>2 DEF OnBooks
<1>10. Earned(r)'
  <2>1. Earned(r)
    BY <1>1, <1>3 DEF Earned
  <2>. QED BY <2>1, StillEarned DEF Keeps, Earned
<1>11. 1..acked' \subseteq Settled'
  BY <1>0 DEF DeliveryInv, Keeps
<1>. QED BY <1>0, <1>1, <1>7, <1>8, <1>9, <1>10, <1>11, Touched

\* A call of the tracker loses holes of silent sessions only.
LEMMA CallKeeps ==
    ASSUME DeliveryInv, AgesReset, acked' = acked, ledger' = ledger,
           \A h \in holes : h \in holes' \/ idle[h[1]] > 0 \/ h[1] # Feeder
    PROVE  Keeps
<1>1. acked \in Nat /\ Feeder \in Keys
  BY Typed, DeliveryAssumption DEF DeliveryInv, PathInv
<1>2. Settled' = Settled
  BY DEF Settled
<1>3. idle'[Feeder] \in {idle[Feeder], 0}
  BY <1>1 DEF AgesReset
<1>4. ASSUME NEW n \in Nat, <<Feeder, n>> \in holes
      PROVE  <<Feeder, n>> \in holes' \/ idle[Feeder] > 0
  <2>1. PICK h : h = <<Feeder, n>>
    OBVIOUS
  <2>2. h \in holes /\ h[1] = Feeder
    BY <1>4, <2>1
  <2>. QED BY <2>1, <2>2
<1>. QED BY <1>1, <1>2, <1>3, <1>4 DEF Keeps

\* admitReceipt, the tracker takes the record and keeps track of it.
LEMMA AdmitDelivers ==
    ASSUME DeliveryInv, PathInv', NEW c \in Conns, AdmitReceipt(c), ~Orphans
    PROVE  DeliveryInv'
<1>0. /\ PathInv /\ TypeOK /\ ConnInv(c) /\ conn[c] \in ConnType /\ Steady(conn[c])
  BY Typed DEF DeliveryInv, PathInv
<1>1. /\ UNCHANGED <<feederVars, dbVars>> /\ acked' = acked /\ cur' = cur /\ sentUpto' = sentUpto
      /\ ledger' = ledger
  BY DEF AdmitReceipt, feederVars, dbVars
<1>2. SilentLose /\ AgesReset /\ idle'[Feeder] = 0
  BY <1>0, AdmitReceiptKeeps
<1>3. Keeps
  BY <1>1, <1>2, CallKeeps DEF SilentLose
<1>4. PICK p : p = conn[c].pend
  OBVIOUS
<1>5. Tracked(p)'
  <2>1. CASE Persistable(p)
    BY <1>4, <2>1 DEF Orphans, Tracked
  <2>2. CASE ~Persistable(p)
    BY <2>2 DEF Persistable, Tracked, Settled
  <2>. QED BY <2>1, <2>2
<1>6. PICK s, r : s = conn[c] /\ r = Admitted(conn[c])
  OBVIOUS
<1>7. s.stage \in {"admit", "retry"} /\ InHand(s) /\ conn' = [conn EXCEPT ![c] = r]
  BY <1>6 DEF AdmitReceipt, InHand
<1>8. /\ r.up = s.up /\ r.data = s.data /\ r.acks = s.acks
      /\ IF p \in Malformed
         THEN r.stage \in {"read", "flood"} /\ r.highest = Raise(s, p)
         ELSE r.stage = "handoff" /\ r.pend = p /\ r.highest = s.highest
  BY <1>0, <1>4, <1>6, <1>7, AdmittedHolds
<1>9. CASE p \in Malformed
  <2>1. ~(idle'[Feeder] > 0)
    BY <1>2
  <2>2. /\ InHand(conn[c]) /\ r.up = conn[c].up /\ r.data = conn[c].data /\ r.acks = conn[c].acks
        /\ r.highest = Raise(conn[c], p) /\ r.stage \in {"read", "flood", "last"}
    BY <1>6, <1>7, <1>8, <1>9
  <2>. QED BY <1>1, <1>3, <1>4, <1>5, <1>7, <2>1, <2>2, ForwardDelivers
<1>10. CASE p \notin Malformed
  <2>1. r.stage = "handoff" /\ r.pend = p /\ r.highest = s.highest /\ InHand(r) /\ s.pend = p
    BY <1>4, <1>6, <1>8, <1>10 DEF InHand
  <2>2. InOrder(s, acked) /\ (cur = c => SentMatches(s, acked, sentUpto)) /\ Earned(s)
    BY <1>0, <1>6 DEF ConnInv
  <2>3. s.up
    BY <1>7, <2>2 DEF InOrder
  <2>4. InOrder(r, acked') /\ (cur' = c => SentMatches(r, acked', sentUpto'))
    BY <1>1, <1>7, <1>8, <2>1, <2>2, <2>3 DEF InOrder, SentMatches, Mark
  <2>5. \A n \in (acked' + 1)..s.highest : Tracked(n)'
    BY <1>3, <1>6, StillTracked
  <2>6. OnBooks(r)'
    BY <1>5, <2>1, <2>5 DEF OnBooks
  <2>7. Earned(r)'
    BY <1>3, <1>8, <2>2, StillEarned DEF Keeps, Earned
  <2>8. 1..acked' \subseteq Settled'
    BY <1>1, <1>3 DEF DeliveryInv, Keeps
  <2>9. ~(idle'[Feeder] > 0)
    BY <1>2
  <2>. QED BY <1>1, <1>3, <1>7, <2>4, <2>6, <2>7, <2>8, <2>9, Touched
<1>. QED BY <1>9, <1>10

\* admitReceipt, the tracker has no room.
LEMMA RefuseDelivers ==
    ASSUME DeliveryInv, PathInv', NEW c \in Conns, AdmitRefused(c)
    PROVE  DeliveryInv'
<1>0. PathInv /\ TypeOK /\ ConnInv(c) /\ conn[c] \in ConnType
  BY Typed DEF DeliveryInv, PathInv
<1>1. UNCHANGED <<feederVars, dbVars>> /\ acked' = acked /\ ledger' = ledger
  BY DEF AdmitRefused, feederVars, dbVars
<1>2. SilentLose /\ AgesReset
  BY <1>0, AdmitRefusedKeeps
<1>3. Keeps
  BY <1>1, <1>2, CallKeeps DEF SilentLose
<1>4. CASE conn[c].stage = "admit"
  <2>1. PICK r : r = [conn[c] EXCEPT !.stage = "drain"]
    OBVIOUS
  <2>2. /\ r.up = conn[c].up /\ r.data = conn[c].data /\ r.highest = conn[c].highest
        /\ r.pend = conn[c].pend /\ r.stage = "drain" /\ r.acks = conn[c].acks
    BY <1>0, <2>1 DEF ConnType
  <2>3. InHand(conn[c]) /\ InHand(r) /\ Earned(r)
    BY <1>0, <1>4, <2>2 DEF InHand, Earned, ConnInv
  <2>4. conn' = [conn EXCEPT ![c] = r]
    BY <1>4, <2>1 DEF AdmitRefused
  <2>. QED BY <1>1, <1>3, <2>2, <2>3, <2>4, WaitDelivers
<1>5. CASE conn[c].stage # "admit"
  <2>1. conn' = [conn EXCEPT ![c] = Closed(c, Acking(c, conn[c]))]
    BY <1>5 DEF AdmitRefused
  <2>. QED BY <1>1, <1>3, <2>1, CloseDelivers
<1>. QED BY <1>4, <1>5

\* The record goes to the decode stage.
LEMMA HandoffDelivers ==
    ASSUME DeliveryInv, PathInv', NEW c \in Conns, Handoff(c)
    PROVE  DeliveryInv'
<1>0. TypeOK /\ ConnInv(c) /\ conn \in [Conns -> ConnType] /\ conn[c] \in ConnType
  BY Typed DEF DeliveryInv, PathInv
<1>1. /\ UNCHANGED <<feederVars, dbVars>> /\ acked' = acked /\ ledger' = ledger
      /\ UNCHANGED trackerVars
  BY DEF Handoff, feederVars, dbVars
<1>2. Keeps /\ idle' = idle
  BY <1>1, KeepsAll
<1>3. PICK s, p, q, stage :
        /\ s = conn[c] /\ p = conn[c].pend
        /\ q = IF conn[c].pend \in Closing THEN conn[c].pend ELSE 0
        /\ stage = IF conn[c].pend \in Closing THEN "last" ELSE "read"
  OBVIOUS
<1>4. PICK r : r = [s EXCEPT !.highest = Raise(s, p), !.pend = q, !.junk = 0, !.stage = stage]
  OBVIOUS
<1>5. /\ r.up = s.up /\ r.data = s.data /\ r.acks = s.acks /\ r.highest = Raise(s, p)
      /\ r.stage = stage
  BY <1>0, <1>3, <1>4 DEF ConnType
<1>6. stage \in {"read", "flood", "last"}
  BY <1>3
<1>7. conn' = [conn EXCEPT ![c] = r]
  BY <1>0, <1>3, <1>4 DEF Handoff
<1>8. s.stage = "handoff" /\ InHand(s)
  BY <1>3 DEF Handoff, InHand
<1>9. Tracked(p)'
  BY <1>2, <1>3, <1>8, StillTracked
<1>10. ~(idle'[Feeder] > 0)
  BY <1>0, <1>2, <1>3, <1>8 DEF ConnInv, Dormant
<1>. QED BY <1>1, <1>2, <1>3, <1>5, <1>6, <1>7, <1>8, <1>9, <1>10, ForwardDelivers

\* serve_collector starts a connection after the last acknowledged record.
LEMMA ConnectDelivers ==
    ASSUME DeliveryInv, PathInv', NEW c \in Conns, Connect(c)
    PROVE  DeliveryInv'
<1>0. TypeOK /\ conn \in [Conns -> ConnType] /\ acked \in Nat
  BY Typed DEF DeliveryInv, PathInv
<1>1. /\ UNCHANGED trackerVars /\ acked' = acked /\ ledger' = ledger /\ cur' = c
      /\ sentUpto' = acked /\ conn[c] = Idle
  BY DEF Connect, dbVars
<1>2. Keeps /\ 1..acked' \subseteq Settled'
  BY <1>1, KeepsAll
<1>3. PICK r, a : r = [Idle EXCEPT !.up = TRUE] /\ a = acked
  OBVIOUS
<1>4. /\ r.up /\ r.data = <<>> /\ r.acks = <<>> /\ r.highest = 0 /\ r.stage = "read"
  BY <1>3 DEF Idle
<1>5. conn' = [conn EXCEPT ![c] = r]
  BY <1>0, <1>1, <1>3 DEF Connect
<1>6. a \in Nat /\ Mark(r, a) = a /\ ~InHand(r)
  BY <1>0, <1>3, <1>4 DEF Mark, InHand
<1>7. \A i \in 1..Len(<<>>) : FALSE
  OBVIOUS
<1>8. InOrder(r, a) /\ SentMatches(r, a, a)
  BY <1>4, <1>6, <1>7 DEF InOrder, SentMatches
<1>9. \A n \in (a + 1)..0 : FALSE
  BY <1>6
<1>10. OnBooks(r)' /\ Earned(r)'
  BY <1>1, <1>3, <1>4, <1>7, <1>9 DEF OnBooks, Earned
<1>11. 0 <= a
  BY <1>6
<1>12. Dormant(r)'
  BY <1>1, <1>3, <1>4, <1>11 DEF Dormant
<1>. QED BY <1>1, <1>2, <1>3, <1>5, <1>8, <1>10, <1>12, Touched

\* The next unsent record follows what is buffered, in hand or vouched for.
LEMMA SendDelivers ==
    ASSUME DeliveryInv, PathInv', Send
    PROVE  DeliveryInv'
<1>0. TypeOK /\ cur \in Conns /\ conn \in [Conns -> ConnType]
  BY Typed DEF DeliveryInv, PathInv, Send
<1>1. /\ UNCHANGED trackerVars /\ acked' = acked /\ ledger' = ledger /\ cur' = cur
      /\ sentUpto' = sentUpto + 1 /\ sentUpto < seq
  BY DEF Send, dbVars
<1>2. Keeps /\ Settled' = Settled /\ 1..acked' \subseteq Settled' /\ idle' = idle
  BY <1>1, KeepsAll
<1>3. PICK c, s, d, a, u : c = cur /\ s = conn[cur] /\ d = conn[cur].data /\ a = acked /\ u = sentUpto
  OBVIOUS
<1>4. /\ c \in Conns /\ s \in ConnType /\ d \in Seq(1..seq) /\ a \in Nat /\ u \in Nat
      /\ s.highest \in Nat /\ s.pend \in Nat /\ seq \in Nat
  BY <1>0, <1>3, ConnFacts
<1>5. u + 1 \in 1..seq
  BY <1>1, <1>3, <1>4
<1>6. /\ InOrder(s, a) /\ SentMatches(s, a, u) /\ OnBooks(s) /\ Earned(s)
      /\ (idle[Feeder] > 0 => Dormant(s))
  BY <1>0, <1>3 DEF DeliveryInv, ConnInv
<1>7. PICK t : t = Append(d, u + 1)
  OBVIOUS
<1>8. /\ t \in Seq(1..seq) /\ t # <<>> /\ Len(t) = Len(d) + 1 /\ Len(d) \in Nat
      /\ t[Len(d) + 1] = u + 1 /\ \A i \in 1..Len(d) : t[i] = d[i]
  BY <1>4, <1>5, <1>7, Appended
<1>9. PICK r : r = IF s.up THEN [s EXCEPT !.data = t] ELSE s
  OBVIOUS
<1>10. /\ r.up = s.up /\ r.highest = s.highest /\ r.pend = s.pend /\ r.stage = s.stage
       /\ r.acks = s.acks /\ (s.up => r.data = t)
  BY <1>4, <1>9 DEF ConnType
<1>11. conn' = [conn EXCEPT ![c] = r]
  BY <1>0, <1>3, <1>7, <1>9 DEF Send
<1>12. Mark(r, a) = Mark(s, a) /\ Mark(s, a) \in Nat /\ (InHand(r) <=> InHand(s))
  BY <1>4, <1>10 DEF Mark, InHand
<1>13. InOrder(r, a) /\ SentMatches(r, a, u + 1)
  <2>1. CASE ~s.up
    BY <1>6, <1>9, <1>10, <2>1 DEF SentMatches
  <2>2. CASE s.up
    <3>1. CASE d = <<>>
      <4>1. Len(d) = 0
        BY <3>1
      <4>2. Len(t) = 1 /\ t[1] = u + 1
        BY <1>8, <4>1
      <4>3. IF InHand(s) THEN u = s.pend ELSE u <= Mark(s, a)
        BY <1>3, <1>6, <2>2, <3>1 DEF SentMatches
      <4>4. IF InHand(s) THEN t[1] = s.pend + 1 ELSE t[1] <= Mark(s, a) + 1
        BY <1>4, <1>12, <4>2, <4>3
      <4>5. \A i \in 1..Len(t) : t[i] = t[1] + i - 1
        BY <1>4, <4>2
      <4>6. u + 1 = t[1] + Len(t) - 1
        BY <1>4, <4>2
      <4>7. InOrder(r, a)
        BY <1>6, <1>10, <1>12, <2>2, <4>4, <4>5 DEF InOrder
      <4>8. SentMatches(r, a, u + 1)
        BY <1>8, <1>10, <2>2, <4>6 DEF SentMatches
      <4>. QED BY <4>7, <4>8
    <3>2. CASE d # <<>>
      <4>1. PICK x, l : x = d[1] /\ l = Len(d)
        OBVIOUS
      <4>2. l \in Nat \ {0} /\ x \in Nat /\ t[1] = x
        BY <1>4, <1>8, <3>2, <4>1
      <4>3. u = x + l - 1
        BY <1>3, <1>6, <2>2, <3>2, <4>1 DEF SentMatches
      <4>4. \A i \in 1..l : d[i] = x + i - 1
        BY <1>3, <1>6, <4>1 DEF InOrder
      <4>5. ASSUME NEW i \in 1..(l + 1) PROVE t[i] = x + i - 1
        <5>1. CASE i \in 1..l
          BY <1>8, <4>1, <4>4, <5>1
        <5>2. CASE i = l + 1
          <6>1. t[i] = u + 1
            BY <1>8, <4>1, <5>2
          <6>. QED BY <4>2, <4>3, <5>2, <6>1
        <5>. QED BY <4>2, <5>1, <5>2
      <4>6. \A i \in 1..Len(t) : t[i] = t[1] + i - 1
        BY <1>8, <4>1, <4>2, <4>5
      <4>7. u + 1 = x + (l + 1) - 1
        BY <4>2, <4>3
      <4>8. IF InHand(s) THEN t[1] = s.pend + 1 ELSE t[1] <= Mark(s, a) + 1
        BY <1>3, <1>6, <3>2, <4>1, <4>2 DEF InOrder
      <4>9. InOrder(r, a)
        BY <1>6, <1>10, <1>12, <2>2, <4>6, <4>8 DEF InOrder
      <4>10. SentMatches(r, a, u + 1)
        BY <1>8, <1>10, <2>2, <4>1, <4>2, <4>7 DEF SentMatches
      <4>. QED BY <4>9, <4>10
    <3>. QED BY <3>1, <3>2
  <2>. QED BY <2>1, <2>2
<1>14. OnBooks(r)'
  <2>1. /\ \A n \in (acked' + 1)..s.highest : Tracked(n)'
        /\ s.stage = "handoff" => Tracked(s.pend)'
    BY <1>0, <1>2, <1>3, StillTracked
  <2>. QED BY <1>10, <2>1 DEF OnBooks
<1>15. Earned(r)' /\ (idle'[Feeder] > 0 => Dormant(r)')
  BY <1>1, <1>2, <1>6, <1>10 DEF Earned, Dormant
<1>16. \A e \in Conns : e # c /\ cur' = e => cur = e /\ sentUpto' = sentUpto
  BY <1>1, <1>3
<1>. QED BY <1>1, <1>2, <1>3, <1>4, <1>11, <1>13, <1>14, <1>15, <1>16, Touched

\* spool_ack deletes only what an earned ACK names.
LEMMA SpoolAckDelivers ==
    ASSUME DeliveryInv, PathInv', SpoolAck
    PROVE  DeliveryInv' /\ 1..acked' \subseteq Settled
<1>0. PathInv /\ TypeOK /\ conn \in [Conns -> ConnType] /\ acked \in Nat /\ seq \in Nat
  BY Typed DEF DeliveryInv, PathInv
<1>1. /\ UNCHANGED trackerVars /\ ledger' = ledger /\ cur' = cur /\ sentUpto' = sentUpto
  BY DEF SpoolAck, dbVars
<1>2. holes' = holes /\ idle' = idle /\ Settled' = Settled
  BY <1>1 DEF trackerVars, Settled
<1>3. /\ cur \in Conns /\ conn[cur].acks # <<>>
      /\ acked' \in {acked, Head(conn[cur].acks)} /\ acked' >= acked /\ acked' \in 0..seq
  BY <1>0, AckTaken
<1>4. acked' \in Nat
  BY <1>0, <1>3
<1>5. Keeps
  BY <1>2, <1>3, <1>4 DEF Keeps
<1>6. PICK c, s, k, a, b : c = cur /\ s = conn[cur] /\ k = conn[cur].acks /\ a = acked /\ b = acked'
  OBVIOUS
<1>7. /\ c \in Conns /\ s \in ConnType /\ k \in Seq(1..seq) /\ k # <<>> /\ a \in Nat /\ b \in Nat
      /\ b >= a /\ s.highest \in Nat /\ s.pend \in Nat /\ sentUpto \in Nat /\ s.data \in Seq(Nat)
  BY <1>0, <1>3, <1>4, <1>6, ConnFacts, SeqGrows, SMTT(20)
<1>8. /\ InOrder(s, a) /\ SentMatches(s, a, sentUpto) /\ OnBooks(s) /\ Earned(s)
      /\ (idle[Feeder] > 0 => Dormant(s))
  BY <1>3, <1>6 DEF DeliveryInv, ConnInv
<1>9. PICK t : t = Tail(k)
  OBVIOUS
<1>10. /\ Head(k) = k[1] /\ Len(k) \in Nat \ {0} /\ Len(t) = Len(k) - 1
       /\ \A i \in 1..Len(t) : t[i] = k[i + 1]
  BY <1>7, <1>9, Taken
<1>11. \A i \in 1..Len(k) : 1..k[i] \subseteq Settled
  BY <1>6, <1>8 DEF Earned
<1>12. 1..acked' \subseteq Settled
  <2>1. 1..Head(k) \subseteq Settled
    BY <1>10, <1>11
  <2>2. acked' = acked \/ acked' = Head(k)
    BY <1>3, <1>6
  <2>. QED BY <2>1, <2>2 DEF DeliveryInv
<1>13. PICK r : r = [s EXCEPT !.acks = t]
  OBVIOUS
<1>14. /\ r.up = s.up /\ r.data = s.data /\ r.highest = s.highest /\ r.pend = s.pend
       /\ r.stage = s.stage /\ r.acks = t
  BY <1>7, <1>13 DEF ConnType
<1>15. conn' = [conn EXCEPT ![c] = r]
  BY <1>0, <1>3, <1>6, <1>9, <1>13 DEF SpoolAck
<1>16. InOrder(r, a) /\ SentMatches(r, a, sentUpto)
  BY <1>8, <1>14 DEF InOrder, SentMatches, InHand, Mark
<1>17. r.highest \in Nat /\ r.pend \in Nat /\ r.data \in Seq(Nat)
  BY <1>7, <1>14
<1>18. InOrder(r, b) /\ SentMatches(r, b, sentUpto)
  BY <1>7, <1>16, <1>17, OrderGrows
<1>19. OnBooks(r)'
  <2>1. /\ \A n \in (acked' + 1)..s.highest : Tracked(n)'
        /\ s.stage = "handoff" => Tracked(s.pend)'
    BY <1>3, <1>5, <1>6, StillTracked
  <2>. QED BY <1>14, <2>1 DEF OnBooks
<1>20. Earned(r)'
  <2>1. ASSUME NEW i \in 1..Len(t) PROVE 1..t[i] \subseteq Settled
    <3>1. i + 1 \in 1..Len(k)
      BY <1>10
    <3>. QED BY <1>10, <1>11, <3>1
  <2>. QED BY <1>2, <1>14, <2>1 DEF Earned
<1>21. idle'[Feeder] > 0 => Dormant(r)'
  <2>1. s.highest <= a => s.highest <= b
    BY <1>7
  <2>. QED BY <1>2, <1>6, <1>8, <1>14, <2>1 DEF Dormant
<1>22. \A e \in Conns : e # c /\ cur' = e => cur = e /\ sentUpto' = sentUpto
  BY <1>1
<1>23. 1..acked' \subseteq Settled'
  BY <1>2, <1>12
<1>24. InOrder(r, acked') /\ (cur' = c => SentMatches(r, acked', sentUpto'))
  BY <1>1, <1>6, <1>18
<1>25. DeliveryInv'
  BY <1>5, <1>7, <1>15, <1>19, <1>20, <1>21, <1>22, <1>23, <1>24, Touched
<1>. QED BY <1>12, <1>25

\* The feeder's end of a connection goes, with the ACKs in flight.
LEMMA LeaveDelivers ==
    ASSUME DeliveryInv, PathInv', cur # NoConn, Leave
    PROVE  DeliveryInv'
<1>0. TypeOK /\ conn \in [Conns -> ConnType] /\ cur \in Conns
  BY Typed DEF DeliveryInv, PathInv
<1>1. /\ UNCHANGED trackerVars /\ acked' = acked /\ ledger' = ledger /\ cur' = NoConn
      /\ NoConn \notin Conns
  BY DeliveryAssumption DEF Leave, dbVars
<1>2. Keeps /\ Settled' = Settled /\ 1..acked' \subseteq Settled' /\ idle' = idle
  BY <1>1, KeepsAll
<1>3. PICK c, s, r : /\ c = cur /\ s = conn[cur]
                     /\ r = IF conn[cur].up THEN [conn[cur] EXCEPT !.acks = <<>>] ELSE Idle
  OBVIOUS
<1>4. c \in Conns /\ s \in ConnType /\ conn' = [conn EXCEPT ![c] = r]
  BY <1>0, <1>3 DEF Leave
<1>5. \A i \in 1..Len(<<>>) : FALSE
  OBVIOUS
<1>6. /\ InOrder(r, acked') /\ OnBooks(r)' /\ (idle'[Feeder] > 0 => Dormant(r)') /\ Earned(r)'
  <2>1. CASE s.up
    <3>1. /\ r.up = s.up /\ r.data = s.data /\ r.highest = s.highest /\ r.pend = s.pend
          /\ r.stage = s.stage /\ r.acks = <<>>
      BY <1>3, <1>4, <2>1 DEF ConnType
    <3>2. InOrder(s, acked) /\ (idle[Feeder] > 0 => Dormant(s))
      BY <1>0, <1>3 DEF DeliveryInv, ConnInv
    <3>3. InOrder(r, acked')
      BY <1>1, <3>1, <3>2 DEF InOrder, InHand, Mark
    <3>4. /\ \A n \in (acked' + 1)..s.highest : Tracked(n)'
          /\ s.stage = "handoff" => Tracked(s.pend)'
      BY <1>0, <1>2, <1>3, StillTracked
    <3>5. OnBooks(r)' /\ Earned(r)'
      BY <1>5, <3>1, <3>4 DEF OnBooks, Earned
    <3>6. idle'[Feeder] > 0 => Dormant(r)'
      BY <1>1, <1>2, <3>1, <3>2 DEF Dormant
    <3>. QED BY <3>3, <3>5, <3>6
  <2>2. CASE ~s.up
    <3>1. ~r.up /\ r.data = <<>> /\ r.highest = 0 /\ r.stage = "read" /\ r.acks = <<>>
      BY <1>3, <2>2 DEF Idle
    <3>2. InOrder(r, acked') /\ OnBooks(r)' /\ Dormant(r)'
      BY <1>2, <3>1, EmptyConn DEF Keeps
    <3>3. Earned(r)'
      BY <1>5, <3>1 DEF Earned
    <3>. QED BY <3>2, <3>3
  <2>. QED BY <2>1, <2>2
<1>7. /\ \A e \in Conns : e # c /\ cur' = e => cur = e /\ sentUpto' = sentUpto
      /\ (cur' = c => SentMatches(r, acked', sentUpto'))
  BY <1>1, <1>4
<1>. QED BY <1>2, <1>4, <1>6, <1>7, Touched

\* The collector dies: its streams vouch for nothing any more.
LEMMA CrashDelivers ==
    ASSUME DeliveryInv, PathInv', Crash
    PROVE  DeliveryInv'
<1>0. TypeOK /\ conn \in [Conns -> ConnType] /\ acked \in Nat
  BY Typed DEF DeliveryInv, PathInv
<1>1. /\ conn' = [c \in Conns |-> Closed(c, conn[c])] /\ acked' = acked /\ cur' = cur
      /\ sentUpto' = sentUpto /\ ledger' = ledger /\ acked' \in Nat
  BY <1>0 DEF Crash, feederVars, dbVars
<1>2. Settled' = Settled
  BY <1>1 DEF Settled
<1>3. ASSUME NEW c \in Conns PROVE ConnInv(c)'
  <2>1. PICK s, r : s = conn[c] /\ r = Closed(c, conn[c])
    OBVIOUS
  <2>2. s \in ConnType /\ Earned(s) /\ conn'[c] = r
    BY <1>0, <1>1, <2>1 DEF DeliveryInv, ConnInv
  <2>3. ~r.up /\ r.data = <<>> /\ r.highest = 0 /\ r.stage = "read" /\ r.acks \in {s.acks, <<>>}
    BY <1>0, <2>1, <2>2, ClosedHolds
  <2>4. /\ InOrder(r, acked') /\ SentMatches(r, acked', sentUpto')
        /\ OnBooks(r)' /\ Dormant(r)'
    BY <1>1, <2>3, EmptyConn
  <2>5. Earned(r)'
    <3>1. \A i \in 1..Len(<<>>) : FALSE
      OBVIOUS
    <3>. QED BY <1>2, <2>2, <2>3, <3>1 DEF Earned
  <2>6. InOrder(conn[c], acked)' /\ SentMatches(conn[c], acked, sentUpto)'
    BY <2>2, <2>4
  <2>7. OnBooks(conn[c])' /\ Dormant(conn[c])' /\ Earned(conn[c])'
    BY <2>2, <2>4, <2>5 DEF OnBooks, Dormant, Earned
  <2>. QED BY <2>6, <2>7 DEF ConnInv
<1>4. 1..acked' \subseteq Settled'
  BY <1>1, <1>2 DEF DeliveryInv
<1>. QED BY <1>3, <1>4 DEF DeliveryInv

\* A session grows old only when no stream vouches for what the feeder holds.
LEMMA TimeDelivers ==
    ASSUME DeliveryInv, PathInv', TimePasses
    PROVE  DeliveryInv'
<1>0. TypeOK /\ PathInv /\ seq \in Nat /\ acked \in 0..seq
  BY Typed DEF DeliveryInv, PathInv
<1>1. /\ acked' = acked /\ cur' = cur /\ sentUpto' = sentUpto /\ ledger' = ledger /\ conn' = conn
  BY DEF TimePasses, feederVars, dbVars
<1>2. Settled' = Settled /\ holes' = holes
  BY <1>0, <1>1, TimeKeeps DEF Settled
<1>3. ASSUME NEW c \in Conns PROVE ConnInv(c)'
  <2>1. ConnInv(c) /\ conn[c].highest \in 0..seq
    BY <1>0, Typed DEF DeliveryInv, ConnType
  <2>2. conn[c].stage = "read" /\ conn[c].highest <= acked
    <3>1. CASE conn[c].up
      <4>1. c = cur /\ conn[c].stage = "read" /\ (cur = NoConn \/ acked = seq)
        BY <3>1 DEF TimePasses
      <4>2. acked = seq
        BY <4>1, DeliveryAssumption
      <4>3. conn[c].highest <= acked
        BY <1>0, <2>1, <4>2
      <4>. QED BY <4>1, <4>3
    <3>2. CASE ~conn[c].up
      <4>1. conn[c].stage = "read" /\ conn[c].highest = 0
        BY <2>1, <3>2 DEF ConnInv, InOrder
      <4>2. conn[c].highest <= acked
        BY <1>0, <4>1
      <4>. QED BY <4>1, <4>2
    <3>. QED BY <3>1, <3>2
  <2>3. Dormant(conn[c])'
    BY <1>1, <2>2 DEF Dormant
  <2>4. OnBooks(conn[c])' /\ Earned(conn[c])'
    BY <1>1, <1>2, <2>1 DEF ConnInv, OnBooks, Earned, Tracked
  <2>5. InOrder(conn[c], acked)' /\ (cur = c => SentMatches(conn[c], acked, sentUpto))'
    BY <1>1, <2>1 DEF ConnInv
  <2>. QED BY <2>3, <2>4, <2>5 DEF ConnInv
<1>4. 1..acked' \subseteq Settled'
  BY <1>1, <1>2 DEF DeliveryInv
<1>. QED BY <1>3, <1>4 DEF DeliveryInv

\* The receiver, the decode stage, the historian and the other observers.
LEMMA PipeDelivers ==
    ASSUME DeliveryInv, PathInv',
           \/ Produce \/ Decode \/ Flush \/ FlushGivesUp \/ Commit \/ NotifyDurable
           \/ \E k \in Others, n \in 1..OtherSeq : OtherObserver(k, n)
           \/ UNCHANGED vars
    PROVE  DeliveryInv'
<1>0. PathInv /\ acked \in Nat
  BY Typed DEF DeliveryInv, PathInv
<1>1. acked' = acked /\ cur' = cur /\ sentUpto' = sentUpto /\ conn' = conn
  BY DEF Produce, Decode, Flush, FlushGivesUp, Commit, NotifyDurable, OtherObserver, vars, feederVars
<1>2. CASE Produce \/ Decode \/ Flush \/ FlushGivesUp \/ UNCHANGED vars
  <2>1. UNCHANGED trackerVars /\ ledger' = ledger
    BY <1>2 DEF Produce, Decode, Flush, FlushGivesUp, vars, dbVars
  <2>2. Keeps
    BY <1>1, <2>1, KeepsAll
  <2>. QED BY <1>1, <2>2, NoneTouched
<1>3. CASE Commit
  <2>1. holes' = holes /\ idle' = idle
    BY <1>3 DEF Commit, trackerVars
  <2>2. Settled \subseteq Settled'
    BY <1>0, <1>3, CommitKeeps DEF Settled
  <2>3. acked' >= acked
    BY <1>0, <1>1
  <2>4. Keeps
    BY <1>0, <1>1, <2>1, <2>2, <2>3 DEF Keeps
  <2>. QED BY <1>1, <2>4, NoneTouched
<1>4. CASE NotifyDurable
  <2>1. /\ AgesReset /\ Head(batch) \in ledger
        /\ \A h \in holes : h \in holes' \/ h = <<Feeder, Head(batch)>>
    BY <1>0, <1>4, NotifyKeeps
  <2>2. ledger' = ledger
    BY <1>4 DEF NotifyDurable, dbVars
  <2>3. Settled' = Settled /\ Head(batch) \in Settled
    BY <2>1, <2>2 DEF Settled
  <2>4. idle'[Feeder] \in {idle[Feeder], 0}
    BY <2>1, DeliveryAssumption DEF AgesReset
  <2>5. ASSUME NEW n \in Nat, <<Feeder, n>> \in holes PROVE <<Feeder, n>> \in holes' \/ n \in Settled'
    BY <2>1, <2>3, <2>5
  <2>6. acked' >= acked
    BY <1>0, <1>1
  <2>7. Keeps
    BY <1>0, <1>1, <2>3, <2>4, <2>5, <2>6 DEF Keeps
  <2>. QED BY <1>1, <2>7, NoneTouched
<1>5. ASSUME NEW k \in Others, NEW n \in 1..OtherSeq, OtherObserver(k, n)
      PROVE  DeliveryInv'
  <2>1. /\ AgesReset /\ \A h \in holes : h \in holes' \/ idle[h[1]] > 0 \/ h[1] # Feeder
    BY <1>0, <1>5, OthersKeep
  <2>2. ledger' = ledger
    BY <1>5 DEF OtherObserver, dbVars
  <2>3. Keeps
    BY <1>1, <2>1, <2>2, CallKeeps
  <2>. QED BY <1>1, <2>3, NoneTouched
<1>. QED BY <1>2, <1>3, <1>4, <1>5

\* Every step that orphans no receipt keeps the invariant.
LEMMA DeliveryStep == DeliveryInv /\ [Next]_vars /\ [~Orphans]_vars => DeliveryInv'
<1> SUFFICES ASSUME DeliveryInv, [Next]_vars, [~Orphans]_vars PROVE DeliveryInv'
  OBVIOUS
<1>0. PathInv
  BY DEF DeliveryInv
<1>1. PathInv'
  BY <1>0, PathStep
<1>2. CASE UNCHANGED vars
  BY <1>1, <1>2, PipeDelivers
<1>3. CASE Next /\ ~Orphans
  <2>1. CASE Send \/ SpoolAck \/ Crash \/ TimePasses
    BY <1>1, <2>1, SendDelivers, SpoolAckDelivers, CrashDelivers, TimeDelivers
  <2>2. CASE ConnLost \/ Disconnected \/ AckStall
    BY <1>1, <2>2, LeaveDelivers DEF ConnLost, Disconnected, AckStall
  <2>3. ASSUME NEW c \in Conns, Connect(c) \/ AckTick(c) \/ Stream(c) \/ StreamCancelled(c)
        PROVE  DeliveryInv'
    BY <1>1, <1>3, <2>3, ConnectDelivers, AckDelivers, ReadDelivers, AdmitDelivers, RefuseDelivers,
       HandoffDelivers, EndDelivers DEF Stream
  <2>4. CASE Produce \/ Decode \/ Flush \/ FlushGivesUp \/ Commit \/ NotifyDurable
    BY <1>1, <2>4, PipeDelivers
  <2>5. ASSUME NEW k \in Others, NEW n \in 1..OtherSeq, OtherObserver(k, n)
        PROVE  DeliveryInv'
    BY <1>1, <2>5, PipeDelivers
  <2>. QED BY <1>3, <2>1, <2>2, <2>3, <2>4, <2>5 DEF Next
<1>. QED BY <1>2, <1>3

\* An empty path acknowledges nothing.
LEMMA DeliveryInit == Init => DeliveryInv
<1> SUFFICES ASSUME Init PROVE DeliveryInv
  OBVIOUS
<1>1. PathInv
  BY PathInit
<1>2. conn = [c \in Conns |-> Idle] /\ acked = 0
  BY DEF Init
<1>3. \A i \in 1..0 : FALSE
  OBVIOUS
<1>4. \A n \in (0 + 1)..0 : FALSE
  OBVIOUS
<1>5. ASSUME NEW c \in Conns PROVE ConnInv(c)
  <2>1. /\ ~conn[c].up /\ conn[c].data = <<>> /\ conn[c].acks = <<>> /\ conn[c].highest = 0
        /\ conn[c].stage = "read" /\ ~InHand(conn[c])
    BY <1>2 DEF Idle, InHand
  <2>2. Len(conn[c].data) = 0 /\ Len(conn[c].acks) = 0
    BY <2>1
  <2>3. InOrder(conn[c], acked) /\ SentMatches(conn[c], acked, sentUpto)
    BY <1>3, <2>1, <2>2 DEF InOrder, SentMatches
  <2>4. OnBooks(conn[c]) /\ Earned(conn[c]) /\ Dormant(conn[c])
    BY <1>2, <1>3, <1>4, <2>1, <2>2 DEF OnBooks, Earned, Dormant
  <2>. QED BY <2>3, <2>4 DEF ConnInv
<1>6. 1..acked \subseteq Settled
  BY <1>2
<1>. QED BY <1>1, <1>5, <1>6 DEF DeliveryInv

\* No receipt of the followed session is ever orphaned.
NoOrphans == [][~Orphans]_vars

\* The invariant, for every behaviour in which no receipt is orphaned.
THEOREM DeliveryHolds == Spec /\ NoOrphans => []DeliveryInv
<1>1. Init => DeliveryInv
  BY DeliveryInit
<1>2. DeliveryInv /\ [Next]_vars /\ [~Orphans]_vars => DeliveryInv'
  BY DeliveryStep
<1>. QED BY <1>1, <1>2, PTL DEF Spec, NoOrphans

\* The contract of type DurableTracker end to end, through sendAck and
\* spool_ack: whatever crashes, drops, replays, is refused or forgotten, the
\* feeder deletes a record only once it is committed or was never persistable.
\* The one exception is the receipt orphaned by its own sweep.
THEOREM OnlyOrphansAreLost == Spec /\ NoOrphans => []AckedIsDurable
<1>1. DeliveryInv => AckedIsDurable
  BY DEF DeliveryInv, AckedIsDurable
<1>. QED BY <1>1, DeliveryHolds, PTL

\* Every step of the push path is a step of the abstract promise, or none of
\* its business: spool_ack releases, the historian's commit settles, the
\* producer produces.
LEMMA StepsImplement ==
    ASSUME DeliveryInv, [Next]_vars, [~Orphans]_vars
    PROVE  [Delivery!Next]_(Delivery!vars)
<1>0. PathInv /\ PathInv' /\ seq \in Nat /\ acked \in 0..seq
  BY PathStep, Typed DEF DeliveryInv, PathInv
<1>1. CASE seq' = seq /\ acked' = acked /\ ledger' = ledger
  BY <1>1 DEF Delivery!vars, Settled
<1>2. CASE Produce
  <2>1. seq' = seq + 1 /\ acked' = acked /\ ledger' = ledger
    BY <1>2 DEF Produce, dbVars
  <2>. QED BY <2>1 DEF Delivery!Next, Delivery!Produce, Settled
<1>3. CASE SpoolAck
  <2>1. 1..acked' \subseteq Settled
    BY <1>0, <1>3, SpoolAckDelivers
  <2>2. seq' = seq /\ ledger' = ledger /\ acked' >= acked /\ acked' \in 0..seq
    BY <1>0, <1>3, AckTaken DEF SpoolAck, dbVars
  <2>3. acked' = acked \/ acked' \in (acked + 1)..seq
    BY <1>0, <2>2
  <2>4. Settled' = Settled
    BY <2>2 DEF Settled
  <2>. QED BY <2>1, <2>2, <2>3, <2>4 DEF Delivery!Next, Delivery!Release, Delivery!vars
<1>4. CASE Commit
  <2>1. ledger \subseteq ledger' /\ ledger' \subseteq 1..seq
    BY <1>0, <1>4, CommitKeeps
  <2>2. seq' = seq /\ acked' = acked
    BY <1>4 DEF Commit, feederVars
  <2>3. Settled' = Settled \cup ledger'
    BY <2>1 DEF Settled
  <2>. QED BY <2>1, <2>2, <2>3 DEF Delivery!Next, Delivery!Settle
<1>5. CASE Next /\ ~(Produce \/ SpoolAck \/ Commit)
  <2>1. seq' = seq /\ acked' = acked /\ ledger' = ledger
    BY <1>5 DEF Next, Send, ConnLost, Disconnected, AckStall, Leave, Connect, AckTick, Stream,
       ReadFrame, AdmitReceipt, AdmitRefused, Drained, DrainTimeout, FloodClose, Handoff,
       CloseAfterDurable, StreamEnds, StreamCancelled, Decode, Flush, NotifyDurable,
       FlushGivesUp, Crash, OtherObserver, TimePasses, feederVars, dbVars
  <2>. QED BY <1>1, <2>1
<1>6. CASE UNCHANGED vars
  BY <1>1, <1>6 DEF vars, feederVars, dbVars
<1>. QED BY <1>2, <1>3, <1>4, <1>5, <1>6

\* The push path implements ReliableDelivery: what the feeder has released is
\* settled, in order and for good.
THEOREM PathImplementsDelivery == Spec /\ NoOrphans => ImplementsDelivery
<1>1. Init => Delivery!Init
  BY DEF Init, Delivery!Init, Settled
<1>2. DeliveryInv /\ [Next]_vars /\ [~Orphans]_vars => [Delivery!Next]_(Delivery!vars)
  BY StepsImplement
<1>. QED BY <1>1, <1>2, DeliveryHolds, PTL DEF Spec, NoOrphans, ImplementsDelivery, Delivery!Spec

=============================================================================

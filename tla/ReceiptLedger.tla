---------------------------- MODULE ReceiptLedger ----------------------------
(***************************************************************************)
(* The tracker of DurableTracker.tla under every order of calls its users  *)
(* can make: the push streams call Received, the historian calls Resolved  *)
(* (for committed, quarantined and replayed rows alike, also for sequences *)
(* the tracker never heard of), and time passes.  Three history variables  *)
(* record what the tracker was told, so that its state can be compared     *)
(* with the contract in the comment of type DurableTracker.                *)
(***************************************************************************)
EXTENDS DurableTracker

CONSTANT MaxSeq         \* bound: sequences offered per session

ASSUME SeqAssumption == MaxSeq \in Nat \ {0}

VARIABLES
    open,       \* accepted persistable records not yet resolved
    abandoned,  \* open records a sweep gave up on
    orphaned,   \* open records accepted into a session the same call swept
    leaked      \* how many receipts were ever orphaned

memoryVars == <<open, abandoned, orphaned, leaked>>

vars == <<trackerVars, memoryVars>>

Init ==
    /\ TrackerInit
    /\ open = {}
    /\ abandoned = {}
    /\ orphaned = {}
    /\ leaked = 0

\* What an accepted record adds to the history.  A record that is tracked again
\* is no longer lost from sight.
Remember(k, n, persistable) ==
    LET receipt == IF persistable /\ n > 0 THEN {<<k, n>>} ELSE {}
        swept == holes \ holes'
        lost == receipt \ holes'
    IN  /\ open' = open \cup receipt
        /\ abandoned' = ((abandoned \cup swept) \ holes') \ lost
        /\ orphaned' = (orphaned \cup lost) \ holes'
        /\ leaked' = IF lost = {} THEN leaked ELSE leaked + 1

\* One stream hands one record to Received and is told to go on.
Accept(k, n, persistable) ==
    /\ Received(k, n, persistable)
    /\ Remember(k, n, persistable)

\* One stream hands one record to Received and is told to close.
Reject(k, n, persistable) ==
    /\ Refused(k, n, persistable)
    /\ abandoned' = abandoned \cup (holes \ holes')
    /\ UNCHANGED <<open, orphaned, leaked>>

\* The historian reports one row durable.
Settle(k, n) ==
    /\ Resolved(k, n)
    /\ open' = open \ {<<k, n>>}
    /\ abandoned' = abandoned \ {<<k, n>>}
    /\ orphaned' = orphaned \ {<<k, n>>}
    /\ UNCHANGED leaked

Tick == Elapse /\ UNCHANGED memoryVars

Next ==
    \/ \E k \in Keys, n \in 0..MaxSeq, persistable \in BOOLEAN :
          \/ Accept(k, n, persistable)
          \/ Reject(k, n, persistable)
    \/ \E k \in Keys, n \in 1..MaxSeq : Settle(k, n)
    \/ Tick

Spec == Init /\ [][Next]_vars

-----------------------------------------------------------------------------
\* The tracker's state and its history are well formed: no count is negative,
\* and what was lost is a part of what is open.
TypeOK ==
    /\ TrackerTypeOK
    /\ open \subseteq Keys \X (Nat \ {0})
    /\ abandoned \subseteq open
    /\ orphaned \subseteq open
    /\ leaked \in Nat

\* The books balance.  durable.go keeps the global and the per-observer counts
\* incrementally through receipt, resolution, sweep and eviction; they agree
\* with the table at every step, except that every record accepted into a
\* session swept by its own call stays on the global count for ever.
Accounting ==
    /\ \A h \in holes : h[1] \in sessions
    /\ \A s \in Sources : perSource[s] = Cardinality(SessionsOf(s, sessions))
    /\ outstanding = Cardinality(holes) + leaked

\* Every cap holds after every call, also after a sweep or an eviction in the
\* middle of it.
Budgets ==
    /\ Cardinality(sessions) <= MaxSessions
    /\ outstanding <= MaxOutstanding
    /\ \A s \in Sources : perSource[s] <= MaxPerSource
    /\ \A k \in Keys : Cardinality(Pending(k)) <= MaxPerSession

\* The tracker's contract: the watermark of a session stays below every record
\* the collector accepted and has not seen durable, unless a sweep abandoned
\* the record or its own receipt lost it.
WatermarkBelowOpen ==
    \A h \in open \ (abandoned \cup orphaned) : Watermark(h[1]) < h[2]

\* "nothing is ever acknowledged" by forgetting (comment of
\* durableHoleAbandonAfter): no single call carries a session's watermark over
\* a record that was open before it and is not settled by it, whatever the call
\* sweeps or evicts on the way.
ForgettingNeverAcks ==
    [][\A k \in Keys : \A n \in Pending(k) :
          Watermark(k)' >= n => <<k, n>> \notin open']_vars

=============================================================================

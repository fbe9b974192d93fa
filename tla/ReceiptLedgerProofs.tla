------------------------ MODULE ReceiptLedgerProofs ------------------------
(***************************************************************************)
(* The receipt tracker for every set of observers and sessions and every   *)
(* cap: its counts agree with its table, a watermark never reaches a       *)
(* record that is open and still tracked, every cap of durable.go holds    *)
(* after every call, and forgetting a session never acknowledges what it   *)
(* held.                                                                   *)
(***************************************************************************)
EXTENDS ReceiptLedger, TrackerProofs

\* The tracked holes are exactly the open records nothing has lost.
HolesAreOpen == holes = open \ (abandoned \cup orphaned)

Finite == IsFiniteSet(sessions) /\ IsFiniteSet(holes)

\* The inductive invariant.
IInv == TypeOK /\ Finite /\ Accounting /\ HolesAreOpen

\* The counts agree exactly, so the books of the tracker balance.
LEMMA IInvBooks == IInv => TrackerTypeOK /\ Books
<1> SUFFICES ASSUME IInv PROVE TrackerTypeOK /\ Books
  OBVIOUS
<1>1. Cardinality(holes) \in Nat
  BY FS_CardinalityType DEF IInv, Finite
<1>2. outstanding >= Cardinality(holes)
  BY <1>1 DEF IInv, Accounting, TypeOK
<1>. QED BY <1>2 DEF Books, IInv, TypeOK, Finite, Accounting

\* Forgetting sessions takes their holes off the heaps and off the count, which
\* stays exact.
LEMMA ForgottenHoles ==
    ASSUME IInv, NEW gone \in SUBSET sessions
    PROVE  /\ IsFiniteSet(holes \ HolesOf(gone))
           /\ Cardinality(HolesOf(gone)) \in Nat
           /\ Cardinality(holes \ HolesOf(gone)) \in Nat
           /\ Cardinality(holes \ HolesOf(gone)) =
                 Cardinality(holes) - Cardinality(HolesOf(gone))
           /\ outstanding - Cardinality(HolesOf(gone)) =
                 Cardinality(holes \ HolesOf(gone)) + leaked
           /\ \A h \in holes \ HolesOf(gone) : h[1] \in sessions \ gone
<1>1. HolesOf(gone) \in SUBSET holes
  BY DEF HolesOf
<1>2. IsFiniteSet(holes)
  BY DEF IInv, Finite
<1>3. /\ IsFiniteSet(holes \ HolesOf(gone))
      /\ Cardinality(HolesOf(gone)) \in Nat
      /\ Cardinality(holes) \in Nat
      /\ Cardinality(holes \ HolesOf(gone)) \in Nat
      /\ Cardinality(holes \ HolesOf(gone)) =
            Cardinality(holes) - Cardinality(HolesOf(gone))
  BY <1>1, <1>2, RemoveSubset
<1>4. outstanding = Cardinality(holes) + leaked /\ leaked \in Nat
  BY DEF IInv, Accounting, TypeOK
<1>5. \A h \in holes \ HolesOf(gone) : h[1] \in sessions \ gone
  BY DEF IInv, Accounting, HolesOf
<1>. QED BY <1>3, <1>4, <1>5

\* The history variables follow any change of the holes that adds at most the
\* received record.
LEMMA RememberKeeps ==
    ASSUME IInv, NEW k \in Keys, NEW n \in Nat \ {0}, NEW persistable \in BOOLEAN,
           holes' \subseteq holes \cup (IF persistable THEN {<<k, n>>} ELSE {}),
           Remember(k, n, persistable)
    PROVE  /\ open' \subseteq Keys \X (Nat \ {0})
           /\ abandoned' \subseteq open'
           /\ orphaned' \subseteq open'
           /\ HolesAreOpen'
           /\ leaked' = IF persistable /\ <<k, n>> \notin holes'
                        THEN leaked + 1 ELSE leaked
<1> USE DEF IInv, TypeOK, TrackerTypeOK, HolesAreOpen, Remember
<1>1. CASE persistable
  BY <1>1
<1>2. CASE ~persistable
  BY <1>2
<1>. QED BY <1>1, <1>2

-----------------------------------------------------------------------------
(* One lemma per call of the tracker, with its history.                    *)

\* Received on a known session, returning true.
LEMMA KnownKeeps ==
    ASSUME IInv, NEW k \in Keys, NEW n \in Nat \ {0}, NEW persistable \in BOOLEAN,
           ReceivedKnown(k, n, persistable), Remember(k, n, persistable)
    PROVE  IInv'
<1>0. /\ TypeOK /\ Finite /\ Accounting /\ HolesAreOpen
      /\ k \in sessions
  BY DEF IInv, ReceivedKnown
<1>1. CASE persistable /\ <<k, n>> \notin holes
  <2> DEFINE full == outstanding >= MaxOutstanding
             gone == Swept(full)
             kept == holes \ HolesOf(gone)
  <2>1. gone \in SUBSET sessions
    BY SweptInTable
  <2>2. /\ outstanding' = outstanding - Cardinality(HolesOf(gone)) + 1
        /\ pruneIn' = PruneStamp(full)
        /\ Retable(gone, {})
        /\ IF k \in gone
           THEN /\ holes' = kept
                /\ highest' = [j \in Keys |-> IF j \in gone THEN 0 ELSE highest[j]]
                /\ idle' = [j \in Keys |-> IF j \in gone THEN 0 ELSE idle[j]]
           ELSE /\ holes' = kept \cup {<<k, n>>}
                /\ Track(k, n, gone)
    BY <1>1 DEF ReceivedKnown
  <2>3. /\ IsFiniteSet(kept) /\ Cardinality(kept) \in Nat
        /\ outstanding - Cardinality(HolesOf(gone)) = Cardinality(kept) + leaked
        /\ \A h \in kept : h[1] \in sessions \ gone
    BY <2>1, ForgottenHoles
  <2>4. /\ sessions' \subseteq Keys /\ IsFiniteSet(sessions')
        /\ perSource' \in [Sources -> Nat]
        /\ \A s \in Sources : perSource'[s] = Cardinality(SessionsOf(s, sessions'))
    BY <1>0, <2>1, <2>2, RetableCounts, IInvBooks, FS_EmptySet
  <2>5. sessions' = sessions \ gone
    BY <2>2 DEF Retable
  <2>6. pruneIn' \in Nat
    BY <1>0, <2>2, BudgetAssumption DEF PruneStamp, TypeOK, TrackerTypeOK
  <2> HIDE DEF gone, full, kept
  <2>7. kept \subseteq holes
    BY DEF kept
  <2>8. /\ open' \subseteq Keys \X (Nat \ {0})
        /\ abandoned' \subseteq open' /\ orphaned' \subseteq open'
        /\ HolesAreOpen'
        /\ leaked' = IF <<k, n>> \notin holes' THEN leaked + 1 ELSE leaked
    BY <1>1, <2>2, <2>7, RememberKeeps
  <2>9. CASE k \in gone
    <3>1. <<k, n>> \notin holes'
      BY <1>1, <2>2, <2>7, <2>9
    <3>2. /\ IsFiniteSet(holes') /\ outstanding' = Cardinality(holes') + leaked'
          /\ leaked' \in Nat /\ outstanding' \in Nat
      BY <1>0, <2>2, <2>3, <2>8, <2>9, <3>1 DEF TypeOK
    <3>3. \A h \in holes' : h[1] \in sessions'
      BY <2>2, <2>3, <2>5, <2>9
    <3>4. highest' \in [Keys -> Nat] /\ idle' \in [Keys -> Nat]
      BY <1>0, <2>2, <2>9 DEF TypeOK, TrackerTypeOK
    <3>5. holes' \subseteq Keys \X (Nat \ {0})
      BY <1>0, <2>2, <2>7, <2>9 DEF TypeOK, TrackerTypeOK
    <3>. QED BY <2>4, <2>6, <2>8, <3>2, <3>3, <3>4, <3>5
             DEF IInv, TypeOK, TrackerTypeOK, Finite, Accounting
  <2>10. CASE k \notin gone
    <3>1. <<k, n>> \in holes' /\ <<k, n>> \notin kept
      BY <1>1, <2>2, <2>7, <2>10
    <3>2. /\ IsFiniteSet(holes') /\ Cardinality(holes') = Cardinality(kept) + 1
      BY <2>2, <2>3, <2>10, <3>1, FS_AddElement
    <3>3. /\ outstanding' = Cardinality(holes') + leaked'
          /\ leaked' \in Nat /\ outstanding' \in Nat
      BY <1>0, <2>2, <2>3, <2>8, <3>1, <3>2 DEF TypeOK
    <3>4. \A h \in holes' : h[1] \in sessions'
      BY <1>0, <2>2, <2>3, <2>5, <2>10
    <3>5. highest' \in [Keys -> Nat] /\ idle' \in [Keys -> Nat]
      BY <1>0, <2>2, <2>10, TakeType, IInvBooks
    <3>6. holes' \subseteq Keys \X (Nat \ {0})
      BY <1>0, <2>2, <2>7, <2>10 DEF TypeOK, TrackerTypeOK
    <3>. QED BY <2>4, <2>6, <2>8, <3>2, <3>3, <3>4, <3>5, <3>6
             DEF IInv, TypeOK, TrackerTypeOK, Finite, Accounting
  <2>. QED BY <2>9, <2>10
<1>2. CASE ~(persistable /\ <<k, n>> \notin holes)
  <2>1. /\ Track(k, n, {})
        /\ UNCHANGED <<sessions, holes, outstanding, perSource, pruneIn>>
    BY <1>2 DEF ReceivedKnown
  <2>2. highest' \in [Keys -> Nat] /\ idle' \in [Keys -> Nat]
    BY <1>0, <2>1, TakeType, IInvBooks
  <2>3. /\ open' \subseteq Keys \X (Nat \ {0})
        /\ abandoned' \subseteq open' /\ orphaned' \subseteq open'
        /\ HolesAreOpen' /\ leaked' = leaked
    BY <1>2, <2>1, RememberKeeps
  <2>. QED BY <1>0, <2>1, <2>2, <2>3
           DEF IInv, TypeOK, TrackerTypeOK, Finite, Accounting
<1>. QED BY <1>1, <1>2

\* Received that creates its session, returning true.
LEMMA NewKeeps ==
    ASSUME IInv, NEW k \in Keys, NEW n \in Nat \ {0}, NEW persistable \in BOOLEAN,
           ReceivedNew(k, n, persistable), Remember(k, n, persistable)
    PROVE  IInv'
<1>0. /\ TypeOK /\ Finite /\ Accounting /\ HolesAreOpen
      /\ k \notin sessions
  BY DEF IInv, ReceivedNew
<1> DEFINE pressure == AtCapacity(k, persistable)
           swept == Swept(pressure)
           kept == holes \ HolesOf(swept)
           receipt == IF persistable THEN {<<k, n>>} ELSE {}
<1>1. PICK evicted \in SUBSET (sessions \ swept) :
        /\ RoomFor(k, swept, evicted)
        /\ outstanding' = IF persistable
                          THEN outstanding - Cardinality(HolesOf(swept)) + 1
                          ELSE outstanding - Cardinality(HolesOf(swept))
        /\ holes' = kept \cup receipt
        /\ pruneIn' = PruneStamp(pressure)
        /\ Retable(swept \cup evicted, {k})
        /\ Track(k, n, swept \cup evicted)
  BY DEF ReceivedNew
<1>2. swept \in SUBSET sessions
  BY SweptInTable
<1>3. evicted \in SUBSET (sessions \ swept) /\ HolesOf(evicted) = {}
  BY <1>1, <1>2, EvictedInTable
<1>4. /\ IsFiniteSet(kept) /\ Cardinality(kept) \in Nat
      /\ outstanding - Cardinality(HolesOf(swept)) = Cardinality(kept) + leaked
      /\ \A h \in kept : h[1] \in sessions \ swept
  BY <1>2, ForgottenHoles
<1>5. pruneIn' \in Nat
  BY <1>0, <1>1, BudgetAssumption DEF PruneStamp, TypeOK, TrackerTypeOK
<1>6. kept \subseteq holes /\ \A h \in kept : h[1] \notin evicted
  BY <1>3 DEF HolesOf
<1> HIDE DEF swept, kept, pressure
<1> DEFINE gone == swept \cup evicted
<1>7. /\ gone \in SUBSET sessions /\ IsFiniteSet({k})
      /\ {k} \in SUBSET Keys /\ {k} \cap (sessions \ gone) = {}
  <2>1. IsFiniteSet({k})
    BY FS_Singleton
  <2>2. gone \in SUBSET sessions
    BY <1>2, <1>3
  <2>. QED BY <1>0, <2>1, <2>2
<1>8. /\ sessions' \subseteq Keys /\ IsFiniteSet(sessions')
      /\ perSource' \in [Sources -> Nat]
      /\ \A s \in Sources : perSource'[s] = Cardinality(SessionsOf(s, sessions'))
  BY <1>0, <1>1, <1>7, RetableCounts, IInvBooks
<1>9. sessions' = (sessions \ gone) \cup {k}
  BY <1>1 DEF Retable
<1>10. /\ open' \subseteq Keys \X (Nat \ {0})
       /\ abandoned' \subseteq open' /\ orphaned' \subseteq open'
       /\ HolesAreOpen'
       /\ leaked' = IF persistable /\ <<k, n>> \notin holes'
                    THEN leaked + 1 ELSE leaked
  BY <1>1, <1>6, RememberKeeps
<1>11. highest' \in [Keys -> Nat] /\ idle' \in [Keys -> Nat]
  BY <1>0, <1>1, TakeType, IInvBooks
<1>12. /\ holes' \subseteq Keys \X (Nat \ {0})
       /\ \A h \in holes' : h[1] \in sessions'
  BY <1>0, <1>1, <1>4, <1>6, <1>9 DEF TypeOK, TrackerTypeOK
<1>13. /\ IsFiniteSet(holes') /\ leaked' = leaked
       /\ outstanding' = Cardinality(holes') + leaked' /\ outstanding' \in Nat
  <2>1. CASE persistable
    <3>1. <<k, n>> \notin kept
      BY <1>0, <1>4
    <3>2. IsFiniteSet(holes') /\ Cardinality(holes') = Cardinality(kept) + 1
      BY <1>1, <1>4, <2>1, <3>1, FS_AddElement
    <3>. QED BY <1>0, <1>1, <1>4, <1>10, <2>1, <3>2 DEF TypeOK
  <2>2. CASE ~persistable
    <3>1. holes' = kept
      BY <1>1, <2>2
    <3>. QED BY <1>0, <1>1, <1>4, <1>10, <2>2, <3>1 DEF TypeOK
  <2>. QED BY <2>1, <2>2
<1>. QED BY <1>0, <1>5, <1>8, <1>10, <1>11, <1>12, <1>13
         DEF IInv, TypeOK, TrackerTypeOK, Finite, Accounting

\* Received returning false, whatever it swept or evicted before it refused.
LEMMA ForgettingKeeps ==
    ASSUME IInv, NEW gone \in SUBSET sessions, NEW pressure,
           RefusedAfter(gone, pressure),
           abandoned' = abandoned \cup (holes \ holes'),
           UNCHANGED <<open, orphaned, leaked>>
    PROVE  IInv'
<1>0. TypeOK /\ Finite /\ Accounting /\ HolesAreOpen
  BY DEF IInv
<1> DEFINE kept == holes \ HolesOf(gone)
<1>1. /\ Retable(gone, {}) /\ holes' = kept
      /\ outstanding' = outstanding - Cardinality(HolesOf(gone))
      /\ pruneIn' = PruneStamp(pressure)
      /\ highest' = [j \in Keys |-> IF j \in gone THEN 0 ELSE highest[j]]
      /\ idle' = [j \in Keys |-> IF j \in gone THEN 0 ELSE idle[j]]
  BY DEF RefusedAfter
<1>2. /\ IsFiniteSet(kept) /\ Cardinality(kept) \in Nat
      /\ outstanding - Cardinality(HolesOf(gone)) = Cardinality(kept) + leaked
      /\ \A h \in kept : h[1] \in sessions \ gone
  BY ForgottenHoles
<1>3. /\ sessions' \subseteq Keys /\ IsFiniteSet(sessions')
      /\ perSource' \in [Sources -> Nat]
      /\ \A s \in Sources : perSource'[s] = Cardinality(SessionsOf(s, sessions'))
  BY <1>0, <1>1, RetableCounts, IInvBooks, FS_EmptySet
<1>4. sessions' = sessions \ gone
  BY <1>1 DEF Retable
<1>5. pruneIn' \in Nat
  BY <1>0, <1>1, BudgetAssumption DEF PruneStamp, TypeOK, TrackerTypeOK
<1>6. kept \subseteq holes
  OBVIOUS
<1> HIDE DEF kept
<1>7. highest' \in [Keys -> Nat] /\ idle' \in [Keys -> Nat]
  BY <1>0, <1>1 DEF TypeOK, TrackerTypeOK
<1>8. /\ open' \subseteq Keys \X (Nat \ {0})
      /\ abandoned' \subseteq open' /\ orphaned' \subseteq open'
      /\ HolesAreOpen' /\ leaked' = leaked /\ leaked \in Nat
      /\ holes' \subseteq Keys \X (Nat \ {0})
  BY <1>0, <1>1, <1>6 DEF TypeOK, TrackerTypeOK, HolesAreOpen
<1>9. /\ IsFiniteSet(holes') /\ outstanding' \in Nat
      /\ outstanding' = Cardinality(holes') + leaked'
      /\ \A h \in holes' : h[1] \in sessions'
  BY <1>1, <1>2, <1>4, <1>8
<1>. QED BY <1>3, <1>5, <1>7, <1>8, <1>9
         DEF IInv, TypeOK, TrackerTypeOK, Finite, Accounting

\* Resolved, for a tracked sequence, an untracked one or an unknown session.
LEMMA SettleKeeps ==
    ASSUME IInv, NEW k \in Keys, NEW n \in Nat \ {0}, Settle(k, n)
    PROVE  IInv'
<1>0. TypeOK /\ Finite /\ Accounting /\ HolesAreOpen
  BY DEF IInv
<1>1. /\ open' = open \ {<<k, n>>} /\ abandoned' = abandoned \ {<<k, n>>}
      /\ orphaned' = orphaned \ {<<k, n>>} /\ leaked' = leaked
      /\ Resolved(k, n)
  BY DEF Settle
<1>2. CASE k \in sessions
  <2>1. /\ idle' = [idle EXCEPT ![k] = 0]
        /\ holes' = holes \ {<<k, n>>}
        /\ outstanding' = IF <<k, n>> \in holes THEN outstanding - 1 ELSE outstanding
        /\ UNCHANGED <<sessions, highest, perSource, pruneIn>>
    BY <1>1, <1>2 DEF Resolved
  <2>2. /\ IsFiniteSet(holes')
        /\ Cardinality(holes') = IF <<k, n>> \in holes
                                 THEN Cardinality(holes) - 1 ELSE Cardinality(holes)
    BY <1>0, <2>1, FS_RemoveElement DEF Finite
  <2>3. Cardinality(holes) \in Nat /\ Cardinality(holes') \in Nat
    BY <1>0, <2>2, FS_CardinalityType DEF Finite
  <2>4. outstanding' = Cardinality(holes') + leaked' /\ outstanding' \in Nat
    BY <1>0, <1>1, <2>1, <2>2, <2>3 DEF Accounting, TypeOK
  <2>5. HolesAreOpen'
    BY <1>0, <1>1, <2>1 DEF HolesAreOpen
  <2>6. TypeOK'
    BY <1>0, <1>1, <2>1, <2>4 DEF TypeOK, TrackerTypeOK
  <2>. QED BY <1>0, <2>1, <2>2, <2>4, <2>5, <2>6 DEF IInv, Finite, Accounting
<1>3. CASE k \notin sessions
  <2>1. UNCHANGED trackerVars /\ <<k, n>> \notin holes
    BY <1>0, <1>1, <1>3 DEF Resolved, Accounting
  <2>. QED BY <1>0, <1>1, <2>1
           DEF IInv, TypeOK, TrackerTypeOK, Finite, Accounting, HolesAreOpen, trackerVars
<1>. QED BY <1>2, <1>3

\* A step that changes nothing keeps the invariant.
LEMMA StutterKeeps ==
    ASSUME IInv, UNCHANGED vars
    PROVE  IInv'
BY DEF vars, trackerVars, memoryVars, IInv, TypeOK, TrackerTypeOK, Finite,
       Accounting, HolesAreOpen

\* Received returning true, for a known or a new session.
LEMMA AcceptKeeps ==
    ASSUME IInv, NEW k \in Keys, NEW n \in Nat, NEW persistable \in BOOLEAN,
           Accept(k, n, persistable)
    PROVE  IInv'
<1>1. CASE n = 0 /\ UNCHANGED trackerVars
  <2>1. holes' = holes /\ holes \cap (abandoned \cup orphaned) = {}
    BY <1>1 DEF trackerVars, IInv, HolesAreOpen
  <2>2. Remember(k, 0, persistable)
    BY <1>1 DEF Accept
  <2>3. UNCHANGED memoryVars
    BY <2>1, <2>2 DEF Remember, memoryVars
  <2>. QED BY <1>1, <2>3, StutterKeeps DEF vars
<1>2. CASE n > 0 /\ ReceivedKnown(k, n, persistable)
  BY <1>2, KnownKeeps DEF Accept
<1>3. CASE n > 0 /\ ReceivedNew(k, n, persistable)
  BY <1>3, NewKeeps DEF Accept
<1>. QED BY <1>1, <1>2, <1>3 DEF Accept, Received

\* Received returning false, before or after a sweep.
LEMMA RejectKeeps ==
    ASSUME IInv, NEW k \in Keys, NEW n \in Nat, NEW persistable \in BOOLEAN,
           Reject(k, n, persistable)
    PROVE  IInv'
<1>1. /\ abandoned' = abandoned \cup (holes \ holes')
      /\ UNCHANGED <<open, orphaned, leaked>>
      /\ RefusedKnown(k, n, persistable) \/ RefusedNew(k, persistable)
  BY DEF Reject, Refused
<1>2. CASE UNCHANGED trackerVars
  BY <1>1, <1>2 DEF IInv, TypeOK, TrackerTypeOK, Finite, Accounting, HolesAreOpen,
                    trackerVars
<1>3. ASSUME NEW gone \in SUBSET sessions, NEW pressure,
             RefusedAfter(gone, pressure)
      PROVE  IInv'
  BY <1>1, <1>3, ForgettingKeeps
<1>4. CASE RefusedKnown(k, n, persistable)
  BY <1>2, <1>3, <1>4, SweptInTable DEF RefusedKnown
<1>5. CASE RefusedNew(k, persistable)
  <2> DEFINE swept == Swept(AtCapacity(k, persistable))
  <2>1. swept \in SUBSET sessions
    BY SweptInTable
  <2>2. \/ RefusedAfter(swept, AtCapacity(k, persistable))
        \/ \E evicted \in SUBSET (sessions \ swept) :
              RefusedAfter(swept \cup evicted, AtCapacity(k, persistable))
    BY <1>5 DEF RefusedNew
  <2> HIDE DEF swept
  <2>. QED BY <1>3, <2>1, <2>2
<1>. QED BY <1>1, <1>4, <1>5

-----------------------------------------------------------------------------
\* The inductive invariant holds initially and is kept by every call.
THEOREM Inductive == Spec => []IInv
<1>1. Init => IInv
  <2> SUFFICES ASSUME Init PROVE IInv
    OBVIOUS
  <2>1. IsFiniteSet({}) /\ Cardinality({}) = 0
    BY FS_EmptySet
  <2>2. \A s \in Sources : SessionsOf(s, {}) = {}
    BY DEF SessionsOf
  <2>. QED BY <2>1, <2>2 DEF Init, TrackerInit, IInv, TypeOK, TrackerTypeOK, Finite,
                             Accounting, HolesAreOpen
<1>2. IInv /\ [Next]_vars => IInv'
  <2> SUFFICES ASSUME IInv, [Next]_vars PROVE IInv'
    OBVIOUS
  <2>1. ASSUME NEW k \in Keys, NEW n \in 0..MaxSeq, NEW persistable \in BOOLEAN,
               Accept(k, n, persistable) \/ Reject(k, n, persistable)
        PROVE  IInv'
    BY <2>1, AcceptKeeps, RejectKeeps, SeqAssumption
  <2>2. ASSUME NEW k \in Keys, NEW n \in 1..MaxSeq, Settle(k, n)
        PROVE  IInv'
    BY <2>2, SettleKeeps, SeqAssumption
  <2>3. CASE Tick
    <3>1. idle' \in [Keys -> Nat] /\ pruneIn' \in Nat
      BY <2>3 DEF Tick, Elapse, IInv, TypeOK, TrackerTypeOK
    <3>2. UNCHANGED <<sessions, highest, holes, outstanding, perSource, memoryVars>>
      BY <2>3 DEF Tick, Elapse
    <3>. QED BY <3>1, <3>2 DEF memoryVars, IInv, TypeOK, TrackerTypeOK, Finite,
                               Accounting, HolesAreOpen
  <2>4. CASE UNCHANGED vars
    BY <2>4, StutterKeeps
  <2>. QED BY <2>1, <2>2, <2>3, <2>4 DEF Next
<1>. QED BY <1>1, <1>2, PTL DEF Spec

\* Every variable of the tracker keeps its type; no count goes negative.
THEOREM TypeCorrect == Spec => []TypeOK
<1>1. IInv => TypeOK
  BY DEF IInv
<1>. QED BY <1>1, Inductive, PTL

\* The incremental counts of durable.go agree with its table at every step, up
\* to the receipts orphaned by their own sweep.
THEOREM BooksBalance == Spec => []Accounting
<1>1. IInv => Accounting
  BY DEF IInv
<1>. QED BY <1>1, Inductive, PTL

\* The contract of type DurableTracker: the value stream may acknowledge is
\* below every open record that neither a sweep nor its own receipt lost.
THEOREM WatermarkSafe == Spec => []WatermarkBelowOpen
<1>1. IInv => WatermarkBelowOpen
  <2> SUFFICES ASSUME IInv, NEW h \in open \ (abandoned \cup orphaned)
               PROVE  Watermark(h[1]) < h[2]
    BY DEF WatermarkBelowOpen
  <2>1. h \in holes /\ h = <<h[1], h[2]>> /\ h[1] \in Keys /\ h[2] \in Nat
    BY DEF IInv, HolesAreOpen, TypeOK, TrackerTypeOK
  <2>. QED BY <2>1, WatermarkBelow, IInvBooks
<1>. QED BY <1>1, Inductive, PTL

-----------------------------------------------------------------------------
(* The caps, and what a call forgets.                                      *)

\* A session's heap is finite.
LEMMA PendingFinite ==
    ASSUME IInv, NEW k \in Keys
    PROVE  IsFiniteSet(Pending(k)) /\ Cardinality(Pending(k)) \in Nat
<1> DEFINE S == {x \in holes : x[1] = k}
           f == [h \in S |-> h[2]]
<1>1. IsFiniteSet(S)
  BY FS_Subset DEF IInv, Finite
<1>2. f \in Surjection(S, Pending(k))
  BY DEF Pending, Surjection
<1>3. IsFiniteSet(Pending(k))
  BY <1>1, <1>2, FS_Surjection
<1>. QED BY <1>3, FS_CardinalityType

\* A subset of a finite set is not larger.
LEMMA SubsetBound ==
    ASSUME NEW S, IsFiniteSet(S), NEW T \in SUBSET S, NEW m \in Nat,
           Cardinality(S) <= m
    PROVE  Cardinality(T) \in Nat /\ Cardinality(T) <= m
<1>1. IsFiniteSet(T) /\ Cardinality(T) <= Cardinality(S)
  BY FS_Subset
<1>2. Cardinality(T) \in Nat /\ Cardinality(S) \in Nat
  BY <1>1, FS_CardinalityType
<1>. QED BY <1>1, <1>2

\* The caps are numbers.
LEMMA CapsAreNumbers ==
    /\ MaxSessions \in Nat \ {0} /\ MaxOutstanding \in Nat \ {0}
    /\ MaxPerSession \in Nat \ {0} /\ MaxPerSource \in Nat \ {0}
BY BudgetAssumption

\* A call that adds no session keeps the caps on sessions.
LEMMA FewerSessions ==
    ASSUME IInv, IInv', Budgets, sessions' \subseteq sessions
    PROVE  /\ Cardinality(sessions') <= MaxSessions
           /\ \A s \in Sources : perSource'[s] <= MaxPerSource
<1>1. Cardinality(sessions') <= MaxSessions
  BY SubsetBound, CapsAreNumbers DEF IInv, Finite, Budgets
<1>2. ASSUME NEW s \in Sources PROVE perSource'[s] <= MaxPerSource
  <2>1. /\ perSource'[s] = Cardinality(SessionsOf(s, sessions'))
        /\ Cardinality(SessionsOf(s, sessions)) <= MaxPerSource
    BY DEF IInv, Accounting, Budgets, SessionsOf
  <2>2. SessionsOf(s, sessions') \in SUBSET SessionsOf(s, sessions)
    BY DEF SessionsOf
  <2>3. IsFiniteSet(SessionsOf(s, sessions))
    BY FS_Subset DEF IInv, Finite, SessionsOf
  <2>. QED BY <2>1, <2>2, <2>3, SubsetBound, CapsAreNumbers
<1>. QED BY <1>1, <1>2

\* A heap that grows by at most one record, and only below its cap, keeps it.
LEMMA HeapsBounded ==
    ASSUME IInv, IInv', Budgets, NEW k \in Keys, NEW n,
           holes' \subseteq holes \cup {<<k, n>>},
           Cardinality(Pending(k)) < MaxPerSession
    PROVE  \A j \in Keys : Cardinality(Pending(j)') <= MaxPerSession
<1> SUFFICES ASSUME NEW j \in Keys
             PROVE  Cardinality(Pending(j)') <= MaxPerSession
  OBVIOUS
<1>1. IsFiniteSet(Pending(j)) /\ Cardinality(Pending(j)) \in Nat
  BY PendingFinite
<1>2. CASE j # k
  <2>1. Pending(j)' \in SUBSET Pending(j)
    BY <1>2 DEF Pending
  <2>2. Cardinality(Pending(j)) <= MaxPerSession
    BY DEF Budgets
  <2> HIDE DEF Pending
  <2>. QED BY <1>1, <2>1, <2>2, SubsetBound, CapsAreNumbers
<1>3. CASE j = k
  <2>1. Pending(k)' \in SUBSET (Pending(k) \cup {n})
    BY DEF Pending
  <2>2. /\ IsFiniteSet(Pending(k) \cup {n})
        /\ Cardinality(Pending(k) \cup {n}) =
              IF n \in Pending(k) THEN Cardinality(Pending(k))
                                  ELSE Cardinality(Pending(k)) + 1
    BY <1>1, <1>3, FS_AddElement
  <2>3. Cardinality(Pending(k) \cup {n}) <= MaxPerSession
    BY <1>1, <1>3, <2>2, CapsAreNumbers
  <2>4. Cardinality(Pending(k)') <= MaxPerSession
    BY <2>1, <2>2, <2>3, SubsetBound, CapsAreNumbers
  <2>. QED BY <1>3, <2>4
<1>. QED BY <1>2, <1>3

\* A call that only forgets or resolves keeps every cap.
LEMMA ShrinkKeepsBudgets ==
    ASSUME IInv, IInv', Budgets, sessions' \subseteq sessions,
           holes' \subseteq holes, outstanding' <= outstanding
    PROVE  Budgets'
<1>1. ASSUME NEW j \in Keys PROVE Cardinality(Pending(j)') <= MaxPerSession
  <2>1. Pending(j)' \in SUBSET Pending(j)
    BY DEF Pending
  <2>2. IsFiniteSet(Pending(j)) /\ Cardinality(Pending(j)) <= MaxPerSession
    BY PendingFinite DEF Budgets
  <2> HIDE DEF Pending
  <2>. QED BY <2>1, <2>2, SubsetBound, CapsAreNumbers
<1>2. outstanding' <= MaxOutstanding
  <2>1. outstanding' \in Nat /\ outstanding \in Nat
    BY DEF IInv, TypeOK, TrackerTypeOK
  <2>. QED BY <2>1, CapsAreNumbers DEF Budgets
<1>. QED BY <1>1, <1>2, FewerSessions DEF Budgets

\* Received on a known session, returning true.
LEMMA KnownKeepsBudgets ==
    ASSUME IInv, IInv', Budgets, NEW k \in Keys, NEW n \in Nat \ {0},
           NEW persistable \in BOOLEAN, ReceivedKnown(k, n, persistable)
    PROVE  Budgets'
<1>1. CASE persistable /\ <<k, n>> \notin holes
  <2> DEFINE gone == Swept(outstanding >= MaxOutstanding)
             left == outstanding - Cardinality(HolesOf(gone))
  <2>1. /\ Cardinality(Pending(k)) < MaxPerSession
        /\ left < MaxOutstanding /\ outstanding' = left + 1
        /\ Retable(gone, {})
        /\ \/ holes' = holes \ HolesOf(gone)
           \/ holes' = (holes \ HolesOf(gone)) \cup {<<k, n>>}
    BY <1>1 DEF ReceivedKnown
  <2>2. left \in Int
    <3>1. gone \in SUBSET sessions
      BY SweptInTable
    <3>2. Cardinality(HolesOf(gone)) \in Nat
      BY <3>1, ForgottenHoles
    <3>. QED BY <3>2 DEF IInv, TypeOK, TrackerTypeOK
  <2> HIDE DEF left
  <2>3. outstanding' <= MaxOutstanding
    BY <2>1, <2>2, CapsAreNumbers
  <2>4. sessions' \subseteq sessions
    BY <2>1 DEF Retable
  <2>5. holes' \subseteq holes \cup {<<k, n>>}
    BY <2>1
  <2>6. \A j \in Keys : Cardinality(Pending(j)') <= MaxPerSession
    BY <2>1, <2>5, HeapsBounded
  <2>. QED BY <2>3, <2>4, <2>6, FewerSessions DEF Budgets
<1>2. CASE ~(persistable /\ <<k, n>> \notin holes)
  <2>1. UNCHANGED <<sessions, holes, outstanding, perSource>>
    BY <1>2 DEF ReceivedKnown
  <2>2. outstanding \in Nat
    BY DEF IInv, TypeOK, TrackerTypeOK
  <2>. QED BY <2>1, <2>2, ShrinkKeepsBudgets
<1>. QED BY <1>1, <1>2

\* The observer of a new session stays within its cap: below it there is room,
\* at it one session is evicted first.
LEMMA ObserverCap ==
    ASSUME IInv, Budgets, NEW k \in Keys, k \notin sessions,
           NEW swept \in SUBSET sessions, NEW evicted,
           RoomFor(k, swept, evicted), Retable(swept \cup evicted, {k})
    PROVE  perSource'[k[1]] <= MaxPerSource
<1> DEFINE s == k[1]
           A == SessionsOf(s, swept)
           B == SessionsOf(s, swept \cup evicted)
<1>0. s \in Sources
  BY KeyAssumption
<1>1. /\ IsFiniteSet(A) /\ Cardinality(A) \in Nat
  <2>1. A \in SUBSET sessions
    BY DEF SessionsOf
  <2>. QED BY <2>1, RemoveSubset DEF IInv, Finite
<1>2. Cardinality(SessionsOf(s, {k})) = 1
  <2>1. SessionsOf(s, {k}) = {k}
    BY DEF SessionsOf
  <2>. QED BY <2>1, FS_Singleton
<1>3. perSource'[s] = perSource[s] - Cardinality(B) + 1
  BY <1>0, <1>2 DEF Retable
<1>4. perSource[s] \in Nat /\ perSource[s] <= MaxPerSource
  BY <1>0 DEF IInv, TypeOK, TrackerTypeOK, Budgets
<1>5. CASE perSource[s] - Cardinality(A) >= MaxPerSource
  <2>1. PICK v \in Evictable(s, sessions \ swept) : evicted = {v}
    BY <1>5 DEF RoomFor
  <2>2. B = A \cup {v} /\ v \notin A
    BY <2>1 DEF Evictable, SessionsOf
  <2>3. Cardinality(A \cup {v}) = Cardinality(A) + 1
    BY <1>1, <2>2, FS_AddElement
  <2> HIDE DEF A, B, s
  <2>. QED BY <1>1, <1>3, <1>4, <2>2, <2>3, CapsAreNumbers DEF s
<1>6. CASE ~(perSource[s] - Cardinality(A) >= MaxPerSource)
  <2>1. evicted = {}
    BY <1>6 DEF RoomFor
  <2>2. B = A
    BY <2>1
  <2> HIDE DEF A, B, s
  <2>. QED BY <1>1, <1>3, <1>4, <1>6, <2>2, CapsAreNumbers DEF s
<1>. QED BY <1>5, <1>6

\* Received that creates its session, returning true.
LEMMA NewKeepsBudgets ==
    ASSUME IInv, IInv', Budgets, NEW k \in Keys, NEW n \in Nat \ {0},
           NEW persistable \in BOOLEAN, ReceivedNew(k, n, persistable)
    PROVE  Budgets'
<1> DEFINE swept == Swept(AtCapacity(k, persistable))
           left == outstanding - Cardinality(HolesOf(swept))
<1>1. k \notin sessions
  BY DEF ReceivedNew
<1>2. PICK evicted \in SUBSET (sessions \ swept) :
        /\ RoomFor(k, swept, evicted)
        /\ persistable => left < MaxOutstanding
        /\ outstanding' = IF persistable THEN left + 1 ELSE left
        /\ holes' = (holes \ HolesOf(swept))
                       \cup (IF persistable THEN {<<k, n>>} ELSE {})
        /\ Retable(swept \cup evicted, {k})
  BY DEF ReceivedNew
<1>3. swept \in SUBSET sessions
  BY SweptInTable
<1>4. outstanding' <= MaxOutstanding
  <2>1. Cardinality(HolesOf(swept)) \in Nat
    BY <1>3, ForgottenHoles
  <2>2. outstanding \in Nat /\ outstanding <= MaxOutstanding
    BY DEF IInv, TypeOK, TrackerTypeOK, Budgets
  <2> HIDE DEF swept
  <2>. QED BY <1>2, <2>1, <2>2, CapsAreNumbers
<1>5. Cardinality(sessions') <= MaxSessions
  <2>1. IsFiniteSet(sessions \ swept) /\ Cardinality(sessions \ swept) \in Nat
    BY <1>3, RemoveSubset DEF IInv, Finite
  <2>2. Cardinality(sessions \ swept) < MaxSessions
    BY <1>2 DEF RoomFor
  <2>3. sessions' \in SUBSET ((sessions \ swept) \cup {k})
    BY <1>2 DEF Retable
  <2>4. /\ IsFiniteSet((sessions \ swept) \cup {k})
        /\ Cardinality((sessions \ swept) \cup {k}) =
              Cardinality(sessions \ swept) + 1
    <3> DEFINE K == sessions \ swept
    <3>1. k \notin K /\ IsFiniteSet(K)
      BY <1>1, <2>1
    <3> HIDE DEF K
    <3>2. IsFiniteSet(K \cup {k}) /\ Cardinality(K \cup {k}) = Cardinality(K) + 1
      BY <3>1, FS_AddElement
    <3>. QED BY <3>2 DEF K
  <2> HIDE DEF swept
  <2>5. Cardinality((sessions \ swept) \cup {k}) <= MaxSessions
    BY <2>1, <2>2, <2>4, CapsAreNumbers
  <2>. QED BY <2>3, <2>4, <2>5, SubsetBound, CapsAreNumbers
<1>6. ASSUME NEW s \in Sources PROVE perSource'[s] <= MaxPerSource
  <2>1. CASE s = k[1]
    BY <1>1, <1>2, <1>3, <2>1, ObserverCap
  <2>2. CASE s # k[1]
    <3>1. SessionsOf(s, sessions') \in SUBSET SessionsOf(s, sessions)
      BY <1>2, <2>2 DEF Retable, SessionsOf
    <3>2. /\ perSource'[s] = Cardinality(SessionsOf(s, sessions'))
          /\ Cardinality(SessionsOf(s, sessions)) <= MaxPerSource
      BY DEF IInv, Accounting, Budgets, SessionsOf
    <3>3. IsFiniteSet(SessionsOf(s, sessions))
      BY FS_Subset DEF IInv, Finite, SessionsOf
    <3>. QED BY <3>1, <3>2, <3>3, SubsetBound, CapsAreNumbers
  <2>. QED BY <2>1, <2>2
<1>7. \A j \in Keys : Cardinality(Pending(j)') <= MaxPerSession
  <2>1. Pending(k) = {}
    BY <1>1 DEF Pending, IInv, Accounting
  <2>2. Cardinality(Pending(k)) < MaxPerSession
    BY <2>1, FS_EmptySet, CapsAreNumbers
  <2>3. holes' \subseteq holes \cup {<<k, n>>}
    BY <1>2
  <2>. QED BY <2>2, <2>3, HeapsBounded
<1>. QED BY <1>4, <1>5, <1>6, <1>7 DEF Budgets

\* Received returning false, whatever it swept or evicted.
LEMMA RejectShrinks ==
    ASSUME IInv, NEW k \in Keys, NEW n \in Nat, NEW persistable \in BOOLEAN,
           Refused(k, n, persistable)
    PROVE  /\ sessions' \subseteq sessions /\ holes' \subseteq holes
           /\ outstanding' <= outstanding
           /\ \A h \in holes \ holes' : h[1] \notin sessions'
<1>0. outstanding \in Nat
  BY DEF IInv, TypeOK, TrackerTypeOK
<1>1. CASE UNCHANGED trackerVars
  BY <1>0, <1>1 DEF trackerVars
<1>2. ASSUME NEW gone \in SUBSET sessions, NEW pressure, RefusedAfter(gone, pressure)
      PROVE  /\ sessions' \subseteq sessions /\ holes' \subseteq holes
             /\ outstanding' <= outstanding
             /\ \A h \in holes \ holes' : h[1] \notin sessions'
  <2>1. Cardinality(HolesOf(gone)) \in Nat
    BY ForgottenHoles
  <2>2. outstanding' <= outstanding
    BY <1>0, <1>2, <2>1 DEF RefusedAfter
  <2>3. sessions' = sessions \ gone /\ holes' = holes \ HolesOf(gone)
    BY <1>2 DEF RefusedAfter, Retable
  <2>. QED BY <2>2, <2>3 DEF HolesOf
<1>3. CASE RefusedKnown(k, n, persistable)
  <2>1. \/ UNCHANGED trackerVars
        \/ RefusedAfter(Swept(TRUE), TRUE)
    BY <1>3 DEF RefusedKnown
  <2>2. Swept(TRUE) \in SUBSET sessions
    BY SweptInTable
  <2>. QED BY <1>1, <1>2, <2>1, <2>2
<1>4. CASE RefusedNew(k, persistable)
  <2> DEFINE swept == Swept(AtCapacity(k, persistable))
  <2>1. swept \in SUBSET sessions
    BY SweptInTable
  <2>2. \/ RefusedAfter(swept, AtCapacity(k, persistable))
        \/ \E evicted \in SUBSET (sessions \ swept) :
              RefusedAfter(swept \cup evicted, AtCapacity(k, persistable))
    BY <1>4 DEF RefusedNew
  <2> HIDE DEF swept
  <2>. QED BY <1>2, <2>1, <2>2
<1>. QED BY <1>3, <1>4 DEF Refused

\* Received returning true: what disappears from the heaps belonged to sessions
\* that are gone, and the session created is not one of them.
LEMMA AcceptForgetsWhole ==
    ASSUME IInv, NEW k \in Keys, NEW n \in Nat, NEW persistable \in BOOLEAN,
           Received(k, n, persistable)
    PROVE  \A h \in holes \ holes' : h[1] \notin sessions'
<1>1. CASE UNCHANGED trackerVars
  BY <1>1 DEF trackerVars
<1>2. CASE ReceivedKnown(k, n, persistable)
  <2>1. CASE persistable /\ <<k, n>> \notin holes
    <3> DEFINE gone == Swept(outstanding >= MaxOutstanding)
    <3>1. /\ holes \ HolesOf(gone) \subseteq holes'
          /\ sessions' = sessions \ gone
      BY <1>2, <2>1 DEF ReceivedKnown, Retable
    <3> HIDE DEF gone
    <3>. QED BY <3>1 DEF HolesOf
  <2>2. CASE ~(persistable /\ <<k, n>> \notin holes)
    BY <1>2, <2>2 DEF ReceivedKnown
  <2>. QED BY <2>1, <2>2
<1>3. CASE ReceivedNew(k, n, persistable)
  <2> DEFINE swept == Swept(AtCapacity(k, persistable))
  <2>1. PICK evicted \in SUBSET (sessions \ swept) :
          /\ holes \ HolesOf(swept) \subseteq holes'
          /\ sessions' = (sessions \ (swept \cup evicted)) \cup {k}
    BY <1>3 DEF ReceivedNew, Retable
  <2>2. k \notin sessions /\ \A h \in holes : h[1] \in sessions
    BY <1>3 DEF ReceivedNew, IInv, Accounting
  <2> HIDE DEF swept
  <2>. QED BY <2>1, <2>2 DEF HolesOf
<1>. QED BY <1>1, <1>2, <1>3 DEF Received

-----------------------------------------------------------------------------
\* Every cap of durable.go holds after every call: the session table, each
\* observer's share of it, each session's heap and the global count.
THEOREM CapsHold == Spec => []Budgets
<1>1. Init => Budgets
  <2> SUFFICES ASSUME Init PROVE Budgets
    OBVIOUS
  <2>1. \A k \in Keys : Pending(k) = {}
    BY DEF Init, TrackerInit, Pending
  <2>. QED BY <2>1, FS_EmptySet, CapsAreNumbers DEF Init, TrackerInit, Budgets
<1>2. IInv /\ IInv' /\ Budgets /\ [Next]_vars => Budgets'
  <2> SUFFICES ASSUME IInv, IInv', Budgets, [Next]_vars PROVE Budgets'
    OBVIOUS
  <2>0. outstanding \in Nat
    BY DEF IInv, TypeOK, TrackerTypeOK
  <2>1. ASSUME NEW k \in Keys, NEW n \in 0..MaxSeq, NEW persistable \in BOOLEAN,
               Accept(k, n, persistable)
        PROVE  Budgets'
    <3>1. n \in Nat
      BY SeqAssumption
    <3>2. CASE n = 0 /\ UNCHANGED trackerVars
      BY <2>0, <3>2, ShrinkKeepsBudgets DEF trackerVars
    <3>3. CASE n > 0 /\ ReceivedKnown(k, n, persistable)
      BY <3>1, <3>3, KnownKeepsBudgets
    <3>4. CASE n > 0 /\ ReceivedNew(k, n, persistable)
      BY <3>1, <3>4, NewKeepsBudgets
    <3>. QED BY <2>1, <3>2, <3>3, <3>4 DEF Accept, Received
  <2>2. ASSUME NEW k \in Keys, NEW n \in 0..MaxSeq, NEW persistable \in BOOLEAN,
               Reject(k, n, persistable)
        PROVE  Budgets'
    <3>1. n \in Nat
      BY SeqAssumption
    <3>. QED BY <2>2, <3>1, RejectShrinks, ShrinkKeepsBudgets DEF Reject
  <2>3. ASSUME NEW k \in Keys, NEW n \in 1..MaxSeq, Settle(k, n)
        PROVE  Budgets'
    <3>1. /\ sessions' \subseteq sessions /\ holes' \subseteq holes
          /\ outstanding' <= outstanding
      BY <2>0, <2>3 DEF Settle, Resolved, trackerVars
    <3>. QED BY <3>1, ShrinkKeepsBudgets
  <2>4. CASE Tick
    BY <2>0, <2>4, ShrinkKeepsBudgets DEF Tick, Elapse
  <2>5. CASE UNCHANGED vars
    BY <2>0, <2>5, ShrinkKeepsBudgets DEF vars, trackerVars
  <2>. QED BY <2>1, <2>2, <2>3, <2>4, <2>5 DEF Next
<1>. QED BY <1>1, <1>2, Inductive, PTL DEF Spec

\* "Nothing is ever acknowledged" by forgetting: whatever a call sweeps or
\* evicts, no session's watermark reaches a record that was on its heap before
\* the call, unless the call settles that record.
THEOREM ForgettingIsSilent == Spec => ForgettingNeverAcks
<1>1. ASSUME IInv, IInv', [Next]_vars,
             NEW k \in Keys, NEW n \in Pending(k), Watermark(k)' >= n
      PROVE  <<k, n>> \notin open'
  <2>1. <<k, n>> \in holes /\ n \in Nat \ {0}
    BY <1>1 DEF Pending, IInv, TypeOK, TrackerTypeOK
  <2>2. k \in sessions'
    BY <1>1, <2>1 DEF Watermark
  <2>3. <<k, n>> \notin holes'
    <3> SUFFICES ASSUME <<k, n>> \in holes' PROVE FALSE
      OBVIOUS
    <3>1. n \in Pending(k)' /\ Pending(k)' \in SUBSET Nat
      BY <1>1 DEF Pending, IInv, TypeOK, TrackerTypeOK
    <3>2. Watermark(k)' = Min(Pending(k)') - 1
      BY <2>2, <3>1 DEF Watermark
    <3>3. Min(Pending(k)') \in Nat /\ Min(Pending(k)') <= n
      BY <3>1, MinIsLeast
    <3>. QED BY <1>1, <2>1, <3>2, <3>3
  <2>4. ASSUME NEW j \in Keys, NEW m \in 0..MaxSeq, NEW persistable \in BOOLEAN,
               Accept(j, m, persistable) \/ Reject(j, m, persistable)
        PROVE  FALSE
    <3>1. m \in Nat
      BY SeqAssumption
    <3>. QED BY <1>1, <2>1, <2>2, <2>3, <2>4, <3>1, AcceptForgetsWhole, RejectShrinks
             DEF Accept, Reject
  <2>5. ASSUME NEW j \in Keys, NEW m \in 1..MaxSeq, Settle(j, m)
        PROVE  <<k, n>> \notin open'
    BY <2>1, <2>3, <2>5 DEF Settle, Resolved, trackerVars
  <2>6. CASE Tick
    BY <2>1, <2>3, <2>6 DEF Tick, Elapse
  <2>7. CASE UNCHANGED vars
    BY <2>1, <2>3, <2>7 DEF vars, trackerVars
  <2>. QED BY <1>1, <2>4, <2>5, <2>6, <2>7 DEF Next
<1>2. IInv /\ IInv' /\ [Next]_vars
        => [\A k \in Keys : \A n \in Pending(k) :
               Watermark(k)' >= n => <<k, n>> \notin open']_vars
  BY <1>1
<1>. QED BY <1>2, Inductive, PTL DEF Spec, ForgettingNeverAcks

=============================================================================

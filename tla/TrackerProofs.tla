--------------------------- MODULE TrackerProofs ---------------------------
(***************************************************************************)
(* What each call of the receipt tracker does to its books, for every set  *)
(* of observers and sessions and every cap: the facts that the proofs      *)
(* about the tracker's history (ReceiptLedgerProofs) and about the whole   *)
(* push path (PushDeliveryProofs) rest on.                                 *)
(***************************************************************************)
EXTENDS DurableTracker, FiniteSetTheorems, WellFoundedInduction, TLAPS

\* The counts agree with the table; receipts lost by their own sweep may stay
\* on the global count.
Books ==
    /\ TrackerTypeOK
    /\ IsFiniteSet(sessions) /\ IsFiniteSet(holes)
    /\ \A h \in holes : h[1] \in sessions
    /\ \A s \in Sources : perSource[s] = Cardinality(SessionsOf(s, sessions))
    /\ outstanding >= Cardinality(holes)

-----------------------------------------------------------------------------
(* Facts about sets of numbers and finite sets.                            *)

\* A non-empty set of naturals has the least element Min picks.
LEMMA MinIsLeast ==
    ASSUME NEW S \in SUBSET Nat, S # {}
    PROVE  Min(S) \in S /\ \A y \in S : Min(S) <= y
<1> DEFINE R == {ss \in Nat \X Nat : ss[1] < ss[2]}
<1>1. IsWellFoundedOn(R, Nat)
  BY NatLessThanWellFounded, Zenon DEF OpToRel
<1>2. PICK x \in S : \A y \in S : ~(<<y, x>> \in R)
  <2> HIDE DEF R
  <2>. QED BY <1>1, WFMin
<1>3. ASSUME NEW y \in S
      PROVE  x <= y
  <2>1. x \in Nat /\ y \in Nat
    OBVIOUS
  <2>2. <<y, x>> \in R <=> y < x
    BY <2>1
  <2>. QED BY <1>2, <2>1, <2>2
<1>. QED BY <1>3 DEF Min

\* Removing a subset from a finite set removes its cardinality.
LEMMA RemoveSubset ==
    ASSUME NEW S, IsFiniteSet(S), NEW T \in SUBSET S
    PROVE  /\ IsFiniteSet(T) /\ Cardinality(T) \in Nat
           /\ IsFiniteSet(S \ T) /\ Cardinality(S \ T) \in Nat
           /\ Cardinality(S) \in Nat
           /\ Cardinality(S \ T) = Cardinality(S) - Cardinality(T)
<1>1. S \cap T = T
  OBVIOUS
<1>2. IsFiniteSet(T)
  BY FS_Subset
<1>3. IsFiniteSet(S \ T) /\ Cardinality(S \ T) = Cardinality(S) - Cardinality(T)
  BY <1>1, FS_Difference
<1>4. Cardinality(S) \in Nat /\ Cardinality(T) \in Nat /\ Cardinality(S \ T) \in Nat
  BY <1>2, <1>3, FS_CardinalityType
<1>. QED BY <1>2, <1>3, <1>4

\* Disjoint finite sets add up.
LEMMA AddDisjoint ==
    ASSUME NEW S, NEW T, IsFiniteSet(S), IsFiniteSet(T), S \cap T = {}
    PROVE  /\ IsFiniteSet(S \cup T)
           /\ Cardinality(S) \in Nat /\ Cardinality(T) \in Nat
           /\ Cardinality(S \cup T) = Cardinality(S) + Cardinality(T)
<1>1. Cardinality(S) \in Nat /\ Cardinality(T) \in Nat
  BY FS_CardinalityType
<1>2. /\ IsFiniteSet(S \cup T)
      /\ Cardinality(S \cup T) =
            Cardinality(S) + Cardinality(T) - Cardinality(S \cap T)
  BY FS_Union
<1>3. Cardinality(S \cap T) = 0
  BY FS_EmptySet
<1>. QED BY <1>1, <1>2, <1>3

\* Replacing some sessions of the table by others moves the per-observer
\* counts with it.
LEMMA RetableCounts ==
    ASSUME Books, NEW gone \in SUBSET sessions, NEW added \in SUBSET Keys,
           IsFiniteSet(added), added \cap (sessions \ gone) = {},
           Retable(gone, added)
    PROVE  /\ sessions' \subseteq Keys
           /\ IsFiniteSet(sessions')
           /\ perSource' \in [Sources -> Nat]
           /\ \A s \in Sources :
                 perSource'[s] = Cardinality(SessionsOf(s, sessions'))
<1>1. sessions' = (sessions \ gone) \cup added
  BY DEF Retable
<1>2. sessions' \subseteq Keys
  BY <1>1 DEF Books, TrackerTypeOK
<1>3. IsFiniteSet(sessions')
  BY <1>1, RemoveSubset, FS_Union DEF Books
<1>4. ASSUME NEW s \in Sources
      PROVE  /\ perSource'[s] = Cardinality(SessionsOf(s, sessions'))
             /\ perSource'[s] \in Nat
  <2> DEFINE A == SessionsOf(s, sessions)
             G == SessionsOf(s, gone)
             B == SessionsOf(s, added)
  <2>1. IsFiniteSet(A) /\ G \in SUBSET A
    BY FS_Subset DEF SessionsOf, Books
  <2>2. IsFiniteSet(B)
    BY FS_Subset DEF SessionsOf
  <2>3. SessionsOf(s, sessions') = (A \ G) \cup B
    BY <1>1 DEF SessionsOf
  <2>4. (A \ G) \cap B = {}
    BY DEF SessionsOf
  <2>5. /\ IsFiniteSet(A \ G)
        /\ Cardinality(A \ G) = Cardinality(A) - Cardinality(G)
        /\ Cardinality(A) \in Nat /\ Cardinality(G) \in Nat
    BY <2>1, RemoveSubset
  <2>6. Cardinality((A \ G) \cup B) =
            Cardinality(A) - Cardinality(G) + Cardinality(B)
    <3> HIDE DEF A, G, B
    <3>. QED BY <2>2, <2>4, <2>5, AddDisjoint
  <2>7. perSource'[s] = perSource[s] - Cardinality(G) + Cardinality(B)
    BY DEF Retable
  <2>8. perSource[s] = Cardinality(A)
    BY DEF Books
  <2>9. Cardinality(SessionsOf(s, sessions')) \in Nat
    BY <1>3, FS_Subset, FS_CardinalityType DEF SessionsOf
  <2>. QED BY <2>3, <2>6, <2>7, <2>8, <2>9
<1>5. perSource' \in [Sources -> Nat]
  BY <1>4 DEF Retable
<1>. QED BY <1>2, <1>3, <1>4, <1>5

\* Sessions to forget are sessions of the table.
LEMMA SweptInTable ==
    ASSUME NEW pressure
    PROVE  Swept(pressure) \in SUBSET sessions
BY DEF Swept, Reclaimable

\* What RoomFor forgets, the sweep and the evicted session, is in the table.
LEMMA EvictedInTable ==
    ASSUME NEW k \in Keys, NEW swept \in SUBSET sessions, NEW evicted,
           RoomFor(k, swept, evicted)
    PROVE  /\ evicted \in SUBSET (sessions \ swept)
           /\ HolesOf(evicted) = {}
<1>1. CASE evicted = {}
  BY <1>1 DEF HolesOf
<1>2. ASSUME NEW v \in Evictable(k[1], sessions \ swept), evicted = {v}
      PROVE  /\ evicted \in SUBSET (sessions \ swept)
             /\ HolesOf(evicted) = {}
  BY <1>2 DEF Evictable, SessionsOf, Pending, HolesOf
<1>. QED BY <1>1, <1>2 DEF RoomFor

\* The ages and heights Track and the refusals leave behind are numbers.
LEMMA TakeType ==
    ASSUME TrackerTypeOK, NEW k \in Keys, NEW n \in Nat, NEW gone, Track(k, n, gone)
    PROVE  highest' \in [Keys -> Nat] /\ idle' \in [Keys -> Nat]
BY DEF Track, TrackerTypeOK

\* Forgetting sessions takes their holes, and nothing else, off the heaps.
LEMMA Forgotten ==
    ASSUME Books, NEW gone \in SUBSET sessions
    PROVE  /\ IsFiniteSet(holes \ HolesOf(gone))
           /\ Cardinality(HolesOf(gone)) \in Nat
           /\ Cardinality(holes \ HolesOf(gone)) \in Nat
           /\ outstanding - Cardinality(HolesOf(gone)) \in Nat
           /\ outstanding - Cardinality(HolesOf(gone)) >= Cardinality(holes \ HolesOf(gone))
           /\ \A h \in holes \ HolesOf(gone) : h[1] \in sessions \ gone
<1>1. HolesOf(gone) \in SUBSET holes /\ IsFiniteSet(holes) /\ outstanding \in Nat
      /\ outstanding >= Cardinality(holes)
  BY DEF HolesOf, Books, TrackerTypeOK
<1>2. /\ IsFiniteSet(holes \ HolesOf(gone))
      /\ Cardinality(HolesOf(gone)) \in Nat
      /\ Cardinality(holes) \in Nat
      /\ Cardinality(holes \ HolesOf(gone)) \in Nat
      /\ Cardinality(holes \ HolesOf(gone)) = Cardinality(holes) - Cardinality(HolesOf(gone))
  BY <1>1, RemoveSubset
<1>3. \A h \in holes \ HolesOf(gone) : h[1] \in sessions \ gone
  BY DEF Books, HolesOf
<1>. QED BY <1>1, <1>2, <1>3

-----------------------------------------------------------------------------
(* One lemma per call: the books balance again, only sessions that were    *)
(* silent lose their holes, and ages only go back to zero.                 *)

\* A session loses its holes only if it was silent when it was swept.
SilentLose == \A h \in holes : h \in holes' \/ idle[h[1]] > 0

AgesReset == \A k \in Keys : idle'[k] \in {idle[k], 0}

\* What a sweep forgets was silent.
LEMMA SweptWereSilent ==
    ASSUME Books, NEW pressure
    PROVE  /\ Swept(pressure) \in SUBSET sessions
           /\ \A h \in HolesOf(Swept(pressure)) : idle[h[1]] > 0
<1>1. \A k \in Reclaimable : idle[k] > 0
  BY BudgetAssumption DEF Reclaimable, Books, TrackerTypeOK
<1>. QED BY <1>1, SweptInTable DEF Swept, HolesOf

\* The sessions are forgotten, and one record may be taken.
LEMMA BooksBalanceAgain ==
    ASSUME Books, NEW gone \in SUBSET sessions, NEW added \in SUBSET Keys, IsFiniteSet(added),
           added \cap (sessions \ gone) = {}, Retable(gone, added),
           NEW k \in Keys, NEW n \in Nat \ {0}, NEW taken \in BOOLEAN,
           taken => k \in sessions', taken => <<k, n>> \notin holes,
           holes' = (holes \ HolesOf(gone)) \cup (IF taken THEN {<<k, n>>} ELSE {}),
           \/ outstanding' = outstanding - Cardinality(HolesOf(gone)) + 1
           \/ ~taken /\ outstanding' = outstanding - Cardinality(HolesOf(gone)),
           highest' \in [Keys -> Nat], idle' \in [Keys -> Nat], pruneIn' \in Nat
    PROVE  Books'
<1>1. /\ sessions' \subseteq Keys /\ IsFiniteSet(sessions') /\ perSource' \in [Sources -> Nat]
      /\ \A s \in Sources : perSource'[s] = Cardinality(SessionsOf(s, sessions'))
  BY RetableCounts
<1>2. sessions' = (sessions \ gone) \cup added
  BY DEF Retable
<1>3. PICK kept, left : kept = holes \ HolesOf(gone) /\ left = outstanding - Cardinality(HolesOf(gone))
  OBVIOUS
<1>4. /\ IsFiniteSet(kept) /\ Cardinality(kept) \in Nat /\ left \in Nat /\ left >= Cardinality(kept)
      /\ \A h \in kept : h[1] \in sessions'
  BY <1>2, <1>3, Forgotten
<1>5. kept \subseteq Keys \X (Nat \ {0})
  BY <1>3 DEF Books, TrackerTypeOK
<1>6. CASE taken
  <2>1. holes' = kept \cup {<<k, n>>} /\ outstanding' = left + 1 /\ <<k, n>> \notin kept
    BY <1>3, <1>6
  <2>2. IsFiniteSet(holes') /\ Cardinality(holes') = Cardinality(kept) + 1
    BY <1>4, <2>1, FS_AddElement
  <2>3. outstanding' \in Nat /\ outstanding' >= Cardinality(holes')
    BY <1>4, <2>1, <2>2
  <2>4. holes' \subseteq Keys \X (Nat \ {0}) /\ \A h \in holes' : h[1] \in sessions'
    BY <1>4, <1>5, <1>6, <2>1
  <2>. QED BY <1>1, <2>2, <2>3, <2>4 DEF Books, TrackerTypeOK
<1>7. CASE ~taken
  <2>1. holes' = kept /\ (outstanding' = left + 1 \/ outstanding' = left)
    BY <1>3, <1>7
  <2>2. Cardinality(holes') = Cardinality(kept)
    BY <2>1
  <2>3. outstanding' \in Nat /\ outstanding' >= Cardinality(kept)
    BY <1>4, <2>1
  <2>4. outstanding' \in Nat /\ outstanding' >= Cardinality(holes')
    BY <2>2, <2>3
  <2>. QED BY <1>1, <1>4, <1>5, <2>1, <2>4 DEF Books, TrackerTypeOK
<1>. QED BY <1>6, <1>7

\* Received returning true, on a session of the table.
LEMMA ReceivedKnownKeeps ==
    ASSUME Books, NEW k \in Keys, NEW n \in Nat \ {0}, NEW persistable \in BOOLEAN,
           ReceivedKnown(k, n, persistable)
    PROVE  Books' /\ SilentLose /\ AgesReset /\ idle'[k] = 0
<1>0. k \in sessions /\ TrackerTypeOK
  BY DEF ReceivedKnown, Books
<1>1. CASE persistable /\ <<k, n>> \notin holes
  <2>1. PICK gone, full : full = (outstanding >= MaxOutstanding) /\ gone = Swept(full)
    OBVIOUS
  <2>2. /\ outstanding' = outstanding - Cardinality(HolesOf(gone)) + 1
        /\ pruneIn' = PruneStamp(full)
        /\ Retable(gone, {})
        /\ IF k \in gone
           THEN /\ holes' = holes \ HolesOf(gone)
                /\ highest' = [j \in Keys |-> IF j \in gone THEN 0 ELSE highest[j]]
                /\ idle' = [j \in Keys |-> IF j \in gone THEN 0 ELSE idle[j]]
           ELSE /\ holes' = (holes \ HolesOf(gone)) \cup {<<k, n>>}
                /\ Track(k, n, gone)
    BY <1>1, <2>1 DEF ReceivedKnown
  <2>3. gone \in SUBSET sessions /\ \A h \in HolesOf(gone) : idle[h[1]] > 0
    BY <2>1, SweptWereSilent
  <2>4. sessions' = sessions \ gone
    BY <2>2 DEF Retable
  <2>5. pruneIn' \in Nat
    BY <1>0, <2>2, BudgetAssumption DEF PruneStamp, TrackerTypeOK
  <2>6. highest' \in [Keys -> Nat] /\ idle' \in [Keys -> Nat] /\ AgesReset /\ idle'[k] = 0
    BY <1>0, <2>2 DEF Track, TrackerTypeOK, AgesReset
  <2>7. PICK taken \in BOOLEAN : taken <=> k \notin gone
    OBVIOUS
  <2>8. /\ holes' = (holes \ HolesOf(gone)) \cup (IF taken THEN {<<k, n>>} ELSE {})
        /\ taken => k \in sessions'
    BY <1>0, <2>2, <2>4, <2>7
  <2>9. IsFiniteSet({}) /\ {} \in SUBSET Keys /\ {} \cap (sessions \ gone) = {}
    BY FS_EmptySet
  <2>10. Books'
    BY <1>1, <2>2, <2>3, <2>5, <2>6, <2>8, <2>9, BooksBalanceAgain
  <2>11. SilentLose
    BY <2>3, <2>8 DEF SilentLose
  <2>. QED BY <2>6, <2>10, <2>11
<1>2. CASE ~(persistable /\ <<k, n>> \notin holes)
  <2>1. Track(k, n, {}) /\ UNCHANGED <<sessions, holes, outstanding, perSource, pruneIn>>
    BY <1>2 DEF ReceivedKnown
  <2>2. highest' \in [Keys -> Nat] /\ idle' \in [Keys -> Nat]
    BY <1>0, <2>1, TakeType
  <2>3. AgesReset /\ idle'[k] = 0 /\ SilentLose
    BY <2>1 DEF Track, AgesReset, SilentLose
  <2>. QED BY <2>1, <2>2, <2>3 DEF Books, TrackerTypeOK
<1>. QED BY <1>1, <1>2

\* Received that creates its session, returning true: the record is tracked.
LEMMA ReceivedNewKeeps ==
    ASSUME Books, NEW k \in Keys, NEW n \in Nat \ {0}, NEW persistable \in BOOLEAN,
           ReceivedNew(k, n, persistable)
    PROVE  Books' /\ SilentLose /\ AgesReset /\ idle'[k] = 0
<1>0. k \notin sessions /\ TrackerTypeOK /\ <<k, n>> \notin holes
  BY DEF ReceivedNew, Books
<1>1. PICK pressure, swept : pressure = AtCapacity(k, persistable) /\ swept = Swept(pressure)
  OBVIOUS
<1>2. PICK evicted \in SUBSET (sessions \ swept) :
        /\ RoomFor(k, swept, evicted)
        /\ outstanding' = IF persistable
                          THEN outstanding - Cardinality(HolesOf(swept)) + 1
                          ELSE outstanding - Cardinality(HolesOf(swept))
        /\ holes' = (holes \ HolesOf(swept)) \cup (IF persistable THEN {<<k, n>>} ELSE {})
        /\ pruneIn' = PruneStamp(pressure)
        /\ Retable(swept \cup evicted, {k})
        /\ Track(k, n, swept \cup evicted)
  BY <1>1 DEF ReceivedNew
<1>3. swept \in SUBSET sessions /\ \A h \in HolesOf(swept) : idle[h[1]] > 0
  BY <1>1, SweptWereSilent
<1>4. HolesOf(evicted) = {}
  BY <1>2, <1>3, EvictedInTable
<1>5. PICK gone : gone = swept \cup evicted
  OBVIOUS
<1>6. gone \in SUBSET sessions /\ HolesOf(gone) = HolesOf(swept)
  BY <1>2, <1>3, <1>4, <1>5 DEF HolesOf
<1>7. IsFiniteSet({k}) /\ {k} \in SUBSET Keys /\ {k} \cap (sessions \ gone) = {}
  <2>1. IsFiniteSet({k})
    BY FS_Singleton
  <2>. QED BY <1>0, <2>1
<1>8. sessions' = (sessions \ gone) \cup {k} /\ Retable(gone, {k})
  BY <1>2, <1>5 DEF Retable
<1>9. pruneIn' \in Nat
  BY <1>0, <1>2, BudgetAssumption DEF PruneStamp, TrackerTypeOK
<1>10. highest' \in [Keys -> Nat] /\ idle' \in [Keys -> Nat]
  BY <1>0, <1>2, TakeType
<1>11. AgesReset /\ idle'[k] = 0
  BY <1>2 DEF Track, AgesReset
<1>12. SilentLose
  BY <1>2, <1>3 DEF SilentLose
<1>13. /\ holes' = (holes \ HolesOf(gone)) \cup (IF persistable THEN {<<k, n>>} ELSE {})
       /\ \/ outstanding' = outstanding - Cardinality(HolesOf(gone)) + 1
          \/ ~persistable /\ outstanding' = outstanding - Cardinality(HolesOf(gone))
       /\ k \in sessions'
  BY <1>2, <1>6, <1>8
<1>14. Books'
  BY <1>0, <1>6, <1>7, <1>8, <1>9, <1>10, <1>13, BooksBalanceAgain
<1>. QED BY <1>11, <1>12, <1>14

\* Received returning true.
LEMMA ReceivedKeeps ==
    ASSUME Books, NEW k \in Keys, NEW n \in Nat \ {0}, NEW persistable \in BOOLEAN,
           Received(k, n, persistable)
    PROVE  Books' /\ SilentLose /\ AgesReset /\ idle'[k] = 0
BY ReceivedKnownKeeps, ReceivedNewKeeps DEF Received

\* Received returning false, whatever it swept or evicted before it refused.
LEMMA RefusedKeeps ==
    ASSUME Books, NEW k \in Keys, NEW n \in Nat \ {0}, NEW persistable \in BOOLEAN,
           Refused(k, n, persistable)
    PROVE  Books' /\ SilentLose /\ AgesReset
<1>1. CASE UNCHANGED trackerVars
  <2>1. UNCHANGED <<sessions, highest, holes, idle, outstanding, perSource, pruneIn>>
    BY <1>1 DEF trackerVars
  <2>. QED BY <2>1 DEF Books, TrackerTypeOK, SilentLose, AgesReset
<1>2. ASSUME NEW gone \in SUBSET sessions, NEW pressure, RefusedAfter(gone, pressure),
             \A h \in HolesOf(gone) : idle[h[1]] > 0
      PROVE  Books' /\ SilentLose /\ AgesReset
  <2>0. TrackerTypeOK
    BY DEF Books
  <2>1. /\ Retable(gone, {}) /\ holes' = holes \ HolesOf(gone)
        /\ outstanding' = outstanding - Cardinality(HolesOf(gone))
        /\ pruneIn' = PruneStamp(pressure)
        /\ highest' = [j \in Keys |-> IF j \in gone THEN 0 ELSE highest[j]]
        /\ idle' = [j \in Keys |-> IF j \in gone THEN 0 ELSE idle[j]]
    BY <1>2 DEF RefusedAfter
  <2>2. pruneIn' \in Nat /\ highest' \in [Keys -> Nat] /\ idle' \in [Keys -> Nat] /\ AgesReset
    BY <2>0, <2>1, BudgetAssumption DEF PruneStamp, TrackerTypeOK, AgesReset
  <2>3. IsFiniteSet({}) /\ {} \in SUBSET Keys /\ {} \cap (sessions \ gone) = {}
    BY FS_EmptySet
  <2>4. PICK taken \in BOOLEAN : taken = FALSE
    OBVIOUS
  <2>5. /\ holes' = (holes \ HolesOf(gone)) \cup (IF taken THEN {<<k, n>>} ELSE {}) /\ ~taken
    BY <2>1, <2>4
  <2>6. Books'
    BY <1>2, <2>1, <2>2, <2>3, <2>5, BooksBalanceAgain
  <2>. QED BY <1>2, <2>1, <2>2, <2>6 DEF SilentLose
<1>3. CASE RefusedKnown(k, n, persistable)
  <2>1. UNCHANGED trackerVars \/ RefusedAfter(Swept(TRUE), TRUE)
    BY <1>3 DEF RefusedKnown
  <2>. QED BY <1>1, <1>2, <2>1, SweptWereSilent
<1>4. CASE RefusedNew(k, persistable)
  <2>1. PICK pressure, swept : pressure = AtCapacity(k, persistable) /\ swept = Swept(pressure)
    OBVIOUS
  <2>2. swept \in SUBSET sessions /\ \A h \in HolesOf(swept) : idle[h[1]] > 0
    BY <2>1, SweptWereSilent
  <2>3. \/ RefusedAfter(swept, pressure)
        \/ \E evicted \in SUBSET (sessions \ swept) :
              RoomFor(k, swept, evicted) /\ RefusedAfter(swept \cup evicted, pressure)
    BY <1>4, <2>1 DEF RefusedNew
  <2>4. ASSUME NEW evicted \in SUBSET (sessions \ swept), RoomFor(k, swept, evicted),
               RefusedAfter(swept \cup evicted, pressure)
        PROVE  Books' /\ SilentLose /\ AgesReset
    <3>1. PICK gone : gone = swept \cup evicted
      OBVIOUS
    <3>2. HolesOf(evicted) = {}
      BY <2>2, <2>4, EvictedInTable
    <3>3. gone \in SUBSET sessions /\ HolesOf(gone) = HolesOf(swept) /\ RefusedAfter(gone, pressure)
      BY <2>2, <2>4, <3>1, <3>2 DEF HolesOf
    <3>. QED BY <1>2, <2>2, <3>3
  <2>. QED BY <1>2, <2>2, <2>3, <2>4
<1>. QED BY <1>3, <1>4 DEF Refused

\* Resolved settles one record and touches its session.
LEMMA ResolvedKeeps ==
    ASSUME Books, NEW k \in Keys, NEW n \in Nat, Resolved(k, n)
    PROVE  Books' /\ AgesReset /\ holes' \subseteq holes /\ \A h \in holes : h \in holes' \/ h = <<k, n>>
<1>0. TrackerTypeOK
  BY DEF Books
<1>1. CASE k \in sessions
  <2>1. /\ idle' = [idle EXCEPT ![k] = 0] /\ holes' = holes \ {<<k, n>>}
        /\ outstanding' = IF <<k, n>> \in holes THEN outstanding - 1 ELSE outstanding
        /\ UNCHANGED <<sessions, highest, perSource, pruneIn>>
    BY <1>1 DEF Resolved
  <2>2. /\ IsFiniteSet(holes')
        /\ Cardinality(holes') = IF <<k, n>> \in holes THEN Cardinality(holes) - 1 ELSE Cardinality(holes)
    BY <2>1, FS_RemoveElement DEF Books
  <2>3. Cardinality(holes) \in Nat /\ Cardinality(holes') \in Nat /\ outstanding \in Nat
        /\ outstanding >= Cardinality(holes)
    BY <2>2, FS_CardinalityType DEF Books, TrackerTypeOK
  <2>4. outstanding' \in Nat /\ outstanding' >= Cardinality(holes')
    BY <2>1, <2>2, <2>3
  <2>5. idle' \in [Keys -> Nat] /\ AgesReset /\ holes' \subseteq Keys \X (Nat \ {0})
    BY <1>0, <2>1 DEF TrackerTypeOK, AgesReset
  <2>6. Books'
    BY <2>1, <2>2, <2>4, <2>5 DEF Books, TrackerTypeOK
  <2>. QED BY <2>1, <2>5, <2>6
<1>2. CASE k \notin sessions
  <2>1. UNCHANGED <<sessions, highest, holes, idle, outstanding, perSource, pruneIn>>
    BY <1>2 DEF Resolved, trackerVars
  <2>. QED BY <2>1 DEF Books, TrackerTypeOK, AgesReset
<1>. QED BY <1>1, <1>2

\* Time passes.
LEMMA ElapseKeeps ==
    ASSUME Books, Elapse
    PROVE  Books' /\ holes' = holes
<1>1. idle' \in [Keys -> Nat] /\ pruneIn' \in Nat
  BY DEF Elapse, Books, TrackerTypeOK
<1>. QED BY <1>1 DEF Elapse, Books, TrackerTypeOK

\* An empty table balances: at the start ...
LEMMA EmptyBooks == TrackerInit => Books
<1>1. IsFiniteSet({}) /\ Cardinality({}) = 0
  BY FS_EmptySet
<1>2. \A s \in Sources : SessionsOf(s, {}) = {}
  BY DEF SessionsOf
<1>. QED BY <1>1, <1>2 DEF TrackerInit, Books, TrackerTypeOK

\* ... and after a restart of the collector.
LEMMA RestartedBooks == NewDurableTracker => Books'
<1>1. IsFiniteSet({}) /\ Cardinality({}) = 0
  BY FS_EmptySet
<1>2. \A s \in Sources : SessionsOf(s, {}) = {}
  BY DEF SessionsOf
<1>. QED BY <1>1, <1>2 DEF NewDurableTracker, Books, TrackerTypeOK

\* What may be acknowledged is a number below every tracked record.
LEMMA WatermarkBelow ==
    ASSUME Books, NEW k \in Keys
    PROVE  /\ Watermark(k) \in Nat
           /\ \A n \in Nat : <<k, n>> \in holes => Watermark(k) < n
<1>1. Pending(k) \in SUBSET (Nat \ {0})
  BY DEF Pending, Books, TrackerTypeOK
<1>2. ASSUME NEW n \in Nat, <<k, n>> \in holes PROVE k \in sessions /\ n \in Pending(k)
  BY <1>2 DEF Books, Pending
<1>3. ASSUME Pending(k) # {} PROVE Min(Pending(k)) \in Nat \ {0} /\ \A n \in Pending(k) : Min(Pending(k)) <= n
  BY <1>1, <1>3, MinIsLeast
<1>4. highest[k] \in Nat
  BY DEF Books, TrackerTypeOK
<1>5. Watermark(k) \in Nat
  BY <1>3, <1>4 DEF Watermark
<1>6. ASSUME NEW n \in Nat, <<k, n>> \in holes PROVE Watermark(k) < n
  <2>1. k \in sessions /\ n \in Pending(k) /\ Pending(k) # {}
    BY <1>2, <1>6
  <2>2. Watermark(k) = Min(Pending(k)) - 1 /\ Min(Pending(k)) \in Nat \ {0} /\ Min(Pending(k)) <= n
    BY <1>3, <2>1 DEF Watermark
  <2>. QED BY <2>2
<1>. QED BY <1>5, <1>6

=============================================================================

---------------------------- MODULE StorageProofs ----------------------------
(***************************************************************************)
(* What the database keeps of events and receipts, for every value of the  *)
(* constants.  The sweeps: an event's evidence is complete or accounted    *)
(* for, and the ledger recognises a replay of what is kept.  The event     *)
(* pipeline: events are numbered without holes, published once, in order   *)
(* and under the policy of their sample, and none vanishes.                *)
(***************************************************************************)
EXTENDS StoreSweeps, EventPipeline, FiniteSetTheorems, TLAPS

-----------------------------------------------------------------------------
(***************************************************************************)
(* The replay ledger.  A claim is as old as its row as long as the row is  *)
(* kept, and only the newest key can have a session row: rows of any other *)
(* key were committed behind a retirement.                                 *)
(***************************************************************************)
Ages == [SessionKeys -> [Seqs -> 0..Gone]]

LedgerTypeOK ==
  /\ keysUsed \in 0..MaxSessionKeys
  /\ keyCache \in 0..keysUsed
  /\ claims \in Ages /\ storedRows \in Ages
  /\ sessionRow = NoRow \/ (sessionRow \in [key : {keysUsed}, age : Nat] /\ keysUsed # 0)
  /\ sweep \in [at : {"idle", "chunks", "sessions", "evict"}, lag : {0, 1}, retired : Nat]

\* What a transaction under way has resolved.
FlushHolds ==
  \/ flush = NoFlush
  \/ /\ flush \in [key : SessionKeys, created : BOOLEAN, seqs : SUBSET Seqs]
     /\ IF flush.created THEN sessionRow = NoRow /\ flush.key = keysUsed + 1
        ELSE flush.key <= keysUsed

AgesAgree ==
  \A k \in SessionKeys, s \in Seqs : Stored(k, s) =>
    /\ storedRows[k][s] \in 0..RowRetention
    /\ claims[k][s] = storedRows[k][s]

OthersAreOrphans ==
  \A k \in SessionKeys, s \in Seqs : Stored(k, s) =>
    /\ k <= keysUsed
    /\ k # sessionRow.key => <<k, s>> \in orphans

LedgerInv == LedgerTypeOK /\ FlushHolds /\ AgesAgree /\ OthersAreOrphans

\* The bounds of the ledger as numbers.
LEMMA LedgerConstants ==
  /\ RowRetention \in Nat \ {0} /\ MaxSessionKeys \in Nat \ {0}
  /\ OldestClaim = RowRetention + 2 /\ Gone = RowRetention + 3
  /\ SessionKeys = 1..MaxSessionKeys
BY LedgerBounds DEF OldestClaim, Gone, SessionKeys

\* The invariant says what the run checks.
LEMMA LedgerInvImplies ==
  ASSUME LedgerInv
  PROVE  ReplayIsRecognised
<1> USE LedgerConstants
<1>1. ClaimOutlivesRow
  BY DEF LedgerInv, AgesAgree, ClaimOutlivesRow, Stored
<1>2. TwiceOnlyByRetirement
  <2> SUFFICES ASSUME NEW s \in Seqs, NEW k1 \in SessionKeys, NEW k2 \in SessionKeys,
                      k1 < k2, Stored(k1, s), Stored(k2, s)
               PROVE  <<k1, s>> \in orphans
    BY DEF TwiceOnlyByRetirement
  <2>1. k2 <= keysUsed /\ (k1 # sessionRow.key => <<k1, s>> \in orphans)
    BY DEF LedgerInv, OthersAreOrphans
  <2>2. sessionRow.key \in {0, keysUsed} /\ keysUsed \in Nat
    BY DEF LedgerInv, LedgerTypeOK, NoRow
  <2> QED BY <2>1, <2>2
<1> QED BY <1>1, <1>2 DEF ReplayIsRecognised

\* An empty database with no session key satisfies the invariant.
LEMMA LedgerStarts ==
  ASSUME LedgerInit
  PROVE  LedgerInv
<1> USE LedgerConstants
<1>1. AllGone \in Ages
  BY DEF AllGone, Ages
<1>2. LedgerTypeOK
  <2>1. NoSweep \in [at : {"idle", "chunks", "sessions", "evict"}, lag : {0, 1}, retired : Nat]
    BY DEF NoSweep
  <2> QED BY <1>1, <2>1 DEF LedgerInit, LedgerTypeOK
<1>3. \A k \in SessionKeys, s \in Seqs : ~Stored(k, s)
  BY DEF LedgerInit, Stored, AllGone
<1> QED BY <1>2, <1>3 DEF LedgerInit, LedgerInv, FlushHolds, AgesAgree, OthersAreOrphans

\* claimSeqKeys gives the batch's fresh claims age zero and leaves the rest.
LEMMA RenewedAt ==
  ASSUME LedgerInv, flush # NoFlush, NEW f \in Ages
  PROVE  /\ Renewed(f) \in Ages
         /\ \A k \in SessionKeys, s \in Seqs :
              Renewed(f)[k][s] = IF k = flush.key /\ s \in FreshSeqs THEN 0 ELSE f[k][s]
<1>1. flush.key \in SessionKeys
  BY DEF LedgerInv, FlushHolds
<1> QED BY <1>1, LedgerConstants DEF Renewed, Ages

\* resolveSessionKeys
LEMMA Resolving ==
  ASSUME LedgerInv, ResolveSessionKeys
  PROVE  LedgerInv'
<1> USE LedgerConstants
<1>1. LedgerTypeOK' /\ AgesAgree' /\ OthersAreOrphans'
  BY DEF ResolveSessionKeys, LedgerInv, LedgerTypeOK, AgesAgree, OthersAreOrphans, Stored
<1>2. FlushHolds'
  <2>1. PICK batch \in SUBSET Seqs :
          flush' = IF keyCache # 0 THEN [key |-> keyCache, created |-> FALSE, seqs |-> batch]
                   ELSE IF sessionRow # NoRow THEN [key |-> sessionRow.key, created |-> FALSE, seqs |-> batch]
                   ELSE [key |-> keysUsed + 1, created |-> TRUE, seqs |-> batch]
    BY DEF ResolveSessionKeys
  <2>2. keysUsed \in 0..MaxSessionKeys /\ keyCache \in 0..keysUsed
    BY DEF LedgerInv, LedgerTypeOK
  <2>3. UNCHANGED <<sessionRow, keysUsed>> /\ (flush'.created => keysUsed < MaxSessionKeys)
    BY DEF ResolveSessionKeys
  <2>4. CASE keyCache # 0
    BY <2>1, <2>2, <2>3, <2>4 DEF FlushHolds
  <2>5. CASE keyCache = 0 /\ sessionRow # NoRow
    <3>1. sessionRow.key = keysUsed /\ keysUsed # 0
      BY <2>5 DEF LedgerInv, LedgerTypeOK
    <3> QED BY <2>1, <2>2, <2>3, <2>5, <3>1 DEF FlushHolds
  <2>6. CASE keyCache = 0 /\ sessionRow = NoRow
    BY <2>1, <2>2, <2>3, <2>6 DEF FlushHolds
  <2> QED BY <2>4, <2>5, <2>6
<1> QED BY <1>1, <1>2 DEF LedgerInv

\* persistAtomicOnce commits: what was already claimed keeps its row as it
\* was, and rows of a retired key are orphans from the start.
LEMMA Committing ==
  ASSUME LedgerInv, CommitClaims
  PROVE  LedgerInv'
<1> USE LedgerConstants
<1>1. flush \in [key : SessionKeys, created : BOOLEAN, seqs : SUBSET Seqs] /\ flush # NoFlush
  BY DEF CommitClaims, LedgerInv, FlushHolds
<1>2. claims \in Ages /\ storedRows \in Ages /\ keysUsed \in 0..MaxSessionKeys
  BY DEF LedgerInv, LedgerTypeOK
<1>3. /\ claims' \in Ages
      /\ \A k \in SessionKeys, s \in Seqs :
           claims'[k][s] = IF k = flush.key /\ s \in FreshSeqs THEN 0 ELSE claims[k][s]
  BY <1>1, <1>2, RenewedAt DEF CommitClaims
<1>4. /\ storedRows' \in Ages
      /\ \A k \in SessionKeys, s \in Seqs :
           storedRows'[k][s] = IF k = flush.key /\ s \in FreshSeqs THEN 0 ELSE storedRows[k][s]
  BY <1>1, <1>2, RenewedAt DEF CommitClaims
<1>5. /\ flush.created => sessionRow = NoRow /\ flush.key = keysUsed + 1
      /\ ~flush.created => flush.key <= keysUsed
  BY <1>1 DEF LedgerInv, FlushHolds
<1>6. /\ sessionRow' = IF flush.created THEN [key |-> flush.key, age |-> 0] ELSE sessionRow
      /\ keysUsed' = IF flush.created THEN flush.key ELSE keysUsed
      /\ orphans' = IF flush.created \/ flush.key = sessionRow.key THEN orphans
                    ELSE orphans \cup ({flush.key} \X FreshSeqs)
      /\ keyCache' = flush.key /\ flush' = NoFlush /\ sweep' = sweep
  BY DEF CommitClaims
<1>7. LedgerTypeOK'
  <2>1. keysUsed' \in 0..MaxSessionKeys /\ keyCache' \in 0..keysUsed'
    BY <1>1, <1>2, <1>5, <1>6
  <2>2. sessionRow' = NoRow \/ (sessionRow' \in [key : {keysUsed'}, age : Nat] /\ keysUsed' # 0)
    BY <1>1, <1>6 DEF LedgerInv, LedgerTypeOK
  <2>3. sweep' \in [at : {"idle", "chunks", "sessions", "evict"}, lag : {0, 1}, retired : Nat]
    BY <1>6 DEF LedgerInv, LedgerTypeOK
  <2> QED BY <1>3, <1>4, <2>1, <2>2, <2>3 DEF LedgerTypeOK
<1>8. FlushHolds'
  BY <1>6 DEF FlushHolds
<1>9. AgesAgree'
  <2>1. \A k \in SessionKeys, s \in Seqs : storedRows[k][s] # Gone =>
          storedRows[k][s] \in 0..RowRetention /\ claims[k][s] = storedRows[k][s]
    BY DEF LedgerInv, AgesAgree, Stored
  <2> QED BY <1>3, <1>4, <2>1 DEF AgesAgree, Stored
<1>10. OthersAreOrphans'
  <2> SUFFICES ASSUME NEW k \in SessionKeys, NEW s \in Seqs, storedRows'[k][s] # Gone
               PROVE  k <= keysUsed' /\ (k # sessionRow'.key => <<k, s>> \in orphans')
    BY DEF OthersAreOrphans, Stored
  <2>1. storedRows[k][s] # Gone => k <= keysUsed /\ (k # sessionRow.key => <<k, s>> \in orphans)
    BY DEF LedgerInv, OthersAreOrphans, Stored
  <2>2. NoRow.key = 0
    BY DEF NoRow
  <2>3. CASE k = flush.key /\ s \in FreshSeqs
    <3>1. k <= keysUsed'
      BY <1>1, <1>2, <1>5, <1>6, <2>3
    <3>2. ASSUME k # sessionRow'.key PROVE <<k, s>> \in orphans'
      <4>1. ~flush.created /\ flush.key # sessionRow.key
        BY <1>6, <2>3, <3>2
      <4> QED BY <1>6, <2>3, <4>1
    <3> QED BY <3>1, <3>2
  <2>4. CASE ~(k = flush.key /\ s \in FreshSeqs)
    <3>1. storedRows[k][s] # Gone
      BY <1>4, <2>4
    <3>2. k <= keysUsed'
      BY <1>1, <1>2, <1>5, <1>6, <2>1, <3>1
    <3>3. ASSUME k # sessionRow'.key PROVE <<k, s>> \in orphans
      BY <1>5, <1>6, <2>1, <2>2, <3>1, <3>3
    <3> QED BY <1>6, <3>2, <3>3
  <2> QED BY <2>3, <2>4
<1> QED BY <1>7, <1>8, <1>9, <1>10 DEF LedgerInv

\* The steps that touch neither keys, claims nor rows.
LEMMA LedgerRest ==
  ASSUME LedgerInv, RollBackClaims \/ StartPrune \/ ChunksEnd \/ PruneFails \/ UNCHANGED ledgerVars
  PROVE  LedgerInv'
<1> USE LedgerConstants
<1>1. UNCHANGED <<sessionRow, keysUsed, claims, storedRows, orphans, keyCache>>
  BY DEF RollBackClaims, StartPrune, ChunksEnd, PruneFails, ledgerVars
<1>2. flush' \in {flush, NoFlush}
  BY DEF RollBackClaims, StartPrune, ChunksEnd, PruneFails, ledgerVars
<1>3. sweep' \in [at : {"idle", "chunks", "sessions", "evict"}, lag : {0, 1}, retired : Nat]
  BY DEF RollBackClaims, StartPrune, ChunksEnd, PruneFails, ledgerVars, NoSweep, LedgerInv, LedgerTypeOK
<1>4. LedgerTypeOK'
  BY <1>1, <1>3 DEF LedgerInv, LedgerTypeOK
<1>5. FlushHolds'
  BY <1>1, <1>2 DEF LedgerInv, FlushHolds
<1>6. AgesAgree' /\ OthersAreOrphans'
  BY <1>1 DEF LedgerInv, AgesAgree, OthersAreOrphans, Stored
<1> QED BY <1>4, <1>5, <1>6 DEF LedgerInv

\* A chunk deletes a claim older than the retention: its row is gone.
LEMMA Pruning ==
  ASSUME LedgerInv, PruneChunk
  PROVE  LedgerInv'
<1> USE LedgerConstants
<1>1. PICK c \in ExpiredClaims : claims' = [claims EXCEPT ![c[1]][c[2]] = Gone]
  BY DEF PruneChunk
<1>2. c[1] \in SessionKeys /\ c[2] \in Seqs /\ PastCutoff(claims[c[1]][c[2]])
  BY <1>1 DEF ExpiredClaims
<1>3. UNCHANGED <<sessionRow, keysUsed, storedRows, orphans, keyCache, flush, sweep>>
  BY DEF PruneChunk
<1>4. claims \in Ages /\ sweep.lag \in {0, 1}
  BY DEF LedgerInv, LedgerTypeOK
<1>5. /\ claims' \in Ages
      /\ \A k \in SessionKeys, s \in Seqs : ~(k = c[1] /\ s = c[2]) => claims'[k][s] = claims[k][s]
  BY <1>1, <1>2, <1>4 DEF Ages
<1>6. claims[c[1]][c[2]] \in 0..Gone
  BY <1>2, <1>4 DEF Ages
<1>7. ~(claims[c[1]][c[2]] \in 0..RowRetention)
  BY <1>2, <1>4, <1>6 DEF PastCutoff
<1>8. AgesAgree'
  <2> SUFFICES ASSUME NEW k \in SessionKeys, NEW s \in Seqs, storedRows[k][s] # Gone
               PROVE  storedRows[k][s] \in 0..RowRetention /\ claims'[k][s] = storedRows[k][s]
    BY <1>3 DEF AgesAgree, Stored
  <2>1. storedRows[k][s] \in 0..RowRetention /\ claims[k][s] = storedRows[k][s]
    BY DEF LedgerInv, AgesAgree, Stored
  <2>2. ~(k = c[1] /\ s = c[2])
    BY <1>7, <2>1
  <2> QED BY <1>5, <2>1, <2>2
<1>9. LedgerTypeOK'
  BY <1>3, <1>5 DEF LedgerInv, LedgerTypeOK
<1>10. FlushHolds' /\ OthersAreOrphans'
  BY <1>3 DEF LedgerInv, FlushHolds, OthersAreOrphans, Stored
<1> QED BY <1>8, <1>9, <1>10 DEF LedgerInv

\* A session is retired once it has no claim, and so no row.
LEMMA Retiring ==
  ASSUME LedgerInv, RetireSessions
  PROVE  LedgerInv'
<1> USE LedgerConstants
<1>1. UNCHANGED <<keysUsed, claims, storedRows, orphans, keyCache, flush>>
  BY DEF RetireSessions
<1>2. sweep \in [at : {"idle", "chunks", "sessions", "evict"}, lag : {0, 1}, retired : Nat] /\ keysUsed \in Nat
  BY DEF LedgerInv, LedgerTypeOK
<1>3. CASE Retirable
  <2>1. sessionRow # NoRow /\ sessionRow.key = keysUsed /\ keysUsed \in SessionKeys
    BY <1>3 DEF Retirable, LedgerInv, LedgerTypeOK
  <2>2. \A s \in Seqs : ~Stored(keysUsed, s)
    BY <1>3, <2>1 DEF Retirable, LedgerInv, AgesAgree, Stored
  <2>3. sessionRow' = NoRow /\ sweep' = [sweep EXCEPT !.at = "evict", !.retired = sessionRow.key]
    BY <1>3 DEF RetireSessions
  <2>4. sweep' \in [at : {"idle", "chunks", "sessions", "evict"}, lag : {0, 1}, retired : Nat]
    BY <1>2, <2>1, <2>3
  <2>5. LedgerTypeOK'
    BY <1>1, <2>3, <2>4 DEF LedgerInv, LedgerTypeOK
  <2>6. FlushHolds'
    BY <1>1, <2>1, <2>3 DEF LedgerInv, FlushHolds
  <2>7. OthersAreOrphans'
    BY <1>1, <2>1, <2>2, <2>3 DEF LedgerInv, OthersAreOrphans, Stored
  <2>8. AgesAgree'
    BY <1>1 DEF LedgerInv, AgesAgree, Stored
  <2> QED BY <2>5, <2>6, <2>7, <2>8 DEF LedgerInv
<1>4. CASE ~Retirable
  <2>1. sweep' = NoSweep /\ sessionRow' = sessionRow
    BY <1>4 DEF RetireSessions
  <2>2. sweep' \in [at : {"idle", "chunks", "sessions", "evict"}, lag : {0, 1}, retired : Nat]
    BY <2>1 DEF NoSweep
  <2>3. LedgerTypeOK'
    BY <1>1, <2>1, <2>2 DEF LedgerInv, LedgerTypeOK
  <2>4. FlushHolds' /\ AgesAgree' /\ OthersAreOrphans'
    BY <1>1, <2>1 DEF LedgerInv, FlushHolds, AgesAgree, OthersAreOrphans, Stored
  <2> QED BY <2>3, <2>4 DEF LedgerInv
<1> QED BY <1>3, <1>4

\* The cache is emptied, by the sweep or by a new process.
LEMMA Evicting ==
  ASSUME LedgerInv, EvictKeys \/ LedgerRestart
  PROVE  LedgerInv'
<1> USE LedgerConstants
<1>1. UNCHANGED <<sessionRow, keysUsed, claims, storedRows, orphans>> /\ keyCache' = 0
  BY DEF EvictKeys, LedgerRestart
<1>2. flush' \in {flush, NoFlush} /\ sweep' = NoSweep
  BY DEF EvictKeys, LedgerRestart
<1>3. sweep' \in [at : {"idle", "chunks", "sessions", "evict"}, lag : {0, 1}, retired : Nat]
  BY <1>2 DEF NoSweep
<1>4. LedgerTypeOK'
  BY <1>1, <1>3 DEF LedgerInv, LedgerTypeOK
<1>5. FlushHolds'
  BY <1>1, <1>2 DEF LedgerInv, FlushHolds
<1>6. AgesAgree' /\ OthersAreOrphans'
  BY <1>1 DEF LedgerInv, AgesAgree, OthersAreOrphans, Stored
<1> QED BY <1>4, <1>5, <1>6 DEF LedgerInv

\* A claim and its row age together, and the row is the first to go.
LEMMA Ageing ==
  ASSUME LedgerInv, LedgerTick
  PROVE  LedgerInv'
<1> USE LedgerConstants
<1>1. claims \in Ages /\ storedRows \in Ages
  BY DEF LedgerInv, LedgerTypeOK
<1>2. /\ claims' \in Ages
      /\ \A k \in SessionKeys, s \in Seqs :
           claims'[k][s] = IF claims[k][s] = Gone THEN Gone ELSE Older1(claims[k][s], OldestClaim)
  <2>1. \A n \in 0..Gone : n # Gone => Older1(n, OldestClaim) \in 0..Gone
    BY DEF Older1
  <2> QED BY <1>1, <2>1 DEF LedgerTick, Ages
<1>3. /\ storedRows' \in Ages
      /\ \A k \in SessionKeys, s \in Seqs :
           storedRows'[k][s] = IF storedRows[k][s] >= RowRetention THEN Gone ELSE storedRows[k][s] + 1
  BY <1>1 DEF LedgerTick, Ages
<1>4. UNCHANGED <<keysUsed, keyCache, flush>> /\ flush = NoFlush
  BY DEF LedgerTick
<1>5. sessionRow' = IF sessionRow = NoRow THEN NoRow ELSE [sessionRow EXCEPT !.age = Older1(@, OldestClaim)]
  BY DEF LedgerTick
<1>6. LedgerTypeOK'
  <2>1. sweep' \in [at : {"idle", "chunks", "sessions", "evict"}, lag : {0, 1}, retired : Nat]
    BY DEF LedgerTick, LedgerInv, LedgerTypeOK
  <2>2. sessionRow' = NoRow \/ (sessionRow' \in [key : {keysUsed}, age : Nat] /\ keysUsed # 0)
    BY <1>5 DEF LedgerInv, LedgerTypeOK, Older1
  <2> QED BY <1>2, <1>3, <1>4, <2>1, <2>2 DEF LedgerInv, LedgerTypeOK
<1>7. FlushHolds'
  BY <1>4 DEF FlushHolds
<1>8. \A k \in SessionKeys, s \in Seqs : storedRows'[k][s] # Gone =>
        /\ storedRows[k][s] # Gone /\ storedRows[k][s] \in 0..(RowRetention - 1)
        /\ storedRows'[k][s] = storedRows[k][s] + 1
        /\ claims[k][s] = storedRows[k][s]
  <2> TAKE k \in SessionKeys, s \in Seqs
  <2>1. storedRows[k][s] \in 0..Gone
    BY <1>1 DEF Ages
  <2>2. storedRows[k][s] # Gone => claims[k][s] = storedRows[k][s]
    BY DEF LedgerInv, AgesAgree, Stored
  <2> QED BY <1>3, <2>1, <2>2
<1>9. AgesAgree'
  BY <1>2, <1>3, <1>8 DEF AgesAgree, Stored, Older1
<1>10. sessionRow'.key = sessionRow.key
  BY <1>5 DEF LedgerInv, LedgerTypeOK
<1>11. \A k \in SessionKeys, s \in Seqs : storedRows'[k][s] # Gone /\ <<k, s>> \in orphans => <<k, s>> \in orphans'
  BY DEF LedgerTick
<1>12. OthersAreOrphans'
  BY <1>4, <1>8, <1>10, <1>11 DEF LedgerInv, OthersAreOrphans, Stored
<1> QED BY <1>6, <1>7, <1>9, <1>12 DEF LedgerInv

\* For every retention and any number of sequences and session keys, a replay
\* of a kept row finds its claim, but for rows committed behind the retirement
\* of their session (pruneSeqSeen, claimSeqKeys, resolveSessionKeys).
THEOREM ReplaysAreRecognised == LedgerSpec => []ReplayIsRecognised
<1>1. LedgerInit => LedgerInv
  BY LedgerStarts
<1>2. LedgerInv /\ [LedgerNext]_ledgerVars => LedgerInv'
  BY Resolving, Committing, LedgerRest, Pruning, Retiring, Evicting, Ageing DEF LedgerNext
<1>3. LedgerInv => ReplayIsRecognised
  BY LedgerInvImplies
<1> QED BY <1>1, <1>2, <1>3, PTL DEF LedgerSpec
-----------------------------------------------------------------------------
(***************************************************************************)
(* Positions in a finite set of times: batches and pages are made of them. *)
(***************************************************************************)
Position(S, e) == Cardinality({d \in S : d < e})

\* A non-empty set of naturals has the least element Min picks.
LEMMA MinIsFirst ==
  ASSUME NEW S \in SUBSET Nat, S # {}
  PROVE  Min(S) \in S /\ \A y \in S : Min(S) <= y
<1> DEFINE Below == {q \in Nat \X Nat : q[1] < q[2]}
<1>1. IsWellFoundedOn(Below, Nat)
  BY NatLessThanWellFounded, Zenon DEF OpToRel
<1>2. PICK m \in S : \A y \in S : ~(<<y, m>> \in Below)
  <2> HIDE DEF Below
  <2> QED BY <1>1, WFMin
<1>3. \A y \in S : m <= y
  <2> TAKE y \in S
  <2>1. m \in Nat /\ y \in Nat /\ ~(<<y, m>> \in Below)
    BY <1>2
  <2>2. <<y, m>> \in Below <=> y < m
    BY <2>1
  <2> QED BY <2>1, <2>2
<1> QED BY <1>3 DEF Min

\* Instants are naturals within the horizon of the model.
LEMMA TimesAreNat ==
  LastInstant \in Nat /\ \A x \in Samples : x \in Nat /\ x <= LastInstant
BY EvidencePolicyValid DEF Samples

\* A non-empty set of times has a greatest element.
LEMMA LastTime ==
  ASSUME NEW S \in SUBSET Samples, S # {}
  PROVE  \E m \in S : \A y \in S : y <= m
<1>1. PICK T : T = {LastInstant - x : x \in S}
  OBVIOUS
<1>2. \A x \in S : x \in Nat /\ LastInstant - x \in Nat
  BY TimesAreNat
<1>3. T \in SUBSET Nat
  BY <1>1, <1>2
<1>4. T # {}
  BY <1>1
<1>5. PICK n \in T : \A y \in T : n <= y
  BY <1>3, <1>4, MinIsFirst
<1>6. PICK m \in S : n = LastInstant - m
  BY <1>1, <1>5
<1>7. \A y \in S : y <= m
  <2> TAKE y \in S
  <2>1. LastInstant - m <= LastInstant - y
    BY <1>1, <1>5, <1>6
  <2>2. m \in Nat /\ y \in Nat /\ LastInstant \in Nat
    BY <1>2, TimesAreNat
  <2> QED BY <2>1, <2>2
<1> QED BY <1>7

\* Times are finitely many, and so are those before any of them.
LEMMA FiniteTimes ==
  ASSUME NEW S \in SUBSET Samples
  PROVE  IsFiniteSet(S) /\ Cardinality(S) \in Nat
<1>1. LastInstant \in Nat
  BY EvidencePolicyValid
<1>2. IsFiniteSet(0..LastInstant)
  BY <1>1, FS_Interval
<1>3. IsFiniteSet(S)
  BY <1>2, FS_Subset DEF Samples
<1> QED BY <1>3, FS_CardinalityType

\* A subset of times is no larger, and smaller if it lacks one.
LEMMA FewerTimes ==
  ASSUME NEW S \in SUBSET Samples, NEW T \in SUBSET S
  PROVE  /\ Cardinality(T) \in Nat /\ Cardinality(S) \in Nat
         /\ Cardinality(T) <= Cardinality(S)
         /\ T # S => Cardinality(T) < Cardinality(S)
<1>1. IsFiniteSet(S) /\ Cardinality(S) \in Nat
  BY FiniteTimes
<1>2. T \in SUBSET Samples
  OBVIOUS
<1>3. IsFiniteSet(T) /\ Cardinality(T) \in Nat
  BY <1>2, FiniteTimes
<1>4. Cardinality(T) <= Cardinality(S) /\ (Cardinality(S) = Cardinality(T) => S = T)
  BY <1>1, FS_Subset
<1> QED BY <1>1, <1>3, <1>4

\* A sample's place in its bundle is a natural number.
LEMMA PositionType ==
  ASSUME NEW S \in SUBSET Samples, NEW e
  PROVE  Position(S, e) \in Nat
<1>1. {d \in S : d < e} \in SUBSET Samples
  OBVIOUS
<1> QED BY <1>1, FiniteTimes DEF Position

\* The later of two members has the higher position.
LEMMA PositionsGrow ==
  ASSUME NEW S \in SUBSET Samples, NEW d \in S, NEW e \in S, d < e
  PROVE  Position(S, d) < Position(S, e)
<1>1. PICK D \in SUBSET S : D = {x \in S : x < d}
  OBVIOUS
<1>2. PICK E \in SUBSET S : E = {x \in S : x < e}
  OBVIOUS
<1>3. \A x \in S : x \in Nat
  BY EvidencePolicyValid DEF Samples
<1>4. D \in SUBSET E /\ D # E
  BY <1>1, <1>2, <1>3
<1>5. E \in SUBSET Samples
  BY <1>2
<1>6. Cardinality(D) < Cardinality(E)
  BY <1>4, <1>5, FewerTimes
<1> QED BY <1>1, <1>2, <1>6 DEF Position

\* If a member is at position n or later, some member is at position n.
LEMMA PositionTaken ==
  ASSUME NEW S \in SUBSET Samples, NEW n \in Nat, NEW t \in S, Position(S, t) >= n
  PROVE  \E m \in S : Position(S, m) = n
<1>1. PICK T \in SUBSET S : T = {x \in S : Position(S, x) >= n}
  OBVIOUS
<1>2. T \in SUBSET Nat /\ T # {}
  BY <1>1, TimesAreNat
<1>3. PICK m \in T : \A y \in T : m <= y
  BY <1>2, MinIsFirst
<1>4. PICK Q \in SUBSET S : Q = {x \in S : x < m}
  OBVIOUS
<1>5. Cardinality(Q) = Position(S, m) /\ Position(S, m) \in Nat /\ Position(S, m) >= n
  BY <1>1, <1>3, <1>4, PositionType DEF Position
<1>6. ASSUME Position(S, m) > n PROVE FALSE
  <2>1. Q # {}
    BY <1>5, <1>6, FS_EmptySet
  <2>2. Q \in SUBSET Samples
    BY <1>4
  <2>3. PICK q \in Q : \A y \in Q : y <= q
    BY <2>1, <2>2, LastTime
  <2>4. q \in S /\ q < m /\ q \in Nat /\ m \in Nat
    BY <1>2, <1>3, <1>4, <2>3, TimesAreNat
  <2>5. {x \in S : x < q} = Q \ {q}
    <3>1. \A x \in S : x < q <=> x < m /\ x # q
      <4> TAKE x \in S
      <4>1. x \in Nat
        BY TimesAreNat
      <4>2. x < m => x <= q
        BY <1>4, <2>3
      <4> QED BY <2>4, <4>1, <4>2
    <3> QED BY <1>4, <3>1
  <2>6. IsFiniteSet(Q)
    BY <2>2, FiniteTimes
  <2>7. Cardinality(Q \ {q}) = Cardinality(Q) - 1
    BY <2>3, <2>6, FS_RemoveElement
  <2>8. Position(S, q) >= n
    <3>1. Position(S, q) = Cardinality(Q) - 1
      BY <2>5, <2>7 DEF Position
    <3>2. Cardinality(Q) \in Nat /\ Cardinality(Q) > n
      BY <1>5, <1>6
    <3> QED BY <3>1, <3>2
  <2>9. q \in T
    BY <1>1, <2>4, <2>8
  <2> QED BY <1>3, <2>4, <2>9
<1> QED BY <1>3, <1>5, <1>6

\* The members before position n are all of them if they are fewer than n.
LEMMA FirstFew ==
  ASSUME NEW S \in SUBSET Samples, NEW n \in Nat,
         NEW F \in SUBSET S, F = {x \in S : Position(S, x) < n}, Cardinality(F) < n
  PROVE  F = S
<1> SUFFICES ASSUME NEW t \in S, t \notin F PROVE FALSE
  OBVIOUS
<1>1. Position(S, t) \in Nat /\ Position(S, t) >= n
  <2>1. Position(S, t) \in Nat
    BY PositionType
  <2> QED BY <2>1
<1>2. PICK m \in S : Position(S, m) = n
  BY <1>1, PositionTaken
<1>3. PICK Q \in SUBSET S : Q = {x \in S : x < m}
  OBVIOUS
<1>4. \A x \in Q : Position(S, x) < n
  BY <1>2, <1>3, PositionsGrow
<1>5. Q \in SUBSET F /\ F \in SUBSET Samples
  BY <1>3, <1>4
<1>6. Cardinality(Q) <= Cardinality(F) /\ Cardinality(Q) \in Nat /\ Cardinality(F) \in Nat
  BY <1>5, FewerTimes
<1> QED BY <1>2, <1>3, <1>6 DEF Position
-----------------------------------------------------------------------------
(***************************************************************************)
(* The capture.  Retention has dropped only what is older than it; what a  *)
(* sweep still asks for has no bundle, is young enough, and is the rest of *)
(* the first batch of the events that were due; a reader has the first     *)
(* part of its bundle.                                                     *)
(***************************************************************************)
Bundles == [held : {TRUE}, kept : SUBSET Samples, truncated : BOOLEAN, late : SUBSET Samples]

EvidenceTypeOK ==
  /\ instant \in Nat
  /\ rawRows \subseteq everRaw /\ everRaw \subseteq Samples
  /\ evidence \in [EventTimes -> {NoBundle} \cup Bundles]

RetentionKept == \A t \in everRaw \ rawRows : t < instant - KeepRaw

FirstOf(S) == {e \in S : Position(S, e) < CaptureBatch}

CaptureHolds ==
  \/ capture = NoCapture
  \/ /\ capture \in [on : {TRUE}, due : SUBSET EventTimes, all : SUBSET EventTimes,
                     written : Nat, done : BOOLEAN]
     /\ capture.due \subseteq FirstOf(capture.all)
     /\ \A e \in capture.due : evidence[e] = NoBundle /\ e >= instant - Horizon
     /\ \A e \in FirstOf(capture.all) \ capture.due : evidence[e].held
     /\ capture.written = Cardinality(FirstOf(capture.all) \ capture.due)
     /\ capture.done => \A e \in capture.all : evidence[e].held

ReaderHolds ==
  \/ reader = NoReader
  \/ /\ reader \in [on : {TRUE}, event : EventTimes, got : SUBSET Samples, more : BOOLEAN]
     /\ evidence[reader.event] \in Bundles
     /\ reader.got \subseteq evidence[reader.event].kept
     /\ \A t \in reader.got, u \in evidence[reader.event].kept : u < t => u \in reader.got
     /\ ~reader.more => reader.got = evidence[reader.event].kept

EvidenceInv ==
  /\ EvidenceTypeOK /\ RetentionKept /\ CaptureHolds /\ ReaderHolds
  /\ MissingIsExplained /\ EvidenceStaysInScope

\* The evidence policy as facts about numbers and sets of instants.
LEMMA PolicyConstants ==
  /\ {PreRoll, CaptureBatch, KeepSamples, KeepRaw, EvidencePage, LastInstant} \subseteq Nat \ {0}
  /\ PostRoll \in Nat /\ Horizon \in Nat /\ Horizon + PreRoll <= KeepRaw
  /\ EventTimes \subseteq Samples
BY EvidencePolicyValid DEF Samples

\* A bundle is held exactly if there is one.
LEMMA HeldIsBundle ==
  ASSUME EvidenceTypeOK, NEW e \in EventTimes
  PROVE  /\ evidence[e].held \in BOOLEAN
         /\ evidence[e].held <=> evidence[e] \in Bundles
         /\ evidence[e] = NoBundle <=> ~evidence[e].held
<1>1. evidence[e] = NoBundle \/ evidence[e] \in Bundles
  BY DEF EvidenceTypeOK
<1>2. CASE evidence[e] = NoBundle
  <2>1. evidence[e].held = FALSE
    BY <1>2 DEF NoBundle
  <2>2. evidence[e] \notin Bundles
    BY <2>1 DEF Bundles
  <2> QED BY <1>2, <2>1, <2>2
<1>3. CASE evidence[e] \in Bundles
  <2>1. evidence[e].held = TRUE
    BY <1>3 DEF Bundles
  <2>2. evidence[e] # NoBundle
    BY <2>1 DEF NoBundle
  <2> QED BY <1>3, <2>1, <2>2
<1> QED BY <1>1, <1>2, <1>3

\* The invariant says what the run checks.
LEMMA EvidenceInvImplies ==
  ASSUME EvidenceInv
  PROVE  EvidenceIsComplete
<1>1. SweepDrains
  <2>1. capture = NoCapture => ~capture.on
    BY DEF NoCapture
  <2>2. capture # NoCapture /\ capture.done => \A e \in capture.all : evidence[e].held
    BY DEF EvidenceInv, CaptureHolds
  <2> QED BY <2>1, <2>2 DEF SweepDrains
<1>2. PagesAreComplete
  <2>1. reader = NoReader => ~reader.on
    BY DEF NoReader
  <2>2. reader # NoReader /\ ~reader.more => reader.got = evidence[reader.event].kept
    BY DEF EvidenceInv, ReaderHolds
  <2> QED BY <2>1, <2>2 DEF PagesAreComplete
<1> QED BY <1>1, <1>2 DEF EvidenceInv, EvidenceIsComplete

\* Without events, rows or bundles the invariant holds.
LEMMA EvidenceStarts ==
  ASSUME EvidenceInit
  PROVE  EvidenceInv
<1>1. EvidenceTypeOK
  BY DEF EvidenceInit, EvidenceTypeOK
<1>2. \A e \in EventTimes : ~evidence[e].held
  BY DEF EvidenceInit, NoBundle
<1>3. RetentionKept
  BY DEF EvidenceInit, RetentionKept
<1>4. CaptureHolds /\ ReaderHolds
  BY DEF EvidenceInit, CaptureHolds, ReaderHolds
<1> QED BY <1>1, <1>2, <1>3, <1>4 DEF EvidenceInv, MissingIsExplained, EvidenceStaysInScope

\* The newest KeepSamples of the candidates: what is left out is older than
\* all of them, and then there are more candidates than that.
LEMMA LeftOutIsOlder ==
  ASSUME NEW S \in SUBSET Samples, NEW t \in S, t \notin Newest(S)
  PROVE  Cardinality(S) > KeepSamples /\ \A u \in Newest(S) : u > t
<1>1. PICK A \in SUBSET S : A = {u \in S : u > t}
  OBVIOUS
<1>2. t \in Nat /\ KeepSamples \in Nat
  BY TimesAreNat, PolicyConstants
<1>3. A \in SUBSET S /\ A # S
  BY <1>1, <1>2
<1>4. Cardinality(A) \in Nat /\ Cardinality(S) \in Nat /\ Cardinality(A) < Cardinality(S)
  BY <1>3, FewerTimes
<1>5. Cardinality(A) >= KeepSamples
  BY <1>1, <1>2, <1>4 DEF Newest
<1>6. \A u \in Newest(S) : u > t
  <2> SUFFICES ASSUME NEW u \in Newest(S), ~(u > t) PROVE FALSE
    OBVIOUS
  <2>1. u \in S /\ u \in Nat
    BY TimesAreNat DEF Newest
  <2>2. PICK B \in SUBSET S : B = {x \in S : x > u}
    OBVIOUS
  <2>3. A \in SUBSET B
    <3>1. ASSUME NEW x \in A PROVE x \in B
      <4>1. x \in S /\ x > t
        BY <1>1
      <4>2. x \in Nat
        BY <4>1, TimesAreNat
      <4>3. x > u
        BY <1>2, <2>1, <4>1, <4>2
      <4> QED BY <2>2, <4>1, <4>3
    <3> QED BY <3>1
  <2>4. B \in SUBSET Samples
    BY <2>2
  <2>5. Cardinality(A) <= Cardinality(B) /\ Cardinality(B) \in Nat
    BY <2>3, <2>4, FewerTimes
  <2>6. Cardinality(B) < KeepSamples
    BY <2>2 DEF Newest
  <2> QED BY <1>2, <1>4, <1>5, <2>5, <2>6
<1> QED BY <1>2, <1>4, <1>5, <1>6

\* captureOne, for an event young enough: retention has not reached its window.
LEMMA BundleIsComplete ==
  ASSUME EvidenceInv, NEW e \in EventTimes, e >= instant - Horizon
  PROVE  /\ BundleOf(e) \in Bundles
         /\ BundleOf(e).kept \subseteq MayHold(audienceOf[e]) \cap Window(e)
         /\ \A t \in (Window(e) \cap MayHold(audienceOf[e])) \ (BundleOf(e).kept \cup BundleOf(e).late) :
              BundleOf(e).truncated /\ \A u \in BundleOf(e).kept : u > t
<1>1. PICK C \in SUBSET Samples : C = Candidates(e)
  BY DEF Candidates, Window
<1>2. Newest(C) \subseteq C
  BY DEF Newest
<1>3. /\ BundleOf(e).kept = Newest(C) /\ BundleOf(e).late = Window(e) \ everRaw
      /\ BundleOf(e).truncated = (Cardinality(C) > KeepSamples)
  BY <1>1 DEF BundleOf
<1>4. BundleOf(e) \in Bundles
  <2>1. Newest(C) \in SUBSET Samples /\ Window(e) \ everRaw \in SUBSET Samples
    BY <1>2 DEF Window
  <2>2. (Cardinality(C) > KeepSamples) \in BOOLEAN
    OBVIOUS
  <2> QED BY <1>1, <2>1, <2>2 DEF BundleOf, Bundles
<1>5. BundleOf(e).kept \subseteq MayHold(audienceOf[e]) \cap Window(e)
  BY <1>1, <1>2, <1>3 DEF Candidates
<1>6. ASSUME NEW t \in (Window(e) \cap MayHold(audienceOf[e])) \ (BundleOf(e).kept \cup BundleOf(e).late)
      PROVE  BundleOf(e).truncated /\ \A u \in BundleOf(e).kept : u > t
  <2>1. t \in everRaw /\ t \in Samples /\ t >= e - PreRoll
    BY <1>3, <1>6 DEF Window
  <2>2. t \in Nat /\ e \in Nat /\ instant \in Nat
    BY <2>1, TimesAreNat, PolicyConstants DEF EvidenceInv, EvidenceTypeOK
  <2>3. ~(t < instant - KeepRaw)
    BY <2>1, <2>2, PolicyConstants
  <2>4. t \in rawRows
    BY <2>1, <2>3 DEF EvidenceInv, RetentionKept
  <2>5. t \in C /\ t \notin Newest(C)
    BY <1>1, <1>3, <1>6, <2>4 DEF Candidates
  <2>6. Cardinality(C) > KeepSamples /\ \A u \in Newest(C) : u > t
    BY <2>5, LeftOutIsOlder
  <2> QED BY <1>3, <2>6
<1> QED BY <1>4, <1>5, <1>6

\* What a step leaves to the bundles, to the readers and to the sweep.
LEMMA BundlesStand ==
  ASSUME EvidenceInv, UNCHANGED <<evidence, audienceOf>>
  PROVE  /\ (evidence \in [EventTimes -> {NoBundle} \cup Bundles])'
         /\ MissingIsExplained' /\ EvidenceStaysInScope'
         /\ UNCHANGED reader => ReaderHolds'
         /\ UNCHANGED <<capture, instant>> => CaptureHolds'
<1>1. (evidence \in [EventTimes -> {NoBundle} \cup Bundles])'
  BY DEF EvidenceInv, EvidenceTypeOK
<1>2. MissingIsExplained'
  BY DEF EvidenceInv, MissingIsExplained, Window, MayHold
<1>3. EvidenceStaysInScope'
  BY DEF EvidenceInv, EvidenceStaysInScope, Window, MayHold
<1>4. UNCHANGED reader => ReaderHolds'
  BY DEF EvidenceInv, ReaderHolds
<1>5. UNCHANGED <<capture, instant>> => CaptureHolds'
  BY DEF EvidenceInv, CaptureHolds, FirstOf, Position
<1> QED BY <1>1, <1>2, <1>3, <1>4, <1>5

\* The clock moves nothing but itself.
LEMMA TimePasses ==
  ASSUME EvidenceInv, InstantPasses
  PROVE  EvidenceInv'
<1>1. UNCHANGED <<evidence, audienceOf, reader, rawRows, everRaw, capture>>
  BY DEF InstantPasses
<1>2. instant \in Nat /\ instant' = instant + 1
  BY DEF InstantPasses, EvidenceInv, EvidenceTypeOK
<1>3. EvidenceTypeOK'
  BY <1>1, <1>2, BundlesStand DEF EvidenceInv, EvidenceTypeOK
<1>4. RetentionKept'
  <2>1. ASSUME NEW t \in everRaw \ rawRows
        PROVE  t < instant' - KeepRaw
    <3>1. t < instant - KeepRaw
      BY DEF EvidenceInv, RetentionKept
    <3>2. t \in Nat
      BY TimesAreNat DEF EvidenceInv, EvidenceTypeOK
    <3> QED BY <1>2, <3>1, <3>2, PolicyConstants
  <2> QED BY <1>1, <2>1 DEF RetentionKept
<1>5. CaptureHolds'
  BY <1>1 DEF InstantPasses, CaptureHolds, NoCapture
<1> QED BY <1>1, <1>3, <1>4, <1>5, BundlesStand DEF EvidenceInv

\* The event writer, the historian and retention: they touch no bundle.
LEMMA RowsMove ==
  ASSUME EvidenceInv, EventStored \/ SampleStored \/ SampleDropped
  PROVE  EvidenceInv'
<1>1. UNCHANGED <<instant, evidence, audienceOf, reader, capture>>
  BY DEF EventStored, SampleStored, SampleDropped
<1>2. rawRows' \subseteq everRaw' /\ everRaw' \subseteq Samples
  BY DEF EventStored, SampleStored, SampleDropped, EvidenceInv, EvidenceTypeOK
<1>3. EvidenceTypeOK'
  BY <1>1, <1>2, BundlesStand DEF EvidenceInv, EvidenceTypeOK
<1>4. RetentionKept'
  BY <1>1 DEF EventStored, SampleStored, SampleDropped, EvidenceInv, RetentionKept
<1> QED BY <1>1, <1>3, <1>4, BundlesStand DEF EvidenceInv

\* DueForEvidence: what is asked for has no bundle and is young enough.
LEMMA AskedHolds ==
  ASSUME EvidenceInv
  PROVE  /\ Asked \in [on : {TRUE}, due : SUBSET EventTimes, all : SUBSET EventTimes,
                       written : Nat, done : BOOLEAN]
         /\ Asked.due = FirstOf(Asked.all)
         /\ \A e \in Asked.due : evidence[e] = NoBundle /\ e >= instant - Horizon
         /\ Asked.written = 0 /\ ~Asked.done
<1>1. DueEvents \in SUBSET EventTimes /\ FirstDue \in SUBSET EventTimes
  BY DEF DueEvents, FirstDue
<1>2. FirstDue = FirstOf(DueEvents)
  BY DEF FirstDue, FirstOf, Position
<1>3. \A e \in FirstDue : evidence[e] = NoBundle /\ e >= instant - Horizon
  BY DEF FirstDue, DueEvents, Due
<1>4. /\ Asked.due = FirstDue /\ Asked.all = DueEvents /\ Asked.written = 0 /\ Asked.done = FALSE
      /\ Asked \in [on : {TRUE}, due : SUBSET EventTimes, all : SUBSET EventTimes,
                    written : Nat, done : BOOLEAN]
  BY <1>1 DEF Asked
<1> QED BY <1>2, <1>3, <1>4

\* A sweep that begins has only asked for the due events (CaptureEventEvidence).
LEMMA Asking ==
  ASSUME EvidenceInv, capture' = Asked,
         UNCHANGED <<instant, audienceOf, eventRows, rawRows, everRaw, evidence, reader>>
  PROVE  EvidenceInv'
<1>1. EvidenceTypeOK' /\ RetentionKept'
  BY DEF EvidenceInv, EvidenceTypeOK, RetentionKept
<1>2. CaptureHolds'
  <2>1. PICK a : a = Asked
    OBVIOUS
  <2>2. /\ a \in [on : {TRUE}, due : SUBSET EventTimes, all : SUBSET EventTimes,
                  written : Nat, done : BOOLEAN]
        /\ a.due = FirstOf(a.all)
        /\ \A e \in a.due : evidence[e] = NoBundle /\ e >= instant - Horizon
        /\ a.written = 0 /\ ~a.done
    BY <2>1, AskedHolds
  <2>3. FirstOf(a.all) \ a.due = {}
    BY <2>2
  <2>4. Cardinality(FirstOf(a.all) \ a.due) = 0
    BY <2>3, FS_EmptySet
  <2>5. /\ a.due \subseteq FirstOf(a.all)
        /\ \A e \in FirstOf(a.all) \ a.due : evidence[e].held
        /\ a.written = Cardinality(FirstOf(a.all) \ a.due)
    BY <2>2, <2>3, <2>4
  <2>6. capture' = a /\ evidence' = evidence /\ instant' = instant
    BY <2>1
  <2>7. \A S : FirstOf(S)' = FirstOf(S)
    BY DEF FirstOf, Position
  <2> QED BY <2>2, <2>5, <2>6 DEF CaptureHolds, FirstOf, Position
<1> QED BY <1>1, <1>2, BundlesStand DEF EvidenceInv

\* A sweep cut by its context leaves what it had committed.
LEMMA Abandoning ==
  ASSUME EvidenceInv, SweepAbandoned
  PROVE  EvidenceInv'
<1>1. UNCHANGED <<instant, audienceOf, rawRows, everRaw, evidence, reader>> /\ capture' = NoCapture
  BY DEF SweepAbandoned
<1>2. EvidenceTypeOK' /\ RetentionKept'
  BY <1>1 DEF EvidenceInv, EvidenceTypeOK, RetentionKept
<1>3. CaptureHolds'
  BY <1>1 DEF CaptureHolds, NoCapture
<1> QED BY <1>1, <1>2, <1>3, BundlesStand DEF EvidenceInv

\* NextBatch: a batch that was not full has left no event of its question
\* without a bundle, for the first of them were then all of them.
LEMMA EndingSweep ==
  ASSUME EvidenceInv, NextBatch
  PROVE  EvidenceInv'
<1>1. UNCHANGED <<instant, audienceOf, eventRows, rawRows, everRaw, evidence, reader>>
  BY DEF NextBatch
<1>2. CASE FullBatch
  BY <1>1, <1>2, Asking DEF NextBatch
<1>3. CASE ~FullBatch
  <2>1. EvidenceTypeOK' /\ RetentionKept'
    BY <1>1 DEF EvidenceInv, EvidenceTypeOK, RetentionKept
  <2>2. capture # NoCapture
    BY DEF NextBatch, NoCapture
  <2>3. capture \in [on : {TRUE}, due : SUBSET EventTimes, all : SUBSET EventTimes,
                     written : Nat, done : BOOLEAN]
    BY <2>2 DEF EvidenceInv, CaptureHolds
  <2>4. PICK F \in SUBSET capture.all : F = FirstOf(capture.all)
    BY DEF FirstOf
  <2>5. capture.due = {}
    BY DEF NextBatch
  <2>6. F \ capture.due = F
    BY <2>5
  <2>7. capture.written = Cardinality(F) /\ \A e \in F : evidence[e].held
    BY <2>2, <2>4, <2>6 DEF EvidenceInv, CaptureHolds
  <2>8. Cardinality(F) < CaptureBatch
    BY <1>3, <2>3, <2>7, PolicyConstants DEF FullBatch
  <2>9. PICK A \in SUBSET Samples : A = capture.all
    BY <2>3, PolicyConstants
  <2>10. F \in SUBSET A /\ F = {x \in A : Position(A, x) < CaptureBatch} /\ CaptureBatch \in Nat
    BY <2>4, <2>9, PolicyConstants DEF FirstOf
  <2>11. F = A
    BY <2>8, <2>10, FirstFew
  <2>12. capture' = [capture EXCEPT !.done = TRUE]
    BY <1>3 DEF NextBatch
  <2>13. CaptureHolds'
    <3>1. /\ capture' \in [on : {TRUE}, due : SUBSET EventTimes, all : SUBSET EventTimes,
                           written : Nat, done : BOOLEAN]
          /\ capture'.due = capture.due /\ capture'.all = capture.all
          /\ capture'.written = capture.written
      BY <2>3, <2>12
    <3>2. \A e \in capture.all : evidence[e].held
      BY <2>7, <2>9, <2>11
    <3> QED BY <1>1, <2>2, <3>1, <3>2 DEF EvidenceInv, CaptureHolds, FirstOf, Position
  <2> QED BY <1>1, <2>1, <2>13, BundlesStand DEF EvidenceInv
<1> QED BY <1>2, <1>3

\* captureOne: the oldest event asked for gets its bundle; nobody reads it
\* yet, and those asked for after it still wait.
LEMMA Capturing ==
  ASSUME EvidenceInv, CaptureOne
  PROVE  EvidenceInv'
<1>1. UNCHANGED <<instant, audienceOf, eventRows, rawRows, everRaw, reader>>
  BY DEF CaptureOne
<1>2. capture # NoCapture
  BY DEF CaptureOne, NoCapture
<1>3. /\ capture \in [on : {TRUE}, due : SUBSET EventTimes, all : SUBSET EventTimes,
                      written : Nat, done : BOOLEAN]
      /\ capture.due \subseteq FirstOf(capture.all)
      /\ \A e \in capture.due : evidence[e] = NoBundle /\ e >= instant - Horizon
      /\ \A e \in FirstOf(capture.all) \ capture.due : evidence[e].held
      /\ capture.written = Cardinality(FirstOf(capture.all) \ capture.due)
      /\ capture.done => \A e \in capture.all : evidence[e].held
  BY <1>2 DEF EvidenceInv, CaptureHolds
<1>4. PICK D \in SUBSET EventTimes : D = capture.due
  BY <1>3
<1>5. D \in SUBSET Nat /\ D # {}
  BY <1>4, PolicyConstants, TimesAreNat DEF CaptureOne
<1>6. PICK e : e = Min(D)
  OBVIOUS
<1>7. e \in D
  BY <1>5, <1>6, MinIsFirst
<1>8. evidence' = [evidence EXCEPT ![e] = BundleOf(e)]
  BY <1>4, <1>6 DEF CaptureOne
<1>9. capture' = [capture EXCEPT !.due = capture.due \ {e}, !.written = capture.written + 1]
  BY <1>4, <1>6 DEF CaptureOne
<1>10. e \in EventTimes /\ e >= instant - Horizon /\ evidence[e] = NoBundle
  BY <1>3, <1>4, <1>7
<1>11. PICK b \in Bundles : b = BundleOf(e)
  BY <1>10, BundleIsComplete
<1>12. evidence \in [EventTimes -> {NoBundle} \cup Bundles]
  BY DEF EvidenceInv, EvidenceTypeOK
<1>13. /\ evidence' \in [EventTimes -> {NoBundle} \cup Bundles]
       /\ evidence'[e] = b /\ \A d \in EventTimes : d # e => evidence'[d] = evidence[d]
  BY <1>8, <1>10, <1>11, <1>12
<1>14. EvidenceTypeOK' /\ RetentionKept'
  BY <1>1, <1>13 DEF EvidenceInv, EvidenceTypeOK, RetentionKept
<1>15. MissingIsExplained' /\ EvidenceStaysInScope'
  <2>1. \A d \in EventTimes : Window(d)' = Window(d) /\ MayHold(audienceOf[d])' = MayHold(audienceOf[d])
    BY <1>1 DEF Window, MayHold
  <2>2. /\ b.kept \subseteq MayHold(audienceOf[e]) \cap Window(e)
        /\ \A t \in (Window(e) \cap MayHold(audienceOf[e])) \ (b.kept \cup b.late) :
             b.truncated /\ \A u \in b.kept : u > t
    BY <1>10, <1>11, BundleIsComplete
  <2>3. MissingIsExplained'
    BY <1>13, <2>1, <2>2 DEF EvidenceInv, MissingIsExplained
  <2>4. EvidenceStaysInScope'
    BY <1>13, <2>1, <2>2 DEF EvidenceInv, EvidenceStaysInScope
  <2> QED BY <2>3, <2>4
<1>16. CaptureHolds'
  <2>1. PICK F \in SUBSET EventTimes : F = FirstOf(capture.all)
    BY <1>3 DEF FirstOf
  <2>2. e \in F /\ D \subseteq F
    BY <1>3, <1>4, <1>7, <2>1
  <2>3. F \ (D \ {e}) = (F \ D) \cup {e} /\ e \notin F \ D
    BY <1>7, <2>2
  <2>4. F \ D \in SUBSET Samples
    BY PolicyConstants
  <2>5. IsFiniteSet(F \ D)
    BY <2>4, FiniteTimes
  <2>6. Cardinality((F \ D) \cup {e}) = Cardinality(F \ D) + 1
    BY <2>3, <2>5, FS_AddElement
  <2>7. /\ capture' \in [on : {TRUE}, due : SUBSET EventTimes, all : SUBSET EventTimes,
                         written : Nat, done : BOOLEAN]
        /\ capture'.due = D \ {e} /\ capture'.all = capture.all
        /\ capture'.written = capture.written + 1 /\ capture'.done = capture.done
    <3>1. PICK c : c = capture
      OBVIOUS
    <3>2. c.due \ {e} \in SUBSET EventTimes /\ c.written + 1 \in Nat
      BY <1>3, <1>4, <3>1
    <3>3. PICK X \in SUBSET EventTimes : X = c.due \ {e}
      BY <3>2
    <3>4. PICK n \in Nat : n = c.written + 1
      BY <3>2
    <3>5. capture' = [c EXCEPT !.due = X, !.written = n]
      BY <1>9, <3>1, <3>3, <3>4
    <3>6. c \in [on : {TRUE}, due : SUBSET EventTimes, all : SUBSET EventTimes,
                 written : Nat, done : BOOLEAN]
      BY <1>3, <3>1
    <3>7. /\ capture' \in [on : {TRUE}, due : SUBSET EventTimes, all : SUBSET EventTimes,
                           written : Nat, done : BOOLEAN]
          /\ capture'.due = X /\ capture'.all = c.all
          /\ capture'.written = n /\ capture'.done = c.done
      BY <3>5, <3>6
    <3> QED BY <1>4, <3>1, <3>3, <3>4, <3>7
  <2>8. FirstOf(capture.all)' = F
    BY <2>1, <2>7 DEF FirstOf, Position
  <2>9. capture'.due \subseteq F
    BY <2>2, <2>7
  <2>10. \A d \in capture'.due : evidence'[d] = NoBundle /\ d >= instant' - Horizon
    BY <1>1, <1>3, <1>4, <1>13, <2>7
  <2>11. b.held
    BY DEF Bundles
  <2>12. \A d \in F \ capture'.due : evidence'[d].held
    BY <1>3, <1>4, <1>13, <2>1, <2>7, <2>11
  <2>13. capture'.written = Cardinality(F \ capture'.due)
    BY <1>3, <1>4, <2>1, <2>3, <2>6, <2>7
  <2>14. capture'.done => \A d \in capture'.all : evidence'[d].held
    BY <1>3, <1>13, <2>7, <2>11
  <2> QED BY <2>7, <2>8, <2>9, <2>10, <2>12, <2>13, <2>14 DEF CaptureHolds
<1>17. ReaderHolds'
  <2>1. CASE reader = NoReader
    BY <1>1, <2>1 DEF ReaderHolds, NoReader
  <2>2. CASE reader # NoReader
    <3>1. reader.event \in EventTimes /\ evidence[reader.event] \in Bundles
      BY <2>2 DEF EvidenceInv, ReaderHolds
    <3>2. reader.event # e
      BY <1>10, <3>1, HeldIsBundle DEF EvidenceInv
    <3>3. evidence'[reader.event] = evidence[reader.event]
      BY <1>13, <3>1, <3>2
    <3> QED BY <1>1, <2>2, <3>3 DEF EvidenceInv, ReaderHolds
  <2> QED BY <2>1, <2>2
<1> QED BY <1>14, <1>15, <1>16, <1>17 DEF EvidenceInv

\* A reader that opens or leaves a bundle has read nothing of it.
LEMMA Opening ==
  ASSUME EvidenceInv, OpenEvidence \/ CloseEvidence
  PROVE  EvidenceInv'
<1>1. UNCHANGED <<instant, audienceOf, eventRows, rawRows, everRaw, evidence, capture>>
  BY DEF OpenEvidence, CloseEvidence
<1>2. EvidenceTypeOK' /\ RetentionKept'
  BY <1>1 DEF EvidenceInv, EvidenceTypeOK, RetentionKept
<1>3. CASE CloseEvidence
  <2>1. ReaderHolds'
    BY <1>3 DEF CloseEvidence, ReaderHolds, NoReader
  <2> QED BY <1>1, <1>2, <2>1, BundlesStand DEF EvidenceInv
<1>4. CASE OpenEvidence
  <2>1. PICK e \in EventTimes :
          evidence[e].held /\ reader' = [on |-> TRUE, event |-> e, got |-> {}, more |-> TRUE]
    BY <1>4 DEF OpenEvidence
  <2>2. evidence[e] \in Bundles
    BY <2>1, HeldIsBundle DEF EvidenceInv
  <2>3. /\ reader' \in [on : {TRUE}, event : EventTimes, got : SUBSET Samples, more : BOOLEAN]
        /\ reader'.event = e /\ reader'.got = {} /\ reader'.more = TRUE
    BY <2>1
  <2>4. ReaderHolds'
    BY <1>1, <2>2, <2>3 DEF ReaderHolds
  <2> QED BY <1>1, <1>2, <2>4, BundlesStand DEF EvidenceInv
<1> QED BY <1>3, <1>4

\* A page after the first part of a set continues it, and no page follows
\* it only if it ends it (QueryEventEvidence).
LEMMA PageContinues ==
  ASSUME NEW S \in SUBSET Samples, NEW G \in SUBSET S,
         \A t \in G, u \in S : u < t => u \in G
  PROVE  LET H == G \cup PageAt(S, Cardinality(G), EvidencePage)
         IN  /\ H \in SUBSET S
             /\ \A t \in H, u \in S : u < t => u \in H
             /\ ~HasMore(S, Cardinality(G)) => H = S
<1>1. PICK n \in Nat : n = Cardinality(G)
  <2>1. G \in SUBSET Samples
    OBVIOUS
  <2> QED BY <2>1, FiniteTimes
<1>2. PICK P \in Nat \ {0} : P = EvidencePage
  BY PolicyConstants
<1>3. \A x \in S : Position(S, x) \in Nat
  BY PositionType
<1>4. PICK Q \in SUBSET S : Q = {x \in S : Position(S, x) \in n..(n + P - 1)}
  OBVIOUS
<1>5. PageAt(S, n, P) = Q
  BY <1>4 DEF PageAt, Position
\* Everything before the offset is there already.
<1>6. ASSUME NEW u \in S, Position(S, u) < n
      PROVE  u \in G
  <2> SUFFICES ASSUME u \notin G PROVE FALSE
    OBVIOUS
  <2>1. PICK B \in SUBSET S : B = {x \in S : x < u}
    OBVIOUS
  <2>2. G \in SUBSET B
    <3>1. ASSUME NEW x \in G PROVE x \in B
      <4>1. ~(u < x) /\ x # u
        BY <3>1
      <4>2. x \in Nat /\ u \in Nat
        BY TimesAreNat
      <4> QED BY <2>1, <4>1, <4>2
    <3> QED BY <3>1
  <2>3. B \in SUBSET Samples
    BY <2>1
  <2>4. Cardinality(G) <= Cardinality(B)
    BY <2>2, <2>3, FewerTimes
  <2>5. Cardinality(B) = Position(S, u) /\ Position(S, u) \in Nat
    BY <1>3, <2>1 DEF Position
  <2> QED BY <1>1, <1>6, <2>4, <2>5
<1>7. \A t \in G \cup Q, u \in S : u < t => u \in G \cup Q
  <2> SUFFICES ASSUME NEW t \in Q, NEW u \in S, u < t PROVE u \in G \cup Q
    OBVIOUS
  <2>1. Position(S, u) < Position(S, t)
    BY PositionsGrow
  <2>2. Position(S, t) <= n + P - 1 /\ Position(S, t) \in Nat /\ Position(S, u) \in Nat
    BY <1>3, <1>4
  <2>3. Position(S, u) < n \/ Position(S, u) \in n..(n + P - 1)
    BY <1>2, <2>1, <2>2
  <2> QED BY <1>4, <1>6, <2>3
<1>8. ASSUME ~HasMore(S, n) PROVE G \cup Q = S
  <2> SUFFICES ASSUME NEW u \in S PROVE u \in G \cup Q
    OBVIOUS
  <2>1. \A m \in S : Position(S, m) # n + P
    <3> SUFFICES ASSUME NEW m \in S, Position(S, m) = n + P PROVE FALSE
      OBVIOUS
    <3>1. Position(S, m) \in (n + P)..(n + P + 1 - 1)
      BY <1>2
    <3>2. m \in PageAt(S, n + P, 1)
      BY <3>1 DEF PageAt, Position
    <3> QED BY <1>2, <1>8, <3>2 DEF HasMore
  <2>2. ~(Position(S, u) >= n + P)
    <3>1. n + P \in Nat
      BY <1>2
    <3> QED BY <2>1, <3>1, PositionTaken
  <2>3. Position(S, u) < n \/ Position(S, u) \in n..(n + P - 1)
    BY <1>2, <1>3, <2>2
  <2> QED BY <1>4, <1>6, <2>3
<1> QED BY <1>1, <1>2, <1>4, <1>5, <1>7, <1>8

\* A page continues the bundle where the last one ended.
LEMMA Reading ==
  ASSUME EvidenceInv, ReadPage
  PROVE  EvidenceInv'
<1>1. UNCHANGED <<instant, audienceOf, eventRows, rawRows, everRaw, evidence, capture>>
  BY DEF ReadPage
<1>2. EvidenceTypeOK' /\ RetentionKept'
  BY <1>1 DEF EvidenceInv, EvidenceTypeOK, RetentionKept
<1>3. reader # NoReader
  BY DEF ReadPage, NoReader
<1>4. PICK r : r = reader
  OBVIOUS
<1>5. /\ r \in [on : {TRUE}, event : EventTimes, got : SUBSET Samples, more : BOOLEAN]
      /\ evidence[r.event] \in Bundles
      /\ r.got \subseteq evidence[r.event].kept
      /\ \A t \in r.got, u \in evidence[r.event].kept : u < t => u \in r.got
  BY <1>3, <1>4 DEF EvidenceInv, ReaderHolds
<1>6. PICK S \in SUBSET Samples : S = evidence[r.event].kept
  BY <1>5 DEF Bundles
<1>7. PICK G \in SUBSET S : G = r.got
  BY <1>5, <1>6
<1>8. \A t \in G, u \in S : u < t => u \in G
  BY <1>5, <1>6, <1>7
<1>9. PICK H : H = G \cup PageAt(S, Cardinality(G), EvidencePage)
  OBVIOUS
<1>10. PICK more \in BOOLEAN : more = HasMore(S, Cardinality(G))
  BY DEF HasMore
<1>11. /\ H \in SUBSET S
       /\ \A t \in H, u \in S : u < t => u \in H
       /\ ~more => H = S
  BY <1>8, <1>9, <1>10, PageContinues
<1>12. reader' = [r EXCEPT !.got = H, !.more = more]
  BY <1>4, <1>6, <1>7, <1>9, <1>10 DEF ReadPage
<1>13. /\ reader' \in [on : {TRUE}, event : EventTimes, got : SUBSET Samples, more : BOOLEAN]
       /\ reader'.event = r.event /\ reader'.got = H /\ reader'.more = more
  BY <1>5, <1>11, <1>12
<1>14. ReaderHolds'
  BY <1>1, <1>5, <1>6, <1>11, <1>13 DEF ReaderHolds
<1> QED BY <1>1, <1>2, <1>14, BundlesStand DEF EvidenceInv

\* Every step of the evidence model keeps the invariant.
LEMMA EvidenceStep ==
  ASSUME EvidenceInv, [EvidenceNext]_evidenceVars
  PROVE  EvidenceInv'
<1>1. CASE InstantPasses
  BY <1>1, TimePasses
<1>2. CASE EventStored \/ SampleStored \/ SampleDropped
  BY <1>2, RowsMove
<1>3. CASE StartSweep
  BY <1>3, Asking DEF StartSweep
<1>4. CASE CaptureOne
  BY <1>4, Capturing
<1>5. CASE SweepAbandoned
  BY <1>5, Abandoning
<1>6. CASE NextBatch
  BY <1>6, EndingSweep
<1>7. CASE OpenEvidence \/ CloseEvidence
  BY <1>7, Opening
<1>8. CASE ReadPage
  BY <1>8, Reading
<1>9. CASE UNCHANGED evidenceVars
  <2>1. UNCHANGED <<instant, audienceOf, rawRows, everRaw, evidence, capture, reader>>
    BY <1>9 DEF evidenceVars
  <2>2. EvidenceTypeOK' /\ RetentionKept'
    BY <2>1 DEF EvidenceInv, EvidenceTypeOK, RetentionKept
  <2> QED BY <2>1, <2>2, BundlesStand DEF EvidenceInv
<1> QED BY <1>1, <1>2, <1>3, <1>4, <1>5, <1>6, <1>7, <1>8, <1>9 DEF EvidenceNext

\* What the evidence of an event lacks of what its audience could see of its
\* window is accounted for, nothing else is in it, a sweep that ends leaves
\* none of its events out and a reader of the last page has the whole bundle,
\* for any events, policy and page size (CaptureEventEvidence,
\* QueryEventEvidence).
THEOREM EvidenceStaysComplete == EvidenceSpec => []EvidenceIsComplete
<1>1. EvidenceInit => EvidenceInv
  BY EvidenceStarts
<1>2. EvidenceInv /\ [EvidenceNext]_evidenceVars => EvidenceInv'
  BY EvidenceStep
<1>3. EvidenceInv => EvidenceIsComplete
  BY EvidenceInvImplies
<1> QED BY <1>1, <1>2, <1>3, PTL DEF EvidenceSpec

-----------------------------------------------------------------------------
(* The event pipeline. *)

Fates == {"open", "published", "withheld", "dropped", "lost"}
Copies == {<<>>} \cup {<<e>> : e \in PipelineEvent}
WriterStates == [at : {"idle", "guard", "call", "failed", "recheck", "publish", "finish", "done"},
                 attempt : 0..EventAttempts, ok : BOOLEAN, id : 0..MaxEvents, final : BOOLEAN, ev : Copies]
TickStates == [at : {"idle", "generation", "sample", "classify"}, gen : 0..MaxChanges, sample : 0..MaxChanges]

\* The store is reset before the policy generation moves, the ring after it.
GenerationsHold ==
    /\ policyGen \in 0..MaxChanges /\ storeGen \in 0..MaxChanges
    /\ brokerGen \in 0..MaxChanges /\ changes \in 0..MaxChanges
    /\ applying \in {"idle", "detector", "advance", "invalidate", "broker"}
    /\ storeGen = IF applying \in {"detector", "advance"} THEN policyGen + 1 ELSE policyGen
    /\ policyGen = IF applying \in {"invalidate", "broker"} THEN brokerGen + 1 ELSE brokerGen
    /\ storeGen <= changes

\* A sample is never older than the policy generation read before it.
SamplesHold ==
    /\ detector \in 0..MaxChanges \cup {NoSample} /\ remembered \in 0..MaxChanges
    /\ tick \in TickStates
    /\ tick.gen <= policyGen
    /\ tick.at = "classify" => tick.sample >= tick.gen

\* The queue holds confirmed events in the order of their keys.
QueueHolds ==
    /\ pending \in Seq(PipelineEvent) /\ Len(pending) <= EventPendingMax
    /\ fate \in Seq(Fates) /\ Len(fate) <= MaxEvents
    /\ \A i \in DOMAIN pending : pending[i].key \in ConfirmedKeys /\ pending[i].sample >= pending[i].gen
    /\ \A i, j \in DOMAIN pending : i < j => pending[i].key < pending[j].key
    /\ NoEventVanishes

\* The writer works on the head, which is spared; it has finished with it exactly when
\* the event's fate is decided; and it publishes under the id of the stored row.
WriterHolds ==
    /\ writing \in BOOLEAN
    /\ writer \in WriterStates
    /\ writing <=> writer.at \notin {"idle", "done"}
    /\ writing => pending # <<>> /\ writer.ev = <<pending[1]>>
    /\ writer.at = "finish" => ((writer.ok \/ writer.final) <=> fate[pending[1].key] # "open")
    /\ writer.at \in {"recheck", "publish"} =>
         pending[1].key \in DOMAIN rows /\ writer.id = rows[pending[1].key]

\* Rows are stored in the order of their keys.
RowsInOrder ==
    /\ DOMAIN rows \subseteq EventKeys
    /\ \A k \in DOMAIN rows : rows[k] \in Nat
    /\ {rows[k] : k \in DOMAIN rows} = 1..Cardinality(DOMAIN rows)
    /\ \A j, k \in DOMAIN rows : j < k => rows[j] < rows[k]

\* An unanswered commit is the only one and the newest, and nothing that still waits is
\* older than a stored or committing event.
RowsHold ==
    /\ RowsInOrder
    /\ inflight \subseteq EventKeys
    /\ \A k \in DOMAIN rows \cup inflight :
         k \in ConfirmedKeys /\ \A i \in DOMAIN pending : k <= pending[i].key
    /\ \A k \in inflight : inflight = {k} /\ \A j \in DOMAIN rows : j < k

\* What was published is older than everything that waits, the head that was just
\* published excepted.
RingHolds ==
    /\ recent \in Seq(RingEvent) /\ Len(recent) <= SseRecentCap /\ published \in Seq(RingEvent)
    /\ PublishedInOrder
    /\ SampleIsCurrent
    /\ \A p \in DOMAIN published :
         /\ published[p].key \in ConfirmedKeys /\ fate[published[p].key] = "published"
         /\ \A i \in DOMAIN pending :
              published[p].key <= pending[i].key /\ (writer.at # "finish" => published[p].key # pending[i].key)

CountsHold == stopping \in BOOLEAN /\ faults \in 0..MaxDbFaults /\ crashes \in 0..MaxCrashes

PipelineInv ==
    /\ GenerationsHold
    /\ SamplesHold
    /\ QueueHolds
    /\ WriterHolds
    /\ RowsHold
    /\ RingHolds
    /\ CountsHold

\* The empty pipeline satisfies the invariant.
LEMMA PipelineStarts == PipelineInit => PipelineInv
<1> SUFFICES ASSUME PipelineInit PROVE PipelineInv
  OBVIOUS
<1> USE PipelineAssumption DEF PipelineInit
<1>1. GenerationsHold /\ CountsHold
  <2>1. 0 \in 0..MaxChanges /\ 0 \in 0..MaxDbFaults /\ 0 \in 0..MaxCrashes
    OBVIOUS
  <2>2. GenerationsHold
    BY <2>1 DEF GenerationsHold
  <2>3. CountsHold
    BY <2>1 DEF CountsHold
  <2> QED
    BY <2>2, <2>3
<1>6. SamplesHold
  <2>1. 0 \in 0..MaxChanges
    OBVIOUS
  <2>2. tick \in TickStates /\ tick.gen = 0 /\ tick.at = "idle"
    BY <2>1 DEF IdleTick, TickStates
  <2> QED
    BY <2>1, <2>2 DEF SamplesHold
<1>2. QueueHolds
  BY DEF QueueHolds, NoEventVanishes, ConfirmedKeys, PendingKeys
<1>3. WriterHolds
  <2>1. 0 \in 0..EventAttempts /\ 0 \in 0..MaxEvents
    OBVIOUS
  <2>2. /\ writer \in WriterStates
        /\ writer.at = "idle"
    BY <2>1 DEF IdleWriter, WriterStates, Copies
  <2> QED
    BY <2>2 DEF WriterHolds
<1>4. RowsHold
  <2>1. DOMAIN rows = {}
    OBVIOUS
  <2>2. Cardinality(DOMAIN rows) = 0
    BY <2>1, FS_EmptySet
  <2>3. RowsInOrder
    BY <2>1, <2>2 DEF RowsInOrder
  <2> QED
    BY <2>1, <2>3 DEF RowsHold
<1>5. RingHolds
  BY DEF RingHolds, PublishedInOrder, SampleIsCurrent
<1> QED
  BY <1>1, <1>2, <1>3, <1>4, <1>5, <1>6 DEF PipelineInv

-----------------------------------------------------------------------------
(* The scope controller and the detector's samples. *)

\* A transition moves the three generations in turn and leaves the events alone.
LEMMA TransitionSteps ==
  ASSUME PipelineInv, ApplyReset \/ ApplyDetector \/ ApplyAdvance \/ ApplyInvalidate \/ ApplyBroker
  PROVE  PipelineInv'
<1> USE DEF PipelineInv
<1>1. UNCHANGED <<remembered, tick, pending, writing, writer, stopping, rows, inflight, published,
                  fate, faults, crashes>>
  BY DEF ApplyReset, ApplyDetector, ApplyAdvance, ApplyInvalidate, ApplyBroker, detectVars, queueVars,
         dbVars, ringVars
<1>2. QueueHolds' /\ WriterHolds' /\ RowsHold' /\ CountsHold'
  BY <1>1 DEF QueueHolds, NoEventVanishes, ConfirmedKeys, PendingKeys, WriterHolds, RowsHold, RowsInOrder, CountsHold
<1>3. GenerationsHold'
  BY PipelineAssumption
  DEF GenerationsHold, ApplyReset, ApplyDetector, ApplyAdvance, ApplyInvalidate, ApplyBroker, ringVars
<1>4. detector' \in {detector, NoSample} /\ policyGen' \in {policyGen, policyGen + 1}
  BY DEF ApplyReset, ApplyDetector, ApplyAdvance, ApplyInvalidate, ApplyBroker, detectVars
<1>5. SamplesHold'
  BY <1>1, <1>4 DEF SamplesHold, TickStates, GenerationsHold
<1>6. PublishedInOrder'
  BY <1>1 DEF RingHolds, PublishedInOrder
<1>7. \/ recent' = recent /\ policyGen' = policyGen /\ applying' # "idle" /\ applying \in {"idle", "detector"}
      \/ recent' = recent /\ applying' \in {"invalidate", "broker"}
      \/ recent' = <<>>
  BY DEF ApplyReset, ApplyDetector, ApplyAdvance, ApplyInvalidate, ApplyBroker, ringVars, GenerationsHold
<1>8. SampleIsCurrent'
  BY <1>1, <1>7 DEF RingHolds, SampleIsCurrent
<1>9. recent' \in Seq(RingEvent) /\ Len(recent') <= SseRecentCap
  <2>1. recent' = recent \/ recent' = <<>>
    BY <1>7
  <2>2. <<>> \in Seq(RingEvent) /\ Len(<<>>) = 0
    OBVIOUS
  <2>3. 0 <= SseRecentCap
    BY PipelineAssumption
  <2>4. recent \in Seq(RingEvent) /\ Len(recent) <= SseRecentCap
    BY DEF RingHolds
  <2>5. CASE recent' = recent
    BY <2>4, <2>5
  <2>6. CASE recent' = <<>>
    BY <2>2, <2>3, <2>6
  <2> QED
    BY <2>1, <2>5, <2>6
<1>10. RingHolds'
  BY <1>1, <1>6, <1>8, <1>9 DEF RingHolds, ConfirmedKeys
<1> QED
  BY <1>2, <1>3, <1>5, <1>10

\* A detector tick up to its verdict, or one that panics, or that confirms nothing.
LEMMA TickSteps ==
  ASSUME PipelineInv,
         \/ TickCheck \/ TickGeneration \/ TickSample \/ TickPanics
         \/ /\ tick.at = "classify" /\ tick' = IdleTick /\ detector' \in {detector, NoSample, tick.sample}
            /\ UNCHANGED <<queueVars, fate, policyVars, remembered, writer, stopping, dbVars, ringVars,
                           faults, crashes>>
  PROVE  PipelineInv'
<1> USE DEF PipelineInv
<1>1. UNCHANGED <<policyGen, storeGen, applying, changes, pending, writing, writer, stopping, rows, inflight,
                  recent, brokerGen, published, fate, crashes>>
  BY DEF TickCheck, TickGeneration, TickSample, TickPanics, policyVars, queueVars, dbVars, ringVars
<1>2. QueueHolds' /\ WriterHolds' /\ RowsHold' /\ GenerationsHold'
  BY <1>1 DEF QueueHolds, NoEventVanishes, ConfirmedKeys, PendingKeys, WriterHolds, RowsHold, RowsInOrder,
              GenerationsHold
<1>3. RingHolds'
  BY <1>1 DEF RingHolds, PublishedInOrder, SampleIsCurrent, ConfirmedKeys
<1>4. CountsHold'
  BY <1>1, PipelineAssumption DEF CountsHold, TickCheck, TickGeneration, TickSample, TickPanics
<1>5. SamplesHold'
  <2>1. policyGen' = policyGen /\ policyGen <= storeGen /\ policyGen \in 0..MaxChanges /\ storeGen \in 0..MaxChanges
    BY <1>1 DEF GenerationsHold
  <2>7. /\ tick \in TickStates /\ tick.gen <= policyGen
        /\ detector \in 0..MaxChanges \cup {NoSample} /\ remembered \in 0..MaxChanges
    BY DEF SamplesHold
  <2>8. tick.at \in {"idle", "generation", "sample", "classify"} /\ tick.gen \in 0..MaxChanges
        /\ tick.sample \in 0..MaxChanges
        /\ tick = [at |-> tick.at, gen |-> tick.gen, sample |-> tick.sample]
    BY <2>7 DEF TickStates
  <2>9. 0 \in 0..MaxChanges
    BY PipelineAssumption
  <2>10. IdleTick \in TickStates /\ IdleTick.gen = 0 /\ IdleTick.at = "idle"
    BY <2>9 DEF IdleTick, TickStates
  <2>2. CASE TickCheck
    <3>1. tick' = [at |-> "generation", gen |-> tick.gen, sample |-> tick.sample]
      BY <2>2, <2>8 DEF TickCheck
    <3>2. tick' \in TickStates /\ tick'.gen = tick.gen /\ tick'.at = "generation"
      BY <3>1, <2>8 DEF TickStates
    <3>3. detector' \in {detector, NoSample} /\ remembered' = storeGen
      BY <2>2 DEF TickCheck
    <3> QED
      BY <2>1, <2>7, <3>2, <3>3 DEF SamplesHold
  <2>3. CASE TickGeneration
    <3>1. tick' = [at |-> "sample", gen |-> policyGen, sample |-> tick.sample]
      BY <2>3, <2>8 DEF TickGeneration
    <3>2. tick' \in TickStates /\ tick'.gen = policyGen /\ tick'.at = "sample"
      BY <3>1, <2>1, <2>8 DEF TickStates
    <3>3. detector' = detector /\ remembered' = remembered
      BY <2>3 DEF TickGeneration
    <3> QED
      BY <2>1, <2>7, <3>2, <3>3 DEF SamplesHold
  <2>4. CASE TickSample
    <3>1. tick' = [at |-> "classify", gen |-> tick.gen, sample |-> storeGen]
      BY <2>4, <2>8 DEF TickSample
    <3>2. tick' \in TickStates /\ tick'.gen = tick.gen /\ tick'.sample = storeGen
      BY <3>1, <2>1, <2>8 DEF TickStates
    <3>3. detector' = detector /\ remembered' = remembered
      BY <2>4 DEF TickSample
    <3>4. tick'.sample >= tick'.gen /\ tick'.gen <= policyGen'
      BY <2>1, <2>7, <2>8, <3>2
    <3> QED
      BY <2>1, <2>7, <3>2, <3>3, <3>4 DEF SamplesHold
  <2>5. CASE tick' = IdleTick /\ detector' \in {detector, NoSample, tick.sample} /\ UNCHANGED remembered
    <3>1. detector' \in 0..MaxChanges \cup {NoSample}
      BY <2>5, <2>7, <2>8
    <3>2. tick'.gen <= policyGen' /\ tick'.at = "idle" /\ tick' \in TickStates
      BY <2>1, <2>5, <2>10
    <3> QED
      BY <2>5, <2>7, <3>1, <3>2 DEF SamplesHold
  <2>6. \/ TickCheck \/ TickGeneration \/ TickSample
        \/ tick' = IdleTick /\ detector' \in {detector, NoSample, tick.sample} /\ UNCHANGED remembered
    BY DEF TickPanics
  <2> QED
    BY <2>2, <2>3, <2>4, <2>5, <2>6
<1> QED
  BY <1>2, <1>3, <1>4, <1>5

-----------------------------------------------------------------------------
(* Queueing. *)

\* enqueue appends; at capacity one position is left out, never the one being written.
LEMMA QueueShape ==
  ASSUME QueueHolds, WriterHolds, NEW e \in PipelineEvent
  PROVE  LET q == Enqueued(e).queue
             d == Enqueued(e).dropped
         IN  \E n \in Nat \ {0} :
               /\ q \in Seq(PipelineEvent) /\ Len(q) <= EventPendingMax
               /\ Len(q) = IF n <= Len(pending) THEN Len(pending) ELSE Len(pending) + 1
               /\ q[Len(q)] = e
               /\ \A i \in 1..(Len(q) - 1) : q[i] = IF i < n THEN pending[i] ELSE pending[i + 1]
               /\ d = IF n <= Len(pending) THEN {pending[n].key} ELSE {}
               /\ writing => n > 1
               /\ n <= Len(pending) \/ n = Len(pending) + 1
<1> DEFINE q == Enqueued(e).queue
           d == Enqueued(e).dropped
<1>1. pending \in Seq(PipelineEvent) /\ Len(pending) <= EventPendingMax /\ Len(pending) \in Nat
  BY DEF QueueHolds
<1>2. CASE Len(pending) < EventPendingMax
  <2>1. q = Append(pending, e) /\ d = {}
    BY <1>2 DEF Enqueued
  <2>2. /\ q \in Seq(PipelineEvent) /\ Len(q) = Len(pending) + 1 /\ q[Len(q)] = e
        /\ \A i \in 1..(Len(q) - 1) : q[i] = pending[i]
    BY <2>1, <1>1
  <2>3. writing => Len(pending) + 1 > 1
    BY <1>1 DEF WriterHolds
  <2> HIDE DEF q, d
  <2> QED
    BY <1>1, <1>2, <2>1, <2>2, <2>3, PipelineAssumption DEF q, d
<1>3. CASE ~(Len(pending) < EventPendingMax)
  <2> DEFINE n == DroppedAt
             r == RemoveAt(pending, n)
  <2>1. n \in {1, 2} /\ n <= Len(pending) /\ (writing => n > 1) /\ Len(pending) = EventPendingMax
    BY <1>1, <1>3, PipelineAssumption DEF DroppedAt
  <2>2. q = Append(r, e) /\ d = {pending[n].key}
    BY <1>3 DEF Enqueued
  <2>3. r = SubSeq(pending, 1, n - 1) \o SubSeq(pending, n + 1, Len(pending))
    BY DEF RemoveAt
  <2> HIDE DEF n, r
  <2>4. /\ r \in Seq(PipelineEvent) /\ Len(r) = Len(pending) - 1
        /\ \A i \in 1..Len(r) : r[i] = IF i < n THEN pending[i] ELSE pending[i + 1]
    BY <1>1, <2>1, <2>3, SMTT(20)
  <2>5. /\ q \in Seq(PipelineEvent) /\ Len(q) = Len(pending) /\ q[Len(q)] = e
        /\ \A i \in 1..(Len(q) - 1) : q[i] = r[i]
    BY <1>1, <2>2, <2>4
  <2>6. \A i \in 1..(Len(q) - 1) : q[i] = IF i < n THEN pending[i] ELSE pending[i + 1]
    BY <1>1, <2>4, <2>5
  <2> HIDE DEF q, d
  <2>7. n \in Nat \ {0}
    BY <2>1
  <2> QED
    BY <1>1, <2>1, <2>2, <2>5, <2>6, <2>7 DEF q, d
<1> QED
  BY <1>2, <1>3

\* The third verdict of TickClassify: an event is confirmed and queued.
ConfirmStep ==
    /\ tick.at = "classify" /\ tick' = IdleTick
    /\ Len(fate) < MaxEvents
    /\ LET new == Enqueued([key |-> Len(fate) + 1, gen |-> tick.gen, sample |-> tick.sample])
       IN  /\ pending' = new.queue
           /\ fate' = [k \in 1..(Len(fate) + 1) |->
                         IF k \in new.dropped THEN "dropped"
                         ELSE IF k \in ConfirmedKeys THEN fate[k] ELSE "open"]
    /\ detector' = tick.sample
    /\ UNCHANGED <<writing, policyVars, remembered, writer, stopping, dbVars, ringVars, faults, crashes>>

\* Queueing keeps what waits in order, spares the head that is being written, and tells
\* of the event it leaves out.
LEMMA ConfirmSteps ==
  ASSUME PipelineInv, ConfirmStep
  PROVE  PipelineInv'
<1> DEFINE K == Len(fate)
<1>50. PICK e : e = [key |-> K + 1, gen |-> tick.gen, sample |-> tick.sample]
  OBVIOUS
<1>51. PICK d : d = Enqueued(e).dropped
  OBVIOUS
<1>1. /\ pending \in Seq(PipelineEvent) /\ Len(pending) \in Nat /\ DOMAIN pending = 1..Len(pending)
      /\ fate \in Seq(Fates) /\ K \in Nat /\ K < MaxEvents /\ ConfirmedKeys = 1..K
      /\ \A i \in DOMAIN pending : pending[i] \in PipelineEvent
      /\ \A k \in 1..K : fate[k] \in Fates
  BY DEF PipelineInv, QueueHolds, ConfirmStep, ConfirmedKeys
<1>2. /\ tick.gen \in 0..MaxChanges /\ tick.sample \in 0..MaxChanges /\ tick.sample >= tick.gen
  BY DEF PipelineInv, SamplesHold, TickStates, ConfirmStep
<1>3. MaxEvents \in Nat /\ MaxChanges \in Nat
  BY PipelineAssumption
<1>4. e \in PipelineEvent /\ e.key = K + 1 /\ e.sample >= e.gen
  <2>1. K + 1 \in EventKeys
    BY <1>1, <1>3 DEF EventKeys
  <2> QED
    BY <1>2, <1>50, <2>1 DEF PipelineEvent
<1>5. /\ pending' = Enqueued(e).queue
      /\ fate' = [k \in 1..(K + 1) |-> IF k \in d THEN "dropped" ELSE IF k \in ConfirmedKeys THEN fate[k] ELSE "open"]
      /\ UNCHANGED <<writing, writer, rows, inflight, policyGen, storeGen, applying, changes, brokerGen, recent,
                     published, stopping, faults, crashes, remembered>>
  BY <1>50, <1>51 DEF ConfirmStep, policyVars, dbVars, ringVars
<1> HIDE DEF K
<1>6. PICK n \in Nat \ {0} :
        /\ pending' \in Seq(PipelineEvent) /\ Len(pending') <= EventPendingMax
        /\ Len(pending') = IF n <= Len(pending) THEN Len(pending) ELSE Len(pending) + 1
        /\ pending'[Len(pending')] = e
        /\ \A i \in 1..(Len(pending') - 1) : pending'[i] = IF i < n THEN pending[i] ELSE pending[i + 1]
        /\ d = IF n <= Len(pending) THEN {pending[n].key} ELSE {}
        /\ writing => n > 1
        /\ n <= Len(pending) \/ n = Len(pending) + 1
  <2>1. QueueHolds /\ WriterHolds
    BY DEF PipelineInv
  <2>2. pending' = Enqueued(e).queue /\ d = Enqueued(e).dropped
    BY <1>5, <1>51
  <2>3. e \in PipelineEvent
    BY <1>4
  <2>4. \E n \in Nat \ {0} :
           /\ Enqueued(e).queue \in Seq(PipelineEvent) /\ Len(Enqueued(e).queue) <= EventPendingMax
           /\ Len(Enqueued(e).queue) = IF n <= Len(pending) THEN Len(pending) ELSE Len(pending) + 1
           /\ Enqueued(e).queue[Len(Enqueued(e).queue)] = e
           /\ \A i \in 1..(Len(Enqueued(e).queue) - 1) :
                Enqueued(e).queue[i] = IF i < n THEN pending[i] ELSE pending[i + 1]
           /\ Enqueued(e).dropped = IF n <= Len(pending) THEN {pending[n].key} ELSE {}
           /\ writing => n > 1
           /\ n <= Len(pending) \/ n = Len(pending) + 1
    BY <2>1, <2>3, QueueShape
  <2> QED
    BY <2>2, <2>4
<1> DEFINE L == Len(pending')
           from(i) == IF i < n THEN i ELSE i + 1
<1>7. L \in Nat \ {0} /\ DOMAIN pending' = 1..L
  BY <1>1, <1>6
<1>8. \A i \in 1..(L - 1) : from(i) \in DOMAIN pending /\ pending'[i] = pending[from(i)] /\ from(i) # n
                            /\ (from(i) = 1 => i = 1)
  BY <1>1, <1>6, <1>7
<1>9. \A i, j \in 1..(L - 1) : i < j => from(i) < from(j)
  BY <1>7
<1>10. \A i \in DOMAIN pending : i # n => \E j \in 1..(L - 1) : pending'[j] = pending[i]
  <2> SUFFICES ASSUME NEW i \in DOMAIN pending, i # n PROVE \E j \in 1..(L - 1) : pending'[j] = pending[i]
    OBVIOUS
  <2>1. CASE i < n
    <3>1. i \in 1..(L - 1)
      BY <1>1, <1>6, <2>1
    <3> QED
      BY <1>6, <2>1, <3>1
  <2>2. CASE i > n
    <3>1. i - 1 \in 1..(L - 1) /\ ~(i - 1 < n) /\ (i - 1) + 1 = i
      BY <1>1, <1>6, <2>2, SMTT(20)
    <3> QED
      BY <1>6, <3>1
  <2>3. i < n \/ i > n
    BY <1>1
  <2> QED
    BY <2>1, <2>2, <2>3
<1>11. /\ \A i \in DOMAIN pending : pending[i].key \in 1..K /\ pending[i].sample >= pending[i].gen
       /\ \A i, j \in DOMAIN pending : i < j => pending[i].key < pending[j].key
  BY <1>1 DEF PipelineInv, QueueHolds
<1>12. \A i \in DOMAIN pending : i # n => pending[i].key \notin d
  <2> SUFFICES ASSUME NEW i \in DOMAIN pending, i # n, pending[i].key \in d PROVE FALSE
    OBVIOUS
  <2>1. n \in DOMAIN pending /\ pending[i].key = pending[n].key
    BY <1>1, <1>6
  <2>2. i < n \/ n < i
    BY <1>1, <2>1
  <2> QED
    BY <1>11, <2>1, <2>2
<1>13. /\ K + 1 \notin d
       /\ d \subseteq 1..K
  BY <1>1, <1>6, <1>11
<1>14. /\ DOMAIN fate' = 1..(K + 1) /\ fate' \in Seq(Fates) /\ Len(fate') = K + 1
       /\ fate'[K + 1] = "open"
       /\ \A k \in 1..K : fate'[k] = IF k \in d THEN "dropped" ELSE fate[k]
  <2>1. \A k \in 1..(K + 1) : (IF k \in d THEN "dropped" ELSE IF k \in ConfirmedKeys THEN fate[k] ELSE "open") \in Fates
    <3>1. "dropped" \in Fates /\ "open" \in Fates
      BY DEF Fates
    <3> QED
      BY <1>1, <3>1
  <2>2. fate' \in [1..(K + 1) -> Fates]
    BY <1>5, <2>1
  <2>3. K + 1 \in Nat /\ K + 1 \notin ConfirmedKeys
    BY <1>1
  <2>4. fate' \in Seq(Fates) /\ Len(fate') = K + 1
    BY <2>2, <2>3
  <2>5. \A k \in 1..K : k \in 1..(K + 1) /\ k \in ConfirmedKeys
    BY <1>1
  <2>6. K + 1 \in 1..(K + 1)
    BY <1>1
  <2>7. fate'[K + 1] = "open"
    BY <1>5, <1>13, <2>3, <2>6
  <2>8. \A k \in 1..K : fate'[k] = IF k \in d THEN "dropped" ELSE fate[k]
    BY <1>5, <2>5
  <2> QED
    BY <2>2, <2>4, <2>7, <2>8
<1>15. ConfirmedKeys' = 1..(K + 1)
  BY <1>14 DEF ConfirmedKeys
<1> HIDE DEF from, L
<1>16. QueueHolds'
  <2>1. \A i \in DOMAIN pending' : pending'[i].key \in ConfirmedKeys' /\ pending'[i].sample >= pending'[i].gen
    <3> SUFFICES ASSUME NEW i \in DOMAIN pending'
                 PROVE  pending'[i].key \in 1..(K + 1) /\ pending'[i].sample >= pending'[i].gen
      BY <1>15
    <3>1. CASE i = L
      BY <1>1, <1>4, <1>6, <3>1 DEF L
    <3>2. CASE i # L
      <4>1. i \in 1..(L - 1)
        BY <1>7, <3>2
      <4> QED
        BY <1>1, <1>8, <1>11, <4>1
    <3> QED
      BY <3>1, <3>2
  <2>2. \A i, j \in DOMAIN pending' : i < j => pending'[i].key < pending'[j].key
    <3> SUFFICES ASSUME NEW i \in DOMAIN pending', NEW j \in DOMAIN pending', i < j
                 PROVE  pending'[i].key < pending'[j].key
      OBVIOUS
    <3>1. i \in 1..(L - 1)
      BY <1>7
    <3>2. pending'[i] = pending[from(i)] /\ from(i) \in DOMAIN pending
      BY <1>8, <3>1
    <3>3. CASE j = L
      <4>1. pending'[j].key = K + 1
        BY <1>4, <1>6, <3>3 DEF L
      <4> QED
        BY <1>1, <1>11, <3>2, <4>1
    <3>4. CASE j # L
      <4>1. j \in 1..(L - 1)
        BY <1>7, <3>4
      <4>2. pending'[j] = pending[from(j)] /\ from(j) \in DOMAIN pending /\ from(i) < from(j)
        BY <1>8, <1>9, <3>1, <4>1
      <4> QED
        BY <1>11, <3>2, <4>2
    <3> QED
      BY <3>3, <3>4
  <2>3. \A k \in ConfirmedKeys' : fate'[k] = "open" => k \in PendingKeys'
    <3> SUFFICES ASSUME NEW k \in 1..(K + 1), fate'[k] = "open" PROVE \E j \in DOMAIN pending' : pending'[j].key = k
      BY <1>15 DEF PendingKeys
    <3>1. CASE k = K + 1
      <4>1. L \in DOMAIN pending' /\ pending'[L].key = K + 1
        BY <1>4, <1>6, <1>7 DEF L
      <4> QED
        BY <3>1, <4>1
    <3>2. CASE k # K + 1
      <4>1. k \in 1..K
        BY <1>1, <3>2
      <4>2. k \notin d /\ fate[k] = "open"
        BY <1>14, <4>1
      <4>3. k \in PendingKeys
        BY <1>1, <4>1, <4>2 DEF PipelineInv, QueueHolds, NoEventVanishes
      <4>4. PICK i \in DOMAIN pending : pending[i].key = k
        BY <4>3 DEF PendingKeys
      <4>5. i # n
        BY <1>1, <1>6, <4>2, <4>4
      <4>6. PICK j \in 1..(L - 1) : pending'[j] = pending[i]
        BY <1>10, <4>5
      <4> QED
        BY <1>7, <4>4, <4>6
    <3> QED
      BY <3>1, <3>2
  <2>4. \A i \in DOMAIN pending' : fate'[pending'[i].key] = "open" \/ (i = 1 /\ writer'.at = "finish")
    <3> SUFFICES ASSUME NEW i \in DOMAIN pending'
                 PROVE  fate'[pending'[i].key] = "open" \/ (i = 1 /\ writer.at = "finish")
      BY <1>5
    <3>1. CASE i = L
      BY <1>4, <1>6, <1>14, <3>1 DEF L
    <3>2. CASE i # L
      <4>1. i \in 1..(L - 1)
        BY <1>7, <3>2
      <4>2. from(i) \in DOMAIN pending /\ pending'[i] = pending[from(i)] /\ from(i) # n /\ (from(i) = 1 => i = 1)
        BY <1>8, <4>1
      <4>3. fate[pending[from(i)].key] = "open" \/ (from(i) = 1 /\ writer.at = "finish")
        BY <4>2 DEF PipelineInv, QueueHolds, NoEventVanishes
      <4>4. pending[from(i)].key \in 1..K /\ pending[from(i)].key \notin d
        BY <1>11, <1>12, <4>2
      <4>5. fate'[pending'[i].key] = fate[pending[from(i)].key]
        BY <1>14, <4>2, <4>4
      <4> QED
        BY <4>2, <4>3, <4>5
    <3> QED
      BY <3>1, <3>2
  <2>5. NoEventVanishes'
    BY <2>3, <2>4 DEF NoEventVanishes
  <2>6. Len(fate') <= MaxEvents
    BY <1>1, <1>3, <1>14
  <2> QED
    BY <1>6, <1>14, <2>1, <2>2, <2>5, <2>6 DEF QueueHolds
<1>17. writing => pending # <<>> /\ pending' # <<>> /\ pending'[1] = pending[1] /\ pending[1].key \in 1..K /\ pending[1].key \notin d
  <2> SUFFICES ASSUME writing
               PROVE  pending # <<>> /\ pending' # <<>> /\ pending'[1] = pending[1] /\ pending[1].key \in 1..K /\ pending[1].key \notin d
    OBVIOUS
  <2>1. n > 1 /\ pending # <<>>
    BY <1>6 DEF PipelineInv, WriterHolds
  <2>2. 1 \in DOMAIN pending /\ 1 # n
    BY <1>1, <2>1
  <2>3. pending[1].key \in 1..K /\ pending[1].key \notin d
    BY <1>11, <1>12, <2>2
  <2>4. 1 \in 1..(L - 1)
    BY <1>1, <1>6, <2>1 DEF L
  <2>5. pending'[1] = pending[1]
    BY <1>6, <2>1, <2>4 DEF L
  <2> QED
    BY <1>7, <2>1, <2>3, <2>5
<1>18. WriterHolds'
  <2>1. WriterHolds
    BY DEF PipelineInv
  <2>2. writer' = writer /\ writing' = writing /\ rows' = rows
    BY <1>5
  <2>3. writing => fate'[pending'[1].key] = fate[pending[1].key]
    BY <1>14, <1>17
  <2> QED
    BY <1>17, <2>1, <2>2, <2>3 DEF WriterHolds
<1>19. RowsHold'
  <2>1. RowsHold /\ rows' = rows /\ inflight' = inflight
    BY <1>5 DEF PipelineInv
  <2>2. ASSUME NEW k \in DOMAIN rows \cup inflight PROVE k \in ConfirmedKeys' /\ \A i \in DOMAIN pending' : k <= pending'[i].key
    <3>1. k \in 1..K /\ \A i \in DOMAIN pending : k <= pending[i].key
      BY <1>1, <2>1, <2>2 DEF RowsHold
    <3>2. ASSUME NEW i \in DOMAIN pending' PROVE k <= pending'[i].key
      <4>1. CASE i = L
        BY <1>1, <1>4, <1>6, <3>1, <4>1 DEF L
      <4>2. CASE i # L
        <5>1. i \in 1..(L - 1)
          BY <1>7, <4>2
        <5> QED
          BY <1>8, <3>1, <5>1
      <4> QED
        BY <4>1, <4>2
    <3> QED
      BY <1>1, <1>15, <3>1, <3>2
  <2>3. RowsInOrder'
    BY <2>1 DEF RowsHold, RowsInOrder
  <2> QED
    BY <2>1, <2>2, <2>3 DEF RowsHold
<1>20. RingHolds'
  <2>1. RingHolds /\ UNCHANGED <<recent, published, policyGen, applying, rows, writer>>
    BY <1>5 DEF PipelineInv
  <2>2. PublishedInOrder' /\ SampleIsCurrent'
    BY <2>1 DEF RingHolds, PublishedInOrder, SampleIsCurrent
  <2>3. ASSUME NEW p \in DOMAIN published
        PROVE  /\ published[p].key \in ConfirmedKeys' /\ fate'[published[p].key] = "published"
               /\ \A i \in DOMAIN pending' :
                    published[p].key <= pending'[i].key /\ (writer.at # "finish" => published[p].key # pending'[i].key)
    <3> DEFINE key == published[p].key
    <3>1. /\ key \in 1..K /\ fate[key] = "published"
          /\ \A i \in DOMAIN pending : key <= pending[i].key /\ (writer.at # "finish" => key # pending[i].key)
      BY <1>1, <2>1 DEF RingHolds
    <3> HIDE DEF key
    <3>2. key \notin d
      <4> SUFFICES ASSUME key \in d PROVE FALSE
        OBVIOUS
      <4>1. n \in DOMAIN pending /\ key = pending[n].key
        BY <1>1, <1>6
      <4>2. n = 1 /\ writer.at = "finish"
        BY <3>1, <4>1 DEF PipelineInv, QueueHolds, NoEventVanishes
      <4>3. writing
        BY <4>2 DEF PipelineInv, WriterHolds
      <4> QED
        BY <1>6, <4>2, <4>3
    <3>3. fate'[key] = "published"
      BY <1>14, <3>1, <3>2
    <3>4. ASSUME NEW i \in DOMAIN pending'
          PROVE  key <= pending'[i].key /\ (writer.at # "finish" => key # pending'[i].key)
      <4>1. CASE i = L
        BY <1>1, <1>4, <1>6, <3>1, <4>1 DEF L
      <4>2. CASE i # L
        <5>1. i \in 1..(L - 1)
          BY <1>7, <4>2
        <5> QED
          BY <1>8, <3>1, <5>1
      <4> QED
        BY <4>1, <4>2
    <3>5. key \in ConfirmedKeys'
      BY <1>1, <1>15, <3>1
    <3> QED
      BY <3>3, <3>4, <3>5 DEF key
  <2>4. recent \in Seq(RingEvent) /\ Len(recent) <= SseRecentCap /\ published \in Seq(RingEvent)
    BY <2>1 DEF RingHolds
  <2> HIDE DEF PipelineInv
  <2>5. recent' = recent /\ published' = published /\ writer' = writer
    BY <2>1
  <2>6. \A p \in DOMAIN published :
          /\ published[p].key \in ConfirmedKeys' /\ fate'[published[p].key] = "published"
          /\ \A i \in DOMAIN pending' :
               published[p].key <= pending'[i].key /\ (writer.at # "finish" => published[p].key # pending'[i].key)
    BY <2>3
  <2> QED
    BY <2>2, <2>4, <2>5, <2>6 DEF RingHolds
<1>21. GenerationsHold' /\ CountsHold'
  BY <1>5 DEF PipelineInv, GenerationsHold, CountsHold
<1>22. SamplesHold'
  <2>1. policyGen' \in 0..MaxChanges /\ remembered' \in 0..MaxChanges /\ 0 \in 0..MaxChanges
    BY <1>3, <1>5 DEF PipelineInv, SamplesHold, GenerationsHold
  <2>2. tick' \in TickStates /\ tick'.gen = 0 /\ tick'.at = "idle"
    BY <2>1 DEF ConfirmStep, IdleTick, TickStates
  <2>3. detector' \in 0..MaxChanges
    BY <1>2 DEF ConfirmStep
  <2> QED
    BY <2>1, <2>2, <2>3 DEF SamplesHold
<1> QED
  BY <1>16, <1>18, <1>19, <1>20, <1>21, <1>22 DEF PipelineInv

-----------------------------------------------------------------------------
(* The writer. *)

\* What the queue holds is confirmed, and its head is the oldest.
LEMMA HeadOfQueue ==
  ASSUME QueueHolds, pending # <<>>
  PROVE  /\ Len(pending) \in Nat \ {0} /\ DOMAIN pending = 1..Len(pending) /\ 1 \in DOMAIN pending
         /\ pending[1] \in PipelineEvent /\ pending[1].key \in ConfirmedKeys /\ pending[1].key \in EventKeys
         /\ pending[1].gen \in 0..MaxChanges /\ pending[1].sample \in 0..MaxChanges
         /\ pending[1].sample >= pending[1].gen
         /\ \A i \in DOMAIN pending : pending[i].key \in EventKeys /\ pending[i].key \in Int
         /\ \A i \in DOMAIN pending : pending[1].key <= pending[i].key /\ (i # 1 => pending[1].key < pending[i].key)
<1>1. /\ Len(pending) \in Nat \ {0} /\ DOMAIN pending = 1..Len(pending) /\ 1 \in DOMAIN pending
      /\ \A i \in DOMAIN pending : pending[i] \in PipelineEvent
  BY DEF QueueHolds
<1>2. \A i \in DOMAIN pending : pending[i].key \in EventKeys /\ pending[i].key \in Int
  BY <1>1 DEF PipelineEvent, EventKeys
<1>3. /\ pending[1].key \in ConfirmedKeys /\ pending[1].sample >= pending[1].gen
      /\ \A i \in DOMAIN pending : i # 1 => pending[1].key < pending[i].key
  <2>1. \A i \in DOMAIN pending : i # 1 => 1 < i
    BY <1>1
  <2> QED
    BY <1>1, <2>1 DEF QueueHolds
<1>4. \A i \in DOMAIN pending : pending[1].key <= pending[i].key
  BY <1>1, <1>2, <1>3
<1>5. pending[1].gen \in 0..MaxChanges /\ pending[1].sample \in 0..MaxChanges
  BY <1>1 DEF PipelineEvent
<1> QED
  BY <1>1, <1>2, <1>3, <1>4, <1>5

\* A writer at work works on the head.
LEMMA AtWork ==
  ASSUME WriterHolds, writer.at \notin {"idle", "done"}
  PROVE  /\ writing /\ pending # <<>> /\ HeadEvent = pending[1] /\ writer.ev = <<pending[1]>>
BY DEF WriterHolds, HeadEvent

\* The writer ends its work on the head: the fate of the event is decided unless it is to
\* be tried again.
LEMMA FinishingShape ==
  ASSUME QueueHolds, WriterHolds, writer.at \notin {"idle", "done", "finish"},
         NEW ok \in BOOLEAN, NEW X \in Fates \ {"open"},
         writer' = Finishing(writer, ok),
         fate' = IF ok \/ writer.final THEN [fate EXCEPT ![HeadEvent.key] = X] ELSE fate,
         UNCHANGED <<pending, writing>>
  PROVE  /\ QueueHolds' /\ WriterHolds' /\ writer'.at = "finish"
         /\ ConfirmedKeys' = ConfirmedKeys
         /\ \A k \in ConfirmedKeys : k # pending[1].key => fate'[k] = fate[k]
         /\ ok \/ writer.final => fate'[pending[1].key] = X
<1>1. pending # <<>> /\ HeadEvent = pending[1] /\ writer.ev = <<pending[1]>> /\ writing
  BY AtWork
<1>2. /\ Len(pending) \in Nat \ {0} /\ DOMAIN pending = 1..Len(pending) /\ 1 \in DOMAIN pending
      /\ pending[1].key \in ConfirmedKeys
      /\ \A i \in DOMAIN pending : i # 1 => pending[1].key < pending[i].key
      /\ \A i \in DOMAIN pending : pending[i].key \in Int
  BY <1>1, HeadOfQueue
<1>3. /\ fate \in Seq(Fates) /\ Len(fate) <= MaxEvents /\ ConfirmedKeys = 1..Len(fate) /\ Len(fate) \in Nat
  BY DEF QueueHolds, ConfirmedKeys
<1>4. /\ fate' \in Seq(Fates) /\ Len(fate') = Len(fate) /\ DOMAIN fate' = DOMAIN fate
      /\ \A k \in ConfirmedKeys : k # pending[1].key => fate'[k] = fate[k]
      /\ fate'[pending[1].key] = IF ok \/ writer.final THEN X ELSE fate[pending[1].key]
  BY <1>1, <1>2, <1>3 DEF ConfirmedKeys
<1>5. ConfirmedKeys' = ConfirmedKeys
  BY <1>4 DEF ConfirmedKeys
<1>6. /\ writer \in WriterStates
      /\ writer' = [writer EXCEPT !.at = "finish", !.ok = ok]
  BY DEF WriterHolds, Finishing
<1>7. /\ writer' \in WriterStates /\ writer'.at = "finish" /\ writer'.ok = ok /\ writer'.final = writer.final
      /\ writer'.ev = writer.ev
  BY <1>6 DEF WriterStates
<1>8. \A i \in DOMAIN pending : fate[pending[i].key] = "open"
  BY DEF QueueHolds, NoEventVanishes
<1>9. QueueHolds'
  <2>1. \A k \in ConfirmedKeys' : fate'[k] = "open" => k \in PendingKeys'
    <3> SUFFICES ASSUME NEW k \in ConfirmedKeys, fate'[k] = "open" PROVE k \in PendingKeys
      BY <1>5 DEF PendingKeys
    <3>1. CASE k = pending[1].key
      BY <1>2, <3>1 DEF PendingKeys
    <3>2. CASE k # pending[1].key
      BY <1>4, <3>2 DEF QueueHolds, NoEventVanishes
    <3> QED
      BY <3>1, <3>2
  <2>2. \A i \in DOMAIN pending' : fate'[pending'[i].key] = "open" \/ (i = 1 /\ writer'.at = "finish")
    <3> SUFFICES ASSUME NEW i \in DOMAIN pending, i # 1 PROVE fate'[pending[i].key] = "open"
      BY <1>7
    <3>1. pending[i].key # pending[1].key
      BY <1>2
    <3>2. pending[i].key \in ConfirmedKeys
      BY DEF QueueHolds
    <3> QED
      BY <1>4, <1>8, <3>1, <3>2
  <2>3. NoEventVanishes'
    BY <2>1, <2>2 DEF NoEventVanishes
  <2>4. \A i \in DOMAIN pending' : pending'[i].key \in ConfirmedKeys' /\ pending'[i].sample >= pending'[i].gen
    BY <1>5 DEF QueueHolds
  <2>5. \A i, j \in DOMAIN pending' : i < j => pending'[i].key < pending'[j].key
    BY DEF QueueHolds
  <2>6. pending' \in Seq(PipelineEvent) /\ Len(pending') <= EventPendingMax
    BY DEF QueueHolds
  <2>7. fate' \in Seq(Fates) /\ Len(fate') <= MaxEvents
    BY <1>3, <1>4
  <2> QED
    BY <2>3, <2>4, <2>5, <2>6, <2>7 DEF QueueHolds
<1>10. WriterHolds'
  <2>1. (ok \/ writer.final) <=> fate'[pending[1].key] # "open"
    BY <1>2, <1>4, <1>8
  <2>2. writing' = writing /\ pending' = pending
    OBVIOUS
  <2>3. writing' \in BOOLEAN
    BY <2>2 DEF WriterHolds
  <2> QED
    BY <1>1, <1>7, <2>1, <2>2, <2>3 DEF WriterHolds
<1> QED
  BY <1>4, <1>5, <1>7, <1>9, <1>10

\* The ring is as sound as before when neither it nor the queue moves, rows are only
\* added, and no event but the head meets its fate.
LEMMA RingUnmoved ==
  ASSUME RingHolds, QueueHolds, writer.at # "finish",
         UNCHANGED <<recent, published, policyGen, applying, pending>>,
         DOMAIN rows \subseteq DOMAIN rows', \A k \in DOMAIN rows : rows'[k] = rows[k],
         ConfirmedKeys' = ConfirmedKeys,
         \A k \in ConfirmedKeys : fate'[k] = fate[k] \/ (pending # <<>> /\ k = pending[1].key)
  PROVE  RingHolds'
<1>1. PublishedInOrder'
  BY DEF RingHolds, PublishedInOrder
<1>2. SampleIsCurrent'
  BY DEF RingHolds, SampleIsCurrent
<1>3. ASSUME NEW p \in DOMAIN published
      PROVE  /\ published[p].key \in ConfirmedKeys /\ fate'[published[p].key] = "published"
             /\ \A i \in DOMAIN pending : published[p].key <= pending[i].key /\ published[p].key # pending[i].key
  <2>1. /\ published[p].key \in ConfirmedKeys /\ fate[published[p].key] = "published"
        /\ \A i \in DOMAIN pending : published[p].key <= pending[i].key /\ published[p].key # pending[i].key
    BY DEF RingHolds
  <2>2. pending # <<>> => 1 \in DOMAIN pending
    BY HeadOfQueue
  <2> QED
    BY <2>1, <2>2
<1>4. recent' \in Seq(RingEvent) /\ Len(recent') <= SseRecentCap /\ published' \in Seq(RingEvent)
  BY DEF RingHolds
<1> QED
  BY <1>1, <1>2, <1>3, <1>4 DEF RingHolds

\* The steps in which the writer moves and does not end its work.
LEMMA QuietWriter ==
  ASSUME PipelineInv, writer.at # "finish",
         UNCHANGED <<policyVars, detectVars, pending, stopping, ringVars, fate>>,
         DOMAIN rows \subseteq DOMAIN rows', \A k \in DOMAIN rows : rows'[k] = rows[k],
         WriterHolds', RowsHold', CountsHold'
  PROVE  PipelineInv'
<1> USE DEF PipelineInv
<1>1. UNCHANGED <<policyGen, storeGen, applying, changes, detector, remembered, tick, recent, brokerGen, published>>
  BY DEF policyVars, detectVars, ringVars
<1>2. GenerationsHold'
  BY <1>1 DEF GenerationsHold
<1>3. SamplesHold'
  BY <1>1 DEF SamplesHold
<1>4. ConfirmedKeys' = ConfirmedKeys
  BY DEF ConfirmedKeys
<1>5. QueueHolds'
  <2>1. NoEventVanishes'
    BY <1>4 DEF QueueHolds, NoEventVanishes, PendingKeys
  <2> QED
    BY <1>4, <2>1 DEF QueueHolds
<1>6. RingHolds'
  BY <1>1, <1>4, RingUnmoved
<1> QED
  BY <1>2, <1>3, <1>5, <1>6

\* The steps that end the work on the head without publishing it.
LEMMA EndedWork ==
  ASSUME PipelineInv, writer.at \notin {"idle", "done", "finish"},
         NEW ok \in BOOLEAN, NEW X \in Fates \ {"open"},
         writer' = Finishing(writer, ok),
         fate' = IF ok \/ writer.final THEN [fate EXCEPT ![HeadEvent.key] = X] ELSE fate,
         UNCHANGED <<policyVars, detectVars, queueVars, stopping, inflight, ringVars>>,
         DOMAIN rows \subseteq DOMAIN rows', \A k \in DOMAIN rows : rows'[k] = rows[k],
         ConfirmedKeys' = ConfirmedKeys => RowsHold', CountsHold'
  PROVE  PipelineInv'
<1>1. UNCHANGED <<policyGen, storeGen, applying, changes, detector, remembered, tick, pending, writing, recent,
                  brokerGen, published>>
  BY DEF policyVars, detectVars, queueVars, ringVars
<1>2. GenerationsHold'
  BY <1>1 DEF PipelineInv, GenerationsHold
<1>3. SamplesHold'
  BY <1>1 DEF PipelineInv, SamplesHold
<1>4. QueueHolds /\ WriterHolds /\ RingHolds
  BY DEF PipelineInv
<1>5. UNCHANGED <<pending, writing>>
  BY <1>1
<1>6. /\ QueueHolds' /\ WriterHolds' /\ ConfirmedKeys' = ConfirmedKeys
      /\ \A k \in ConfirmedKeys : k # pending[1].key => fate'[k] = fate[k]
  BY <1>4, <1>5, FinishingShape
<1>7. pending # <<>>
  BY <1>4, AtWork
<1>8. UNCHANGED <<recent, published, policyGen, applying, pending>>
  BY <1>1
<1>9. \A k \in ConfirmedKeys : fate'[k] = fate[k] \/ (pending # <<>> /\ k = pending[1].key)
  BY <1>6, <1>7
<1>10. RingHolds'
  BY <1>4, <1>6, <1>8, <1>9, RingUnmoved
<1>11. RowsHold'
  BY <1>6
<1> QED
  BY <1>2, <1>3, <1>6, <1>10, <1>11 DEF PipelineInv

-----------------------------------------------------------------------------
(* Rows. *)

\* The transaction finds a key's sequence or allocates the next one: the cursor stays
\* without holes and in the order of the keys.
LEMMA StoredRow ==
  ASSUME RowsInOrder, NEW key \in EventKeys,
         key \in DOMAIN rows \/ \A j \in DOMAIN rows : j < key,
         rows' = StoredWith(key)
  PROVE  /\ RowsInOrder'
         /\ DOMAIN rows' = DOMAIN rows \cup {key}
         /\ \A k \in DOMAIN rows : rows'[k] = rows[k]
         /\ rows'[key] = AudienceSeq(key) /\ AudienceSeq(key) \in 1..MaxEvents
<1> DEFINE n == Cardinality(DOMAIN rows)
<1>1. MaxEvents \in Nat /\ IsFiniteSet(EventKeys) /\ Cardinality(EventKeys) = MaxEvents
  <2>1. MaxEvents \in Nat
    BY PipelineAssumption
  <2>2. IsFiniteSet(1..MaxEvents) /\ Cardinality(1..MaxEvents) = IF 1 > MaxEvents THEN 0 ELSE MaxEvents - 1 + 1
    BY <2>1, FS_Interval
  <2> QED
    BY <2>1, <2>2 DEF EventKeys
<1>2. DOMAIN rows \subseteq EventKeys /\ DOMAIN rows \cup {key} \subseteq EventKeys
  BY DEF RowsInOrder
<1>3. IsFiniteSet(DOMAIN rows) /\ n \in Nat
  <2>1. IsFiniteSet(DOMAIN rows)
    BY <1>1, <1>2, FS_Subset
  <2> QED
    BY <2>1, FS_CardinalityType
<1>4. Cardinality(DOMAIN rows \cup {key}) <= MaxEvents
  BY <1>1, <1>2, FS_Subset
<1>5. Cardinality(DOMAIN rows \cup {key}) = IF key \in DOMAIN rows THEN n ELSE n + 1
  BY <1>3, FS_AddElement
<1>6. /\ DOMAIN rows' = DOMAIN rows \cup {key}
      /\ rows'[key] = AudienceSeq(key)
      /\ \A k \in DOMAIN rows : rows'[k] = rows[k]
  BY DEF StoredWith, AudienceSeq
<1>7. {rows[k] : k \in DOMAIN rows} = 1..n
  BY DEF RowsInOrder
<1>8. \A k \in DOMAIN rows : rows[k] \in 1..n
  BY <1>7
<1> HIDE DEF n
<1>9. CASE key \in DOMAIN rows
  <2>1. AudienceSeq(key) = rows[key]
    BY <1>9 DEF AudienceSeq
  <2>2. DOMAIN rows' = DOMAIN rows
    BY <1>6, <1>9
  <2>3. {rows'[k] : k \in DOMAIN rows'} = {rows[k] : k \in DOMAIN rows}
    BY <1>6, <2>2
  <2>4. RowsInOrder'
    BY <1>6, <2>2, <2>3 DEF RowsInOrder
  <2>5. n <= MaxEvents
    BY <1>4, <1>5, <1>9
  <2>6. AudienceSeq(key) \in 1..MaxEvents
    BY <1>1, <1>3, <1>8, <1>9, <2>1, <2>5
  <2> QED
    BY <1>6, <2>4, <2>6
<1>10. CASE key \notin DOMAIN rows
  <2>1. AudienceSeq(key) = n + 1
    BY <1>10 DEF AudienceSeq, n
  <2>2. n + 1 <= MaxEvents
    BY <1>4, <1>5, <1>10
  <2>3. \A j \in DOMAIN rows : j < key
    BY <1>10
  <2>4. {rows'[k] : k \in DOMAIN rows'} = 1..(n + 1)
    <3>1. ASSUME NEW v \in 1..(n + 1) PROVE \E k \in DOMAIN rows' : rows'[k] = v
      <4>1. CASE v = n + 1
        BY <1>6, <2>1, <4>1
      <4>2. CASE v # n + 1
        <5>1. v \in 1..n
          BY <1>3, <4>2
        <5>2. PICK k \in DOMAIN rows : rows[k] = v
          BY <1>7, <5>1
        <5> QED
          BY <1>6, <5>2
      <4> QED
        BY <4>1, <4>2
    <3>2. ASSUME NEW k \in DOMAIN rows' PROVE rows'[k] \in 1..(n + 1)
      <4>1. CASE k = key
        BY <1>3, <1>6, <2>1, <4>1
      <4>2. CASE k # key
        <5>1. k \in DOMAIN rows
          BY <1>6, <4>2
        <5> QED
          BY <1>3, <1>6, <1>8, <5>1
      <4> QED
        BY <4>1, <4>2
    <3> QED
      BY <3>1, <3>2
  <2>5. Cardinality(DOMAIN rows') = n + 1
    BY <1>5, <1>6, <1>10
  <2>6. \A k \in DOMAIN rows' : rows'[k] \in Nat
    <3> SUFFICES ASSUME NEW k \in DOMAIN rows' PROVE rows'[k] \in Nat
      OBVIOUS
    <3>1. rows'[k] \in 1..(n + 1)
      BY <2>4
    <3> QED
      BY <1>3, <3>1
  <2>7. \A j, k \in DOMAIN rows' : j < k => rows'[j] < rows'[k]
    <3> SUFFICES ASSUME NEW j \in DOMAIN rows', NEW k \in DOMAIN rows', j < k PROVE rows'[j] < rows'[k]
      OBVIOUS
    <3>1. j \in EventKeys /\ k \in EventKeys /\ key \in EventKeys
      BY <1>2, <1>6
    <3>2. j # key
      <4> SUFFICES ASSUME j = key PROVE FALSE
        OBVIOUS
      <4>1. k \in DOMAIN rows
        BY <1>6, <3>1 DEF EventKeys
      <4> QED
        BY <2>3, <3>1, <4>1 DEF EventKeys
    <3>3. j \in DOMAIN rows /\ rows'[j] = rows[j] /\ rows[j] \in 1..n
      BY <1>6, <1>8, <3>2
    <3>4. CASE k = key
      BY <1>3, <1>6, <2>1, <3>3, <3>4
    <3>5. CASE k # key
      <4>1. k \in DOMAIN rows /\ rows'[k] = rows[k]
        BY <1>6, <3>5
      <4> QED
        BY <3>3, <4>1 DEF RowsInOrder
    <3> QED
      BY <3>4, <3>5
  <2>8. DOMAIN rows' \subseteq EventKeys
    BY <1>2, <1>6
  <2>9. RowsInOrder'
    BY <2>4, <2>5, <2>6, <2>7, <2>8 DEF RowsInOrder
  <2>10. AudienceSeq(key) \in 1..MaxEvents
    BY <1>1, <1>3, <2>1, <2>2
  <2> QED
    BY <1>6, <2>9, <2>10
<1> QED
  BY <1>9, <1>10

\* Storing the head, when no other commit of its key or of a new key is open.
LEMMA HeadStored ==
  ASSUME RowsHold, QueueHolds, pending # <<>>, ~EventBlocked(pending[1].key),
         rows' = StoredWith(pending[1].key),
         UNCHANGED <<inflight, pending>>, ConfirmedKeys' = ConfirmedKeys
  PROVE  /\ RowsHold'
         /\ DOMAIN rows \subseteq DOMAIN rows' /\ \A k \in DOMAIN rows : rows'[k] = rows[k]
         /\ pending[1].key \in DOMAIN rows'
         /\ rows'[pending[1].key] = AudienceSeq(pending[1].key)
         /\ AudienceSeq(pending[1].key) \in 1..MaxEvents
<1>0. PICK key : key = pending[1].key
  OBVIOUS
<1>1. /\ key \in ConfirmedKeys /\ key \in EventKeys /\ 1 \in DOMAIN pending
      /\ \A i \in DOMAIN pending : key <= pending[i].key
  BY <1>0, HeadOfQueue
<1>2. RowsInOrder /\ rows' = StoredWith(key)
  BY <1>0 DEF RowsHold
<1>3. \A k \in DOMAIN rows \cup inflight : k <= key
  BY <1>0, <1>1 DEF RowsHold
<1>4. key \in DOMAIN rows \/ \A j \in DOMAIN rows : j < key
  <2> SUFFICES ASSUME key \notin DOMAIN rows, NEW j \in DOMAIN rows PROVE j < key
    OBVIOUS
  <2>1. j <= key /\ j # key /\ j \in EventKeys
    BY <1>2, <1>3 DEF RowsInOrder
  <2> QED
    BY <1>1, <2>1 DEF EventKeys
<1>5. /\ RowsInOrder' /\ DOMAIN rows' = DOMAIN rows \cup {key}
      /\ \A k \in DOMAIN rows : rows'[k] = rows[k]
      /\ rows'[key] = AudienceSeq(key) /\ AudienceSeq(key) \in 1..MaxEvents
  BY <1>1, <1>2, <1>4, StoredRow
<1>6. inflight = {} \/ key \in DOMAIN rows
  BY <1>0 DEF EventBlocked
<1>7. \A k \in DOMAIN rows' \cup inflight : k \in ConfirmedKeys /\ \A i \in DOMAIN pending : k <= pending[i].key
  BY <1>1, <1>5 DEF RowsHold
<1>8. \A k \in inflight : inflight = {k} /\ \A j \in DOMAIN rows' : j < k
  <2>1. CASE inflight = {}
    BY <2>1
  <2>2. CASE key \in DOMAIN rows
    <3>1. DOMAIN rows' = DOMAIN rows
      BY <1>5, <2>2
    <3> QED
      BY <3>1 DEF RowsHold
  <2> QED
    BY <1>6, <2>1, <2>2
<1>9. RowsHold'
  <2>1. inflight' = inflight /\ pending' = pending /\ inflight \subseteq EventKeys
    BY DEF RowsHold
  <2> QED
    BY <1>5, <1>7, <1>8, <2>1 DEF RowsHold
<1> QED
  BY <1>0, <1>5, <1>9

\* The database decides the open commit: its key is the newest of the rows.
LEMMA ResolveSteps ==
  ASSUME PipelineInv, NEW key \in EventKeys, InflightResolves(key)
  PROVE  PipelineInv'
<1>1. /\ key \in inflight /\ rows' \in {rows, StoredWith(key)} /\ inflight' = inflight \ {key}
      /\ UNCHANGED <<policyVars, detectVars, pending, writing, writer, stopping, ringVars, fate, faults, crashes>>
  BY DEF InflightResolves, queueVars
<1>2. UNCHANGED <<policyGen, storeGen, applying, changes, detector, remembered, tick, recent, brokerGen, published>>
  BY <1>1 DEF policyVars, detectVars, ringVars
<1>3. ConfirmedKeys' = ConfirmedKeys
  BY <1>1 DEF ConfirmedKeys
<1>4. RowsHold /\ RowsInOrder
  BY DEF PipelineInv, RowsHold
<1>5. inflight = {key} /\ inflight' = {} /\ \A j \in DOMAIN rows : j < key
  BY <1>1, <1>4 DEF RowsHold
<1>6. /\ RowsInOrder' /\ DOMAIN rows \subseteq DOMAIN rows' /\ \A k \in DOMAIN rows : rows'[k] = rows[k]
      /\ DOMAIN rows' \subseteq DOMAIN rows \cup {key}
  <2>1. CASE rows' = rows
    BY <1>4, <2>1 DEF RowsInOrder
  <2>2. CASE rows' = StoredWith(key)
    <3>1. /\ RowsInOrder' /\ DOMAIN rows' = DOMAIN rows \cup {key} /\ \A k \in DOMAIN rows : rows'[k] = rows[k]
      BY <1>4, <1>5, <2>2, StoredRow
    <3> QED
      BY <3>1
  <2> QED
    BY <1>1, <2>1, <2>2
<1>7. RowsHold'
  <2>1. ASSUME NEW k \in DOMAIN rows' PROVE k \in ConfirmedKeys' /\ \A i \in DOMAIN pending' : k <= pending'[i].key
    <3>1. k \in DOMAIN rows \cup inflight
      BY <1>1, <1>6
    <3> QED
      BY <1>1, <1>3, <1>4, <3>1 DEF RowsHold
  <2> QED
    BY <1>5, <1>6, <2>1 DEF RowsHold
<1>8. QueueHolds'
  <2>1. NoEventVanishes'
    BY <1>1, <1>3 DEF PipelineInv, QueueHolds, NoEventVanishes, PendingKeys
  <2> QED
    BY <1>1, <1>3, <2>1 DEF PipelineInv, QueueHolds
<1>9. WriterHolds'
  BY <1>1, <1>6 DEF PipelineInv, WriterHolds
<1>10. RingHolds'
  <2>1. PublishedInOrder'
    BY <1>2, <1>6 DEF PipelineInv, RingHolds, PublishedInOrder
  <2>2. SampleIsCurrent'
    BY <1>2 DEF PipelineInv, RingHolds, SampleIsCurrent
  <2> QED
    BY <1>1, <1>2, <1>3, <2>1, <2>2 DEF PipelineInv, RingHolds
<1>11. GenerationsHold'
  BY <1>2 DEF PipelineInv, GenerationsHold
<1>12. SamplesHold'
  BY <1>2 DEF PipelineInv, SamplesHold
<1>13. CountsHold'
  BY <1>1 DEF PipelineInv, CountsHold
<1> QED
  BY <1>7, <1>8, <1>9, <1>10, <1>11, <1>12, <1>13 DEF PipelineInv

-----------------------------------------------------------------------------
(* The steps of the writer, one lemma each. *)

\* A writer that goes on with the head it has.
LEMMA GoesOn ==
  ASSUME WriterHolds, writer.at \notin {"idle", "done"},
         writer' \in WriterStates, writer'.ev = writer.ev,
         writer'.at \in {"call", "failed", "recheck", "publish"},
         UNCHANGED <<pending, writing>>,
         writer'.at \in {"recheck", "publish"} =>
             pending[1].key \in DOMAIN rows' /\ writer'.id = rows'[pending[1].key]
  PROVE  WriterHolds'
<1>1. writing /\ pending # <<>> /\ writer.ev = <<pending[1]>>
  BY AtWork
<1>2. writing' \in BOOLEAN /\ writing'
  BY <1>1 DEF WriterHolds
<1> QED
  BY <1>1, <1>2 DEF WriterHolds

\* Rows that do not move stay in order.
LEMMA RowsKept ==
  ASSUME RowsHold, UNCHANGED <<rows, inflight, pending>>, ConfirmedKeys' = ConfirmedKeys
  PROVE  RowsHold'
BY DEF RowsHold, RowsInOrder

\* The writer takes the head, or ends when the queue is empty.
LEMMA HeadSteps ==
  ASSUME PipelineInv, WriterHead \/ WriterDone
  PROVE  PipelineInv'
<1>1. /\ writer.at = "idle"
      /\ UNCHANGED <<policyVars, detectVars, pending, stopping, dbVars, ringVars, fate, faults, crashes>>
  BY DEF WriterHead, WriterDone, queueVars
<1>2. rows' = rows /\ inflight' = inflight /\ pending' = pending /\ ConfirmedKeys' = ConfirmedKeys
  BY <1>1 DEF dbVars, ConfirmedKeys
<1>3. RowsHold'
  BY <1>2, RowsKept DEF PipelineInv
<1>4. CountsHold'
  BY <1>1 DEF PipelineInv, CountsHold
<1>5. WriterHolds /\ writer \in WriterStates
  BY DEF PipelineInv, WriterHolds
<1>6. WriterHolds'
  <2>1. CASE WriterHead
    <3>1. /\ pending # <<>> /\ writing' = TRUE
          /\ writer' = [at |-> "guard", attempt |-> 1, ok |-> FALSE, id |-> 0, final |-> stopping, ev |-> <<pending[1]>>]
      BY <2>1 DEF WriterHead, IdleWriter
    <3>2. 1 \in 0..EventAttempts /\ 0 \in 0..MaxEvents /\ stopping \in BOOLEAN
      BY PipelineAssumption DEF PipelineInv, CountsHold
    <3>3. pending[1] \in PipelineEvent
      BY <3>1, HeadOfQueue DEF PipelineInv
    <3>4. <<pending[1]>> \in Copies
      BY <3>3 DEF Copies
    <3>5. writer' \in WriterStates /\ writer'.at = "guard" /\ writer'.ev = <<pending[1]>>
      BY <3>1, <3>2, <3>4 DEF WriterStates
    <3> QED
      BY <1>2, <3>1, <3>5 DEF WriterHolds
  <2>2. CASE WriterDone
    <3>1. writer' = [writer EXCEPT !.at = "done"] /\ writing' = writing
      BY <2>2 DEF WriterDone, queueVars
    <3>2. writer' \in WriterStates /\ writer'.at = "done"
      BY <1>5, <3>1 DEF WriterStates
    <3>3. writing = FALSE
      BY <1>1 DEF PipelineInv, WriterHolds
    <3> QED
      BY <3>1, <3>2, <3>3 DEF WriterHolds
  <2> QED
    BY <2>1, <2>2
<1> QED
  BY <1>1, <1>2, <1>3, <1>4, <1>6, QuietWriter

\* Both checks of the generation: the writer goes on, or withholds the event.
LEMMA CheckSteps ==
  ASSUME PipelineInv, WriterGuard \/ WriterRecheck
  PROVE  PipelineInv'
<1>1. /\ writer.at \in {"guard", "recheck"}
      /\ UNCHANGED <<policyVars, detectVars, queueVars, stopping, dbVars, ringVars, faults, crashes>>
      /\ \/ /\ writer.at = "guard" /\ writer' = [writer EXCEPT !.at = "call"] /\ fate' = fate
         \/ /\ writer.at = "recheck" /\ writer' = [writer EXCEPT !.at = "publish"] /\ fate' = fate
         \/ /\ writer' = Finishing(writer, TRUE) /\ fate' = [fate EXCEPT ![HeadEvent.key] = "withheld"]
  BY DEF WriterGuard, WriterRecheck
<1>2. rows' = rows /\ inflight' = inflight /\ pending' = pending /\ writing' = writing
  BY <1>1 DEF dbVars, queueVars
<1>3. ConfirmedKeys' = ConfirmedKeys => RowsHold'
  BY <1>2, RowsKept DEF PipelineInv
<1>4. CountsHold'
  BY <1>1 DEF PipelineInv, CountsHold
<1>5. WriterHolds /\ writer \in WriterStates
  BY DEF PipelineInv, WriterHolds
<1>6. CASE fate' = fate /\ \/ writer.at = "guard" /\ writer' = [writer EXCEPT !.at = "call"]
                           \/ writer.at = "recheck" /\ writer' = [writer EXCEPT !.at = "publish"]
  <2>1. /\ writer' \in WriterStates /\ writer'.ev = writer.ev /\ writer'.id = writer.id
        /\ writer'.at = (IF writer.at = "guard" THEN "call" ELSE "publish")
    BY <1>5, <1>6 DEF WriterStates
  <2>2. writer'.at \in {"recheck", "publish"} => pending[1].key \in DOMAIN rows' /\ writer'.id = rows'[pending[1].key]
    BY <1>1, <1>2, <1>5, <2>1 DEF WriterHolds
  <2>3. WriterHolds'
    BY <1>1, <1>2, <1>5, <2>1, <2>2, GoesOn
  <2>4. ConfirmedKeys' = ConfirmedKeys
    BY <1>6 DEF ConfirmedKeys
  <2>5. UNCHANGED <<policyVars, detectVars, pending, stopping, ringVars, fate>> /\ writer.at # "finish"
    BY <1>1, <1>2, <1>6
  <2> QED
    BY <1>2, <1>3, <1>4, <2>3, <2>4, <2>5, QuietWriter
<1>7. CASE writer' = Finishing(writer, TRUE) /\ fate' = [fate EXCEPT ![HeadEvent.key] = "withheld"]
  <2>1. "withheld" \in Fates \ {"open"} /\ TRUE \in BOOLEAN
    BY DEF Fates
  <2>2. writer.at \notin {"idle", "done", "finish"}
    BY <1>1
  <2>3. fate' = IF TRUE \/ writer.final THEN [fate EXCEPT ![HeadEvent.key] = "withheld"] ELSE fate
    BY <1>7
  <2>4. UNCHANGED <<policyVars, detectVars, queueVars, stopping, inflight, ringVars>>
    BY <1>1, <1>2
  <2> QED
    BY <1>2, <1>3, <1>4, <1>7, <2>1, <2>2, <2>3, <2>4, EndedWork
<1> QED
  BY <1>1, <1>6, <1>7

\* A transaction that answers.
LEMMA CallSucceedsStep ==
  ASSUME PipelineInv, WriterCallSucceeds
  PROVE  PipelineInv'
<1>1. /\ writer.at = "call" /\ ~EventBlocked(HeadEvent.key)
      /\ rows' = StoredWith(HeadEvent.key)
      /\ writer' = [writer EXCEPT !.at = "recheck", !.id = AudienceSeq(HeadEvent.key)]
      /\ UNCHANGED <<policyVars, detectVars, queueVars, stopping, inflight, ringVars, fate, faults, crashes>>
  BY DEF WriterCallSucceeds
<1>2. pending' = pending /\ writing' = writing /\ ConfirmedKeys' = ConfirmedKeys
  BY <1>1 DEF queueVars, ConfirmedKeys
<1>3. WriterHolds /\ writer \in WriterStates /\ RowsHold /\ QueueHolds
  BY DEF PipelineInv, WriterHolds
<1>4. pending # <<>> /\ HeadEvent = pending[1]
  BY <1>1, <1>3, AtWork
<1>5. /\ RowsHold' /\ DOMAIN rows \subseteq DOMAIN rows' /\ \A k \in DOMAIN rows : rows'[k] = rows[k]
      /\ pending[1].key \in DOMAIN rows' /\ rows'[pending[1].key] = AudienceSeq(pending[1].key)
      /\ AudienceSeq(pending[1].key) \in 1..MaxEvents
  BY <1>1, <1>2, <1>3, <1>4, HeadStored
<1>6. AudienceSeq(HeadEvent.key) \in 0..MaxEvents
  BY <1>4, <1>5
<1>7. writer' \in WriterStates /\ writer'.ev = writer.ev /\ writer'.at = "recheck" /\ writer'.id = AudienceSeq(HeadEvent.key)
  BY <1>1, <1>3, <1>6 DEF WriterStates
<1>8. WriterHolds'
  BY <1>1, <1>2, <1>3, <1>4, <1>5, <1>7, GoesOn
<1>9. CountsHold'
  BY <1>1 DEF PipelineInv, CountsHold
<1>10. UNCHANGED <<policyVars, detectVars, pending, stopping, ringVars, fate>> /\ writer.at # "finish"
  BY <1>1, <1>2
<1> QED
  BY <1>5, <1>8, <1>9, <1>10, QuietWriter

\* A transaction that is rolled back, or whose COMMIT stays open: its key is then the
\* newest of all.
LEMMA CallFailsSteps ==
  ASSUME PipelineInv, WriterCallFails \/ WriterCallUnanswered
  PROVE  PipelineInv'
<1>1. /\ writer.at = "call" /\ writer' = [writer EXCEPT !.at = "failed"] /\ rows' = rows
      /\ UNCHANGED <<policyVars, detectVars, queueVars, stopping, ringVars, fate, crashes>>
      /\ faults' = faults \/ (faults < MaxDbFaults /\ faults' = faults + 1)
  BY DEF WriterCallFails, WriterCallUnanswered, dbVars
<1>2. pending' = pending /\ writing' = writing /\ ConfirmedKeys' = ConfirmedKeys
  BY <1>1 DEF queueVars, ConfirmedKeys
<1>3. WriterHolds /\ writer \in WriterStates /\ RowsHold /\ QueueHolds
  BY DEF PipelineInv, WriterHolds
<1>4. pending # <<>> /\ HeadEvent = pending[1]
  BY <1>1, <1>3, AtWork
<1>5. RowsHold'
  <2>1. CASE inflight' = inflight
    BY <1>1, <1>2, <1>3, <2>1, RowsKept
  <2>2. CASE WriterCallUnanswered
    <3> PICK key : key = pending[1].key
      OBVIOUS
    <3>1. ~EventBlocked(key) /\ key \notin DOMAIN rows /\ inflight' = inflight \cup {key}
      BY <1>4, <2>2 DEF WriterCallUnanswered
    <3>2. inflight = {} /\ inflight' = {key}
      BY <3>1 DEF EventBlocked
    <3>3. key \in EventKeys /\ key \in ConfirmedKeys /\ \A i \in DOMAIN pending : key <= pending[i].key
      BY <1>3, <1>4, HeadOfQueue
    <3>4. \A j \in DOMAIN rows : j < key
      <4> SUFFICES ASSUME NEW j \in DOMAIN rows PROVE j < key
        OBVIOUS
      <4>1. j <= pending[1].key
        BY <1>3, <1>4, HeadOfQueue DEF RowsHold
      <4>2. j # key /\ j \in EventKeys
        BY <1>3, <3>1 DEF RowsHold, RowsInOrder
      <4> QED
        BY <3>3, <4>1, <4>2 DEF EventKeys
    <3>5. RowsInOrder'
      BY <1>1, <1>3 DEF RowsHold, RowsInOrder
    <3>6. \A k \in DOMAIN rows : k \in ConfirmedKeys /\ \A i \in DOMAIN pending : k <= pending[i].key
      BY <1>3 DEF RowsHold
    <3> QED
      BY <1>1, <1>2, <3>2, <3>3, <3>4, <3>5, <3>6 DEF RowsHold
  <2> QED
    BY <2>1, <2>2 DEF WriterCallFails, dbVars
<1>6. writer' \in WriterStates /\ writer'.ev = writer.ev /\ writer'.at = "failed"
  BY <1>1, <1>3 DEF WriterStates
<1>7. WriterHolds'
  BY <1>1, <1>2, <1>3, <1>6, GoesOn
<1>8. CountsHold'
  BY <1>1, PipelineAssumption DEF PipelineInv, CountsHold
<1>9. UNCHANGED <<policyVars, detectVars, pending, stopping, ringVars, fate>> /\ writer.at # "finish"
  BY <1>1, <1>2
<1> QED
  BY <1>1, <1>5, <1>7, <1>8, <1>9, QuietWriter

\* A panic of the store, before or after its commit.
LEMMA PanicStep ==
  ASSUME PipelineInv, WriterPanics
  PROVE  PipelineInv'
<1>1. /\ writer.at = "call" /\ ~EventBlocked(HeadEvent.key)
      /\ faults < MaxDbFaults /\ faults' = faults + 1
      /\ rows' \in {rows, StoredWith(HeadEvent.key)}
      /\ writer' = Finishing(writer, FALSE)
      /\ fate' = IF writer.final THEN [fate EXCEPT ![HeadEvent.key] = "dropped"] ELSE fate
      /\ UNCHANGED <<policyVars, detectVars, queueVars, stopping, inflight, ringVars, crashes>>
  BY DEF WriterPanics
<1>2. pending' = pending
  BY <1>1 DEF queueVars
<1>3. WriterHolds /\ RowsHold /\ QueueHolds
  BY DEF PipelineInv
<1>4. pending # <<>> /\ HeadEvent = pending[1]
  BY <1>1, <1>3, AtWork
<1>5. DOMAIN rows \subseteq DOMAIN rows' /\ \A k \in DOMAIN rows : rows'[k] = rows[k]
  <2>1. CASE rows' = rows
    BY <2>1
  <2>2. CASE rows' = StoredWith(HeadEvent.key)
    BY <2>2 DEF StoredWith, AudienceSeq
  <2> QED
    BY <1>1, <2>1, <2>2
<1>6. ConfirmedKeys' = ConfirmedKeys => RowsHold'
  <2> SUFFICES ASSUME ConfirmedKeys' = ConfirmedKeys PROVE RowsHold'
    OBVIOUS
  <2>1. inflight' = inflight
    BY <1>1
  <2>2. CASE rows' = rows
    BY <1>2, <1>3, <2>1, <2>2, RowsKept
  <2>3. CASE rows' = StoredWith(HeadEvent.key)
    <3>1. rows' = StoredWith(pending[1].key) /\ ~EventBlocked(pending[1].key)
      BY <1>1, <1>4, <2>3
    <3> QED
      BY <1>2, <1>3, <1>4, <2>1, <3>1, HeadStored
  <2> QED
    BY <1>1, <2>2, <2>3
<1>7. CountsHold'
  BY <1>1, PipelineAssumption DEF PipelineInv, CountsHold
<1>8. "dropped" \in Fates \ {"open"} /\ FALSE \in BOOLEAN
  BY DEF Fates
<1>9. /\ writer.at \notin {"idle", "done", "finish"}
      /\ fate' = IF FALSE \/ writer.final THEN [fate EXCEPT ![HeadEvent.key] = "dropped"] ELSE fate
      /\ UNCHANGED <<policyVars, detectVars, queueVars, stopping, inflight, ringVars>>
  BY <1>1
<1> QED
  BY <1>1, <1>5, <1>6, <1>7, <1>8, <1>9, EndedWork

\* Another attempt, or the end of the attempts.
LEMMA RetryStep ==
  ASSUME PipelineInv, WriterRetry
  PROVE  PipelineInv'
<1>1. /\ writer.at = "failed"
      /\ UNCHANGED <<policyVars, detectVars, queueVars, stopping, dbVars, ringVars, faults, crashes>>
      /\ fate' = IF writer.final THEN [fate EXCEPT ![HeadEvent.key] = "dropped"] ELSE fate
      /\ \/ writer' = Finishing(writer, FALSE)
         \/ /\ ~writer.final /\ ~(writer.attempt >= EventAttempts)
            /\ writer' = [writer EXCEPT !.at = "call", !.attempt = writer.attempt + 1]
  BY DEF WriterRetry
<1>2. rows' = rows /\ inflight' = inflight /\ pending' = pending /\ writing' = writing
  BY <1>1 DEF dbVars, queueVars
<1>3. WriterHolds /\ RowsHold /\ writer \in WriterStates
  BY DEF PipelineInv, WriterHolds
<1>4. ConfirmedKeys' = ConfirmedKeys => RowsHold'
  BY <1>2, <1>3, RowsKept
<1>5. CountsHold'
  BY <1>1 DEF PipelineInv, CountsHold
<1>6. CASE writer' = Finishing(writer, FALSE)
  <2>1. "dropped" \in Fates \ {"open"} /\ FALSE \in BOOLEAN
    BY DEF Fates
  <2>2. /\ writer.at \notin {"idle", "done", "finish"}
        /\ fate' = IF FALSE \/ writer.final THEN [fate EXCEPT ![HeadEvent.key] = "dropped"] ELSE fate
        /\ UNCHANGED <<policyVars, detectVars, queueVars, stopping, inflight, ringVars>>
    BY <1>1, <1>2
  <2>3. DOMAIN rows \subseteq DOMAIN rows' /\ \A k \in DOMAIN rows : rows'[k] = rows[k]
    BY <1>2
  <2> QED
    BY <1>4, <1>5, <1>6, <2>1, <2>2, <2>3, EndedWork
<1>7. CASE /\ ~writer.final /\ ~(writer.attempt >= EventAttempts)
           /\ writer' = [writer EXCEPT !.at = "call", !.attempt = writer.attempt + 1]
  <2>1. writer.attempt \in 0..EventAttempts /\ EventAttempts \in Nat
    BY <1>3, PipelineAssumption DEF WriterStates
  <2>2. writer.attempt + 1 \in 0..EventAttempts
    BY <1>7, <2>1
  <2>3. writer' \in WriterStates /\ writer'.ev = writer.ev /\ writer'.at = "call"
    BY <1>3, <1>7, <2>2 DEF WriterStates
  <2>4. WriterHolds'
    BY <1>1, <1>2, <1>3, <2>3, GoesOn
  <2>5. fate' = fate /\ ConfirmedKeys' = ConfirmedKeys
    BY <1>1, <1>7 DEF ConfirmedKeys
  <2>6. UNCHANGED <<policyVars, detectVars, pending, stopping, ringVars, fate>> /\ writer.at # "finish"
    BY <1>1, <1>2, <2>5
  <2>7. DOMAIN rows \subseteq DOMAIN rows' /\ \A k \in DOMAIN rows : rows'[k] = rows[k]
    BY <1>2
  <2> QED
    BY <1>4, <1>5, <2>4, <2>5, <2>6, <2>7, QuietWriter
<1> QED
  BY <1>1, <1>6, <1>7

\* The ring keeps its bound.
LEMMA TrimmedBounds ==
  ASSUME NEW ring \in Seq(RingEvent), NEW e \in RingEvent, Len(ring) <= SseRecentCap
  PROVE  RingTrimmed(Append(ring, e)) \in Seq(RingEvent) /\ Len(RingTrimmed(Append(ring, e))) <= SseRecentCap
<1>1. SseRecentCap \in Nat \ {0} /\ Len(ring) \in Nat
  BY PipelineAssumption
<1> PICK a : a = Append(ring, e)
  OBVIOUS
<1>2. a \in Seq(RingEvent) /\ Len(a) = Len(ring) + 1
  OBVIOUS
<1>3. CASE Len(a) > SseRecentCap
  <2>1. RingTrimmed(a) = SubSeq(a, Len(a) - SseRecentCap + 1, Len(a))
    BY <1>3 DEF RingTrimmed
  <2>2. PICK m \in Nat \ {0} : m = Len(a) - SseRecentCap + 1
    BY <1>1, <1>2, <1>3
  <2>3. m <= Len(a) /\ Len(a) - m + 1 = SseRecentCap
    BY <1>1, <1>2, <2>2
  <2>4. SubSeq(a, m, Len(a)) \in Seq(RingEvent) /\ Len(SubSeq(a, m, Len(a))) = SseRecentCap
    BY <1>1, <1>2, <2>2, <2>3
  <2> QED
    BY <1>1, <2>1, <2>2, <2>4
<1>4. CASE ~(Len(a) > SseRecentCap)
  <2>1. RingTrimmed(a) = a
    BY <1>4 DEF RingTrimmed
  <2> QED
    BY <1>1, <1>2, <1>4, <2>1
<1> QED
  BY <1>3, <1>4

\* The ring keeps its newest entries.
LEMMA TrimmedRing ==
  ASSUME NEW ring \in Seq(RingEvent), NEW e \in RingEvent, Len(ring) <= SseRecentCap,
         NEW g, \A i \in DOMAIN ring : ring[i].gen = g, e.gen = g
  PROVE  LET new == RingTrimmed(Append(ring, e))
         IN  /\ new \in Seq(RingEvent) /\ Len(new) <= SseRecentCap
             /\ \A i \in DOMAIN new : new[i].gen = g
<1>1. SseRecentCap \in Nat \ {0} /\ Len(ring) \in Nat
  BY PipelineAssumption
<1> PICK a : a = Append(ring, e)
  OBVIOUS
<1>2. a \in Seq(RingEvent) /\ Len(a) = Len(ring) + 1 /\ \A i \in DOMAIN a : a[i].gen = g
  OBVIOUS
<1>3. CASE Len(a) > SseRecentCap
  <2>1. RingTrimmed(a) = SubSeq(a, Len(a) - SseRecentCap + 1, Len(a))
    BY <1>3 DEF RingTrimmed
  <2>2. PICK m \in Nat \ {0} : m = Len(a) - SseRecentCap + 1
    BY <1>1, <1>2, <1>3
  <2>3. m <= Len(a) /\ Len(a) - m + 1 = SseRecentCap
    BY <1>1, <1>2, <2>2
  <2> PICK new : new = SubSeq(a, m, Len(a))
    OBVIOUS
  <2>4. /\ new \in Seq(RingEvent) /\ Len(new) = SseRecentCap
        /\ \A i \in 1..SseRecentCap : new[i] = a[i + m - 1]
    <3>1. Len(a) \in Nat /\ m \in 1..Len(a)
      BY <1>1, <1>2, <2>2, <2>3
    <3>2. SubSeq(a, m, Len(a)) \in Seq(RingEvent) /\ Len(SubSeq(a, m, Len(a))) = Len(a) - m + 1
      BY <1>2, <3>1
    <3>3. \A i \in 1..(Len(a) - m + 1) : SubSeq(a, m, Len(a))[i] = a[i + m - 1]
      BY <1>2, <3>1
    <3> QED
      BY <2>3, <3>2, <3>3
  <2>5. \A i \in DOMAIN new : new[i].gen = g
    <3> SUFFICES ASSUME NEW i \in DOMAIN new PROVE new[i].gen = g
      OBVIOUS
    <3>1. i \in 1..SseRecentCap
      BY <1>1, <2>4
    <3>2. i + m - 1 \in 1..Len(a)
      BY <1>1, <1>2, <2>2, <2>3, <3>1
    <3> QED
      BY <1>2, <2>4, <3>1, <3>2
  <2>6. RingTrimmed(a) = new
    BY <2>1, <2>2
  <2> QED
    BY <1>1, <2>4, <2>5, <2>6
<1>4. CASE ~(Len(a) > SseRecentCap)
  <2>1. RingTrimmed(a) = a
    BY <1>4 DEF RingTrimmed
  <2> QED
    BY <1>1, <1>2, <1>4, <2>1
<1> QED
  BY <1>3, <1>4

\* An event that is admitted is the newest of all that were, and current.
LEMMA PublishStep ==
  ASSUME PipelineInv, WriterPublish
  PROVE  PipelineInv'
<1>1. /\ writer.at = "publish" /\ writer' = Finishing(writer, TRUE)
      /\ UNCHANGED <<policyVars, detectVars, queueVars, stopping, dbVars, brokerGen, faults, crashes>>
  BY DEF WriterPublish
<1>2. UNCHANGED <<policyGen, storeGen, applying, changes, detector, remembered, tick, pending, writing, rows, inflight>>
  BY <1>1 DEF policyVars, detectVars, queueVars, dbVars
<1>3. WriterHolds /\ writer \in WriterStates /\ RowsHold /\ QueueHolds /\ RingHolds
  BY DEF PipelineInv, WriterHolds
<1>4. pending # <<>> /\ HeadEvent = pending[1]
  BY <1>1, <1>3, AtWork
<1>5. PICK head : head = pending[1]
  OBVIOUS
<1>6. /\ head \in PipelineEvent /\ head.key \in ConfirmedKeys /\ head.key \in EventKeys /\ head.sample >= head.gen
      /\ head.gen \in 0..MaxChanges /\ head.sample \in 0..MaxChanges
      /\ \A i \in DOMAIN pending : head.key <= pending[i].key /\ pending[i].key \in Int
      /\ 1 \in DOMAIN pending
  BY <1>3, <1>4, <1>5, HeadOfQueue
<1>7. PICK X \in {"published", "withheld"} :
        /\ fate' = [fate EXCEPT ![HeadEvent.key] = X]
        /\ X = "withheld" => recent' = recent /\ published' = published
        /\ X = "published" => /\ HeadEvent.gen = policyGen
                              /\ recent' = RingTrimmed(Append(recent, RingEntry(HeadEvent, writer.id)))
                              /\ published' = Append(published, RingEntry(HeadEvent, writer.id))
  BY DEF WriterPublish, RingAdmits
<1>8. X \in Fates \ {"open"} /\ TRUE \in BOOLEAN
  BY <1>7 DEF Fates
<1>9. fate' = IF TRUE \/ writer.final THEN [fate EXCEPT ![HeadEvent.key] = X] ELSE fate
  BY <1>7
<1>10. writer.at \notin {"idle", "done", "finish"} /\ UNCHANGED <<pending, writing>>
  BY <1>1, <1>2
<1>11. /\ QueueHolds' /\ WriterHolds' /\ writer'.at = "finish" /\ ConfirmedKeys' = ConfirmedKeys
       /\ \A k \in ConfirmedKeys : k # pending[1].key => fate'[k] = fate[k]
       /\ TRUE \/ writer.final => fate'[pending[1].key] = X
  BY <1>1, <1>3, <1>8, <1>9, <1>10, FinishingShape
<1>12. RowsHold'
  BY <1>2, <1>3, <1>11, RowsKept
<1>13. GenerationsHold'
  BY <1>1, <1>2 DEF PipelineInv, GenerationsHold
<1>14. SamplesHold'
  BY <1>2 DEF PipelineInv, SamplesHold
<1>15. CountsHold'
  BY <1>1 DEF PipelineInv, CountsHold
<1>16. RingHolds'
  <2>1. CASE X = "withheld"
    <3>1. UNCHANGED <<recent, published, policyGen, applying, pending>>
      BY <1>2, <1>7, <2>1
    <3>2. DOMAIN rows \subseteq DOMAIN rows' /\ \A k \in DOMAIN rows : rows'[k] = rows[k]
      BY <1>2
    <3>3. \A k \in ConfirmedKeys : fate'[k] = fate[k] \/ (pending # <<>> /\ k = pending[1].key)
      BY <1>4, <1>11
    <3> QED
      BY <1>3, <1>10, <1>11, <3>1, <3>2, <3>3, RingUnmoved
  <2>2. CASE X = "published"
    <3>1. head.key \in DOMAIN rows /\ writer.id = rows[head.key]
      BY <1>1, <1>3, <1>5 DEF WriterHolds
    <3>2. PICK new : new = RingEntry(head, writer.id)
      OBVIOUS
    <3>3. /\ new.key = head.key /\ new.gen = head.gen /\ new.sample = head.sample /\ new.id = writer.id
          /\ new = [key |-> head.key, gen |-> head.gen, sample |-> head.sample, id |-> writer.id, bgen |-> brokerGen]
      BY <3>2 DEF RingEntry
    <3>4. writer.id \in Nat \ {0}
      <4>1. rows[head.key] \in 1..Cardinality(DOMAIN rows)
        BY <1>3, <3>1 DEF RowsHold, RowsInOrder
      <4>2. rows[head.key] \in Nat
        BY <1>3, <3>1 DEF RowsHold, RowsInOrder
      <4> QED
        BY <3>1, <4>1, <4>2
    <3>5. brokerGen \in Nat
      BY PipelineAssumption DEF PipelineInv, GenerationsHold
    <3>6. new \in RingEvent
      BY <1>6, <3>3, <3>4, <3>5 DEF RingEvent
    <3>7. /\ head.gen = policyGen
          /\ recent' = RingTrimmed(Append(recent, new))
          /\ published' = Append(published, new)
      BY <1>4, <1>5, <1>7, <2>2, <3>2
    <3>8. recent \in Seq(RingEvent) /\ Len(recent) <= SseRecentCap /\ published \in Seq(RingEvent)
      BY <1>3 DEF RingHolds
    <3>9. /\ published' \in Seq(RingEvent) /\ Len(published) \in Nat
          /\ DOMAIN published = 1..Len(published) /\ DOMAIN published' = 1..(Len(published) + 1)
          /\ published'[Len(published) + 1] = new
          /\ \A i \in DOMAIN published : published'[i] = published[i]
      BY <3>6, <3>7, <3>8
    <3>10. recent' \in Seq(RingEvent) /\ Len(recent') <= SseRecentCap
           /\ (applying \in {"idle", "detector", "advance"} => \A i \in DOMAIN recent' : recent'[i].gen = policyGen)
      <4>1. CASE applying \in {"idle", "detector", "advance"}
        <5>1. \A i \in DOMAIN recent : recent[i].gen = policyGen
          BY <1>3, <4>1 DEF RingHolds, SampleIsCurrent
        <5>2. PICK g : g = policyGen
          OBVIOUS
        <5>3. PICK ring : ring = recent
          OBVIOUS
        <5>4. ring \in Seq(RingEvent) /\ Len(ring) <= SseRecentCap /\ (\A i \in DOMAIN ring : ring[i].gen = g)
              /\ new.gen = g
          BY <3>3, <3>7, <3>8, <5>1, <5>2, <5>3
        <5>5. /\ RingTrimmed(Append(ring, new)) \in Seq(RingEvent) /\ Len(RingTrimmed(Append(ring, new))) <= SseRecentCap
              /\ \A i \in DOMAIN RingTrimmed(Append(ring, new)) : RingTrimmed(Append(ring, new))[i].gen = g
          BY <3>6, <5>4, TrimmedRing
        <5> QED
          BY <3>7, <5>2, <5>3, <5>5
      <4>2. CASE applying \notin {"idle", "detector", "advance"}
        <5>1. PICK ring : ring = recent
          OBVIOUS
        <5>2. ring \in Seq(RingEvent) /\ Len(ring) <= SseRecentCap
          BY <3>8, <5>1
        <5>3. RingTrimmed(Append(ring, new)) \in Seq(RingEvent) /\ Len(RingTrimmed(Append(ring, new))) <= SseRecentCap
          BY <3>6, <5>2, TrimmedBounds
        <5> QED
          BY <3>7, <4>2, <5>1, <5>3
      <4> QED
        BY <4>1, <4>2
    <3>11. \A p \in DOMAIN published :
             /\ published[p].key \in ConfirmedKeys /\ fate[published[p].key] = "published"
             /\ published[p].key < head.key
             /\ published[p].key \in DOMAIN rows /\ published[p].id = rows[published[p].key]
             /\ \A i \in DOMAIN pending : published[p].key <= pending[i].key
      <4> SUFFICES ASSUME NEW p \in DOMAIN published
                   PROVE  /\ published[p].key \in ConfirmedKeys /\ fate[published[p].key] = "published"
                          /\ published[p].key < head.key
                          /\ published[p].key \in DOMAIN rows /\ published[p].id = rows[published[p].key]
                          /\ \A i \in DOMAIN pending : published[p].key <= pending[i].key
        OBVIOUS
      <4>1. /\ published[p].key \in ConfirmedKeys /\ fate[published[p].key] = "published"
            /\ published[p].key <= head.key /\ published[p].key # head.key
            /\ published[p].key \in DOMAIN rows /\ published[p].id = rows[published[p].key]
            /\ \A i \in DOMAIN pending : published[p].key <= pending[i].key
        BY <1>1, <1>3, <1>5, <1>6 DEF RingHolds, PublishedInOrder
      <4>2. published[p].key \in Int /\ head.key \in Int
        <5>1. published[p] \in RingEvent
          BY <3>8
        <5> QED
          BY <1>6, <5>1 DEF RingEvent, EventKeys
      <4> QED
        BY <4>1, <4>2
    <3>12. PublishedInOrder'
      <4>1. ASSUME NEW i \in DOMAIN published'
            PROVE  published'[i].key \in DOMAIN rows' /\ published'[i].id = rows'[published'[i].key]
        <5>1. CASE i \in DOMAIN published
          BY <1>2, <3>9, <3>11, <5>1
        <5>2. CASE i = Len(published) + 1
          BY <1>2, <3>1, <3>3, <3>9, <5>2
        <5> QED
          BY <3>9, <5>1, <5>2
      <4>2. ASSUME NEW i \in DOMAIN published', NEW j \in DOMAIN published', i < j
            PROVE  published'[i].id < published'[j].id /\ published'[i].key < published'[j].key
        <5>1. i \in DOMAIN published
          BY <3>9, <4>2
        <5>2. CASE j \in DOMAIN published
          BY <1>3, <3>9, <4>2, <5>1, <5>2 DEF RingHolds, PublishedInOrder
        <5>3. CASE j = Len(published) + 1
          <6>1. published[i].key < head.key /\ published[i].key \in DOMAIN rows /\ published[i].id = rows[published[i].key]
            BY <3>11, <5>1
          <6>2. rows[published[i].key] < rows[head.key]
            BY <1>3, <3>1, <6>1 DEF RowsHold, RowsInOrder
          <6>3. published'[i] = published[i] /\ published'[j] = new
            BY <3>9, <5>1, <5>3
          <6> QED
            BY <3>1, <3>3, <6>1, <6>2, <6>3
        <5> QED
          BY <3>9, <5>2, <5>3
      <4> QED
        BY <4>1, <4>2 DEF PublishedInOrder
    <3>13. SampleIsCurrent'
      <4>1. ASSUME NEW i \in DOMAIN published' PROVE published'[i].sample >= published'[i].gen
        <5>1. CASE i \in DOMAIN published
          BY <1>3, <3>9, <5>1 DEF RingHolds, SampleIsCurrent
        <5>2. CASE i = Len(published) + 1
          BY <1>6, <3>3, <3>9, <5>2
        <5> QED
          BY <3>9, <5>1, <5>2
      <4> QED
        BY <1>2, <3>10, <4>1 DEF SampleIsCurrent
    <3>14. ASSUME NEW p \in DOMAIN published'
           PROVE  /\ published'[p].key \in ConfirmedKeys' /\ fate'[published'[p].key] = "published"
                  /\ \A i \in DOMAIN pending' : published'[p].key <= pending'[i].key
      <4>1. CASE p \in DOMAIN published
        <5>1. published'[p] = published[p] /\ published[p].key # pending[1].key
          <6>1. published'[p] = published[p] /\ published[p].key < head.key
            BY <3>9, <3>11, <4>1
          <6>2. head.key \in Int
            BY <1>6 DEF EventKeys
          <6> QED
            BY <1>5, <6>1, <6>2
        <5> QED
          BY <1>2, <1>11, <3>11, <4>1, <5>1
      <4>2. CASE p = Len(published) + 1
        <5>1. published'[p].key = head.key
          BY <3>3, <3>9, <4>2
        <5> QED
          BY <1>2, <1>5, <1>6, <1>11, <2>2, <5>1
      <4> QED
        BY <3>9, <4>1, <4>2
    <3> QED
      BY <1>11, <3>9, <3>10, <3>12, <3>13, <3>14 DEF RingHolds
  <2> QED
    BY <1>7, <2>1, <2>2
<1> QED
  BY <1>11, <1>12, <1>13, <1>14, <1>15, <1>16 DEF PipelineInv

\* finishHead takes exactly the decided head from the queue.
LEMMA FinishStep ==
  ASSUME PipelineInv, WriterFinish
  PROVE  PipelineInv'
<1>1. /\ writer.at = "finish" /\ writing' = FALSE /\ writer' = IdleWriter
      /\ pending' = IF writer.ok \/ writer.final THEN Tail(pending) ELSE pending
      /\ UNCHANGED <<policyGen, storeGen, applying, changes, detector, remembered, tick, stopping, rows, inflight,
                     recent, brokerGen, published, fate, faults, crashes>>
  BY DEF WriterFinish, policyVars, detectVars, dbVars, ringVars
<1>2. WriterHolds /\ RowsHold /\ QueueHolds /\ RingHolds
  BY DEF PipelineInv
<1>3. pending # <<>> /\ ((writer.ok \/ writer.final) <=> fate[pending[1].key] # "open")
  BY <1>1, <1>2, AtWork DEF WriterHolds
<1>4. /\ Len(pending) \in Nat \ {0} /\ DOMAIN pending = 1..Len(pending) /\ 1 \in DOMAIN pending
      /\ \A i \in DOMAIN pending : pending[i].key \in Int
      /\ \A i \in DOMAIN pending : i # 1 => pending[1].key < pending[i].key
  BY <1>2, <1>3, HeadOfQueue
<1>5. PICK s \in {0, 1} : /\ s = 1 <=> (writer.ok \/ writer.final)
                          /\ pending' = IF s = 1 THEN Tail(pending) ELSE pending
  BY <1>1
<1>6. /\ pending' \in Seq(PipelineEvent) /\ Len(pending') = Len(pending) - s
      /\ DOMAIN pending' = 1..(Len(pending) - s)
      /\ \A i \in DOMAIN pending' : i + s \in DOMAIN pending /\ pending'[i] = pending[i + s]
  <2>1. pending \in Seq(PipelineEvent)
    BY <1>2 DEF QueueHolds
  <2>2. CASE s = 1
    <3>1. pending' = Tail(pending)
      BY <1>5, <2>2
    <3>2. /\ Tail(pending) \in Seq(PipelineEvent) /\ Len(Tail(pending)) = Len(pending) - 1
          /\ \A i \in 1..(Len(pending) - 1) : Tail(pending)[i] = pending[i + 1]
      BY <1>3, <1>4, <2>1
    <3>3. DOMAIN pending' = 1..(Len(pending) - 1)
      BY <3>1, <3>2
    <3>4. \A i \in 1..(Len(pending) - 1) : i + 1 \in 1..Len(pending)
      BY <1>4
    <3> QED
      BY <1>4, <2>2, <3>1, <3>2, <3>3, <3>4
  <2>3. CASE s = 0
    <3>1. pending' = pending
      BY <1>5, <2>3
    <3>2. Len(pending) - 0 = Len(pending) /\ \A i \in 1..Len(pending) : i + 0 = i
      BY <1>4
    <3> QED
      BY <1>4, <2>1, <2>3, <3>1, <3>2
  <2> QED
    BY <1>5, <2>2, <2>3
<1>7. ConfirmedKeys' = ConfirmedKeys
  BY <1>1 DEF ConfirmedKeys
<1>8. \A i \in DOMAIN pending' : fate[pending'[i].key] = "open"
  <2> SUFFICES ASSUME NEW i \in DOMAIN pending' PROVE fate[pending'[i].key] = "open"
    OBVIOUS
  <2>1. CASE i + s = 1
    <3>1. s = 0 /\ i = 1
      BY <1>5, <1>6, <2>1
    <3> QED
      BY <1>3, <1>5, <1>6, <3>1
  <2>2. CASE i + s # 1
    BY <1>2, <1>6, <2>2 DEF QueueHolds, NoEventVanishes
  <2> QED
    BY <2>1, <2>2
<1>9. QueueHolds'
  <2>1. ASSUME NEW k \in ConfirmedKeys, fate[k] = "open" PROVE \E j \in DOMAIN pending' : pending'[j].key = k
    <3>1. PICK i \in DOMAIN pending : pending[i].key = k
      BY <1>2, <2>1 DEF QueueHolds, NoEventVanishes, PendingKeys
    <3>2. i # 1 \/ s = 0
      BY <1>3, <1>5, <2>1, <3>1
    <3>3. i - s \in DOMAIN pending' /\ (i - s) + s = i
      <4>1. i \in 1..Len(pending) /\ s \in {0, 1} /\ Len(pending) \in Nat /\ (i # 1 \/ s = 0)
        BY <1>4, <3>2
      <4>2. i - s \in 1..(Len(pending) - s) /\ (i - s) + s = i
        BY <4>1
      <4> QED
        BY <1>6, <4>2
    <3> QED
      BY <1>6, <3>1, <3>3
  <2>2. NoEventVanishes'
    BY <1>1, <1>7, <1>8, <2>1 DEF NoEventVanishes, PendingKeys
  <2>3. \A i \in DOMAIN pending' : pending'[i].key \in ConfirmedKeys /\ pending'[i].sample >= pending'[i].gen
    BY <1>2, <1>6 DEF QueueHolds
  <2>4. \A i, j \in DOMAIN pending' : i < j => pending'[i].key < pending'[j].key
    <3> SUFFICES ASSUME NEW i \in DOMAIN pending', NEW j \in DOMAIN pending', i < j
                 PROVE  pending'[i].key < pending'[j].key
      OBVIOUS
    <3>1. i + s < j + s
      BY <1>6
    <3> QED
      BY <1>2, <1>6, <3>1 DEF QueueHolds
  <2>5. Len(pending') <= EventPendingMax
    <3>1. Len(pending) <= EventPendingMax /\ EventPendingMax \in Nat
      BY <1>2, PipelineAssumption DEF QueueHolds
    <3> QED
      BY <1>4, <1>6, <3>1
  <2> QED
    BY <1>1, <1>2, <1>6, <1>7, <2>2, <2>3, <2>4, <2>5 DEF QueueHolds
<1>10. WriterHolds'
  <2>1. 0 \in 0..EventAttempts /\ 0 \in 0..MaxEvents
    BY PipelineAssumption
  <2>2. IdleWriter \in WriterStates /\ IdleWriter.at = "idle"
    BY <2>1 DEF IdleWriter, WriterStates, Copies
  <2> QED
    BY <1>1, <2>2 DEF WriterHolds
<1>11. RowsHold'
  <2>1. \A k \in DOMAIN rows \cup inflight : k \in ConfirmedKeys /\ \A i \in DOMAIN pending' : k <= pending'[i].key
    BY <1>2, <1>6 DEF RowsHold
  <2>2. RowsInOrder'
    BY <1>1, <1>2 DEF RowsHold, RowsInOrder
  <2> QED
    BY <1>1, <1>2, <1>7, <2>1, <2>2 DEF RowsHold
<1>12. RingHolds'
  <2>1. PublishedInOrder' /\ SampleIsCurrent'
    BY <1>1, <1>2 DEF RingHolds, PublishedInOrder, SampleIsCurrent
  <2>2. \A p \in DOMAIN published :
          /\ published[p].key \in ConfirmedKeys /\ fate[published[p].key] = "published"
          /\ \A i \in DOMAIN pending' : published[p].key <= pending'[i].key /\ published[p].key # pending'[i].key
    <3> SUFFICES ASSUME NEW p \in DOMAIN published
                 PROVE  /\ published[p].key \in ConfirmedKeys /\ fate[published[p].key] = "published"
                        /\ \A i \in DOMAIN pending' :
                             published[p].key <= pending'[i].key /\ published[p].key # pending'[i].key
      OBVIOUS
    <3>1. /\ published[p].key \in ConfirmedKeys /\ fate[published[p].key] = "published"
          /\ \A i \in DOMAIN pending : published[p].key <= pending[i].key
      BY <1>2 DEF RingHolds
    <3>2. \A i \in DOMAIN pending' : published[p].key # pending'[i].key
      BY <1>8, <3>1
    <3> QED
      BY <1>6, <3>1, <3>2
  <2>3. recent' \in Seq(RingEvent) /\ Len(recent') <= SseRecentCap /\ published' \in Seq(RingEvent)
    BY <1>1, <1>2 DEF RingHolds
  <2> QED
    BY <1>1, <1>7, <2>1, <2>2, <2>3 DEF RingHolds
<1>13. GenerationsHold'
  BY <1>1 DEF PipelineInv, GenerationsHold
<1>14. SamplesHold'
  BY <1>1 DEF PipelineInv, SamplesHold
<1>15. CountsHold'
  BY <1>1 DEF PipelineInv, CountsHold
<1> QED
  BY <1>9, <1>10, <1>11, <1>12, <1>13, <1>14, <1>15 DEF PipelineInv

\* A new process starts from the rows and the open commit alone.
LEMMA RestartStep ==
  ASSUME PipelineInv, PipelineRestart
  PROVE  PipelineInv'
<1>1. /\ crashes < MaxCrashes /\ crashes' = crashes + 1
      /\ policyGen' = 0 /\ storeGen' = 0 /\ applying' = "idle"
      /\ detector' = NoSample /\ remembered' = 0 /\ tick' = IdleTick
      /\ pending' = <<>> /\ writing' = FALSE /\ writer' = IdleWriter /\ stopping' = FALSE
      /\ recent' = <<>> /\ brokerGen' = 0 /\ published' = <<>>
      /\ fate' = [k \in ConfirmedKeys |-> IF fate[k] = "open" THEN "lost" ELSE fate[k]]
      /\ rows' = rows /\ inflight' = inflight /\ faults' = faults /\ changes' = changes
  BY DEF PipelineRestart, dbVars
<1>2. fate \in Seq(Fates) /\ Len(fate) <= MaxEvents /\ ConfirmedKeys = 1..Len(fate) /\ Len(fate) \in Nat
  BY DEF PipelineInv, QueueHolds, ConfirmedKeys
<1>3. /\ fate' \in Seq(Fates) /\ Len(fate') = Len(fate) /\ ConfirmedKeys' = ConfirmedKeys
      /\ \A k \in ConfirmedKeys : fate'[k] # "open"
  <2>1. "lost" \in Fates
    BY DEF Fates
  <2>2. \A k \in 1..Len(fate) : (IF fate[k] = "open" THEN "lost" ELSE fate[k]) \in Fates
    BY <1>2, <2>1
  <2>3. fate' \in [1..Len(fate) -> Fates]
    BY <1>1, <1>2, <2>2
  <2>4. fate' \in Seq(Fates) /\ Len(fate') = Len(fate)
    BY <1>2, <2>3
  <2>5. ConfirmedKeys' = ConfirmedKeys
    BY <1>2, <2>3 DEF ConfirmedKeys
  <2> QED
    BY <1>1, <2>4, <2>5
<1>4. QueueHolds'
  <2>1. pending' \in Seq(PipelineEvent) /\ Len(pending') <= EventPendingMax /\ DOMAIN pending' = {}
    BY <1>1, PipelineAssumption
  <2>2. NoEventVanishes'
    BY <1>3, <2>1 DEF NoEventVanishes
  <2> QED
    BY <1>2, <1>3, <2>1, <2>2 DEF QueueHolds
<1>5. WriterHolds'
  <2>1. 0 \in 0..EventAttempts /\ 0 \in 0..MaxEvents
    BY PipelineAssumption
  <2>2. IdleWriter \in WriterStates /\ IdleWriter.at = "idle"
    BY <2>1 DEF IdleWriter, WriterStates, Copies
  <2> QED
    BY <1>1, <2>2 DEF WriterHolds
<1>6. RowsHold'
  <2>1. DOMAIN pending' = {}
    BY <1>1
  <2>2. RowsInOrder'
    BY <1>1 DEF PipelineInv, RowsHold, RowsInOrder
  <2> QED
    BY <1>1, <1>3, <2>1, <2>2 DEF PipelineInv, RowsHold
<1>7. RingHolds'
  <2>1. /\ recent' \in Seq(RingEvent) /\ published' \in Seq(RingEvent) /\ Len(recent') = 0
        /\ DOMAIN recent' = {} /\ DOMAIN published' = {}
    BY <1>1
  <2>2. Len(recent') <= SseRecentCap
    BY <2>1, PipelineAssumption
  <2>3. PublishedInOrder'
    BY <2>1 DEF PublishedInOrder
  <2>4. SampleIsCurrent'
    BY <2>1 DEF SampleIsCurrent
  <2> QED
    BY <2>1, <2>2, <2>3, <2>4 DEF RingHolds
<1>8. 0 \in 0..MaxChanges
  BY PipelineAssumption
<1>9. GenerationsHold'
  <2>1. changes \in 0..MaxChanges
    BY DEF PipelineInv, GenerationsHold
  <2>2. 0 <= changes
    BY <2>1
  <2> QED
    BY <1>1, <1>8, <2>1, <2>2 DEF GenerationsHold
<1>10. SamplesHold'
  <2>1. IdleTick \in TickStates /\ IdleTick.gen = 0 /\ IdleTick.at = "idle"
    BY <1>8 DEF IdleTick, TickStates
  <2> QED
    BY <1>1, <1>8, <2>1 DEF SamplesHold
<1>11. CountsHold'
  <2>1. faults \in 0..MaxDbFaults /\ crashes \in 0..MaxCrashes /\ MaxCrashes \in Nat
    BY PipelineAssumption DEF PipelineInv, CountsHold
  <2>2. crashes' \in 0..MaxCrashes
    BY <1>1, <2>1
  <2>3. stopping' \in BOOLEAN /\ faults' \in 0..MaxDbFaults
    BY <1>1, <2>1
  <2> QED
    BY <2>2, <2>3 DEF CountsHold
<1> QED
  BY <1>4, <1>5, <1>6, <1>7, <1>9, <1>10, <1>11 DEF PipelineInv

\* Cancelling the context moves nothing else, nor does a step of another component.
LEMMA OtherSteps ==
  ASSUME PipelineInv, StopPipeline \/ UNCHANGED pipelineVars
  PROVE  PipelineInv'
<1>1. UNCHANGED <<policyGen, storeGen, applying, changes, detector, remembered, tick, pending, writing, writer, rows,
                  inflight, recent, brokerGen, published, fate, faults, crashes>>
      /\ stopping' \in {stopping, TRUE}
  BY DEF StopPipeline, pipelineVars, policyVars, detectVars, queueVars, dbVars, ringVars
<1>2. GenerationsHold'
  BY <1>1 DEF PipelineInv, GenerationsHold
<1>3. SamplesHold'
  BY <1>1 DEF PipelineInv, SamplesHold
<1>4. QueueHolds'
  BY <1>1 DEF PipelineInv, QueueHolds, NoEventVanishes, ConfirmedKeys, PendingKeys
<1>5. WriterHolds'
  BY <1>1 DEF PipelineInv, WriterHolds
<1>6. RowsHold'
  BY <1>1, RowsKept DEF PipelineInv, ConfirmedKeys
<1>7. RingHolds'
  BY <1>1 DEF PipelineInv, RingHolds, PublishedInOrder, SampleIsCurrent, ConfirmedKeys
<1>8. CountsHold'
  BY <1>1 DEF PipelineInv, CountsHold
<1> QED
  BY <1>2, <1>3, <1>4, <1>5, <1>6, <1>7, <1>8 DEF PipelineInv

\* A tick ends with nothing confirmed, or with an event in the queue.
LEMMA TickVerdict ==
  ASSUME TickClassify
  PROVE  \/ ConfirmStep
         \/ /\ tick.at = "classify" /\ tick' = IdleTick /\ detector' \in {detector, NoSample, tick.sample}
            /\ UNCHANGED <<queueVars, fate, policyVars, remembered, writer, stopping, dbVars, ringVars, faults, crashes>>
BY DEF TickClassify, ConfirmStep

\* Every step keeps the invariant.
LEMMA PipelineInductive == PipelineInv /\ [PipelineNext]_pipelineVars => PipelineInv'
<1> SUFFICES ASSUME PipelineInv, [PipelineNext]_pipelineVars PROVE PipelineInv'
  OBVIOUS
<1>1. CASE ApplyReset \/ ApplyDetector \/ ApplyAdvance \/ ApplyInvalidate \/ ApplyBroker
  BY <1>1, TransitionSteps
<1>2. CASE TickCheck \/ TickGeneration \/ TickSample \/ TickPanics
  BY <1>2, TickSteps
<1>3. CASE TickClassify
  BY <1>3, TickVerdict, ConfirmSteps, TickSteps
<1>4. CASE WriterHead \/ WriterDone
  BY <1>4, HeadSteps
<1>5. CASE WriterGuard \/ WriterRecheck
  BY <1>5, CheckSteps
<1>6. CASE WriterCallSucceeds
  BY <1>6, CallSucceedsStep
<1>7. CASE WriterCallFails \/ WriterCallUnanswered
  BY <1>7, CallFailsSteps
<1>8. CASE WriterPanics
  BY <1>8, PanicStep
<1>9. CASE WriterRetry
  BY <1>9, RetryStep
<1>10. CASE WriterPublish
  BY <1>10, PublishStep
<1>11. CASE WriterFinish
  BY <1>11, FinishStep
<1>12. CASE \E key \in EventKeys : InflightResolves(key)
  BY <1>12, ResolveSteps
<1>13. CASE PipelineRestart
  BY <1>13, RestartStep
<1>14. CASE StopPipeline \/ UNCHANGED pipelineVars
  BY <1>14, OtherSteps
<1> QED
  BY <1>1, <1>2, <1>3, <1>4, <1>5, <1>6, <1>7, <1>8, <1>9, <1>10, <1>11, <1>12, <1>13, <1>14
  DEF PipelineNext, QuietStep, TickStep, WriterStep

\* The invariant holds what the run checks.
LEMMA PipelineIsShown == PipelineInv => PipelineIsSound
<1> SUFFICES ASSUME PipelineInv PROVE PipelineIsSound
  OBVIOUS
<1>1. PipelineTypeOK
  BY DEF PipelineInv, GenerationsHold, SamplesHold, QueueHolds, WriterHolds, RowsHold, RowsInOrder, RingHolds, CountsHold,
         PipelineTypeOK, TickStates, WriterStates, Copies, Fates
<1>2. CursorDense
  <2>1. RowsHold
    BY DEF PipelineInv
  <2>2. ASSUME NEW k \in inflight, k \in DOMAIN rows PROVE FALSE
    <3>1. k \in EventKeys /\ k < k
      BY <2>1, <2>2 DEF RowsHold
    <3> QED
      BY <3>1 DEF EventKeys
  <2> QED
    BY <2>1, <2>2 DEF RowsHold, RowsInOrder, CursorDense
<1> QED
  BY <1>1, <1>2 DEF PipelineInv, QueueHolds, RingHolds, PipelineIsSound

\* Events are numbered without holes, published once, in order, when durable and under
\* the policy of their sample, and none vanishes, through any number of transitions,
\* failed calls, unanswered commits, panics and restarts (eventPipeline).
THEOREM PipelineStaysSound == PipelineSpec => []PipelineIsSound
<1>1. PipelineSpec => []PipelineInv
  BY PipelineStarts, PipelineInductive, PTL DEF PipelineSpec
<1> QED
  BY <1>1, PipelineIsShown, PTL

=============================================================================

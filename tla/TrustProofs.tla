----------------------------- MODULE TrustProofs -----------------------------
(***************************************************************************)
(* Whom the collector believes, for every value of the constants.  The     *)
(* authorization provider: no verdict is older than an invalidation or     *)
(* than the TTL, whatever lookups, notifications and failures interleave.  *)
(* Hardware trust: no registry is rolled back, and no session is labelled  *)
(* hardware-backed without a proof of the record it names.                 *)
(***************************************************************************)
EXTENDS AuthorizationCache, HardwareTrust, FiniteSetTheorems, TLAPS

-----------------------------------------------------------------------------
(* The authorization provider. *)

Leading == {"slot", "query", "fetched"}
Read == {"fetched", "reconciled"}
Querying == {c \in Callers : call[c].at \in {"query", "fetched"}}
Methods == {ReadCredentials, ObserverCredentials}

\* What a caller remembers is not ahead of the present, and a row read under
\* the generation in force was read after the last invalidation.
Past(c) ==
    /\ call[c].began <= heard /\ call[c].gen <= generation
    /\ call[c].at \in Read =>
         /\ call[c].asOf >= call[c].began
         /\ call[c].gen = generation => call[c].asOf >= heard

\* A caller at work has a credential, a leader is the one in the table, and a
\* follower follows the one in the table.
Placed(c) ==
    /\ call[c].at # "idle" => call[c].key \in Credentials
    /\ call[c].at \in Leading => flight[call[c].key] = c
    /\ call[c].at = "following" => call[c].leader \in Callers /\ flight[call[c].key] = call[c].leader

\* A row read in time is the row, or was until no longer ago than the lookup.
RowHolds(c) ==
    call[c].at \in Read =>
        /\ call[c].was \in RowStates
        /\ call[c].age < LookupTimeout =>
             row[call[c].key] = call[c].was \/ rowAge[call[c].key] <= call[c].age

Told(c) == call[c].at = "done" /\ call[c].verdict # "unavailable" => call[c].asOf >= call[c].began

CallersHold == \A c \in Callers : Past(c) /\ Placed(c) /\ RowHolds(c) /\ Told(c)

Led == \A k \in Credentials : flight[k] # NoLeader =>
           call[flight[k]].at \in Leading /\ call[flight[k]].key = k

\* What is left of an entry and the age of a row that contradicts it add up to
\* the TTL at most.
EntryHolds(entry, k, was, ttl) ==
    \/ entry = NoEntry
    \/ /\ entry.was = was /\ entry.left <= ttl /\ entry.asOf >= heard
       /\ row[k] = was \/ entry.left = 0 \/ rowAge[k] + entry.left <= ttl

EntriesHold ==
    \A k \in Credentials :
        EntryHolds(granted[k], k, "granted", GrantTTL) /\ EntryHolds(denied[k], k, "absent", DenialTTL)

Within(cache, m, limit) == IsFiniteSet(Entries(cache) \cap m) /\ Cardinality(Entries(cache) \cap m) <= limit

MapsHold == \A m \in Methods : Within(granted, m, GrantLimit) /\ Within(denied, m, DenialLimit)

SlotsHold == IsFiniteSet(Querying) /\ slotsTaken = Cardinality(Querying)

\* The inductive invariant.
IInv == CacheTypeOK /\ CallersHold /\ Led /\ EntriesHold /\ MapsHold /\ SlotsHold

Safe ==
    /\ VerdictsPostdateInvalidation /\ CachesPostdateInvalidation /\ OnlyAuthorityIsCached
    /\ BudgetsHold /\ FlightsHaveLeaders

-----------------------------------------------------------------------------
\* What the assumption says of each constant: TTLs, budgets and the deadline are
\* positive, and no bound on staleness is shorter than a TTL or a lookup.
LEMMA Constants ==
    /\ GrantTTL \in Nat \ {0} /\ DenialTTL \in Nat \ {0} /\ LookupTimeout \in Nat \ {0}
    /\ GrantLimit \in Nat \ {0} /\ DenialLimit \in Nat \ {0}
    /\ MaxCommits \in Nat /\ MaxListenFaults \in Nat
    /\ Stalest \in Nat /\ DenialTTL <= GrantTTL /\ GrantTTL <= Stalest /\ LookupTimeout <= Stalest
    /\ NoLeader \notin Callers /\ ReadCredentials \cap ObserverCredentials = {}
BY AuthorizationAssumption DEF AuthorizationAssumption, Stalest

\* A missing entry is an entry, and never fresh.
LEMMA NoEntryType == NoEntry \in EntryType /\ ~Fresh(NoEntry)
BY DEF NoEntry, EntryType, RowStates, Fresh

\* An entry with less time left is an entry.
LEMMA OneLessType == \A entry \in EntryType : OneLess(entry) \in EntryType
BY DEF OneLess, EntryType

\* A caller without a call is typed.
LEMMA NoCallType == NoCall \in CallType
BY DEF NoCall, CallType, Asking, NoLeader

\* The three records a call begins with (BeginCall).
Begun(k) == [NoCall EXCEPT !.key = k, !.began = heard]
Ended(k, v, a) == [Begun(k) EXCEPT !.at = "done", !.verdict = v, !.asOf = a]
Follows(k, l) == [Begun(k) EXCEPT !.at = "following", !.leader = l]
Leads(k, l) == [Begun(k) EXCEPT !.at = "slot", !.leader = l, !.gen = generation]

\* They are typed, and carry the invalidation heard when the call began.
LEMMA BegunRecords ==
    ASSUME NEW k \in Credentials, heard \in Nat, generation \in Nat
    PROVE  /\ \A v \in {"granted", "denied"}, a \in Nat :
                /\ Ended(k, v, a) \in CallType
                /\ Ended(k, v, a).at = "done" /\ Ended(k, v, a).key = k /\ Ended(k, v, a).began = heard
                /\ Ended(k, v, a).gen = 0 /\ Ended(k, v, a).verdict = v /\ Ended(k, v, a).asOf = a
           /\ \A l \in Callers :
                /\ Follows(k, l) \in CallType
                /\ Follows(k, l).at = "following" /\ Follows(k, l).key = k /\ Follows(k, l).began = heard
                /\ Follows(k, l).gen = 0 /\ Follows(k, l).leader = l
                /\ Leads(k, l) \in CallType
                /\ Leads(k, l).at = "slot" /\ Leads(k, l).key = k /\ Leads(k, l).began = heard
                /\ Leads(k, l).gen = generation
<1>1. NoCall \in CallType /\ NoCall.gen = 0
  BY NoCallType DEF NoCall
<1>2. Begun(k) \in CallType /\ Begun(k).key = k /\ Begun(k).began = heard /\ Begun(k).gen = 0
  BY <1>1 DEF Begun, CallType
<1>3. ASSUME NEW v \in {"granted", "denied"}, NEW a \in Nat
      PROVE  /\ Ended(k, v, a) \in CallType
             /\ Ended(k, v, a).at = "done" /\ Ended(k, v, a).key = k /\ Ended(k, v, a).began = heard
             /\ Ended(k, v, a).gen = 0 /\ Ended(k, v, a).verdict = v /\ Ended(k, v, a).asOf = a
  BY <1>2 DEF Ended, CallType
<1>4. ASSUME NEW l \in Callers
      PROVE  /\ Follows(k, l) \in CallType
             /\ Follows(k, l).at = "following" /\ Follows(k, l).key = k /\ Follows(k, l).began = heard
             /\ Follows(k, l).gen = 0 /\ Follows(k, l).leader = l
  BY <1>2 DEF Follows, CallType
<1>5. ASSUME NEW l \in Callers
      PROVE  /\ Leads(k, l) \in CallType
             /\ Leads(k, l).at = "slot" /\ Leads(k, l).key = k /\ Leads(k, l).began = heard
             /\ Leads(k, l).gen = generation
  BY <1>2 DEF Leads, CallType, Asking
<1>. QED BY <1>3, <1>4, <1>5

\* What a call that begins leaves behind, by what it finds.
LEMMA BeginCallCases ==
    ASSUME NEW c \in Callers, NEW k \in Credentials, BeginCall(c, k)
    PROVE  /\ Fresh(granted[k]) =>
                call' = [call EXCEPT ![c] = Ended(k, "granted", granted[k].asOf)] /\ flight' = flight
           /\ ~Fresh(granted[k]) /\ Fresh(denied[k]) =>
                call' = [call EXCEPT ![c] = Ended(k, "denied", denied[k].asOf)] /\ flight' = flight
           /\ ~Fresh(granted[k]) /\ ~Fresh(denied[k]) /\ flight[k] # NoLeader =>
                call' = [call EXCEPT ![c] = Follows(k, flight[k])] /\ flight' = flight
           /\ ~Fresh(granted[k]) /\ ~Fresh(denied[k]) /\ flight[k] = NoLeader =>
                call' = [call EXCEPT ![c] = Leads(k, c)] /\ flight' = [flight EXCEPT ![k] = c]
<1> DEFINE begun == Begun(k)
<1>1. begun = [NoCall EXCEPT !.key = k, !.began = heard]
  BY DEF Begun
<1> HIDE DEF begun
<1>2. /\ Fresh(granted[k]) =>
           call' = [call EXCEPT ![c] = [begun EXCEPT !.at = "done", !.verdict = "granted", !.asOf = granted[k].asOf]]
           /\ flight' = flight
      /\ ~Fresh(granted[k]) /\ Fresh(denied[k]) =>
           call' = [call EXCEPT ![c] = [begun EXCEPT !.at = "done", !.verdict = "denied", !.asOf = denied[k].asOf]]
           /\ flight' = flight
      /\ ~Fresh(granted[k]) /\ ~Fresh(denied[k]) /\ flight[k] # NoLeader =>
           call' = [call EXCEPT ![c] = [begun EXCEPT !.at = "following", !.leader = flight[k]]] /\ flight' = flight
      /\ ~Fresh(granted[k]) /\ ~Fresh(denied[k]) /\ flight[k] = NoLeader =>
           call' = [call EXCEPT ![c] = [begun EXCEPT !.at = "slot", !.leader = c, !.gen = generation]]
           /\ flight' = [flight EXCEPT ![k] = c]
  BY <1>1 DEF BeginCall, caches
<1>. QED BY <1>2 DEF begun, Ended, Follows, Leads

\* One element makes a finite set at most one larger.
LEMMA OneMore ==
    ASSUME NEW S, IsFiniteSet(S), NEW x
    PROVE  IsFiniteSet(S \cup {x}) /\ Cardinality(S) \in Nat /\ Cardinality(S \cup {x}) \in Nat
           /\ Cardinality(S \cup {x}) <= Cardinality(S) + 1
<1>1. Cardinality(S) \in Nat
  BY FS_CardinalityType
<1>2. CASE x \in S
  <2> DEFINE T == S \cup {x}
  <2>1. T = S
    BY <1>2
  <2>2. IsFiniteSet(T) /\ Cardinality(T) \in Nat /\ Cardinality(T) <= Cardinality(S) + 1
    <3> HIDE DEF T
    <3>. QED BY <1>1, <2>1
  <2>. QED BY <1>1, <2>2
<1>3. CASE x \notin S
  BY <1>1, <1>3, FS_AddElement
<1>. QED BY <1>2, <1>3

\* The inductive invariant says what is claimed.
LEMMA Implied == IInv => Safe
<1> SUFFICES ASSUME IInv PROVE Safe
  OBVIOUS
<1> USE DEF IInv
<1>1. VerdictsPostdateInvalidation
  BY DEF CallersHold, Told, VerdictsPostdateInvalidation
<1>2. CachesPostdateInvalidation /\ OnlyAuthorityIsCached
  BY DEF EntriesHold, EntryHolds, CachesPostdateInvalidation, OnlyAuthorityIsCached, NoEntry
<1>3. BudgetsHold
  BY DEF MapsHold, Within, SlotsHold, Methods, Querying, BudgetsHold
<1>4. FlightsHaveLeaders
  BY DEF CallersHold, Placed, Led, Leading, FlightsHaveLeaders
<1>. QED BY <1>1, <1>2, <1>3, <1>4 DEF Safe

\* The provider starts with empty caches, no lookup and every slot free (New).
LEMMA InitHolds == AuthorizationInit => IInv
<1> SUFFICES ASSUME AuthorizationInit PROVE IInv
  OBVIOUS
<1> USE Constants, NoEntryType, NoCallType
<1>1. CacheTypeOK
  <2>1. listener \in ListenerType
    BY DEF AuthorizationInit, ListenerType
  <2>. QED BY <2>1 DEF AuthorizationInit, CacheTypeOK, RowStates
<1>2. CallersHold /\ Led /\ EntriesHold
  BY DEF AuthorizationInit, CallersHold, Past, Placed, RowHolds, Told, Led, EntriesHold, EntryHolds, NoCall,
     Read, Leading
<1>3. Querying = {} /\ Entries(granted) = {} /\ Entries(denied) = {}
  BY DEF AuthorizationInit, Querying, Entries, NoCall
<1>4. IsFiniteSet({}) /\ Cardinality({}) = 0
  BY FS_EmptySet
<1>5. MapsHold
  <2>1. \A m : Entries(granted) \cap m = {} /\ Entries(denied) \cap m = {}
    BY <1>3
  <2>. QED BY <1>4, <2>1 DEF MapsHold, Within
<1>6. SlotsHold
  BY <1>3, <1>4 DEF SlotsHold, AuthorizationInit
<1>. QED BY <1>1, <1>2, <1>5, <1>6 DEF IInv

-----------------------------------------------------------------------------
(* Maps that lose entries, and callers of whom none moves.                 *)

\* A cache that keeps some of its entries and drops the others stays good.
LEMMA FewerInMethod ==
    ASSUME NEW old, NEW new, NEW m, NEW limit \in Nat, Within(old, m, limit),
           Entries(new) \cap m \subseteq Entries(old) \cap m
    PROVE  Within(new, m, limit)
<1> DEFINE S == Entries(old) \cap m
           T == Entries(new) \cap m
<1>1. IsFiniteSet(S) /\ Cardinality(S) <= limit
  BY DEF Within
<1>2. T \subseteq S
  OBVIOUS
<1>3. IsFiniteSet(T) /\ Cardinality(T) <= Cardinality(S)
  <2> HIDE DEF S, T
  <2>. QED BY <1>1, <1>2, FS_Subset
<1>4. Cardinality(S) \in Nat /\ Cardinality(T) \in Nat
  <2> HIDE DEF S, T
  <2>. QED BY <1>1, <1>3, FS_CardinalityType
<1>. QED BY <1>1, <1>3, <1>4 DEF Within

\* A map that only lost entries is within its budget in every method.
LEMMA FewerEntries ==
    ASSUME NEW old, NEW new, NEW m, NEW limit \in Nat, Within(old, m, limit),
           Entries(new) \subseteq Entries(old)
    PROVE  Within(new, m, limit)
BY FewerInMethod

\* A step that moves no caller between places keeps the slots.
LEMMA SlotsKept ==
    ASSUME SlotsHold, UNCHANGED slotsTaken, Querying' = Querying
    PROVE  SlotsHold'
BY DEF SlotsHold

\* The counters are naturals and no invalidation is ahead of the commits.
LEMMA Numbers ==
    ASSUME IInv
    PROVE  /\ commits \in Nat /\ heard \in Nat /\ heard <= commits /\ generation \in Nat /\ slotsTaken \in Nat
           /\ \A k \in Credentials : row[k] \in RowStates /\ rowAge[k] \in Nat
BY Constants DEF IInv, CacheTypeOK

\* RunInvalidation keeps its own state typed in every step.
LEMMA ListenerMoves ==
    ASSUME CacheTypeOK,
           \/ ListenStarts \/ NotificationArrives \/ ListenerFails \/ ListenerRetries
           \/ UNCHANGED listener \/ \E k \in Credentials : ControlPlaneCommits(k)
    PROVE  listener' \in ListenerType
<1>1. /\ listener \in ListenerType /\ listener.at \in {"down", "up", "waiting"} /\ listener.notices \in Nat
      /\ listener.faults \in 0..MaxListenFaults /\ MaxListenFaults \in Nat
  BY Constants DEF CacheTypeOK, ListenerType
<1>2. CASE ListenStarts
  BY <1>1, <1>2 DEF ListenStarts, ListenerType
<1>3. CASE NotificationArrives
  BY <1>1, <1>3 DEF NotificationArrives, ListenerType
<1>4. CASE ListenerFails
  BY <1>1, <1>4 DEF ListenerFails, ListenerType
<1>5. CASE ListenerRetries
  BY <1>1, <1>5 DEF ListenerRetries, ListenerType
<1>6. ASSUME NEW k \in Credentials, ControlPlaneCommits(k) PROVE listener' \in ListenerType
  BY <1>1, <1>6 DEF ControlPlaneCommits, ListenerType
<1>. QED BY <1>1, <1>2, <1>3, <1>4, <1>5, <1>6

\* A commit makes the row of one credential young, which excuses every entry and
\* every row read that it contradicts.
LEMMA CommitsHold ==
    ASSUME IInv, NEW k \in Credentials, ControlPlaneCommits(k)
    PROVE  IInv'
<1> USE Constants DEF IInv
<1>1. CacheTypeOK'
  <2>1. listener' \in ListenerType
    BY ListenerMoves
  <2>. QED BY <2>1 DEF ControlPlaneCommits, CacheTypeOK, caches, RowStates
<1>2. CallersHold'
  BY DEF ControlPlaneCommits, CacheTypeOK, CallType, CallersHold, Past, Placed, RowHolds, Told
<1>3. Led'
  BY DEF ControlPlaneCommits, Led
<1>4. EntriesHold'
  BY DEF ControlPlaneCommits, CacheTypeOK, EntryType, EntriesHold, EntryHolds, caches
<1>5. MapsHold'
  BY DEF ControlPlaneCommits, MapsHold, Within, Entries, caches
<1>6. Querying' = Querying
  BY DEF ControlPlaneCommits, Querying
<1>7. SlotsHold'
  BY <1>6, SlotsKept DEF ControlPlaneCommits
<1>. QED BY <1>1, <1>2, <1>3, <1>4, <1>5, <1>7

\* As time passes an entry loses what the row that contradicts it gains in age,
\* and a lookup ages with the row it read.
LEMMA TickHolds ==
    ASSUME IInv, AuthorizationTick
    PROVE  IInv'
<1> USE Constants DEF IInv
<1>0. ASSUME NEW c \in Callers
      PROVE  /\ call'[c] \in CallType
             /\ call'[c].at = call[c].at /\ call'[c].key = call[c].key /\ call'[c].leader = call[c].leader
             /\ call'[c].gen = call[c].gen /\ call'[c].began = call[c].began
             /\ call'[c].verdict = call[c].verdict /\ call'[c].asOf = call[c].asOf
             /\ call'[c].was = call[c].was
             /\ call'[c].age = IF call[c].at \in Asking /\ call[c].age < LookupTimeout
                               THEN call[c].age + 1 ELSE call[c].age
  <2>1. call[c] \in CallType
    BY DEF CacheTypeOK
  <2>2. call'[c] = IF call[c].at \in Asking /\ call[c].age < LookupTimeout
                   THEN [call[c] EXCEPT !.age = @ + 1] ELSE call[c]
    BY DEF AuthorizationTick
  <2>. QED BY <2>1, <2>2 DEF CallType
<1>1. CacheTypeOK'
  <2>1. call' \in [Callers -> CallType]
    BY <1>0 DEF AuthorizationTick
  <2>2. \A k \in Credentials : OneLess(granted[k]) \in EntryType /\ OneLess(denied[k]) \in EntryType
    BY OneLessType DEF CacheTypeOK
  <2>3. granted' \in [Credentials -> EntryType] /\ denied' \in [Credentials -> EntryType]
    BY <2>2 DEF AuthorizationTick
  <2>4. rowAge' \in [Credentials -> 0..Stalest]
    BY DEF AuthorizationTick, CacheTypeOK
  <2>. QED BY <2>1, <2>3, <2>4 DEF AuthorizationTick, CacheTypeOK
<1>2. CallersHold'
  <2> SUFFICES ASSUME NEW c \in Callers PROVE (Past(c) /\ Placed(c) /\ RowHolds(c) /\ Told(c))'
    BY DEF CallersHold
  <2>1. Past(c) /\ Placed(c) /\ RowHolds(c) /\ Told(c)
    BY DEF CallersHold
  <2>2. /\ call'[c].at = call[c].at /\ call'[c].key = call[c].key /\ call'[c].leader = call[c].leader
        /\ call'[c].gen = call[c].gen /\ call'[c].began = call[c].began
        /\ call'[c].verdict = call[c].verdict /\ call'[c].asOf = call[c].asOf /\ call'[c].was = call[c].was
    BY <1>0
  <2>3. (Past(c) /\ Placed(c) /\ Told(c))'
    BY <2>1, <2>2 DEF AuthorizationTick, Past, Placed, Told
  <2>4. RowHolds(c)'
    BY <1>0, <2>1, <2>2 DEF AuthorizationTick, RowHolds, Placed, CacheTypeOK, CallType, Read, Asking
  <2>. QED BY <2>3, <2>4
<1>3. Led'
  BY <1>0 DEF AuthorizationTick, Led, CacheTypeOK
<1>4. EntriesHold'
  <2> SUFFICES ASSUME NEW k \in Credentials
               PROVE  /\ EntryHolds(granted[k], k, "granted", GrantTTL)'
                      /\ EntryHolds(denied[k], k, "absent", DenialTTL)'
    BY DEF EntriesHold
  <2>1. /\ granted'[k] = OneLess(granted[k]) /\ denied'[k] = OneLess(denied[k])
        /\ rowAge'[k] <= rowAge[k] + 1 /\ row' = row /\ heard' = heard
        /\ granted[k] \in EntryType /\ denied[k] \in EntryType
        /\ rowAge[k] \in Nat /\ rowAge'[k] \in Nat
    BY DEF AuthorizationTick, CacheTypeOK
  <2>2. /\ EntryHolds(granted[k], k, "granted", GrantTTL) /\ EntryHolds(denied[k], k, "absent", DenialTTL)
    BY DEF EntriesHold
  <2>3. EntryHolds(granted[k], k, "granted", GrantTTL)'
    BY <2>1, <2>2 DEF EntryHolds, OneLess, EntryType, NoEntry
  <2>4. EntryHolds(denied[k], k, "absent", DenialTTL)'
    BY <2>1, <2>2 DEF EntryHolds, OneLess, EntryType, NoEntry
  <2>. QED BY <2>3, <2>4
<1>5. MapsHold'
  <2>1. Entries(granted') \subseteq Entries(granted) /\ Entries(denied') \subseteq Entries(denied)
    BY DEF AuthorizationTick, Entries, OneLess, NoEntry
  <2>. QED BY <2>1, FewerEntries DEF MapsHold, Entries
<1>6. Querying' = Querying
  BY <1>0 DEF Querying
<1>7. SlotsHold'
  BY <1>6, SlotsKept DEF AuthorizationTick
<1>. QED BY <1>1, <1>2, <1>3, <1>4, <1>5, <1>7

\* RunCacheExpiry drops entries and adds none.
LEMMA PruningHolds ==
    ASSUME IInv, RunCacheExpiry
    PROVE  IInv'
<1> USE Constants, NoEntryType DEF IInv
<1>1. CacheTypeOK'
  BY DEF RunCacheExpiry, CacheTypeOK, Pruned, controlPlane
<1>2. CallersHold' /\ Led'
  BY DEF RunCacheExpiry, controlPlane, CallersHold, Past, Placed, RowHolds, Told, Led
<1>3. EntriesHold'
  BY DEF RunCacheExpiry, controlPlane, EntriesHold, EntryHolds, Pruned
<1>4. MapsHold'
  <2>1. Entries(granted') \subseteq Entries(granted) /\ Entries(denied') \subseteq Entries(denied)
    BY DEF RunCacheExpiry, Entries, Pruned
  <2>. QED BY <2>1, FewerEntries DEF MapsHold, Entries
<1>5. Querying' = Querying
  BY DEF RunCacheExpiry, Querying
<1>6. SlotsHold'
  BY <1>5, SlotsKept DEF RunCacheExpiry
<1>. QED BY <1>1, <1>2, <1>3, <1>4, <1>6

\* Clearing the caches leaves nothing to outlive the change, and ends the trust
\* in every lookup under way.
LEMMA InvalidationHolds ==
    ASSUME IInv, ListenStarts \/ NotificationArrives
    PROVE  IInv'
<1> USE Constants, NoEntryType DEF IInv
<1>0. InvalidateAll /\ UNCHANGED <<controlPlane, flight, slotsTaken, call>>
  BY DEF ListenStarts, NotificationArrives
<1>1. CacheTypeOK'
  <2>1. listener' \in ListenerType
    BY ListenerMoves
  <2>. QED BY <1>0, <2>1 DEF InvalidateAll, CacheTypeOK, controlPlane
<1>2. CallersHold'
  <2> SUFFICES ASSUME NEW c \in Callers PROVE (Past(c) /\ Placed(c) /\ RowHolds(c) /\ Told(c))'
    BY DEF CallersHold
  <2>1. Past(c) /\ Placed(c) /\ RowHolds(c) /\ Told(c)
    BY DEF CallersHold
  <2>2. call[c] \in CallType
    BY DEF CacheTypeOK
  <2>3. Past(c)'
    BY <1>0, <2>1, <2>2 DEF InvalidateAll, Past, CallType, CacheTypeOK
  <2>4. (Placed(c) /\ RowHolds(c) /\ Told(c))'
    BY <1>0, <2>1 DEF Placed, RowHolds, Told, controlPlane
  <2>. QED BY <2>3, <2>4
<1>3. Led'
  BY <1>0 DEF Led
<1>4. EntriesHold'
  BY <1>0 DEF InvalidateAll, EntriesHold, EntryHolds
<1>5. MapsHold'
  <2>1. Entries(granted') \subseteq Entries(granted) /\ Entries(denied') \subseteq Entries(denied)
    BY <1>0 DEF InvalidateAll, Entries
  <2>. QED BY <2>1, FewerEntries DEF MapsHold, Entries
<1>6. Querying' = Querying
  BY <1>0 DEF Querying
<1>7. SlotsHold'
  BY <1>0, <1>6, SlotsKept
<1>. QED BY <1>1, <1>2, <1>3, <1>4, <1>5, <1>7

\* A step of the listener that clears nothing, and a step that changes nothing.
LEMMA ListeningHolds ==
    ASSUME IInv, ListenerFails \/ ListenerRetries \/ UNCHANGED authVars
    PROVE  IInv'
<1> USE Constants DEF IInv
<1>0. UNCHANGED <<row, rowAge, commits, granted, denied, flight, generation, slotsTaken, call, heard>>
  BY DEF ListenerFails, ListenerRetries, authVars, controlPlane, caches
<1>a. listener' \in ListenerType
  <2>1. CASE UNCHANGED authVars
    BY <2>1, ListenerMoves DEF authVars
  <2>2. CASE ListenerFails \/ ListenerRetries
    BY <2>2, ListenerMoves
  <2>. QED BY <2>1, <2>2
<1>1. CacheTypeOK'
  BY <1>0, <1>a DEF CacheTypeOK
<1>2. CallersHold' /\ Led' /\ EntriesHold' /\ MapsHold'
  <2>1. CallersHold' /\ Led'
    BY <1>0 DEF CallersHold, Past, Placed, RowHolds, Told, Led
  <2>2. EntriesHold'
    BY <1>0 DEF EntriesHold, EntryHolds
  <2>3. MapsHold'
    BY <1>0 DEF MapsHold, Within, Entries
  <2>. QED BY <2>1, <2>2, <2>3
<1>3. Querying' = Querying
  BY <1>0 DEF Querying
<1>4. SlotsHold'
  BY <1>0, <1>3, SlotsKept
<1>. QED BY <1>1, <1>2, <1>4

-----------------------------------------------------------------------------
(* A step of one caller, to the record next, who leaves the table as it is *)
(* or becomes the leader for a credential nobody looks up.                 *)
LEMMA OthersHold ==
    ASSUME IInv, NEW c \in Callers, NEW next \in CallType,
           call' = [call EXCEPT ![c] = next],
           UNCHANGED <<controlPlane, generation, heard>>,
           \/ flight' = flight
           \/ /\ next.at \in Leading /\ next.key \in Credentials /\ flight[next.key] = NoLeader
              /\ flight' = [flight EXCEPT ![next.key] = c],
           call[c].at \in Leading => next.at \in Leading /\ next.key = call[c].key,
           (Past(c) /\ Placed(c) /\ RowHolds(c) /\ Told(c))'
    PROVE  CallersHold' /\ Led'
<1> USE DEF IInv
<1>0. row' = row /\ rowAge' = rowAge /\ generation' = generation /\ heard' = heard
  BY DEF controlPlane
<1>1. \A d \in Callers \ {c} : call'[d] = call[d]
  BY DEF CacheTypeOK
<1>2. call'[c] = next
  BY DEF CacheTypeOK
<1>3. CallersHold'
  <2> SUFFICES ASSUME NEW d \in Callers, d # c PROVE (Past(d) /\ Placed(d) /\ RowHolds(d) /\ Told(d))'
    BY DEF CallersHold
  <2>1. Past(d) /\ Placed(d) /\ RowHolds(d) /\ Told(d)
    BY DEF CallersHold
  <2>2. (Past(d) /\ RowHolds(d) /\ Told(d))'
    BY <1>0, <1>1, <2>1 DEF Past, RowHolds, Told
  <2>3. Placed(d)'
    BY <1>1, <2>1, Constants DEF Placed, CacheTypeOK, Leading
  <2>. QED BY <2>2, <2>3
<1>4. Led'
  <2> SUFFICES ASSUME NEW k \in Credentials, flight'[k] # NoLeader
               PROVE  call'[flight'[k]].at \in Leading /\ call'[flight'[k]].key = k
    BY DEF Led
  <2>1. CASE flight'[k] = flight[k]
    BY <1>1, <1>2, <2>1 DEF Led, CacheTypeOK
  <2>2. CASE flight'[k] # flight[k]
    BY <1>2, <2>2 DEF CacheTypeOK
  <2>. QED BY <2>1, <2>2
<1>. QED BY <1>3, <1>4

\* The same with the caches and the table left alone.
LEMMA CallerMoves ==
    ASSUME IInv, NEW c \in Callers, NEW next \in CallType,
           call' = [call EXCEPT ![c] = next],
           UNCHANGED <<controlPlane, caches, flight, generation, listener, heard>>,
           slotsTaken' \in Nat,
           call[c].at \in Leading => next.at \in Leading /\ next.key = call[c].key,
           (Past(c) /\ Placed(c) /\ RowHolds(c) /\ Told(c))'
    PROVE  (CacheTypeOK /\ CallersHold /\ Led /\ EntriesHold /\ MapsHold)'
<1> USE DEF IInv
<1>0. /\ row' = row /\ rowAge' = rowAge /\ commits' = commits /\ granted' = granted /\ denied' = denied
      /\ flight' = flight /\ generation' = generation /\ heard' = heard /\ listener' = listener
  BY DEF controlPlane, caches
<1>1. CacheTypeOK'
  BY <1>0 DEF CacheTypeOK
<1>2. CallersHold' /\ Led'
  BY <1>0, OthersHold
<1>3. EntriesHold'
  BY <1>0 DEF EntriesHold, EntryHolds
<1>4. MapsHold'
  BY <1>0 DEF MapsHold, Within, Entries
<1>. QED BY <1>1, <1>2, <1>3, <1>4

\* Such a step of a caller that holds no slot before or after it.
LEMMA CallerMovesSlotless ==
    ASSUME IInv, NEW c \in Callers, NEW next \in CallType,
           call' = [call EXCEPT ![c] = next], slotsTaken' = slotsTaken,
           call[c].at \in {"query", "fetched"} <=> next.at \in {"query", "fetched"}
    PROVE  SlotsHold'
<1>1. Querying' = Querying
  BY DEF Querying, IInv, CacheTypeOK
<1>. QED BY <1>1, SlotsKept DEF IInv

\* A follower whose context ends leaves its leader to the others.
LEMMA GivingUpHolds ==
    ASSUME IInv, NEW c \in Callers, FollowerGivesUp(c)
    PROVE  IInv'
<1> DEFINE next == Finished(c, "unavailable", 0)
<1>1. /\ next \in CallType /\ next.at = "done" /\ next.verdict = "unavailable" /\ next.key = call[c].key
      /\ next.began = call[c].began /\ next.gen = 0 /\ call[c].key \in Credentials
  BY DEF Finished, NoCall, CallType, Asking, NoLeader, IInv, CacheTypeOK, CallersHold, Placed, FollowerGivesUp
<1>2. call' = [call EXCEPT ![c] = next] /\ call'[c] = next
  BY DEF FollowerGivesUp, IInv, CacheTypeOK
<1>3. (Past(c) /\ Placed(c) /\ RowHolds(c) /\ Told(c))'
  <2> HIDE DEF next
  <2>. QED BY <1>1, <1>2 DEF FollowerGivesUp, Past, Placed, RowHolds, Told, Read, Leading, IInv, CacheTypeOK,
     CallersHold, controlPlane, caches
<1>. QED
  <2> HIDE DEF next
  <2>1. call[c].at = "following" /\ slotsTaken' = slotsTaken /\ slotsTaken \in Nat
    BY DEF FollowerGivesUp, IInv, CacheTypeOK
  <2>2. SlotsHold'
    BY <1>1, <1>2, <2>1, CallerMovesSlotless
  <2>3. (CacheTypeOK /\ CallersHold /\ Led /\ EntriesHold /\ MapsHold)'
    BY <1>1, <1>2, <1>3, <2>1, CallerMoves DEF FollowerGivesUp, Leading
  <2>. QED BY <2>2, <2>3 DEF IInv

\* acquireLookupSlot: one slot more is held by one caller more.
LEMMA AcquiringHolds ==
    ASSUME IInv, NEW c \in Callers, AcquireLookupSlot(c)
    PROVE  IInv'
<1> DEFINE next == [call[c] EXCEPT !.at = "query"]
<1>1. /\ call[c] \in CallType /\ call[c].at = "slot" /\ call[c].key \in Credentials /\ flight[call[c].key] = c
      /\ Past(c)
  BY DEF AcquireLookupSlot, IInv, CacheTypeOK, CallersHold, Placed, Leading
<1>2. /\ next \in CallType /\ next.at = "query" /\ next.key = call[c].key /\ next.began = call[c].began
      /\ next.gen = call[c].gen
  BY <1>1 DEF CallType, Asking
<1>3. call' = [call EXCEPT ![c] = next] /\ call'[c] = next
  BY DEF AcquireLookupSlot, IInv, CacheTypeOK
<1>4. /\ slotsTaken' = slotsTaken + 1 /\ slotsTaken \in Nat /\ slotsTaken' \in Nat
      /\ UNCHANGED <<controlPlane, caches, flight, generation, listener, heard>>
  BY Numbers DEF AcquireLookupSlot
<1> HIDE DEF next
<1>5. (Past(c) /\ Placed(c) /\ RowHolds(c) /\ Told(c))'
  BY <1>1, <1>2, <1>3 DEF AcquireLookupSlot, Past, Placed, RowHolds, Told, Read, Leading, controlPlane
<1>6. (CacheTypeOK /\ CallersHold /\ Led /\ EntriesHold /\ MapsHold)'
  BY <1>1, <1>2, <1>3, <1>4, <1>5, CallerMoves DEF Leading
<1>7. SlotsHold'
  <2>1. Querying' = Querying \cup {c} /\ c \notin Querying
    BY <1>1, <1>2, <1>3 DEF Querying, IInv, CacheTypeOK
  <2>2. IsFiniteSet(Querying) /\ slotsTaken = Cardinality(Querying)
    BY DEF IInv, SlotsHold
  <2>3. IsFiniteSet(Querying \cup {c}) /\ Cardinality(Querying \cup {c}) = Cardinality(Querying) + 1
    BY <2>1, <2>2, FS_AddElement
  <2>. QED BY <1>4, <2>1, <2>2, <2>3 DEF SlotsHold
<1>. QED BY <1>6, <1>7 DEF IInv

\* The row is read: after every commit so far, so after every invalidation.
LEMMA AnsweringHolds ==
    ASSUME IInv, NEW c \in Callers, DatabaseAnswers(c)
    PROVE  IInv'
<1> DEFINE next == [call[c] EXCEPT !.at = "fetched", !.was = row[call[c].key], !.asOf = commits]
<1>1. /\ call[c] \in CallType /\ call[c].at = "query" /\ call[c].key \in Credentials /\ flight[call[c].key] = c
      /\ Past(c)
  BY DEF DatabaseAnswers, IInv, CacheTypeOK, CallersHold, Placed, Leading
<1>2. /\ next \in CallType /\ next.at = "fetched" /\ next.key = call[c].key /\ next.began = call[c].began
      /\ next.gen = call[c].gen /\ next.asOf = commits /\ next.was = row[call[c].key]
      /\ row[call[c].key] \in RowStates /\ commits \in Nat
  <2>1. row[call[c].key] \in RowStates /\ commits \in Nat
    BY <1>1, Numbers
  <2>. QED BY <1>1, <2>1 DEF CallType, Asking
<1>3. call' = [call EXCEPT ![c] = next] /\ call'[c] = next
  BY <1>1 DEF DatabaseAnswers, IInv, CacheTypeOK, CallType
<1> HIDE DEF next
<1>4. (Past(c) /\ Placed(c) /\ RowHolds(c) /\ Told(c))'
  <2>1. Past(c)'
    BY <1>1, <1>2, <1>3 DEF DatabaseAnswers, Past, IInv, CacheTypeOK, CallType, controlPlane
  <2>2. (Placed(c) /\ RowHolds(c) /\ Told(c))'
    BY <1>1, <1>2, <1>3 DEF DatabaseAnswers, Placed, RowHolds, Told, Read, Leading, controlPlane
  <2>. QED BY <2>1, <2>2
<1>5. slotsTaken' = slotsTaken /\ slotsTaken \in Nat
  BY DEF DatabaseAnswers, IInv, CacheTypeOK
<1>6. (CacheTypeOK /\ CallersHold /\ Led /\ EntriesHold /\ MapsHold)'
  BY <1>1, <1>2, <1>3, <1>4, <1>5, CallerMoves DEF DatabaseAnswers, Leading
<1>7. SlotsHold'
  BY <1>1, <1>2, <1>3, <1>5, CallerMovesSlotless
<1>. QED BY <1>6, <1>7 DEF IInv

\* ReconcileObserver reads past the caches and keeps its row to itself.
LEMMA ReconcilingHolds ==
    ASSUME IInv, NEW c \in Callers,
           (\E k \in Credentials : ReconcileBegins(c, k)) \/ ReconcileFetches(c) \/ ReconcileEnds(c)
    PROVE  IInv'
<1>0. /\ UNCHANGED <<controlPlane, caches, flight, generation, listener, heard>>
      /\ slotsTaken' = slotsTaken /\ slotsTaken \in Nat
  BY DEF ReconcileBegins, ReconcileFetches, ReconcileEnds, IInv, CacheTypeOK
<1>1. ASSUME NEW next \in CallType, call' = [call EXCEPT ![c] = next],
             call[c].at \in {"idle", "reconcile", "reconciled"}, next.at \in {"reconcile", "reconciled", "done"},
             next.began <= heard, next.gen <= generation, next.key \in Credentials,
             next.at = "done" /\ next.verdict # "unavailable" => next.asOf >= next.began,
             next.at = "reconciled" => next.asOf = commits /\ next.was = row[next.key]
      PROVE  IInv'
  <2>1. call'[c] = next
    BY <1>1 DEF IInv, CacheTypeOK
  <2>2. /\ heard \in Nat /\ commits \in Nat /\ heard <= commits /\ next.began \in Nat
        /\ next.at = "reconciled" => row[next.key] \in RowStates
    BY <1>1, Constants DEF IInv, CacheTypeOK, CallType
  <2>3. (Past(c) /\ Placed(c) /\ Told(c))'
    BY <1>0, <1>1, <2>1, <2>2 DEF Past, Placed, Told, Read, Leading
  <2>4. RowHolds(c)'
    BY <1>0, <1>1, <2>1, <2>2 DEF RowHolds, Read, controlPlane
  <2>5. (CacheTypeOK /\ CallersHold /\ Led /\ EntriesHold /\ MapsHold)'
    BY <1>0, <1>1, <2>3, <2>4, CallerMoves DEF Leading
  <2>6. SlotsHold'
    BY <1>0, <1>1, CallerMovesSlotless
  <2>. QED BY <2>5, <2>6 DEF IInv
<1>2. ASSUME NEW k \in Credentials, ReconcileBegins(c, k) PROVE IInv'
  <2>0. PICK next : next = [NoCall EXCEPT !.at = "reconcile", !.key = k, !.gen = generation, !.began = heard]
    OBVIOUS
  <2>1. /\ next \in CallType /\ next.at = "reconcile" /\ next.key = k /\ next.began = heard
        /\ next.gen = generation /\ generation <= generation /\ heard <= heard
    <3>1. "reconcile" \in Asking /\ generation \in Nat /\ heard \in Nat
      BY Numbers DEF Asking
    <3>2. /\ next \in CallType /\ next.at = "reconcile" /\ next.key = k /\ next.gen = generation
          /\ next.began = heard
      BY <2>0, <3>1, NoCallType DEF CallType
    <3>. QED BY <3>1, <3>2
  <2>2. call' = [call EXCEPT ![c] = next] /\ call[c].at = "idle"
    BY <1>2, <2>0 DEF ReconcileBegins
  <2>. QED BY <1>1, <2>1, <2>2
<1>3. ASSUME call[c].at \in {"reconcile", "reconciled"}
      PROVE  /\ call[c] \in CallType /\ call[c].key \in Credentials /\ Past(c)
             /\ \A v \in {"granted", "denied", "unavailable"}, a \in Nat :
                  /\ Finished(c, v, a) \in CallType
                  /\ Finished(c, v, a).at = "done" /\ Finished(c, v, a).verdict = v
                  /\ Finished(c, v, a).asOf = a /\ Finished(c, v, a).began = call[c].began
                  /\ Finished(c, v, a).key = call[c].key /\ Finished(c, v, a).gen = 0
  <2>1. call[c] \in CallType /\ call[c].key \in Credentials /\ Past(c) /\ call[c].began \in Nat
    BY <1>3 DEF IInv, CacheTypeOK, CallersHold, Placed, CallType
  <2>2. ASSUME NEW v \in {"granted", "denied", "unavailable"}, NEW a \in Nat
        PROVE  /\ Finished(c, v, a) \in CallType
               /\ Finished(c, v, a).at = "done" /\ Finished(c, v, a).verdict = v
               /\ Finished(c, v, a).asOf = a /\ Finished(c, v, a).began = call[c].began
               /\ Finished(c, v, a).key = call[c].key /\ Finished(c, v, a).gen = 0
    <3>1. NoCall \in CallType /\ NoCall.gen = 0
      BY NoCallType DEF NoCall
    <3>. QED BY <2>1, <3>1 DEF Finished, CallType
  <2>. QED BY <2>1, <2>2
<1>4. generation >= 0
  BY DEF IInv, CacheTypeOK
<1>5. CASE ReconcileFetches(c)
  <2>0. /\ call[c].at = "reconcile" /\ call[c] \in CallType /\ call[c].key \in Credentials
        /\ call[c].began <= heard /\ call[c].gen <= generation
    BY <1>3, <1>5 DEF ReconcileFetches, Past
  <2>1. CASE call' = [call EXCEPT ![c] = Finished(c, "unavailable", 0)]
    <3> DEFINE next == Finished(c, "unavailable", 0)
    <3>1. /\ next \in CallType /\ next.at = "done" /\ next.verdict = "unavailable"
          /\ next.began = call[c].began /\ next.key = call[c].key /\ next.gen = 0
      BY <1>3, <2>0
    <3>2. call' = [call EXCEPT ![c] = next]
      BY <2>1
    <3> HIDE DEF next
    <3>. QED BY <1>1, <1>4, <2>0, <3>1, <3>2
  <2>2. CASE call' = [call EXCEPT ![c].at = "reconciled", ![c].was = row[call[c].key], ![c].asOf = commits]
    <3> DEFINE next == [call[c] EXCEPT !.at = "reconciled", !.was = row[call[c].key], !.asOf = commits]
    <3>1. /\ next \in CallType /\ next.at = "reconciled" /\ next.key = call[c].key
          /\ next.began = call[c].began /\ next.gen = call[c].gen /\ next.asOf = commits
          /\ next.was = row[call[c].key]
      <4>1. row[call[c].key] \in RowStates /\ commits \in Nat
        BY <2>0, Numbers
      <4>. QED BY <2>0, <4>1 DEF CallType, Asking
    <3>2. call' = [call EXCEPT ![c] = next]
      BY <2>0, <2>2 DEF CallType, IInv, CacheTypeOK
    <3> HIDE DEF next
    <3>. QED BY <1>1, <2>0, <3>1, <3>2
  <2>. QED BY <1>5, <2>1, <2>2 DEF ReconcileFetches
<1>6. CASE ReconcileEnds(c)
  <2>1. /\ call[c].at = "reconciled" /\ call[c].asOf \in Nat /\ call[c].began \in Nat
        /\ call[c].asOf >= call[c].began /\ call[c].began <= heard
    BY <1>3, <1>6 DEF ReconcileEnds, Past, Read, CallType
  <2>2. PICK v \in {"granted", "denied", "unavailable"} :
           call' = [call EXCEPT ![c] = Finished(c, v, call[c].asOf)]
    BY <1>6 DEF ReconcileEnds, Verdict
  <2> DEFINE next == Finished(c, v, call[c].asOf)
  <2>3. /\ next \in CallType /\ next.at = "done" /\ next.verdict = v /\ next.asOf = call[c].asOf
        /\ next.began = call[c].began /\ next.key = call[c].key /\ next.gen = 0
        /\ call[c].key \in Credentials
    BY <1>3, <2>1
  <2>4. call' = [call EXCEPT ![c] = next]
    BY <2>2
  <2> HIDE DEF next
  <2>. QED BY <1>1, <1>4, <2>1, <2>3, <2>4
<1>. QED BY <1>2, <1>5, <1>6

-----------------------------------------------------------------------------
(* The beginning of a call.                                                *)

\* Entries that had expired are dropped when they are consulted.
LEMMA CachesThin ==
    ASSUME IInv, NEW k \in Credentials, UNCHANGED <<controlPlane, heard>>,
           granted' = granted \/ granted' = [granted EXCEPT ![k] = NoEntry],
           denied' = denied \/ denied' = [denied EXCEPT ![k] = NoEntry]
    PROVE  /\ granted' \in [Credentials -> EntryType] /\ denied' \in [Credentials -> EntryType]
           /\ EntriesHold' /\ MapsHold'
<1> USE NoEntryType, Constants DEF IInv
<1>1. granted' \in [Credentials -> EntryType] /\ denied' \in [Credentials -> EntryType]
  BY DEF CacheTypeOK
<1>2. \A j \in Credentials : granted'[j] \in {granted[j], NoEntry} /\ denied'[j] \in {denied[j], NoEntry}
  BY DEF CacheTypeOK
<1>3. EntriesHold'
  BY <1>2 DEF EntriesHold, EntryHolds, controlPlane
<1>4. Entries(granted') \subseteq Entries(granted) /\ Entries(denied') \subseteq Entries(denied)
  BY <1>2 DEF Entries
<1>5. MapsHold'
  BY <1>4, FewerEntries DEF MapsHold, Entries
<1>. QED BY <1>1, <1>3, <1>5

\* A call is answered from a fresh entry, follows the leader in the table, or
\* becomes the leader of a credential nobody looks up.
LEMMA BeginningHolds ==
    ASSUME IInv, NEW c \in Callers, NEW k \in Credentials, BeginCall(c, k)
    PROVE  IInv'
<1> USE Constants
<1>0. /\ UNCHANGED <<controlPlane, generation, slotsTaken, listener, heard>> /\ call[c].at = "idle"
      /\ granted' = granted \/ granted' = [granted EXCEPT ![k] = NoEntry]
      /\ denied' = denied \/ denied' = [denied EXCEPT ![k] = NoEntry]
  BY DEF BeginCall, caches
<1>1. /\ granted' \in [Credentials -> EntryType] /\ denied' \in [Credentials -> EntryType]
      /\ EntriesHold' /\ MapsHold'
  BY <1>0, CachesThin
<1>2. ASSUME NEW next \in CallType, call' = [call EXCEPT ![c] = next],
             next.at \in {"done", "following", "slot"}, next.key = k, next.began = heard,
             next.gen <= generation,
             next.at = "done" => next.asOf >= next.began /\ flight' = flight,
             next.at = "following" => /\ flight' = flight /\ flight[k] = next.leader /\ next.leader \in Callers,
             next.at = "slot" => /\ flight[k] = NoLeader /\ flight' = [flight EXCEPT ![k] = c]
      PROVE  IInv'
  <2>1. call'[c] = next
    BY <1>2 DEF IInv, CacheTypeOK
  <2>2. (Past(c) /\ Placed(c) /\ RowHolds(c) /\ Told(c))'
    BY <1>0, <1>2, <2>1, Numbers DEF Past, Placed, RowHolds, Told, Read, Leading, IInv, CacheTypeOK
  <2>3. CallersHold' /\ Led'
    BY <1>0, <1>2, <2>2, OthersHold DEF Leading
  <2>4. SlotsHold'
    BY <1>0, <1>2, CallerMovesSlotless
  <2>5. CacheTypeOK'
    BY <1>0, <1>1, <1>2 DEF IInv, CacheTypeOK, controlPlane
  <2>. QED BY <1>1, <2>3, <2>4, <2>5 DEF IInv
<1>3. heard \in Nat /\ generation \in Nat /\ 0 <= generation /\ generation <= generation
  BY Numbers
<1>4. ASSUME NEW entry \in EntryType, NEW v \in {"granted", "denied"}, entry.asOf >= heard, flight' = flight,
             call' = [call EXCEPT ![c] = Ended(k, v, entry.asOf)]
      PROVE  IInv'
  <2>1. PICK next : next = Ended(k, v, entry.asOf)
    OBVIOUS
  <2>2. entry.asOf \in Nat
    BY DEF EntryType
  <2>3. /\ next \in CallType /\ next.at = "done" /\ next.key = k /\ next.began = heard /\ next.gen = 0
        /\ next.asOf = entry.asOf
    BY <1>3, <2>1, <2>2, BegunRecords
  <2>. QED BY <1>2, <1>3, <1>4, <2>1, <2>3
<1>5. CASE Fresh(granted[k])
  <2>1. call' = [call EXCEPT ![c] = Ended(k, "granted", granted[k].asOf)] /\ flight' = flight
    BY <1>5, BeginCallCases
  <2>2. granted[k] \in EntryType /\ granted[k].asOf >= heard
    BY <1>5, NoEntryType DEF IInv, CacheTypeOK, EntriesHold, EntryHolds
  <2>. QED BY <1>4, <2>1, <2>2
<1>6. CASE ~Fresh(granted[k]) /\ Fresh(denied[k])
  <2>1. call' = [call EXCEPT ![c] = Ended(k, "denied", denied[k].asOf)] /\ flight' = flight
    BY <1>6, BeginCallCases
  <2>2. denied[k] \in EntryType /\ denied[k].asOf >= heard
    BY <1>6, NoEntryType DEF IInv, CacheTypeOK, EntriesHold, EntryHolds
  <2>. QED BY <1>4, <2>1, <2>2
<1>7. CASE ~Fresh(granted[k]) /\ ~Fresh(denied[k]) /\ flight[k] # NoLeader
  <2>1. call' = [call EXCEPT ![c] = Follows(k, flight[k])] /\ flight' = flight
    BY <1>7, BeginCallCases
  <2>2. flight[k] \in Callers
    BY <1>7 DEF IInv, CacheTypeOK
  <2>3. PICK next : next = Follows(k, flight[k])
    OBVIOUS
  <2>4. /\ next \in CallType /\ next.at = "following" /\ next.key = k /\ next.began = heard /\ next.gen = 0
        /\ next.leader = flight[k]
    BY <1>3, <2>2, <2>3, BegunRecords
  <2>. QED BY <1>2, <1>3, <2>1, <2>2, <2>3, <2>4
<1>8. CASE ~Fresh(granted[k]) /\ ~Fresh(denied[k]) /\ flight[k] = NoLeader
  <2>1. call' = [call EXCEPT ![c] = Leads(k, c)] /\ flight' = [flight EXCEPT ![k] = c]
    BY <1>8, BeginCallCases
  <2>2. PICK next : next = Leads(k, c)
    OBVIOUS
  <2>3. /\ next \in CallType /\ next.at = "slot" /\ next.key = k /\ next.began = heard /\ next.gen = generation
    BY <1>3, <2>2, BegunRecords
  <2>. QED BY <1>2, <1>3, <1>8, <2>1, <2>2, <2>3
<1>. QED BY <1>5, <1>6, <1>7, <1>8

-----------------------------------------------------------------------------
(* The end of a lookup.                                                    *)

\* A method's map with room, or with one entry gone, takes one more.
LEMMA StoredWithin ==
    ASSUME NEW cache \in [Credentials -> EntryType], NEW k \in Credentials, NEW entry \in EntryType,
           NEW limit \in Nat \ {0}, \A m \in Methods : Within(cache, m, limit),
           NEW new \in StoredIn(cache, k, entry, limit)
    PROVE  /\ new \in [Credentials -> EntryType]
           /\ new[k] = entry
           /\ \A j \in Credentials \ {k} : new[j] \in {cache[j], NoEntry}
           /\ \A m \in Methods : Within(new, m, limit)
<1> USE Constants, NoEntryType
<1> DEFINE O == Entries(cache) \cap SameMethod(k)
<1>1. k \in SameMethod(k) /\ SameMethod(k) \in Methods /\ \A m \in Methods \ {SameMethod(k)} : k \notin m
  BY DEF SameMethod, Methods, Credentials
<1>2. IsFiniteSet(O) /\ Cardinality(O) <= limit
  BY <1>1 DEF Within
<1>3. Cardinality(O) \in Nat
  BY <1>2, FS_CardinalityType
<1>4. CASE Cardinality(O) >= limit
  <2>1. PICK gone \in O : new = [cache EXCEPT ![gone] = NoEntry, ![k] = entry]
    BY <1>4 DEF StoredIn
  <2>2. gone \in Credentials
    BY DEF Entries
  <2>3. /\ new \in [Credentials -> EntryType] /\ new[k] = entry
        /\ \A j \in Credentials \ {k} : new[j] = IF j = gone THEN NoEntry ELSE cache[j]
    BY <2>1, <2>2
  <2>4. Entries(new) \cap SameMethod(k) \subseteq (O \ {gone}) \cup {k}
    BY <2>3 DEF Entries
  <2>5. IsFiniteSet(O \ {gone}) /\ Cardinality(O \ {gone}) = Cardinality(O) - 1
    <3> HIDE DEF O
    <3>. QED BY <1>2, <2>1, FS_RemoveElement
  <2>6. /\ IsFiniteSet((O \ {gone}) \cup {k})
        /\ Cardinality((O \ {gone}) \cup {k}) <= Cardinality(O)
    <3> DEFINE X == O \ {gone}
    <3>1. IsFiniteSet(X)
      BY <2>5
    <3>2. /\ IsFiniteSet(X \cup {k}) /\ Cardinality(X) \in Nat /\ Cardinality(X \cup {k}) \in Nat
          /\ Cardinality(X \cup {k}) <= Cardinality(X) + 1
      <4> HIDE DEF X
      <4>. QED BY <3>1, OneMore
    <3>3. Cardinality(X) = Cardinality(O) - 1
      BY <2>5
    <3> HIDE DEF X, O
    <3>4. IsFiniteSet(X \cup {k}) /\ Cardinality(X \cup {k}) <= Cardinality(O)
      BY <1>3, <3>2, <3>3
    <3>. QED BY <3>4 DEF X
  <2>7. Within(new, SameMethod(k), limit)
    <3> DEFINE B == (O \ {gone}) \cup {k}
               T == Entries(new) \cap SameMethod(k)
    <3>1. IsFiniteSet(T) /\ Cardinality(T) <= Cardinality(B)
      <4>1. T \subseteq B /\ IsFiniteSet(B)
        BY <2>4, <2>6
      <4> HIDE DEF T, B
      <4>. QED BY <4>1, FS_Subset
    <3>2. Cardinality(T) \in Nat /\ Cardinality(B) \in Nat
      BY <2>6, <3>1, FS_CardinalityType
    <3>. QED BY <1>2, <1>3, <2>6, <3>1, <3>2 DEF Within
  <2>8. ASSUME NEW m \in Methods, m # SameMethod(k) PROVE Within(new, m, limit)
    <3>1. Entries(new) \cap m \subseteq Entries(cache) \cap m
      BY <1>1, <2>3, <2>8 DEF Entries
    <3>2. Within(cache, m, limit) /\ limit \in Nat
      OBVIOUS
    <3>. QED BY <3>1, <3>2, FewerInMethod
  <2>. QED BY <2>3, <2>7, <2>8
<1>5. CASE ~(Cardinality(O) >= limit)
  <2>1. new = [cache EXCEPT ![k] = entry]
    BY <1>5 DEF StoredIn
  <2>2. /\ new \in [Credentials -> EntryType] /\ new[k] = entry
        /\ \A j \in Credentials \ {k} : new[j] = cache[j]
    BY <2>1
  <2>3. Entries(new) \cap SameMethod(k) \subseteq O \cup {k}
    BY <2>2 DEF Entries
  <2>4. IsFiniteSet(O \cup {k}) /\ Cardinality(O \cup {k}) <= limit
    <3> HIDE DEF O
    <3>1. /\ IsFiniteSet(O \cup {k}) /\ Cardinality(O \cup {k}) \in Nat
          /\ Cardinality(O \cup {k}) <= Cardinality(O) + 1
      BY <1>2, OneMore
    <3>. QED BY <1>3, <1>5, <3>1
  <2>5. Within(new, SameMethod(k), limit)
    <3> DEFINE B == O \cup {k}
               T == Entries(new) \cap SameMethod(k)
    <3>1. IsFiniteSet(T) /\ Cardinality(T) <= Cardinality(B)
      <4>1. T \subseteq B /\ IsFiniteSet(B)
        BY <2>3, <2>4
      <4> HIDE DEF T, B
      <4>. QED BY <4>1, FS_Subset
    <3>2. Cardinality(T) \in Nat /\ Cardinality(B) \in Nat
      BY <2>4, <3>1, FS_CardinalityType
    <3>. QED BY <2>4, <3>1, <3>2 DEF Within
  <2>6. ASSUME NEW m \in Methods, m # SameMethod(k) PROVE Within(new, m, limit)
    <3>1. Entries(new) \cap m \subseteq Entries(cache) \cap m
      BY <1>1, <2>2, <2>6 DEF Entries
    <3>2. Within(cache, m, limit) /\ limit \in Nat
      OBVIOUS
    <3>. QED BY <3>1, <3>2, FewerInMethod
  <2>. QED BY <2>2, <2>5, <2>6
<1>. QED BY <1>4, <1>5

\* A lookup that is believed read the row after the last invalidation, and in
\* time.
LEMMA Believed ==
    ASSUME IInv, NEW c \in Callers, Publish(c), Trusted(c), Verdict(RunLookup(c)) # "unavailable"
    PROVE  /\ call[c].at = "fetched" /\ call[c].age < LookupTimeout
           /\ call[c].asOf >= heard /\ call[c].asOf \in Nat /\ call[c].age \in Nat
           /\ call[c].was = IF Verdict(RunLookup(c)) = "granted" THEN "granted" ELSE "absent"
           /\ Verdict(RunLookup(c)) \in {"granted", "denied"}
           /\ row[call[c].key] = call[c].was \/ rowAge[call[c].key] <= call[c].age
<1>1. call[c] \in CallType /\ Past(c) /\ RowHolds(c)
  BY DEF IInv, CacheTypeOK, CallersHold
<1>2. /\ call[c].at = "fetched" /\ ~(call[c].age >= LookupTimeout) /\ call[c].was \in {"granted", "absent"}
      /\ Verdict(RunLookup(c)) = IF call[c].was = "granted" THEN "granted" ELSE "denied"
  BY DEF Verdict, RunLookup, Overdue
<1>3. call[c].age < LookupTimeout
  BY <1>1, <1>2, Constants DEF CallType
<1>. QED BY <1>1, <1>2, <1>3 DEF Past, RowHolds, Read, Trusted, CallType

\* What a believed lookup leaves in a cache.
LEMMA EntryOfHolds ==
    ASSUME IInv, NEW c \in Callers, call[c].key \in Credentials,
           call[c].age < LookupTimeout, call[c].asOf >= heard,
           row[call[c].key] = call[c].was \/ rowAge[call[c].key] <= call[c].age,
           NEW ttl \in Nat \ {0}
    PROVE  /\ EntryOf(c, ttl) \in EntryType
           /\ EntryHolds(EntryOf(c, ttl), call[c].key, call[c].was, ttl)
<1>1. call[c] \in CallType /\ rowAge[call[c].key] \in Nat
  BY Numbers DEF IInv, CacheTypeOK
<1>2. Lasting(c, ttl) \in Nat /\ Lasting(c, ttl) <= ttl
      /\ (Lasting(c, ttl) # 0 => Lasting(c, ttl) + call[c].age = ttl)
  BY <1>1 DEF Lasting, CallType
<1>3. EntryOf(c, ttl) \in EntryType
  BY <1>1, <1>2 DEF EntryOf, EntryType, CallType
<1>4. /\ EntryOf(c, ttl).left = Lasting(c, ttl) /\ EntryOf(c, ttl).asOf = call[c].asOf
      /\ EntryOf(c, ttl).was = call[c].was
  BY DEF EntryOf
<1>5. row[call[c].key] = call[c].was \/ Lasting(c, ttl) = 0 \/ rowAge[call[c].key] + Lasting(c, ttl) <= ttl
  BY <1>1, <1>2 DEF CallType
<1>. QED BY <1>2, <1>3, <1>4, <1>5 DEF EntryHolds

\* A leader stores only a row it may believe, within the budget of its method.
LEMMA PublishKeepsCaches ==
    ASSUME IInv, NEW c \in Callers, Publish(c)
    PROVE  /\ granted' \in [Credentials -> EntryType] /\ denied' \in [Credentials -> EntryType]
           /\ EntriesHold' /\ MapsHold'
<1> USE Constants, NoEntryType
<1> DEFINE k == call[c].key
           verdict == IF Trusted(c) THEN Verdict(RunLookup(c)) ELSE "unavailable"
<1>1. k \in Credentials /\ UNCHANGED <<row, rowAge, heard>>
  BY DEF Publish, IInv, CallersHold, Placed, controlPlane
<1>2. /\ granted \in [Credentials -> EntryType] /\ denied \in [Credentials -> EntryType]
      /\ \A m \in Methods : Within(granted, m, GrantLimit) /\ Within(denied, m, DenialLimit)
      /\ \A j \in Credentials : /\ EntryHolds(granted[j], j, "granted", GrantTTL)
                                /\ EntryHolds(denied[j], j, "absent", DenialTTL)
  BY DEF IInv, CacheTypeOK, MapsHold, EntriesHold
<1>3. ASSUME NEW g \in [Credentials -> EntryType], NEW d \in [Credentials -> EntryType],
             granted' = g, denied' = d,
             \A j \in Credentials : /\ g[j] \in {granted[j], NoEntry} \/ EntryHolds(g[j], j, "granted", GrantTTL)
                                    /\ d[j] \in {denied[j], NoEntry} \/ EntryHolds(d[j], j, "absent", DenialTTL),
             \A m \in Methods : Within(g, m, GrantLimit) /\ Within(d, m, DenialLimit)
      PROVE  /\ granted' \in [Credentials -> EntryType] /\ denied' \in [Credentials -> EntryType]
             /\ EntriesHold' /\ MapsHold'
  <2>1. \A j \in Credentials : /\ EntryHolds(g[j], j, "granted", GrantTTL)
                               /\ EntryHolds(d[j], j, "absent", DenialTTL)
    BY <1>2, <1>3 DEF EntryHolds
  <2>2. EntriesHold'
    BY <1>1, <1>3, <2>1 DEF EntriesHold, EntryHolds
  <2>3. MapsHold'
    BY <1>3 DEF MapsHold, Within, Entries
  <2>. QED BY <1>3, <2>2, <2>3
<1>4. \A cache \in [Credentials -> EntryType], limit \in Nat :
         /\ Pruned(cache) \in [Credentials -> EntryType]
         /\ \A j \in Credentials : Pruned(cache)[j] \in {cache[j], NoEntry}
         /\ \A m : Within(cache, m, limit) => Within(Pruned(cache), m, limit)
  <2> SUFFICES ASSUME NEW cache \in [Credentials -> EntryType], NEW limit \in Nat
               PROVE  /\ Pruned(cache) \in [Credentials -> EntryType]
                      /\ \A j \in Credentials : Pruned(cache)[j] \in {cache[j], NoEntry}
                      /\ \A m : Within(cache, m, limit) => Within(Pruned(cache), m, limit)
    OBVIOUS
  <2>1. /\ Pruned(cache) \in [Credentials -> EntryType]
        /\ \A j \in Credentials : Pruned(cache)[j] \in {cache[j], NoEntry}
    BY DEF Pruned
  <2>2. Entries(Pruned(cache)) \subseteq Entries(cache)
    BY <2>1 DEF Entries
  <2>. QED BY <2>1, <2>2, FewerEntries
<1>5. CASE verdict = "granted"
  <2>1. StoreGrant(c)
    BY <1>5 DEF Publish
  <2>2. EntryOf(c, GrantTTL) \in EntryType /\ EntryHolds(EntryOf(c, GrantTTL), k, "granted", GrantTTL)
    BY <1>1, <1>5, Believed, EntryOfHolds
  <2>3. /\ Pruned(granted) \in [Credentials -> EntryType]
        /\ \A m \in Methods : Within(Pruned(granted), m, GrantLimit)
        /\ \A j \in Credentials : Pruned(granted)[j] \in {granted[j], NoEntry}
        /\ Pruned(denied) \in [Credentials -> EntryType]
        /\ \A m \in Methods : Within(Pruned(denied), m, DenialLimit)
        /\ \A j \in Credentials : Pruned(denied)[j] \in {denied[j], NoEntry}
    BY <1>2, <1>4
  <2>4. granted' \in StoredIn(Pruned(granted), k, EntryOf(c, GrantTTL), GrantLimit) /\ denied' = Pruned(denied)
    BY <2>1 DEF StoreGrant
  <2>5. /\ granted' \in [Credentials -> EntryType] /\ granted'[k] = EntryOf(c, GrantTTL)
        /\ \A j \in Credentials \ {k} : granted'[j] \in {Pruned(granted)[j], NoEntry}
        /\ \A m \in Methods : Within(granted', m, GrantLimit)
    BY <1>1, <2>2, <2>3, <2>4, StoredWithin
  <2>6. \A j \in Credentials : granted'[j] \in {granted[j], NoEntry} \/ EntryHolds(granted'[j], j, "granted", GrantTTL)
    BY <2>2, <2>3, <2>5
  <2>. QED BY <1>3, <2>3, <2>4, <2>5, <2>6
<1>6. CASE verdict = "denied"
  <2> DEFINE full == Cardinality(Entries(denied) \cap SameMethod(k)) >= DenialLimit
             swept == IF full THEN [j \in Credentials |->
                                      IF j \in SameMethod(k) THEN Pruned(denied)[j] ELSE denied[j]]
                      ELSE denied
  <2>1. StoreDenial(c)
    BY <1>6 DEF Publish
  <2>2. EntryOf(c, DenialTTL) \in EntryType /\ EntryHolds(EntryOf(c, DenialTTL), k, "absent", DenialTTL)
    BY <1>1, <1>6, Believed, EntryOfHolds
  <2>3. /\ swept \in [Credentials -> EntryType]
        /\ \A j \in Credentials : swept[j] \in {denied[j], NoEntry}
    BY <1>2, <1>4
  <2>4. \A m \in Methods : Within(swept, m, DenialLimit)
    <3>1. Entries(swept) \subseteq Entries(denied)
      BY <2>3 DEF Entries
    <3> HIDE DEF swept
    <3>. QED BY <1>2, <3>1, FewerEntries
  <2>5. denied' \in StoredIn(swept, k, EntryOf(c, DenialTTL), DenialLimit) /\ granted' = granted
    BY <2>1 DEF StoreDenial
  <2>6. /\ denied' \in [Credentials -> EntryType] /\ denied'[k] = EntryOf(c, DenialTTL)
        /\ \A j \in Credentials \ {k} : denied'[j] \in {swept[j], NoEntry}
        /\ \A m \in Methods : Within(denied', m, DenialLimit)
    <3> HIDE DEF swept
    <3>. QED BY <1>1, <2>2, <2>3, <2>4, <2>5, StoredWithin
  <2> HIDE DEF swept
  <2>7. \A j \in Credentials : denied'[j] \in {denied[j], NoEntry} \/ EntryHolds(denied'[j], j, "absent", DenialTTL)
    BY <2>2, <2>3, <2>6
  <2>. QED BY <1>2, <1>3, <2>5, <2>6, <2>7
<1>7. CASE verdict \notin {"granted", "denied"}
  <2>1. granted' = granted /\ denied' = denied
    BY <1>7 DEF Publish, caches
  <2>. QED BY <1>2, <1>3, <2>1
<1>. QED BY <1>5, <1>6, <1>7

\* A caller that is answered.
LEMMA FinishedType ==
    ASSUME NEW f \in Callers, call[f] \in CallType,
           NEW v \in {"granted", "denied", "unavailable"}, NEW asOf \in Nat
    PROVE  /\ Finished(f, v, asOf) \in CallType
           /\ Finished(f, v, asOf).at = "done" /\ Finished(f, v, asOf).verdict = v
           /\ Finished(f, v, asOf).asOf = asOf /\ Finished(f, v, asOf).began = call[f].began
           /\ Finished(f, v, asOf).key = call[f].key /\ Finished(f, v, asOf).gen = 0
BY DEF Finished, NoCall, CallType, Asking, NoLeader

\* Followers wait for the leader's credential.
LEMMA FollowersShare ==
    ASSUME IInv, NEW c \in Callers, NEW f \in Followers(c)
    PROVE  f \in Callers /\ call[f].at = "following" /\ call[f].key \in Credentials /\ flight[call[f].key] = c
           /\ call[c].at \in Leading /\ call[c].key = call[f].key
BY Constants DEF IInv, Followers, CallersHold, Placed, Led

\* The leader leaves the table, frees its slot and answers everyone who followed
\* it, and nobody else.
LEMMA PublishHolds ==
    ASSUME IInv, NEW c \in Callers, Publish(c)
    PROVE  IInv'
<1> USE Constants
<1> DEFINE k == call[c].key
           verdict == IF Trusted(c) THEN Verdict(RunLookup(c)) ELSE "unavailable"
           answered == Followers(c) \cup {c}
           next(f) == Finished(f, verdict, call[c].asOf)
<1>1. /\ call[c].at \in Leading /\ k \in Credentials /\ flight[k] = c
      /\ flight' = [flight EXCEPT ![k] = NoLeader]
      /\ UNCHANGED <<row, rowAge, commits, generation, listener, heard>>
  BY DEF Publish, IInv, CallersHold, Placed, Leading, controlPlane
<1>2. call' = [f \in Callers |-> IF f \in answered THEN next(f) ELSE call[f]]
  BY DEF Publish
<1>3. verdict \in {"granted", "denied", "unavailable"} /\ call[c].asOf \in Nat
  BY DEF Verdict, IInv, CacheTypeOK, CallType
<1>4. /\ verdict # "unavailable" => call[c].asOf >= heard
  BY Believed
<1>5. \A f \in Callers : call[f] \in CallType
  BY DEF IInv, CacheTypeOK
<1> HIDE DEF verdict
<1>6. \A f \in answered : /\ f \in Callers /\ call'[f] \in CallType
                          /\ call'[f].at = "done" /\ call'[f].verdict = verdict
                          /\ call'[f].asOf = call[c].asOf /\ call'[f].began = call[f].began
                          /\ call'[f].key = call[f].key /\ call'[f].gen = 0 /\ call[f].key \in Credentials
  <2> SUFFICES ASSUME NEW f \in answered
               PROVE  /\ f \in Callers /\ call'[f] \in CallType
                      /\ call'[f].at = "done" /\ call'[f].verdict = verdict
                      /\ call'[f].asOf = call[c].asOf /\ call'[f].began = call[f].began
                      /\ call'[f].key = call[f].key /\ call'[f].gen = 0 /\ call[f].key \in Credentials
    OBVIOUS
  <2>1. f \in Callers /\ call[f].key \in Credentials
    BY <1>1, FollowersShare
  <2>2. call'[f] = Finished(f, verdict, call[c].asOf)
    BY <1>2, <2>1
  <2>. QED BY <1>3, <1>5, <2>1, <2>2, FinishedType
<1>7. \A d \in Callers \ answered : call'[d] = call[d]
  BY <1>2
<1> HIDE DEF answered
<1>8. call' \in [Callers -> CallType]
  BY <1>2, <1>5, <1>6, <1>7
<1>9. CallersHold'
  <2>1. ASSUME NEW f \in answered PROVE (Past(f) /\ Placed(f) /\ RowHolds(f) /\ Told(f))'
    <3>1. call[f].began <= heard /\ call[f].began \in Nat /\ heard \in Nat /\ 0 <= generation
      BY <1>5, <1>6, Numbers DEF IInv, CallersHold, Past, CallType
    <3>. QED BY <1>1, <1>3, <1>4, <1>6, <3>1 DEF Past, Placed, RowHolds, Told, Read, Leading
  <2>2. ASSUME NEW d \in Callers, d \notin answered PROVE (Past(d) /\ Placed(d) /\ RowHolds(d) /\ Told(d))'
    <3>1. call'[d] = call[d] /\ Past(d) /\ Placed(d) /\ RowHolds(d) /\ Told(d)
      BY <1>7, <2>2 DEF IInv, CallersHold
    <3>2. (Past(d) /\ RowHolds(d) /\ Told(d))'
      BY <1>1, <3>1 DEF Past, RowHolds, Told
    <3>3. Placed(d)'
      <4>1. d # c /\ d \notin Followers(c)
        BY <2>2 DEF answered
      <4>2. call[d].at \in Leading \cup {"following"} => call[d].key \in Credentials /\ call[d].key # k
        BY <1>1, <3>1, <4>1 DEF Placed, Leading, Followers
      <4>. QED BY <1>1, <3>1, <4>2 DEF Placed, IInv, CacheTypeOK
    <3>. QED BY <3>2, <3>3
  <2>. QED BY <2>1, <2>2 DEF CallersHold
<1>10. Led'
  <2> SUFFICES ASSUME NEW j \in Credentials, flight'[j] # NoLeader
               PROVE  call'[flight'[j]].at \in Leading /\ call'[flight'[j]].key = j
    BY DEF Led
  <2>1. j # k /\ flight'[j] = flight[j]
    BY <1>1 DEF IInv, CacheTypeOK
  <2>2. flight[j] \in Callers /\ call[flight[j]].at \in Leading /\ call[flight[j]].key = j
    BY <2>1 DEF IInv, Led, CacheTypeOK
  <2>3. flight[j] \notin answered
    BY <2>1, <2>2 DEF answered, Followers, Leading
  <2>. QED BY <1>7, <2>1, <2>2, <2>3
<1>11. SlotsHold'
  <2>1. Querying' = Querying \ {c}
    <3>1. \A f \in answered \ {c} : f \notin Querying
      BY DEF answered, Followers, Querying
    <3>2. c \in answered
      BY DEF answered
    <3>. QED BY <1>6, <1>7, <3>1, <3>2 DEF Querying
  <2>2. IsFiniteSet(Querying) /\ slotsTaken = Cardinality(Querying) /\ slotsTaken' = ReleaseSlot(c)
    BY DEF Publish, IInv, SlotsHold
  <2>3. CASE call[c].at = "slot"
    <3>1. Querying \ {c} = Querying /\ slotsTaken' = slotsTaken
      BY <2>2, <2>3 DEF Querying, ReleaseSlot
    <3>. QED BY <2>1, <2>2, <3>1 DEF SlotsHold
  <2>4. CASE call[c].at # "slot"
    <3>1. c \in Querying /\ slotsTaken' = slotsTaken - 1
      BY <1>1, <2>2, <2>4 DEF Querying, ReleaseSlot, Leading
    <3>2. IsFiniteSet(Querying \ {c}) /\ Cardinality(Querying \ {c}) = Cardinality(Querying) - 1
      BY <2>2, <3>1, FS_RemoveElement
    <3>. QED BY <2>1, <2>2, <3>1, <3>2 DEF SlotsHold
  <2>. QED BY <2>3, <2>4
<1>12. CacheTypeOK'
  <2>1. slotsTaken' \in Nat
    BY <1>11, FS_CardinalityType DEF SlotsHold
  <2>2. flight' \in [Credentials -> Callers \cup {NoLeader}]
    BY <1>1 DEF IInv, CacheTypeOK
  <2>. QED BY <1>1, <1>8, <2>1, <2>2, PublishKeepsCaches DEF IInv, CacheTypeOK
<1>. QED BY <1>9, <1>10, <1>11, <1>12, PublishKeepsCaches DEF IInv

-----------------------------------------------------------------------------
(* Every step keeps the invariant.                                         *)
LEMMA NextHolds == IInv /\ [AuthorizationNext]_authVars => IInv'
<1> SUFFICES ASSUME IInv, [AuthorizationNext]_authVars PROVE IInv'
  OBVIOUS
<1>1. CASE UNCHANGED authVars \/ ListenerFails \/ ListenerRetries
  BY <1>1, ListeningHolds
<1>2. CASE AuthorizationTick
  BY <1>2, TickHolds
<1>3. CASE RunCacheExpiry
  BY <1>3, PruningHolds
<1>4. CASE ListenStarts \/ NotificationArrives
  BY <1>4, InvalidationHolds
<1>5. ASSUME NEW k \in Credentials, ControlPlaneCommits(k) PROVE IInv'
  BY <1>5, CommitsHold
<1>6. ASSUME NEW c \in Callers, NEW k \in Credentials,
             AuthorizeReadBegins(c, k) \/ VerifyAuthorizationBegins(c, k) \/ ReconcileBegins(c, k)
      PROVE  IInv'
  BY <1>6, BeginningHolds, ReconcilingHolds DEF AuthorizeReadBegins, VerifyAuthorizationBegins
<1>7. ASSUME NEW c \in Callers,
             \/ FollowerGivesUp(c) \/ AcquireLookupSlot(c) \/ DatabaseAnswers(c)
             \/ AuthorizeReadEnds(c) \/ VerifyAuthorizationEnds(c)
             \/ ReconcileFetches(c) \/ ReconcileEnds(c)
      PROVE  IInv'
  BY <1>7, GivingUpHolds, AcquiringHolds, AnsweringHolds, PublishHolds, ReconcilingHolds
     DEF AuthorizeReadEnds, VerifyAuthorizationEnds
<1>. QED BY <1>1, <1>2, <1>3, <1>4, <1>5, <1>6, <1>7 DEF AuthorizationNext

-----------------------------------------------------------------------------
(* The TTL bounds stale authority.                                         *)

NoStaleVerdict ==
    \A c \in Callers :
      LET k == call'[c].key IN
      /\ call[c].at # "done" /\ call'[c].at = "done"
      /\ \/ call'[c].verdict = "granted" /\ row[k] # "granted"
         \/ call'[c].verdict = "denied" /\ row[k] = "granted"
      => rowAge[k] < Stalest

\* A call answered from a cache: what contradicts a fresh entry is younger than
\* the entry's TTL.
LEMMA CachedNotStale ==
    ASSUME IInv, NEW c \in Callers, NEW k \in Credentials, BeginCall(c, k)
    PROVE  NoStaleVerdict
<1> USE Constants
<1>0. /\ \A d \in Callers \ {c} : call'[d] = call[d]
      /\ granted[k] \in EntryType /\ denied[k] \in EntryType /\ rowAge[k] \in Nat
      /\ EntryHolds(granted[k], k, "granted", GrantTTL) /\ EntryHolds(denied[k], k, "absent", DenialTTL)
  BY DEF BeginCall, IInv, CacheTypeOK, EntriesHold
<1>a. call \in [Callers -> CallType] /\ heard \in Nat /\ generation \in Nat /\ flight \in [Credentials -> Callers \cup {NoLeader}]
  BY Numbers DEF IInv, CacheTypeOK
<1>b. granted[k].asOf \in Nat /\ denied[k].asOf \in Nat
  BY <1>0 DEF EntryType
<1>1. CASE Fresh(granted[k])
  <2>0. call' = [call EXCEPT ![c] = Ended(k, "granted", granted[k].asOf)]
    BY <1>1, BeginCallCases
  <2>1. call'[c].key = k /\ call'[c].verdict = "granted"
    BY <1>a, <1>b, <2>0, BegunRecords
  <2>2. row[k] # "granted" => rowAge[k] < Stalest
    BY <1>0, <1>1, NoEntryType DEF EntryHolds, Fresh, EntryType
  <2>. QED BY <1>0, <2>1, <2>2 DEF NoStaleVerdict
<1>2. CASE ~Fresh(granted[k]) /\ Fresh(denied[k])
  <2>0. call' = [call EXCEPT ![c] = Ended(k, "denied", denied[k].asOf)]
    BY <1>2, BeginCallCases
  <2>1. call'[c].key = k /\ call'[c].verdict = "denied"
    BY <1>a, <1>b, <2>0, BegunRecords
  <2>2. row[k] = "granted" => rowAge[k] < Stalest
    BY <1>0, <1>2, NoEntryType DEF EntryHolds, Fresh, EntryType
  <2>. QED BY <1>0, <2>1, <2>2 DEF NoStaleVerdict
<1>3. CASE ~Fresh(granted[k]) /\ ~Fresh(denied[k])
  <2>1. CASE flight[k] # NoLeader
    <3>1. call' = [call EXCEPT ![c] = Follows(k, flight[k])] /\ flight[k] \in Callers
      BY <1>3, <1>a, <2>1, BeginCallCases
    <3>2. call'[c].at = "following"
      BY <1>a, <3>1, BegunRecords
    <3>. QED BY <1>0, <3>2 DEF NoStaleVerdict
  <2>2. CASE flight[k] = NoLeader
    <3>1. call' = [call EXCEPT ![c] = Leads(k, c)]
      BY <1>3, <2>2, BeginCallCases
    <3>2. call'[c].at = "slot"
      BY <1>a, <3>1, BegunRecords
    <3>. QED BY <1>0, <3>2 DEF NoStaleVerdict
  <2>. QED BY <2>1, <2>2
<1>. QED BY <1>1, <1>2, <1>3

\* A lookup shared by those who waited: the row it read is contradicted only by
\* a change younger than the lookup.
LEMMA PublishedNotStale ==
    ASSUME IInv, NEW c \in Callers, Publish(c)
    PROVE  NoStaleVerdict
<1> USE Constants
<1> DEFINE verdict == IF Trusted(c) THEN Verdict(RunLookup(c)) ELSE "unavailable"
<1>1. call[c].key \in Credentials /\ rowAge[call[c].key] \in Nat
  BY Numbers DEF Publish, IInv, CallersHold, Placed
<1>2. verdict # "unavailable" =>
         /\ verdict = "granted" => call[c].was = "granted"
         /\ verdict = "denied" => call[c].was = "absent"
         /\ row[call[c].key] = call[c].was \/ rowAge[call[c].key] < Stalest
  BY <1>1, Believed
<1>3. \A f \in Callers \ (Followers(c) \cup {c}) : call'[f] = call[f]
  BY DEF Publish
<1>4. \A f \in Followers(c) \cup {c} :
         f \in Callers => call'[f].key = call[c].key /\ call'[f].verdict = verdict
  <2> SUFFICES ASSUME NEW f \in Followers(c) \cup {c}, f \in Callers
               PROVE  call'[f].key = call[c].key /\ call'[f].verdict = verdict
    OBVIOUS
  <2>1. call[f].key = call[c].key
    BY FollowersShare
  <2>2. call'[f] = Finished(f, verdict, call[c].asOf)
    BY DEF Publish
  <2> HIDE DEF verdict
  <2>. QED BY <2>1, <2>2 DEF Finished, NoCall
<1> HIDE DEF verdict
<1>. QED BY <1>2, <1>3, <1>4 DEF NoStaleVerdict

\* A reconciliation, which reads past the caches.
LEMMA ReconciledNotStale ==
    ASSUME IInv, NEW c \in Callers, ReconcileEnds(c)
    PROVE  NoStaleVerdict
<1> USE Constants
<1>1. /\ call[c] \in CallType /\ RowHolds(c) /\ call[c].at = "reconciled" /\ call[c].key \in Credentials
      /\ rowAge[call[c].key] \in Nat /\ \A d \in Callers \ {c} : call'[d] = call[d]
  BY Numbers DEF ReconcileEnds, IInv, CacheTypeOK, CallersHold, Placed
<1>2. PICK v : /\ call'[c] = Finished(c, v, call[c].asOf)
               /\ v \in {"granted", "denied"} => ~Overdue(c) /\ v = Verdict(call[c].was)
  BY DEF ReconcileEnds, IInv, CacheTypeOK
<1>3. call'[c].key = call[c].key /\ call'[c].verdict = v
  BY <1>2 DEF Finished, NoCall
<1>4. v \in {"granted", "denied"} =>
         /\ v = "granted" => call[c].was = "granted"
         /\ v = "denied" => call[c].was = "absent"
         /\ row[call[c].key] = call[c].was \/ rowAge[call[c].key] < Stalest
  BY <1>1, <1>2 DEF Verdict, Overdue, RowHolds, Read, CallType
<1>. QED BY <1>1, <1>3, <1>4 DEF NoStaleVerdict

\* Every other step answers nobody, or tells a caller that the answer is
\* unavailable.
LEMMA NeverStale == IInv /\ [AuthorizationNext]_authVars => NoStaleVerdict
<1> SUFFICES ASSUME IInv, [AuthorizationNext]_authVars PROVE NoStaleVerdict
  OBVIOUS
<1>1. ASSUME UNCHANGED call PROVE NoStaleVerdict
  BY <1>1 DEF NoStaleVerdict
<1>2. ASSUME NEW c \in Callers, \A d \in Callers \ {c} : call'[d] = call[d],
             call'[c].at # "done" \/ call'[c].verdict = "unavailable"
      PROVE  NoStaleVerdict
  BY <1>2 DEF NoStaleVerdict
<1>3. CASE AuthorizationTick
  <2>1. \A c \in Callers : call'[c].at = call[c].at
    BY <1>3 DEF AuthorizationTick, IInv, CacheTypeOK, CallType
  <2>. QED BY <2>1 DEF NoStaleVerdict
<1>4. CASE \/ UNCHANGED authVars \/ RunCacheExpiry \/ ListenStarts \/ NotificationArrives
           \/ ListenerFails \/ ListenerRetries \/ \E k \in Credentials : ControlPlaneCommits(k)
  <2>1. UNCHANGED call
    BY <1>4 DEF authVars, RunCacheExpiry, ListenStarts, NotificationArrives, ListenerFails, ListenerRetries,
       ControlPlaneCommits
  <2>. QED BY <1>1, <2>1
<1>5. ASSUME NEW c \in Callers, NEW k \in Credentials,
             AuthorizeReadBegins(c, k) \/ VerifyAuthorizationBegins(c, k)
      PROVE  NoStaleVerdict
  BY <1>5, CachedNotStale DEF AuthorizeReadBegins, VerifyAuthorizationBegins
<1>6. ASSUME NEW c \in Callers, NEW k \in Credentials, ReconcileBegins(c, k)
      PROVE  NoStaleVerdict
  BY <1>2, <1>6 DEF ReconcileBegins, NoCall, IInv, CacheTypeOK
<1>7. ASSUME NEW c \in Callers, FollowerGivesUp(c) \/ AcquireLookupSlot(c) \/ DatabaseAnswers(c) \/ ReconcileFetches(c)
      PROVE  NoStaleVerdict
  <2>1. call \in [Callers -> CallType]
    BY DEF IInv, CacheTypeOK
  <2>2. \A d \in Callers \ {c} : call'[d] = call[d]
    BY <1>7, <2>1 DEF FollowerGivesUp, AcquireLookupSlot, DatabaseAnswers, ReconcileFetches
  <2>3. Finished(c, "unavailable", 0).verdict = "unavailable"
    BY DEF Finished, NoCall
  <2>4. call'[c].at # "done" \/ call'[c].verdict = "unavailable"
    <3>1. CASE FollowerGivesUp(c)
      BY <2>1, <2>3, <3>1 DEF FollowerGivesUp
    <3>2. CASE AcquireLookupSlot(c)
      BY <2>1, <3>2 DEF AcquireLookupSlot, CallType
    <3>3. CASE DatabaseAnswers(c)
      BY <2>1, <3>3 DEF DatabaseAnswers, CallType
    <3>4. CASE ReconcileFetches(c)
      BY <2>1, <2>3, <3>4 DEF ReconcileFetches, CallType
    <3>. QED BY <1>7, <3>1, <3>2, <3>3, <3>4
  <2>. QED BY <1>2, <2>2, <2>4
<1>8. ASSUME NEW c \in Callers, AuthorizeReadEnds(c) \/ VerifyAuthorizationEnds(c)
      PROVE  NoStaleVerdict
  BY <1>8, PublishedNotStale DEF AuthorizeReadEnds, VerifyAuthorizationEnds
<1>9. ASSUME NEW c \in Callers, ReconcileEnds(c)
      PROVE  NoStaleVerdict
  BY <1>9, ReconciledNotStale
<1>. QED BY <1>3, <1>4, <1>5, <1>6, <1>7, <1>8, <1>9 DEF AuthorizationNext

-----------------------------------------------------------------------------
\* In every behaviour of the provider, whatever callers, credentials, TTLs and
\* budgets it has, the invariant holds: what it believes of the control plane
\* (its caches, the rows its lookups read) is as recent as it is taken to be.
THEOREM AlwaysHolds == AuthorizationSpec => []IInv
<1>1. AuthorizationInit => IInv
  BY InitHolds
<1>2. IInv /\ [AuthorizationNext]_authVars => IInv'
  BY NextHolds
<1>. QED BY <1>1, <1>2, PTL DEF AuthorizationSpec

\* No verdict, cached, shared or looked up, is older than the last invalidation
\* handled before the call began (Provider.invalidateAll and generation).
THEOREM NothingClearedComesBack == AuthorizationSpec => []VerdictsPostdateInvalidation
<1>1. IInv => VerdictsPostdateInvalidation
  BY Implied DEF Safe
<1>. QED BY <1>1, AlwaysHolds, PTL

\* A verdict the control plane has withdrawn was still good less than the TTL
\* (or one lookup) before, with no notification at all.
THEOREM StalenessBounded == AuthorizationSpec => TTLBoundsStaleness
<1>1. IInv /\ [AuthorizationNext]_authVars => [NoStaleVerdict]_authVars
  BY NeverStale
<1>. QED BY <1>1, AlwaysHolds, PTL DEF AuthorizationSpec, TTLBoundsStaleness, NoStaleVerdict

\* All that the runs check of the provider: the caches, the shared lookups, the
\* budgets and the bound on staleness.
THEOREM ProviderIsSound == AuthorizationSpec => CacheIsSound
<1>1. IInv => /\ CacheTypeOK /\ VerdictsPostdateInvalidation /\ CachesPostdateInvalidation
              /\ OnlyAuthorityIsCached /\ BudgetsHold /\ FlightsHaveLeaders
  BY Implied DEF IInv, Safe
<1>. QED BY <1>1, AlwaysHolds, StalenessBounded, PTL DEF CacheIsSound

-----------------------------------------------------------------------------
(* Hardware trust. *)

BoardEntries == [status : {"active", "unlisted", "revoked"}, current : Nat]
Trusts == {"none", "trusted", "open", "test"}
Evidences == {<<>>} \cup Presented
SessionStates == [live : BOOLEAN, trust : Trusts, evidence : Evidences, unverified : Nat, late : Nat]
CollectorStates == [at : {"down", "reading", "starting", "up"}, inForce : Nat, floor : Nat,
                    recorded : Nat, seen : Nat, owed : BOOLEAN]

\* The variables have their types.
TrustTypeOK ==
    /\ editions \in Seq([Boards -> BoardEntries]) /\ editions # <<>>
    /\ file \in Nat /\ collector \in CollectorStates
    /\ stateFile \in Nat /\ newest \in Nat /\ starts \in Nat
    /\ excused \in BOOLEAN
    /\ session \in [TrustSessions -> SessionStates]

InService == collector.at \in {"starting", "up"}

\* What a phase of the process implies: nothing was in force before the first
\* start, and an edition that was adopted is the process's to record.
PhaseHolds ==
    /\ starts = 0 => collector.at = "down" /\ newest = 0
    /\ collector.at = "reading" => ~collector.owed /\ (starts = 1 => newest = 0)
    /\ collector.at = "down" => ~collector.owed
    /\ InService => collector.inForce <= newest

\* While the state is kept, the state file is what the process believes it to be, it
\* covers whatever was in force unless a recording is owed, and a process that reads
\* its registry does so under that floor.
FloorHolds ==
    KeepsState =>
        /\ collector.at # "down" => collector.recorded = stateFile
        /\ collector.at = "reading" => collector.floor = stateFile
        /\ ~excused /\ ~collector.owed => stateFile >= newest

\* A session's withdrawn rechecks are among its unverified ones.
RechecksHold ==
    \A s \in TrustSessions :
        session[s].late <= session[s].unverified /\ session[s].unverified <= UnverifiedBound

TrustInv ==
    /\ TrustTypeOK
    /\ PhaseHolds
    /\ FloorHolds
    /\ NoRegistryRollback
    /\ TrustIsEarned
    /\ RechecksHold

\* A collector that has never run has nothing to betray.
LEMMA TrustStarts == HardwareTrustInit => TrustInv
<1> SUFFICES ASSUME HardwareTrustInit PROVE TrustInv
  OBVIOUS
<1>1. TrustTypeOK
  <2>1. editions \in Seq([Boards -> BoardEntries]) /\ editions # <<>>
    <3>1. PICK st \in {"active", "unlisted"} : editions = <<[b \in Boards |-> [status |-> st, current |-> 1]]>>
      BY DEF HardwareTrustInit
    <3>2. [b \in Boards |-> [status |-> st, current |-> 1]] \in [Boards -> BoardEntries]
      BY DEF BoardEntries
    <3> QED
      BY <3>1, <3>2
  <2>2. session \in [TrustSessions -> SessionStates]
    BY DEF HardwareTrustInit, NoSession, SessionStates, Trusts, Evidences
  <2>3. collector \in CollectorStates
    BY DEF HardwareTrustInit, Down, CollectorStates
  <2> QED
    BY <2>1, <2>2, <2>3 DEF HardwareTrustInit, TrustTypeOK
<1>2. PhaseHolds /\ FloorHolds /\ NoRegistryRollback
  BY DEF HardwareTrustInit, PhaseHolds, FloorHolds, NoRegistryRollback, InService, Down
<1>3. TrustIsEarned /\ RechecksHold
  BY HardwareTrustAssumption DEF HardwareTrustInit, TrustIsEarned, RechecksHold, NoSession
<1> QED
  BY <1>1, <1>2, <1>3 DEF TrustInv

\* What the manufacturer and the operator do leaves the collector alone.
LEMMA RegistryWorldMoves ==
  ASSUME TrustInv, OperatorReplacesFile \/ \E b \in Boards : ManufacturerPublishes(b)
  PROVE  TrustInv'
<1>1. UNCHANGED <<collector, stateFile, newest, excused, starts, session>>
  BY DEF OperatorReplacesFile, ManufacturerPublishes
<1>2. (editions \in Seq([Boards -> BoardEntries]) /\ editions # <<>> /\ file \in Nat)'
  <2>1. CASE OperatorReplacesFile
    BY <2>1 DEF OperatorReplacesFile, TrustInv, TrustTypeOK, NoRegistry
  <2>2. CASE \E b \in Boards : ManufacturerPublishes(b)
    <3>1. PICK b \in Boards : ManufacturerPublishes(b)
      BY <2>2
    <3>2. editions[Len(editions)] \in [Boards -> BoardEntries]
      BY DEF TrustInv, TrustTypeOK
    <3> DEFINE last == editions[Len(editions)]
               entry == last[b]
    <3>3. entry \in BoardEntries
      BY <3>2
    <3> HIDE DEF last
    <3>4. PICK e \in {[entry EXCEPT !.status = "active"], [entry EXCEPT !.status = "revoked"],
                      [status |-> "active", current |-> entry.current + 1]} :
            editions' = Append(editions, [last EXCEPT ![b] = e])
      BY <3>1 DEF ManufacturerPublishes, last
    <3>5. e \in BoardEntries
      BY <3>3, <3>4 DEF BoardEntries
    <3>6. [last EXCEPT ![b] = e] \in [Boards -> BoardEntries]
      BY <3>2, <3>5 DEF last
    <3>7. file' = file
      BY <3>1 DEF ManufacturerPublishes
    <3> QED
      BY <3>4, <3>6, <3>7 DEF TrustInv, TrustTypeOK
  <2> QED
    BY <2>1, <2>2
<1>3. TrustTypeOK'
  BY <1>1, <1>2 DEF TrustInv, TrustTypeOK
<1> QED
  BY <1>1, <1>3 DEF TrustInv, PhaseHolds, FloorHolds, NoRegistryRollback, TrustIsEarned, RechecksHold, InService

\* Starting, loading and recording an edition, and stopping: the registry's side.
LEMMA RegistryMoves ==
  ASSUME TrustInv,
         \/ StartHardwareTrust \/ WatchRegistryFirst \/ WatchRegistryTick
         \/ RecordRegistrySequence \/ CollectorStops
  PROVE  TrustInv'
<1> USE DEF TrustInv, TrustTypeOK
<1>1. session' = session \/ session' = [s \in TrustSessions |-> NoSession]
  BY DEF StartHardwareTrust, WatchRegistryFirst, WatchRegistryTick, RecordRegistrySequence, CollectorStops
<1>2. session' \in [TrustSessions -> SessionStates] /\ TrustIsEarned' /\ RechecksHold'
  <2>1. CASE session' = session
    BY <2>1 DEF TrustIsEarned, RechecksHold
  <2>2. CASE session' = [s \in TrustSessions |-> NoSession]
    BY <2>2, HardwareTrustAssumption
    DEF TrustIsEarned, RechecksHold, NoSession, SessionStates, Trusts, Evidences
  <2> QED
    BY <1>1, <2>1, <2>2
<1>3. editions' = editions /\ file' = file
  BY DEF StartHardwareTrust, WatchRegistryFirst, WatchRegistryTick, RecordRegistrySequence, CollectorStops,
         registryWorld
<1>4. /\ (/\ collector \in CollectorStates /\ stateFile \in Nat /\ newest \in Nat
          /\ starts \in Nat /\ excused \in BOOLEAN)'
      /\ (PhaseHolds /\ FloorHolds /\ NoRegistryRollback)'
  <2>1. CASE StartHardwareTrust
    <3>1. collector' = [at |-> "reading", inForce |-> 0, floor |-> StateFloor, recorded |-> StateFloor,
                        seen |-> 0, owed |-> FALSE]
      BY <2>1 DEF StartHardwareTrust, Down
    <3>2. StateFloor \in Nat /\ (KeepsState => StateFloor = stateFile)
      BY DEF StateFloor
    <3>3. UNCHANGED <<stateFile, newest, excused>> /\ starts' = starts + 1 /\ collector.at = "down"
      BY <2>1 DEF StartHardwareTrust
    <3> QED
      BY <3>1, <3>2, <3>3 DEF CollectorStates, PhaseHolds, FloorHolds, NoRegistryRollback, InService
  <2>2. CASE WatchRegistryFirst
    <3>1. UNCHANGED <<stateFile, excused, starts>> /\ collector.at = "reading"
      BY <2>2 DEF WatchRegistryFirst
    <3>2. CASE Loadable(file)
      <4>1. collector' = [collector EXCEPT !.at = "starting", !.inForce = file, !.seen = file, !.owed = TRUE]
        BY <2>2, <3>2 DEF WatchRegistryFirst
      <4>2. /\ collector' \in CollectorStates /\ collector'.at = "starting" /\ collector'.owed
            /\ collector'.inForce = file /\ collector'.recorded = collector.recorded
        BY <4>1 DEF CollectorStates
      <4>3. /\ newest' \in Nat /\ file <= newest' /\ (file >= newest => newest' = file)
        BY <2>2, <3>2 DEF WatchRegistryFirst, Later2
      <4>4. file >= collector.floor
        BY <3>2 DEF Loadable
      <4>5. PhaseHolds' /\ FloorHolds'
        BY <3>1, <4>2, <4>3 DEF PhaseHolds, FloorHolds, InService, CollectorStates
      <4>6. starts = 1 \/ (KeepsState /\ ~excused) => file >= newest
        BY <3>1, <4>4 DEF PhaseHolds, FloorHolds, CollectorStates
      <4>7. NoRegistryRollback'
        BY <3>1, <4>2, <4>3, <4>6 DEF NoRegistryRollback
      <4> QED
        BY <3>1, <4>2, <4>3, <4>5, <4>7
    <3>3. CASE ~Loadable(file)
      <4>1. collector' = Down /\ newest' = newest
        BY <2>2, <3>3 DEF WatchRegistryFirst
      <4> QED
        BY <3>1, <4>1 DEF CollectorStates, PhaseHolds, FloorHolds, NoRegistryRollback, InService, Down
    <3> QED
      BY <3>2, <3>3
  <2>3. CASE WatchRegistryTick
    <3>1. UNCHANGED <<stateFile, excused, starts>> /\ collector.at = "up"
      BY <2>3 DEF WatchRegistryTick
    <3>2. CASE Loadable(file)
      <4>1. collector' = [collector EXCEPT !.inForce = file, !.seen = file, !.owed = TRUE]
        BY <2>3, <3>2 DEF WatchRegistryTick
      <4>2. /\ collector' \in CollectorStates /\ collector'.at = "up" /\ collector'.owed
            /\ collector'.inForce = file /\ collector'.recorded = collector.recorded
        BY <3>1, <4>1 DEF CollectorStates
      <4>3. /\ newest' \in Nat /\ file <= newest' /\ (file >= newest => newest' = file)
        BY <2>3, <3>2 DEF WatchRegistryTick, Later2
      <4>4. file >= collector.inForce
        BY <3>2 DEF Loadable
      <4>5. PhaseHolds' /\ FloorHolds'
        BY <3>1, <4>2, <4>3 DEF PhaseHolds, FloorHolds, InService, CollectorStates
      <4>6. starts = 1 \/ (KeepsState /\ ~excused) => file >= newest
        BY <3>1, <4>4 DEF NoRegistryRollback, CollectorStates
      <4>7. NoRegistryRollback'
        BY <3>1, <4>2, <4>3, <4>6 DEF NoRegistryRollback
      <4> QED
        BY <3>1, <4>2, <4>3, <4>5, <4>7
    <3>3. CASE ~Loadable(file)
      <4>1. collector' = [collector EXCEPT !.seen = file] /\ newest' = newest
        BY <2>3, <3>3 DEF WatchRegistryTick
      <4> QED
        BY <3>1, <4>1 DEF CollectorStates, PhaseHolds, FloorHolds, NoRegistryRollback, InService
    <3> QED
      BY <3>2, <3>3
  <2>4. CASE RecordRegistrySequence
    <3> DEFINE raised == [collector EXCEPT !.floor = Later2(collector.floor, collector.inForce),
                                           !.owed = FALSE, !.at = "up"]
    <3>1. InService /\ UNCHANGED <<newest, starts>> /\ collector.owed
      BY <2>4 DEF RecordRegistrySequence, PhaseHolds, InService, CollectorStates
    <3>2. /\ raised \in CollectorStates /\ raised.at = "up" /\ ~raised.owed
          /\ raised.inForce = collector.inForce /\ raised.recorded = collector.recorded
      BY DEF CollectorStates, Later2
    <3>3. CASE ~KeepsState \/ collector.inForce = collector.recorded
      <4>1. collector' = raised /\ UNCHANGED <<stateFile, excused>>
        BY <2>4, <3>3 DEF RecordRegistrySequence
      <4> HIDE DEF raised
      <4> QED
        BY <3>1, <3>2, <3>3, <4>1 DEF PhaseHolds, FloorHolds, NoRegistryRollback, InService, CollectorStates
    <3>4. CASE /\ ~(~KeepsState \/ collector.inForce = collector.recorded)
               /\ StateWritten(TRUE)
               /\ collector' = [raised EXCEPT !.recorded = collector.inForce]
               /\ excused' = (excused /\ stateFile' < newest)
      <4>1. stateFile' = collector.inForce
        BY <3>4 DEF StateWritten
      <4> HIDE DEF raised
      <4>2. /\ collector' \in CollectorStates /\ collector'.at = "up" /\ ~collector'.owed
            /\ collector'.inForce = collector.inForce /\ collector'.recorded = collector.inForce
        BY <3>2, <3>4 DEF CollectorStates
      <4>3. excused' \in BOOLEAN /\ (~excused' => ~excused \/ collector.inForce >= newest)
        BY <3>4, <4>1 DEF CollectorStates
      <4> QED
        BY <3>1, <4>1, <4>2, <4>3 DEF PhaseHolds, FloorHolds, NoRegistryRollback, InService, CollectorStates
    <3>5. CASE /\ ~(~KeepsState \/ collector.inForce = collector.recorded)
               /\ collector' = (IF collector.at = "starting" THEN Down ELSE raised)
               /\ excused' = TRUE /\ StateWritten(FALSE)
      <4>1. stateFile' = stateFile
        BY <3>5 DEF StateWritten
      <4> HIDE DEF raised
      <4>2. CASE collector' = Down
        <5>1. /\ collector' \in CollectorStates /\ collector'.at = "down" /\ ~collector'.owed
              /\ collector'.inForce = 0
          BY <4>2 DEF CollectorStates, Down
        <5>2. excused' = TRUE /\ starts # 0
          BY <3>1, <3>5 DEF PhaseHolds, InService
        <5> QED
          BY <3>1, <4>1, <5>1, <5>2 DEF PhaseHolds, FloorHolds, NoRegistryRollback, InService
      <4>3. CASE collector' = raised
        BY <3>1, <3>2, <3>5, <4>1, <4>3 DEF PhaseHolds, FloorHolds, NoRegistryRollback, InService, CollectorStates
      <4> QED
        BY <3>5, <4>2, <4>3
    <3> QED
      BY <2>4, <3>3, <3>4, <3>5 DEF RecordRegistrySequence
  <2>5. CASE CollectorStops
    <3>1. collector' = Down /\ UNCHANGED <<stateFile, newest, starts>> /\ collector.at # "down"
      BY <2>5 DEF CollectorStops
    <3>2. excused' = (excused \/ (collector.owed /\ collector.inForce # collector.recorded))
      BY <2>5 DEF CollectorStops
    <3>3. excused' \in BOOLEAN /\ (~excused' => ~excused /\ (collector.owed => collector.inForce = collector.recorded))
      BY <3>2
    <3>4. collector.owed => InService
      BY DEF PhaseHolds, InService, CollectorStates
    <3> QED
      BY <3>1, <3>3, <3>4 DEF PhaseHolds, FloorHolds, NoRegistryRollback, InService, CollectorStates, Down
  <2> QED
    BY <2>1, <2>2, <2>3, <2>4, <2>5
<1> QED
  BY <1>2, <1>3, <1>4

\* What a session's state must be.
GoodSession(r) ==
    /\ r \in SessionStates
    /\ r.late <= r.unverified /\ r.unverified <= UnverifiedBound
    /\ r.trust = "trusted" =>
         LET e == r.evidence
         IN /\ e.record.signed /\ e.proof = "good" /\ e.record.statement.keyNamed
            /\ e.record.statement.locked = "all" /\ e.record.statement.attested

\* A recheck leaves what the session was labelled with alone.
LEMMA StillGood ==
  ASSUME NEW q, GoodSession(q), NEW u \in Nat, NEW l \in Nat, l <= u, u <= UnverifiedBound
  PROVE  GoodSession([q EXCEPT !.unverified = u, !.late = l])
<1> DEFINE r == [q EXCEPT !.unverified = u, !.late = l]
<1>1. q \in SessionStates
  BY DEF GoodSession
<1>2. /\ r \in SessionStates /\ r.late = l /\ r.unverified = u
      /\ r.trust = q.trust /\ r.evidence = q.evidence
  BY <1>1 DEF SessionStates
<1> HIDE DEF r
<1>3. GoodSession(r)
  BY <1>2 DEF GoodSession
<1> QED
  BY <1>3 DEF r

\* Sessions begin, are rechecked and end: the evidence's side.
LEMMA SessionsMove ==
  ASSUME TrustInv, NEW s \in TrustSessions, Handshake(s) \/ SessionEnds(s) \/ WatchAuthorizationTick(s)
  PROVE  TrustInv'
<1> USE DEF TrustInv, TrustTypeOK
<1>1. UNCHANGED <<editions, file, collector, stateFile, newest, excused, starts>>
  BY DEF Handshake, SessionEnds, WatchAuthorizationTick, registryWorld
<1>2. GoodSession(session[s])
  BY DEF GoodSession, RechecksHold, TrustIsEarned
<1>3. GoodSession(NoSession)
  BY HardwareTrustAssumption DEF GoodSession, NoSession, SessionStates, Trusts, Evidences
<1>4. PICK r : session' = [session EXCEPT ![s] = r] /\ GoodSession(r)
  <2>1. CASE SessionEnds(s)
    BY <2>1, <1>3 DEF SessionEnds
  <2>2. CASE Handshake(s)
    <3>1. PICK e \in Presented, m \in BOOLEAN, c \in BOOLEAN, b \in Boards :
            session' = [session EXCEPT ![s] =
              LET trust == EnrollmentEvaluates([manufacturer |-> m, matches |-> c, board |-> b], e)
              IN [NoSession EXCEPT !.live = TRUE, !.trust = trust,
                                   !.evidence = IF trust = "none" THEN <<>> ELSE e]]
      BY <2>2 DEF Handshake
    <3> DEFINE trust == EnrollmentEvaluates([manufacturer |-> m, matches |-> c, board |-> b], e)
               r == [NoSession EXCEPT !.live = TRUE, !.trust = trust,
                                      !.evidence = IF trust = "none" THEN <<>> ELSE e]
    <3>2. e.record.statement \in Statements /\ ValidStatement(e.record.statement)
      BY DEF Presented, EntryRecords
    <3>3. trust \in Trusts
      BY <3>2 DEF EnrollmentEvaluates, Evaluate3, Trusts, Statements
    <3>4. trust = "trusted" =>
             /\ e.record.signed /\ e.proof = "good" /\ e.record.statement.keyNamed
             /\ e.record.statement.locked = "all" /\ e.record.statement.attested
      BY <3>2 DEF EnrollmentEvaluates, Evaluate3, RecordVerifies, ProofHolds, ValidStatement
    <3> HIDE DEF trust
    <3>5. /\ r \in SessionStates /\ r.late = 0 /\ r.unverified = 0 /\ r.trust = trust
          /\ trust # "none" => r.evidence = e
      BY <3>3 DEF NoSession, SessionStates, Evidences
    <3>6. session' = [session EXCEPT ![s] = r]
      BY <3>1 DEF trust
    <3>7. GoodSession(r)
      BY <3>4, <3>5, HardwareTrustAssumption DEF GoodSession
    <3> QED
      BY <3>6, <3>7
  <2>3. CASE WatchAuthorizationTick(s)
    <3>1. CASE RecheckConfirmed(s)
      <4>1. CASE Withdrawn(s)
        BY <1>3, <3>1, <4>1 DEF RecheckConfirmed
      <4>2. CASE ~Withdrawn(s)
        <5>1. session' = [session EXCEPT ![s] = [session[s] EXCEPT !.unverified = 0, !.late = 0]]
          BY <3>1, <4>2 DEF RecheckConfirmed
        <5>2. GoodSession([session[s] EXCEPT !.unverified = 0, !.late = 0])
          <6>1. 0 \in Nat /\ 0 <= 0 /\ 0 <= UnverifiedBound
            BY HardwareTrustAssumption
          <6> HIDE DEF TrustInv
          <6> QED
            BY <1>2, <6>1, StillGood
        <5> QED
          BY <5>1, <5>2
      <4> QED
        BY <4>1, <4>2
    <3>2. CASE RecheckUnavailable(s)
      <4>1. CASE session[s].unverified < UnverifiedBound
        <5> DEFINE l == IF Withdrawn(s) THEN session[s].late + 1 ELSE 0
                   u == session[s].unverified + 1
        <5>1. session' = [session EXCEPT ![s] = [session[s] EXCEPT !.unverified = u, !.late = l]]
          <6>1. session[s] \in SessionStates
            BY DEF SessionStates
          <6>2. session' = [session EXCEPT ![s] =
                  [session[s] EXCEPT !.unverified = session[s].unverified + 1,
                                     !.late = IF Withdrawn(s) THEN session[s].late + 1 ELSE 0]]
            <7> HIDE DEF TrustInv
            <7> QED
              BY <3>2, <4>1 DEF RecheckUnavailable
          <6> QED
            BY <6>2
        <5>2. u \in Nat /\ l \in Nat /\ l <= u /\ u <= UnverifiedBound
          BY <1>2, <4>1, HardwareTrustAssumption DEF GoodSession, SessionStates
        <5> HIDE DEF u, l
        <5>3. GoodSession([session[s] EXCEPT !.unverified = u, !.late = l])
          BY <1>2, <5>2, StillGood
        <5> QED
          BY <5>1, <5>3
      <4>2. CASE ~(session[s].unverified < UnverifiedBound)
        BY <1>3, <3>2, <4>2 DEF RecheckUnavailable
      <4> QED
        BY <4>1, <4>2
    <3> QED
      BY <2>3, <3>1, <3>2 DEF WatchAuthorizationTick
  <2> QED
    BY <2>1, <2>2, <2>3
<1>5. session' \in [TrustSessions -> SessionStates] /\ TrustIsEarned' /\ RechecksHold'
  BY <1>4 DEF GoodSession, TrustIsEarned, RechecksHold
<1> QED
  BY <1>1, <1>5 DEF PhaseHolds, FloorHolds, NoRegistryRollback, InService

\* Every step keeps the invariant.
LEMMA TrustInductive == TrustInv /\ [HardwareTrustNext]_trustVars => TrustInv'
<1> SUFFICES ASSUME TrustInv, [HardwareTrustNext]_trustVars PROVE TrustInv'
  OBVIOUS
<1>1. CASE OperatorReplacesFile \/ \E b \in Boards : ManufacturerPublishes(b)
  BY <1>1, RegistryWorldMoves
<1>2. CASE \/ StartHardwareTrust \/ WatchRegistryFirst \/ WatchRegistryTick
           \/ RecordRegistrySequence \/ CollectorStops
  BY <1>2, RegistryMoves
<1>3. ASSUME NEW s \in TrustSessions, Handshake(s) \/ SessionEnds(s) \/ WatchAuthorizationTick(s)
      PROVE  TrustInv'
  BY <1>3, SessionsMove
<1>4. CASE UNCHANGED trustVars
  BY <1>4 DEF trustVars, registryWorld, TrustInv, TrustTypeOK, PhaseHolds, FloorHolds, NoRegistryRollback,
              TrustIsEarned, RechecksHold, InService
<1> QED
  BY <1>1, <1>2, <1>3, <1>4 DEF HardwareTrustNext

\* A label is given by the handshake alone, under the edition in force.
LEMMA LabelsAreFresh ==
  ASSUME TrustInv, [HardwareTrustNext]_trustVars, NEW s \in TrustSessions,
         ~session[s].live, session'[s].live, session'[s].trust # "none"
  PROVE  ~RegistryRejects(session'[s].evidence)
<1> USE DEF TrustInv, TrustTypeOK
<1>1. session' # session /\ session' # [t \in TrustSessions |-> NoSession]
  BY DEF NoSession
<1>2. PICK t \in TrustSessions : Handshake(t) \/ SessionEnds(t) \/ WatchAuthorizationTick(t)
  BY <1>1 DEF HardwareTrustNext, trustVars, ManufacturerPublishes, OperatorReplacesFile, StartHardwareTrust,
              WatchRegistryFirst, WatchRegistryTick, RecordRegistrySequence, CollectorStops
<1>3. PICK r : session' = [session EXCEPT ![t] = r]
  BY <1>2 DEF Handshake, SessionEnds, WatchAuthorizationTick, RecheckConfirmed, RecheckUnavailable
<1>4. t = s
  BY <1>3
<1>5. Handshake(s)
  <2>1. ~SessionEnds(s) /\ ~WatchAuthorizationTick(s)
    BY DEF SessionEnds, WatchAuthorizationTick
  <2> QED
    BY <1>2, <1>4, <2>1
<1>6. PICK e \in Presented, m \in BOOLEAN, c \in BOOLEAN, b \in Boards :
        session' = [session EXCEPT ![s] =
          LET trust == EnrollmentEvaluates([manufacturer |-> m, matches |-> c, board |-> b], e)
          IN [NoSession EXCEPT !.live = TRUE, !.trust = trust,
                               !.evidence = IF trust = "none" THEN <<>> ELSE e]]
  BY <1>5 DEF Handshake
<1> DEFINE trust == EnrollmentEvaluates([manufacturer |-> m, matches |-> c, board |-> b], e)
<1>7. trust # "none" => ~RegistryRejects(e)
  BY DEF EnrollmentEvaluates, Evaluate3
<1> HIDE DEF trust
<1>8. session'[s] = [NoSession EXCEPT !.live = TRUE, !.trust = trust,
                                      !.evidence = IF trust = "none" THEN <<>> ELSE e]
  BY <1>6 DEF trust
<1>9. session'[s].trust = trust /\ (trust # "none" => session'[s].evidence = e)
  BY <1>8 DEF NoSession
<1> QED
  BY <1>7, <1>9

\* Hardware trust rests on the newest registry ever in force and on a proof of the
\* record it names, and ends within the bound, for any editions, restarts, failed
\* writes and sessions (Verifier, hardware_trust.go, watchAuthorization).
THEOREM TrustStaysSound == HardwareTrustSpec => TrustIsSound
<1>1. HardwareTrustInit => TrustInv
  BY TrustStarts
<1>2. TrustInv /\ [HardwareTrustNext]_trustVars => TrustInv'
  BY TrustInductive
<1>3. TrustInv => NoRegistryRollback /\ TrustIsEarned /\ WithdrawalWithinBound
  BY HardwareTrustAssumption DEF TrustInv, TrustTypeOK, RechecksHold, WithdrawalWithinBound, SessionStates
<1>4. TrustInv /\ [HardwareTrustNext]_trustVars =>
        [\A s \in TrustSessions :
           ~session[s].live /\ session'[s].live /\ session'[s].trust # "none"
             => LET e == session'[s].evidence
                    entry == Edition[e.record.board]
                IN /\ entry.status = "active" => entry.current = e.record.current
                   /\ entry.status # "revoked"]_trustVars
  BY LabelsAreFresh DEF RegistryRejects
<1> QED
  BY <1>1, <1>2, <1>3, <1>4, PTL DEF HardwareTrustSpec, TrustIsSound, SupersededStaysOut

=============================================================================

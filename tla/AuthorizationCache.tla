-------------------------- MODULE AuthorizationCache --------------------------
(***************************************************************************)
(* The authorization provider (internal/authorization/provider.go): the    *)
(* positive and negative caches over the control plane's views, the shared *)
(* lookups, the query slots and the listener that clears the caches.       *)
(*                                                                         *)
(* A credential is a token with what it is presented for; ReadCredentials  *)
(* go through AuthorizeRead, ObserverCredentials through                   *)
(* VerifyAuthorization.  The control plane's row of a credential is        *)
(* "granted", "absent" (no enabled row) or "broken" (a row the provider    *)
(* rejects: two rows, a malformed signal, another observer's row).         *)
(* Times are kept as what is left of them or as ages, so no clock runs on; *)
(* a leader publishes in the instant its lookup returns.                   *)
(***************************************************************************)
EXTENDS Integers, FiniteSets

CONSTANTS
    Callers,             \* handshakes, read requests and rechecks, each one call
    ReadCredentials, ObserverCredentials,
    GrantTTL,            \* authorization.cache_ttl
    DenialTTL,           \* Provider.negativeTTL
    GrantLimit,          \* defaultCacheLimit, per method
    DenialLimit,         \* defaultNegativeCacheLimit, per method
    QuerySlots,          \* defaultLookupConcurrency
    LookupTimeout,       \* defaultLookupTimeout
    MaxCommits,          \* bound: changes of the control plane
    MaxListenFaults      \* bound: failures of the listening connection

Credentials == ReadCredentials \cup ObserverCredentials

NoLeader == "nobody"

ASSUME AuthorizationAssumption ==
    /\ NoLeader \notin Callers
    /\ ReadCredentials \cap ObserverCredentials = {}
    /\ {GrantTTL, DenialTTL, GrantLimit, DenialLimit, QuerySlots, LookupTimeout} \subseteq Nat \ {0}
    /\ DenialTTL <= GrantTTL
    /\ {MaxCommits, MaxListenFaults} \subseteq Nat

VARIABLES
    row,        \* the control plane: the row of each credential, ...
    rowAge,     \* ... the time since it changed (as far as Stalest counts) and ...
    commits,    \* ... the changes committed so far
    granted,    \* Provider.observers and Provider.readers
    denied,     \* Provider.deniedObservers and Provider.deniedReaders
    flight,     \* Provider.flightObservers and flightReaders: the leader, or NoLeader
    generation, \* Provider.generation
    slotsTaken, \* Provider.lookupSlots
    call,       \* the callers
    listener,   \* RunInvalidation
    heard       \* commits that had happened when the caches were last cleared

controlPlane == <<row, rowAge, commits>>
caches == <<granted, denied>>
authVars == <<controlPlane, caches, flight, generation, slotsTaken, call, listener, heard>>

NoEntry == [left |-> 0, asOf |-> 0, was |-> "none"]
NoCall == [at |-> "idle", key |-> NoLeader, age |-> 0, leader |-> NoLeader, gen |-> 0, began |-> 0,
           verdict |-> "none", asOf |-> 0, was |-> "none"]

\* A caller waits for the database, within its deadline.
Asking == {"slot", "query", "fetched", "reconcile", "reconciled"}
\* No answer is staler than this.
Stalest == IF GrantTTL > LookupTimeout THEN GrantTTL ELSE LookupTimeout

AuthorizationInit ==
    /\ row \in {[k \in Credentials |-> state] : state \in {"granted", "absent"}} /\ commits = 0
    /\ rowAge = [k \in Credentials |-> Stalest]
    /\ granted = [k \in Credentials |-> NoEntry] /\ denied = [k \in Credentials |-> NoEntry]
    /\ flight = [k \in Credentials |-> NoLeader]
    /\ generation = 0 /\ slotsTaken = 0 /\ heard = 0
    /\ call = [c \in Callers |-> NoCall]
    /\ listener = [at |-> "down", notices |-> 0, faults |-> 0]

\* The caches of the two methods are separate maps with budgets of their own.
SameMethod(k) == IF k \in ReadCredentials THEN ReadCredentials ELSE ObserverCredentials
Entries(cache) == {k \in Credentials : cache[k] # NoEntry}
Fresh(entry) == entry.left > 0

---------------------------------------------------------------------------
(* The control plane commits a change; a listening connection is sent a    *)
(* notification at the commit.                                             *)
ControlPlaneCommits(k) ==
    /\ commits < MaxCommits /\ commits' = commits + 1
    /\ \E state \in {"granted", "absent", "broken"} \ {row[k]} : row' = [row EXCEPT ![k] = state]
    /\ rowAge' = [rowAge EXCEPT ![k] = 0]
    /\ listener' = IF listener.at = "up" THEN [listener EXCEPT !.notices = @ + 1] ELSE listener
    /\ UNCHANGED <<caches, flight, generation, slotsTaken, call, heard>>

\* An entry whose time is up stays in its map until it is consulted or swept.
OneLess(entry) == IF entry.left > 0 THEN [entry EXCEPT !.left = @ - 1] ELSE entry

AuthorizationTick ==
    /\ granted' = [k \in Credentials |-> OneLess(granted[k])]
    /\ denied' = [k \in Credentials |-> OneLess(denied[k])]
    /\ rowAge' = [k \in Credentials |-> IF rowAge[k] < Stalest THEN rowAge[k] + 1 ELSE Stalest]
    /\ call' = [c \in Callers |-> IF call[c].at \in Asking /\ call[c].age < LookupTimeout
                                   THEN [call[c] EXCEPT !.age = @ + 1] ELSE call[c]]
    /\ UNCHANGED <<row, commits, listener, flight, generation, slotsTaken, heard>>

---------------------------------------------------------------------------
(* A call: the caches, a lookup under way, or a lookup of its own.         *)

Finished(c, verdict, asOf) ==
    [NoCall EXCEPT !.at = "done", !.key = call[c].key, !.began = call[c].began,
                   !.verdict = verdict, !.asOf = asOf]

BeginCall(c, k) ==
    LET begun == [NoCall EXCEPT !.key = k, !.began = heard]
        ended(verdict, entry) ==
            [begun EXCEPT !.at = "done", !.verdict = verdict, !.asOf = entry.asOf]
    IN /\ call[c].at = "idle"
       /\ IF Fresh(granted[k])
          THEN /\ call' = [call EXCEPT ![c] = ended("granted", granted[k])]
               /\ UNCHANGED <<caches, flight>>
          ELSE /\ granted' = [granted EXCEPT ![k] = NoEntry]
               /\ IF Fresh(denied[k])
                  THEN /\ call' = [call EXCEPT ![c] = ended("denied", denied[k])]
                       /\ UNCHANGED <<denied, flight>>
                  ELSE /\ denied' = [denied EXCEPT ![k] = NoEntry]
                       /\ IF flight[k] # NoLeader
                          THEN /\ call' = [call EXCEPT ![c] = [begun EXCEPT !.at = "following", !.leader = flight[k]]]
                               /\ flight' = flight
                          ELSE /\ call' = [call EXCEPT ![c] = [begun EXCEPT !.at = "slot", !.leader = c, !.gen = generation]]
                               /\ flight' = [flight EXCEPT ![k] = c]
       /\ UNCHANGED <<controlPlane, generation, slotsTaken, listener, heard>>

AuthorizeReadBegins(c, k) == k \in ReadCredentials /\ BeginCall(c, k)
VerifyAuthorizationBegins(c, k) == k \in ObserverCredentials /\ BeginCall(c, k)

\* The caller's own context ends its wait; the leader goes on for the rest.
FollowerGivesUp(c) ==
    /\ call[c].at = "following"
    /\ call' = [call EXCEPT ![c] = Finished(c, "unavailable", 0)]
    /\ UNCHANGED <<controlPlane, caches, flight, generation, slotsTaken, listener, heard>>

AcquireLookupSlot(c) ==
    /\ call[c].at = "slot" /\ slotsTaken < QuerySlots
    /\ slotsTaken' = slotsTaken + 1
    /\ call' = [call EXCEPT ![c].at = "query"]
    /\ UNCHANGED <<controlPlane, caches, flight, generation, listener, heard>>

\* The view answers from the rows committed so far.
DatabaseAnswers(c) ==
    /\ call[c].at = "query"
    /\ call' = [call EXCEPT ![c].at = "fetched", ![c].was = row[call[c].key], ![c].asOf = commits]
    /\ UNCHANGED <<controlPlane, caches, flight, generation, slotsTaken, listener, heard>>

\* The lookup's own deadline, its caller's context or the database fails it.
Overdue(c) == call[c].age >= LookupTimeout

\* What a lookup returns: the row it read, unless it failed or was too late.
RunLookup(c) == IF call[c].at = "fetched" /\ ~Overdue(c) THEN call[c].was ELSE "failed"

\* The query slot of a lookup that got one goes back, however it ended.
ReleaseSlot(c) == IF call[c].at = "slot" THEN slotsTaken ELSE slotsTaken - 1

---------------------------------------------------------------------------
(* The leader stores its answer and hands it to those who waited for it.   *)

Pruned(cache) == [k \in Credentials |-> IF Fresh(cache[k]) THEN cache[k] ELSE NoEntry]

\* Any one entry of the method's full cache makes room.
StoredIn(cache, k, entry, limit) ==
    LET others == Entries(cache) \cap SameMethod(k)
    IN IF Cardinality(others) >= limit
       THEN {[cache EXCEPT ![gone] = NoEntry, ![k] = entry] : gone \in others}
       ELSE {[cache EXCEPT ![k] = entry]}

\* An entry lives for its TTL counted from before its lookup.
Lasting(c, ttl) == IF call[c].age < ttl THEN ttl - call[c].age ELSE 0

EntryOf(c, ttl) == [left |-> Lasting(c, ttl), asOf |-> call[c].asOf, was |-> call[c].was]

StoreGrant(c) ==
    /\ granted' \in StoredIn(Pruned(granted), call[c].key, EntryOf(c, GrantTTL), GrantLimit)
    /\ denied' = Pruned(denied)

\* Only a full negative cache is swept of what has expired, its own method's alone.
StoreDenial(c) ==
    LET k == call[c].key
        full == Cardinality(Entries(denied) \cap SameMethod(k)) >= DenialLimit
        swept == IF full THEN [j \in Credentials |->
                                 IF j \in SameMethod(k) THEN Pruned(denied)[j] ELSE denied[j]]
                 ELSE denied
    IN /\ denied' \in StoredIn(swept, k, EntryOf(c, DenialTTL), DenialLimit)
       /\ granted' = granted

\* Normalize and the station check of the row: a rejected row is an error, not a denial.
Verdict(was) == CASE was = "granted" -> "granted" [] was = "absent" -> "denied" [] OTHER -> "unavailable"

\* Mutant: a lookup that raced an invalidation is believed.
TrustedAlways(c) == TRUE
Trusted(c) == generation = call[c].gen

Followers(c) == {f \in Callers : call[f].at = "following" /\ call[f].leader = c}

Publish(c) ==
    LET verdict == IF Trusted(c) THEN Verdict(RunLookup(c)) ELSE "unavailable"
    IN /\ call[c].at \in {"slot", "query", "fetched"}
       /\ slotsTaken' = ReleaseSlot(c)
       /\ flight' = [flight EXCEPT ![call[c].key] = NoLeader]
       /\ CASE verdict = "granted" -> StoreGrant(c)
            [] verdict = "denied" -> StoreDenial(c)
            [] OTHER -> UNCHANGED caches
       /\ call' = [f \in Callers |-> IF f \in Followers(c) \cup {c} THEN Finished(f, verdict, call[c].asOf)
                                     ELSE call[f]]
       /\ UNCHANGED <<controlPlane, generation, listener, heard>>

AuthorizeReadEnds(c) == call[c].key \in ReadCredentials /\ Publish(c)
VerifyAuthorizationEnds(c) == call[c].key \in ObserverCredentials /\ Publish(c)

(* ReconcileObserver: a lookup past the caches, without a slot; a grant    *)
(* needs an unchanged generation, a denial does not.                       *)
ReconcileBegins(c, k) ==
    /\ call[c].at = "idle" /\ k \in ObserverCredentials
    /\ call' = [call EXCEPT ![c] = [NoCall EXCEPT !.at = "reconcile", !.key = k,
                                                   !.gen = generation, !.began = heard]]
    /\ UNCHANGED <<controlPlane, caches, flight, generation, slotsTaken, listener, heard>>

ReconcileFetches(c) ==
    /\ call[c].at = "reconcile"
    /\ \/ call' = [call EXCEPT ![c] = Finished(c, "unavailable", 0)]
       \/ /\ ~Overdue(c)
          /\ call' = [call EXCEPT ![c].at = "reconciled", ![c].was = row[call[c].key], ![c].asOf = commits]
    /\ UNCHANGED <<controlPlane, caches, flight, generation, slotsTaken, listener, heard>>

ReconcileEnds(c) ==
    /\ call[c].at = "reconciled"
    /\ LET verdict == CASE Overdue(c) -> "unavailable"
                        [] call[c].was = "granted" /\ ~Trusted(c) -> "unavailable"
                        [] OTHER -> Verdict(call[c].was)
       IN call' = [call EXCEPT ![c] = Finished(c, verdict, call[c].asOf)]
    /\ UNCHANGED <<controlPlane, caches, flight, generation, slotsTaken, listener, heard>>

---------------------------------------------------------------------------
(* Expiry and invalidation.                                                *)

RunCacheExpiry ==
    /\ granted' = Pruned(granted) /\ denied' = Pruned(denied)
    /\ UNCHANGED <<controlPlane, flight, generation, slotsTaken, call, listener, heard>>

InvalidateAll ==
    /\ granted' = [k \in Credentials |-> NoEntry] /\ denied' = [k \in Credentials |-> NoEntry]
    /\ generation' = generation + 1
    /\ heard' = commits

ListenStarts ==
    /\ listener.at = "down"
    /\ InvalidateAll
    /\ listener' = [listener EXCEPT !.at = "up", !.notices = 0]
    /\ UNCHANGED <<controlPlane, flight, slotsTaken, call>>

NotificationArrives ==
    /\ listener.at = "up" /\ listener.notices > 0
    /\ InvalidateAll
    /\ listener' = [listener EXCEPT !.notices = @ - 1]
    /\ UNCHANGED <<controlPlane, flight, slotsTaken, call>>

\* Acquire or LISTEN fails, or an established connection is lost with what it had not delivered.
ListenerFails ==
    /\ listener.at \in {"down", "up"} /\ listener.faults < MaxListenFaults
    /\ listener' = [at |-> "waiting", notices |-> 0, faults |-> listener.faults + 1]
    /\ UNCHANGED <<controlPlane, caches, flight, generation, slotsTaken, call, heard>>

\* The pause is over; how long it was is left out.
ListenerRetries ==
    /\ listener.at = "waiting" /\ listener' = [listener EXCEPT !.at = "down"]
    /\ UNCHANGED <<controlPlane, caches, flight, generation, slotsTaken, call, heard>>

AuthorizationNext ==
    \/ AuthorizationTick \/ RunCacheExpiry \/ ListenStarts \/ NotificationArrives
    \/ ListenerFails \/ ListenerRetries
    \/ \E k \in Credentials : ControlPlaneCommits(k)
    \/ \E c \in Callers :
         \/ \E k \in Credentials :
              AuthorizeReadBegins(c, k) \/ VerifyAuthorizationBegins(c, k) \/ ReconcileBegins(c, k)
         \/ FollowerGivesUp(c) \/ AcquireLookupSlot(c) \/ DatabaseAnswers(c)
         \/ AuthorizeReadEnds(c) \/ VerifyAuthorizationEnds(c)
         \/ ReconcileFetches(c) \/ ReconcileEnds(c)

AuthorizationSpec == AuthorizationInit /\ [][AuthorizationNext]_authVars

---------------------------------------------------------------------------
RowStates == {"granted", "absent", "broken"}
EntryType == [left : Nat, asOf : Nat, was : RowStates \cup {"none"}]
CallType ==
    [at : Asking \cup {"idle", "following", "done"}, key : Credentials \cup {NoLeader}, age : Nat,
     leader : Callers \cup {NoLeader}, gen : Nat, began : Nat,
     verdict : {"none", "granted", "denied", "unavailable"}, asOf : Nat, was : RowStates \cup {"none"}]
ListenerType == [at : {"down", "up", "waiting"}, notices : Nat, faults : 0..MaxListenFaults]

CacheTypeOK ==
    /\ row \in [Credentials -> RowStates] /\ rowAge \in [Credentials -> 0..Stalest] /\ commits \in 0..MaxCommits
    /\ granted \in [Credentials -> EntryType] /\ denied \in [Credentials -> EntryType]
    /\ flight \in [Credentials -> Callers \cup {NoLeader}]
    /\ generation \in Nat /\ slotsTaken \in Nat /\ heard \in 0..commits
    /\ call \in [Callers -> CallType]
    /\ listener \in ListenerType

(* A verdict given to a caller is the control plane's answer at a moment   *)
(* no earlier than the last invalidation handled before the call began: a  *)
(* cached entry, a shared lookup or a reconciliation never brings back     *)
(* what a notification has already cleared.                                *)
VerdictsPostdateInvalidation ==
    \A c \in Callers : call[c].at = "done" /\ call[c].verdict # "unavailable" => call[c].asOf >= call[c].began

(* What the caches hold postdates the last invalidation.                   *)
CachesPostdateInvalidation ==
    \A k \in Credentials :
        /\ granted[k] # NoEntry => granted[k].asOf >= heard
        /\ denied[k] # NoEntry => denied[k].asOf >= heard

(* Without any notification the TTL bounds stale authority: a verdict that *)
(* the control plane no longer agrees with was withdrawn less than the TTL *)
(* (or one lookup) before it is given.                                     *)
TTLBoundsStaleness ==
    [][\A c \in Callers :
         LET k == call'[c].key IN
         /\ call[c].at # "done" /\ call'[c].at = "done"
         /\ \/ call'[c].verdict = "granted" /\ row[k] # "granted"
            \/ call'[c].verdict = "denied" /\ row[k] = "granted"
         => rowAge[k] < Stalest]_authVars

(* A failed lookup or a rejected row is never cached as authority: a cached *)
(* denial is the control plane's own "no such grant".                      *)
OnlyAuthorityIsCached ==
    \A k \in Credentials : granted[k].was \in {"none", "granted"} /\ denied[k].was \in {"none", "absent"}

(* The negative and positive maps of each method stay within their budgets *)
(* and a query slot is held exactly by the lookups that query.             *)
BudgetsHold ==
    /\ \A m \in {ReadCredentials, ObserverCredentials} :
         /\ Cardinality(Entries(granted) \cap m) <= GrantLimit
         /\ Cardinality(Entries(denied) \cap m) <= DenialLimit
    /\ slotsTaken = Cardinality({c \in Callers : call[c].at \in {"query", "fetched"}})

(* Nobody waits for a lookup that has ended: a lookup in the table has its *)
(* leader at work, and so has every follower.                              *)
FlightsHaveLeaders ==
    /\ \A k \in Credentials : flight[k] # NoLeader =>
         call[flight[k]].at \in {"slot", "query", "fetched"} /\ call[flight[k]].key = k
    /\ \A c \in Callers : call[c].at = "following" => flight[call[c].key] = call[c].leader

\* No verdict is older than an invalidation or than the TTL, only the control
\* plane's own word is kept, and every lookup is accounted for (Provider).
CacheIsSound ==
    /\ [](/\ CacheTypeOK
          /\ VerdictsPostdateInvalidation
          /\ CachesPostdateInvalidation
          /\ OnlyAuthorityIsCached
          /\ BudgetsHold
          /\ FlightsHaveLeaders)
    /\ TTLBoundsStaleness

=============================================================================

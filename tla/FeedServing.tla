----------------------------- MODULE FeedServing -----------------------------
(***************************************************************************)
(* The request path of the v2 API (internal/serve) for one audience.       *)
(*                                                                         *)
(* The ticker and the requests render feeds from the live store, share one *)
(* cache entry, and write while a policy transition resets the store,      *)
(* advances the audience's generation, closes connections and clears the   *)
(* cache.  A body is the pair of store generations its first and its last  *)
(* read saw.                                                               *)
(***************************************************************************)
EXTENDS Integers, FiniteSets, Sequences, FiniteSetsExt

CONSTANTS
    Requests,       \* request handlers
    RenderTries,    \* attempts of buildFeed
    MaxWithdrawals, \* bound: policy transitions
    MaxRefreshes,   \* bound: ticker refreshes
    MaxEncodeFails  \* bound: feeds that cannot be encoded

ASSUME FeedAssumption ==
    /\ RenderTries \in Nat \ {0}
    /\ {MaxWithdrawals, MaxRefreshes, MaxEncodeFails} \subseteq Nat
    /\ "ticker" \notin Requests

VARIABLES
    listener,   \* how the listener is configured
    feedEpoch,  \* PolicyEpochs: the audience's generation
    liveGen,    \* state.Store.Generation of the audience's store
    withdrawal, \* the step of the policy transition in progress
    cache,      \* Server.cache[key]: <<>> or one entry
    renderLock, \* Server.rendering[key]: its holder, or "free"
    build,      \* the render in progress of the ticker and of every request
    req,        \* the request handlers
    refreshes, encodeFails

feedPolicyVars == <<listener, feedEpoch, liveGen, withdrawal>>
feedCacheVars == <<cache, renderLock, build>>
feedBounds == <<refreshes, encodeFails>>
feedVars == <<feedPolicyVars, feedCacheVars, req, feedBounds>>

Builders == Requests \cup {"ticker"}

\* The configurations main.go builds, and the questions a request can put.
Listeners ==
    {[default |-> "public", readAuth |-> TRUE, unauthenticated |-> FALSE]}
    \cup {[default |-> "private", readAuth |-> a, unauthenticated |-> u] : a \in BOOLEAN, u \in BOOLEAN}
Questions == [audience : {"default", "team", "malformed"},
              token : {"none", "unknown", "ungranted", "granted"}]

NoBuild == [at |-> "idle", state |-> 0, epoch |-> 0, gen |-> 0, lo |-> 0, tries |-> 0]
NoRequest == [at |-> "idle", gen |-> 0, conn |-> FALSE, private |-> FALSE,
              body |-> <<>>, granted |-> FALSE]

FeedInit ==
    /\ listener \in Listeners
    /\ feedEpoch = 0 /\ liveGen = 0 /\ withdrawal = "idle"
    /\ cache = <<>> /\ renderLock = "free"
    /\ build = [p \in Builders |-> NoBuild]
    /\ req = [r \in Requests |-> NoRequest]
    /\ refreshes = 0 /\ encodeFails = 0

-----------------------------------------------------------------------------
(* The policy transition, in the order of scopeController.Apply. *)

WithdrawReset ==
    /\ withdrawal = "idle" /\ liveGen < MaxWithdrawals
    /\ liveGen' = liveGen + 1 /\ withdrawal' = "advance"
    /\ UNCHANGED <<listener, feedEpoch, feedCacheVars, req, feedBounds>>

WithdrawAdvance ==
    /\ withdrawal = "advance"
    /\ feedEpoch' = feedEpoch + 1 /\ withdrawal' = "deliveries"
    /\ UNCHANGED <<listener, liveGen, feedCacheVars, req, feedBounds>>

\* invalidateDeliveries: every registered response's connection is closed.
WithdrawDeliveries ==
    /\ withdrawal = "deliveries" /\ withdrawal' = "cache"
    /\ req' = [r \in Requests |-> [req[r] EXCEPT !.conn = FALSE]]
    /\ UNCHANGED <<listener, feedEpoch, liveGen, feedCacheVars, feedBounds>>

WithdrawCache ==
    /\ withdrawal = "cache" /\ withdrawal' = "idle"
    /\ cache' = <<>>
    /\ UNCHANGED <<listener, feedEpoch, liveGen, renderLock, build, req, feedBounds>>

-----------------------------------------------------------------------------
(* Rendering: render, buildFeed, buildFeedOnce. *)

\* Mutant: the body is built once and its generation never compared.
BuildDoneUnchecked(b) == TRUE

\* buildFeed keeps a body only if the store was not reset while it was built.
BuildDone(b) == b.gen = liveGen

\* buildFeedOnce begins: the generation, and the first read.
BuildOnce(p) ==
    /\ build[p].at = "start"
    /\ build' = [build EXCEPT ![p].at = "built", ![p].gen = liveGen, ![p].lo = liveGen,
                              ![p].tries = @ + 1]
    /\ UNCHANGED <<feedPolicyVars, cache, renderLock, req, feedBounds>>

\* The last read of the store and the comparison; a body, another try, or an error.
BuildCheck(p) ==
    /\ build[p].at = "built"
    /\ build' = [build EXCEPT ![p].at = IF BuildDone(build[p]) THEN "ok"
                                        ELSE IF build[p].tries < RenderTries THEN "start"
                                        ELSE "error"]
    /\ req' = IF p \in Requests /\ BuildDone(build[p])
              THEN [req EXCEPT ![p].body = <<build[p].lo, liveGen>>] ELSE req
    /\ UNCHANGED <<feedPolicyVars, cache, renderLock, feedBounds>>

BuildFails(p) ==
    /\ build[p].at = "built" /\ encodeFails < MaxEncodeFails
    /\ encodeFails' = encodeFails + 1
    /\ build' = [build EXCEPT ![p].at = "error"]
    /\ UNCHANGED <<feedPolicyVars, cache, renderLock, req, refreshes>>

\* render notes both generations before it builds.
Rendering == [NoBuild EXCEPT !.at = "start", !.state = liveGen, !.epoch = feedEpoch]

\* render's admission under IfCurrent.
Admissible(b) == b.epoch = feedEpoch /\ b.state = liveGen

Entry(b, body) == [body |-> body, epoch |-> b.epoch, state |-> b.state]

\* cachedBody: an entry of the delivery's policy and the store's generation.
CachedBody(epoch) ==
    cache # <<>> /\ cache[1].epoch = epoch /\ cache[1].state = liveGen

\* The ticker's refresh.
RefreshStart ==
    /\ build["ticker"].at = "idle" /\ renderLock = "free" /\ refreshes < MaxRefreshes
    /\ refreshes' = refreshes + 1 /\ renderLock' = "ticker"
    /\ build' = [build EXCEPT !["ticker"] = Rendering]
    /\ UNCHANGED <<feedPolicyVars, cache, req, encodeFails>>

\* A failed render leaves the previous bytes in place.
RefreshEnd ==
    /\ build["ticker"].at \in {"ok", "error"}
    /\ cache' = IF build["ticker"].at = "ok" /\ Admissible(build["ticker"])
                THEN <<Entry(build["ticker"], <<build["ticker"].lo, build["ticker"].gen>>)>>
                ELSE cache
    /\ renderLock' = "free" /\ build' = [build EXCEPT !["ticker"] = NoBuild]
    /\ UNCHANGED <<feedPolicyVars, req, feedBounds>>

\* SnapshotFeeds: the warmed entry, if it is current, goes to the historian.
SnapshotFeeds == IF CachedBody(feedEpoch) THEN cache[1].body ELSE <<>>

-----------------------------------------------------------------------------
(* A request: resolveRequestView, serveFeed. *)

\* resolveRequestView: what the listener makes of the audience and the credential.
\* The team's view is not materialized on this listener.
ResolveView(l, q) ==
    LET selected == IF q.audience = "default" THEN l.default ELSE q.audience
    IN  CASE q.audience = "malformed" -> "refused"
          [] q.audience # "malformed" /\ selected = "public" -> "anonymous"
          [] q.audience # "malformed" /\ selected # "public" /\ ~l.readAuth ->
               IF q.audience = "default" /\ l.unauthenticated THEN "anonymous" ELSE "refused"
          [] OTHER -> IF q.token = "granted" /\ q.audience = "default" THEN "principal" ELSE "refused"

\* The view is resolved, then beginDelivery registers the connection.
RequestBegins(r, q) ==
    /\ req[r].at = "idle"
    /\ req' = [req EXCEPT ![r] =
         IF ResolveView(listener, q) = "refused" THEN [NoRequest EXCEPT !.at = "answered"]
         ELSE [NoRequest EXCEPT !.at = IF ResolveView(listener, q) = "principal"
                                       THEN "scoped" ELSE "lookup",
                                !.gen = feedEpoch, !.conn = TRUE,
                                !.private = listener.default = "private",
                                !.granted = q.token = "granted"]]
    /\ UNCHANGED <<feedPolicyVars, feedCacheVars, feedBounds>>

\* A request that carries a principal is rendered for itself.
ScopedStart(r) ==
    /\ req[r].at = "scoped"
    /\ req' = [req EXCEPT ![r].at = "rendering"]
    /\ build' = [build EXCEPT ![r] = Rendering]
    /\ UNCHANGED <<feedPolicyVars, cache, renderLock, feedBounds>>

\* The cache; its age may also be over the feed's cacheTTL.
Lookup(r) ==
    /\ req[r].at = "lookup"
    /\ req' = [req EXCEPT ![r] =
         IF CachedBody(req[r].gen) THEN [@ EXCEPT !.at = "check", !.body = cache[1].body]
         ELSE [@ EXCEPT !.at = "lock"]]
    /\ UNCHANGED <<feedPolicyVars, feedCacheVars, feedBounds>>

EntryExpired(r) ==
    /\ req[r].at = "lookup"
    /\ req' = [req EXCEPT ![r].at = "lock"]
    /\ UNCHANGED <<feedPolicyVars, feedCacheVars, feedBounds>>

\* Single flight: the lock, and the cache again.
RenderLock(r) ==
    /\ req[r].at = "lock" /\ renderLock = "free"
    /\ \/ /\ CachedBody(req[r].gen)
          /\ req' = [req EXCEPT ![r].at = "check", ![r].body = cache[1].body]
          /\ UNCHANGED <<renderLock, build>>
       \/ /\ req' = [req EXCEPT ![r].at = "rendering"]
          /\ renderLock' = r
          /\ build' = [build EXCEPT ![r] = Rendering]
    /\ UNCHANGED <<feedPolicyVars, cache, feedBounds>>

\* The render of a request ends: admission, and for a shared view the cache
\* once more; a view with a principal keeps its own body.
RenderEnd(r) ==
    /\ req[r].at = "rendering" /\ build[r].at \in {"ok", "error"}
    /\ cache' = IF renderLock = r /\ build[r].at = "ok" /\ Admissible(build[r])
                THEN <<Entry(build[r], req[r].body)>> ELSE cache
    /\ req' = [req EXCEPT ![r].at =
         IF renderLock = r THEN "recheck" ELSE IF build[r].at = "ok" THEN "check" ELSE "answered"]
    /\ build' = [build EXCEPT ![r] = NoBuild]
    /\ UNCHANGED <<feedPolicyVars, renderLock, feedBounds>>

\* lockRender's holder looks into the cache once more and lets go.
Recheck(r) ==
    /\ req[r].at = "recheck"
    /\ renderLock' = "free"
    /\ req' = [req EXCEPT ![r] =
         IF CachedBody(req[r].gen) THEN [@ EXCEPT !.at = "check", !.body = cache[1].body]
         ELSE [@ EXCEPT !.at = "answered", !.body = <<>>]]
    /\ UNCHANGED <<feedPolicyVars, cache, build, feedBounds>>

\* responseDelivery.current.
DeliveryCurrent(r) == req[r].gen = feedEpoch

\* responseDelivery.write: the check ...
WriteCheck(r) ==
    /\ req[r].at = "check"
    /\ req' = [req EXCEPT ![r] = IF DeliveryCurrent(r) THEN [@ EXCEPT !.at = "write"]
                                 ELSE [@ EXCEPT !.at = "answered", !.body = <<>>]]
    /\ UNCHANGED <<feedPolicyVars, feedCacheVars, feedBounds>>

\* ... and the bytes, which a closed connection does not take.
WriteBody(r) ==
    /\ req[r].at = "write"
    /\ req' = [req EXCEPT ![r].at = "sent",
                          ![r].body = IF req[r].conn THEN @ ELSE <<>>]
    /\ UNCHANGED <<feedPolicyVars, feedCacheVars, feedBounds>>

DeliveryFinish(r) ==
    /\ req[r].at = "sent"
    /\ req' = [req EXCEPT ![r].at = "answered", ![r].body = <<>>]
    /\ UNCHANGED <<feedPolicyVars, feedCacheVars, feedBounds>>

RequestStep(r) ==
    \/ ScopedStart(r) \/ Lookup(r) \/ EntryExpired(r) \/ RenderLock(r) \/ RenderEnd(r)
    \/ Recheck(r) \/ WriteCheck(r) \/ WriteBody(r) \/ DeliveryFinish(r)

BuildStep(p) == BuildOnce(p) \/ BuildCheck(p)

FeedNext ==
    \/ WithdrawReset \/ WithdrawAdvance \/ WithdrawDeliveries \/ WithdrawCache
    \/ RefreshStart \/ RefreshEnd
    \/ \E p \in Builders : BuildStep(p) \/ BuildFails(p)
    \/ \E r \in Requests : RequestStep(r) \/ \E q \in Questions : RequestBegins(r, q)

FeedSpec == FeedInit /\ [][FeedNext]_feedVars

-----------------------------------------------------------------------------
(* Properties *)

\* Every body sent was rendered from one state of the store: a reset during the
\* render never mixes withdrawn data with new (buildFeed, render, cachedBody).
BodiesNeverMix ==
    /\ \A r \in Requests : req[r].at = "sent" /\ req[r].body # <<>> =>
                              req[r].body[1] = req[r].body[2]
    /\ cache # <<>> => cache[1].body = <<cache[1].state, cache[1].state>>
    /\ SnapshotFeeds # <<>> => SnapshotFeeds[1] >= feedEpoch

\* Once the connections of a withdrawn audience are closed no response carries
\* what the policy withdrew, whether it came from the cache, a render that was
\* under way, or its own (responseDelivery, IfCurrent).
WithdrawnNeverServed ==
    [][\A r \in Requests :
         (req[r].at = "write" /\ req'[r].at = "sent" /\ req'[r].body # <<>>) =>
             req[r].body[1] >= feedEpoch \/ withdrawal = "deliveries"]_feedVars

\* A private body reaches only a reader whose credential is granted it, or one of
\* a listener that opted out, and never through the shared cache of another
\* reader's request (resolveRequestView, serveFeed).
PrivateNeedsGrant ==
    \A r \in Requests : req[r].at = "sent" /\ req[r].body # <<>> /\ req[r].private =>
        req[r].granted \/ (listener.unauthenticated /\ ~listener.readAuth)

\* Single flight never wedges: the render lock of a feed is held only by someone
\* whose render goes on or is about to give it back, on every return (lockRender).
RenderLockReturns ==
    renderLock # "free" =>
        \/ build[renderLock].at # "idle"
        \/ renderLock \in Requests /\ req[renderLock].at = "recheck"

\* A body is of one state of the store, goes to a reader who may have it and
\* not after it was withdrawn, and the render lock comes back (serveFeed).
FeedIsSound ==
    /\ [](BodiesNeverMix /\ PrivateNeedsGrant /\ RenderLockReturns)
    /\ WithdrawnNeverServed

=============================================================================

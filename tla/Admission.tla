----------------------------- MODULE Admission -----------------------------
(***************************************************************************)
(* Who may contribute to the live picture, and since when:                 *)
(* go/internal/ingest/admission.go and reconcile.go, the calls push.go     *)
(* makes to them (handle, watchAuthorization), and the decode loop that    *)
(* obeys them (decodeLoop and scopeController.Apply in main.go).           *)
(*                                                                         *)
(* A policy object per observer carries a generation.  When the control    *)
(* plane's answer for the observer changes, a transition raises the        *)
(* generation, cancels the sessions of the old one and puts a reset marker *)
(* into the decode channel.  Handshakes, per-session watchers and the      *)
(* reconciliation sweep race for these transitions; each decides under the *)
(* policy's lock and sends its marker after it has released it.            *)
(***************************************************************************)
EXTENDS Integers, Sequences, FiniteSets

CONSTANTS
    Observers,
    Contexts,       \* ObserverContexts told apart by AuthorizationEqual
    NoContext,      \* the empty ObserverContext: not authorised
    Conns,          \* connections, reused when handler and watcher are gone
    MaxObjects,     \* bound: policy objects ever created
    MaxPolicies,    \* maxTrackedObserverPolicies
    MaxSessions,    \* maxObserverSessions
    OutMax,         \* capacity of the decode channel
    MaxChanges,     \* bound: changes at the control plane, ageing included
    MaxOutages      \* bound: rechecks the control plane cannot answer

ASSUME AdmissionAssumption ==
    /\ Observers # {} /\ NoContext \notin Contexts
    /\ {MaxObjects, MaxPolicies, MaxSessions, OutMax} \subseteq Nat \ {0}
    /\ MaxChanges \in Nat /\ MaxOutages \in Nat

Objects == 1..MaxObjects

VARIABLES
    authority,  \* the control plane's current answer per observer
    changes,
    outages,
    table,      \* p.policies: observer to policy object, 0 when untracked
    made,       \* policy objects created
    policy,     \* the observerPolicy objects
    conn,       \* handler of each connection, inside handshake, admit or stream
    watch,      \* watchAuthorization of each connection
    tasks,      \* reconcileOnce: retained contributors of the sweep under way
    out,        \* decode channel
    inHand,     \* decodeLoop: the record that passed Current, not yet applied
    live,       \* contributions in the live audiences
    stopped     \* the daemon's context has ended

environment == <<authority, changes, outages>>
policies == <<table, made, policy>>
actors == <<conn, watch, tasks>>
pipeline == <<out, inHand, live>>

admissionVars == <<environment, policies, actors, pipeline, stopped>>

Anyone == CHOOSE o \in Observers : TRUE

\* known: credentials is not empty; pending: transition is not nil; aged:
\* lastAdmitted lies before the retention window, as the zero time does.
NewPolicy == [gen |-> 0, current |-> NoContext, sessions |-> {}, known |-> FALSE,
              pending |-> FALSE, aged |-> TRUE]

\* fresh is history: no transition of the observer since the lookup began.
Off == [pc |-> "off", obs |-> Anyone, ctx |-> NoContext, looked |-> 0, obj |-> 0,
        gen |-> 0, cancelled |-> FALSE, hold |-> FALSE, fresh |-> TRUE]

NoWatch == [pc |-> "off", obs |-> Anyone, obj |-> 0, gen |-> 0, ctx |-> NoContext]

NoRecord == [kind |-> "none"]

Data(o, p, g, c) == [kind |-> "data", obs |-> o, obj |-> p, gen |-> g, ctx |-> c]

\* The marker of the transition of object p to generation g; only Previous is
\* in the code's record, the other fields are history.
Marker(o, p, g, previous) ==
    [kind |-> "marker", obs |-> o, obj |-> p, gen |-> g, ctx |-> previous]

AdmissionInit ==
    /\ authority \in [Observers -> Contexts \cup {NoContext}]
    /\ changes = 0 /\ outages = 0
    /\ table = [o \in Observers |-> 0]
    /\ made = 0
    /\ policy = [p \in Objects |-> NewPolicy]
    /\ conn = [c \in Conns |-> Off]
    /\ watch = [c \in Conns |-> NoWatch]
    /\ tasks = {}
    /\ out = <<>> /\ inHand = NoRecord /\ live = {}
    /\ stopped = FALSE

-----------------------------------------------------------------------------
(* Transitions.                                                            *)

\* beginTransitionLocked
Begun(p, c) ==
    [policy EXCEPT ![p].gen = @ + 1, ![p].current = c, ![p].sessions = {},
                   ![p].known = FALSE, ![p].pending = TRUE]

\* Every older session is cancelled; lookups under way are no longer fresh.
Cancelled(p, o) ==
    [c \in Conns |->
        [conn[c] EXCEPT !.cancelled = @ \/ c \in policy[p].sessions,
                        !.fresh = @ /\ conn[c].obs # o]]

\* Mutant: the marker is forgotten when a session of the new generation could
\* already be waiting for the transition to end.
CompletedUnmarked(p, m) ==
    /\ policy' = [policy EXCEPT ![p].pending = FALSE]
    /\ UNCHANGED out

\* completeTransition: the marker is in the channel, or the daemon stops; only
\* then is the pending transition cleared and every waiting admission woken.
Completed(p, m) ==
    /\ \/ Len(out) < OutMax /\ out' = Append(out, m)
       \/ stopped /\ UNCHANGED out
    /\ policy' = [policy EXCEPT ![p].pending = FALSE]

-----------------------------------------------------------------------------
(* The handshake of one connection.                                        *)

\* handshake reads the generation before it asks the control plane.
Hello(c, o) ==
    /\ ~stopped
    /\ conn[c] = Off
    /\ watch[c] = NoWatch
    /\ conn' = [conn EXCEPT ![c] = [Off EXCEPT
                   !.pc = "lookup", !.obs = o,
                   !.looked = IF table[o] = 0 THEN 0 ELSE policy[table[o]].gen]]
    /\ UNCHANGED <<environment, policies, watch, tasks, pipeline, stopped>>

\* authorize answers.
Resolve(c) ==
    /\ conn[c].pc = "lookup"
    /\ LET answer == authority[conn[c].obs]
       IN  conn' = [conn EXCEPT ![c] = IF answer = NoContext THEN Off
                        ELSE [@ EXCEPT !.pc = "find", !.ctx = answer]]
    /\ UNCHANGED <<environment, policies, watch, tasks, pipeline, stopped>>

Tracked(t) == {o \in Observers : t[o] # 0}

\* reclaimIdlePoliciesLocked
Reclaimed ==
    [o \in Observers |->
        IF table[o] # 0 /\ policy[table[o]].sessions = {} /\ policy[table[o]].aged
        THEN 0 ELSE table[o]]

\* admit under authorizationMu: the observer's policy object is looked up or
\* created; at the ceiling, idle ones are reclaimed first.
FindPolicy(c) ==
    /\ conn[c].pc = "find"
    /\ LET o == conn[c].obs
           full == Cardinality(Tracked(table)) >= MaxPolicies
           kept == IF full THEN Reclaimed ELSE table
       IN  \/ /\ table[o] # 0
              /\ conn' = [conn EXCEPT ![c].pc = "loop", ![c].obj = table[o]]
              /\ UNCHANGED policies
           \/ /\ table[o] = 0
              /\ Cardinality(Tracked(kept)) < MaxPolicies
              /\ made < MaxObjects
              /\ made' = made + 1
              /\ table' = [kept EXCEPT ![o] = made + 1]
              /\ conn' = [conn EXCEPT ![c].pc = "loop", ![c].obj = made + 1]
              /\ UNCHANGED policy
           \/ /\ table[o] = 0                             \* "observer_ceiling"
              /\ Cardinality(Tracked(kept)) >= MaxPolicies
              /\ table' = kept
              /\ conn' = [conn EXCEPT ![c] = Off]
              /\ UNCHANGED <<made, policy>>
    /\ UNCHANGED <<environment, watch, tasks, pipeline, stopped>>

\* Mutant: only the context is compared, not the generation of the lookup.
StaleByContextOnly(c) == FALSE

\* A lookup begun before another transition cannot undo it.
Stale(c) ==
    LET p == policy[conn[c].obj]
    IN  p.gen # conn[c].looked /\ p.current # conn[c].ctx

\* Some transition of the policy is still enqueueing its marker.
Pending(c) == policy[conn[c].obj].pending

\* The observer has all the sessions it may have.
Crowded(c) == Cardinality(policy[conn[c].obj].sessions) >= MaxSessions

\* The refusals of admit's loop.
AdmitRefused(c) ==
    /\ conn[c].pc = "loop"
    /\ \/ stopped                                         \* "canceled"
       \/ Stale(c)                                        \* "stale_lookup"
    /\ conn' = [conn EXCEPT ![c] = Off]
    /\ UNCHANGED <<environment, policies, watch, tasks, pipeline, stopped>>

\* Another transition is still enqueueing its marker: wait off the lock.
AdmitWait(c) ==
    /\ conn[c].pc = "loop"
    /\ ~stopped /\ ~Stale(c)
    /\ Pending(c)
    /\ conn' = [conn EXCEPT ![c].pc = "await", ![c].gen = policy[conn[c].obj].gen]
    /\ UNCHANGED <<environment, policies, watch, tasks, pipeline, stopped>>

\* awaitPending returns.
AwaitDone(c) ==
    /\ conn[c].pc = "await"
    /\ LET p == policy[conn[c].obj]
       IN  \/ /\ ~p.pending \/ p.gen # conn[c].gen
              /\ conn' = [conn EXCEPT ![c].pc = "loop"]
           \/ /\ stopped
              /\ conn' = [conn EXCEPT ![c] = Off]
    /\ UNCHANGED <<environment, policies, watch, tasks, pipeline, stopped>>

\* The session's context replaces a different one.
AdmitTransition(c) ==
    /\ conn[c].pc = "loop"
    /\ ~stopped /\ ~Stale(c)
    /\ ~Pending(c)
    /\ LET p == policy[conn[c].obj]
       IN  p.gen # 0 /\ p.current # conn[c].ctx
    /\ policy' = Begun(conn[c].obj, conn[c].ctx)
    /\ conn' = [Cancelled(conn[c].obj, conn[c].obs) EXCEPT
                   ![c].pc = "marker",
                   ![c].gen = policy[conn[c].obj].gen + 1]
    /\ watch' = [watch EXCEPT ![c].ctx = policy[conn[c].obj].current]
    /\ UNCHANGED <<environment, table, made, tasks, pipeline, stopped>>

\* The marker this handshake owes.
ConnMarker(c) == Marker(conn[c].obs, conn[c].obj, conn[c].gen, watch[c].ctx)

\* Its marker is in, or the daemon stops ("reset_blocked").
AdmitMarker(c) ==
    /\ conn[c].pc = "marker"
    /\ Completed(conn[c].obj, ConnMarker(c))
    /\ conn' = [conn EXCEPT ![c] = IF out' = out THEN Off
                                   ELSE [@ EXCEPT !.pc = "loop"]]
    /\ watch' = [watch EXCEPT ![c] = NoWatch]
    /\ UNCHANGED <<environment, table, made, tasks, inHand, live, stopped>>

\* The loop ends: the session is admitted, unless the observer has too many.
AdmitOpen(c) ==
    /\ conn[c].pc = "loop"
    /\ ~stopped /\ ~Stale(c)
    /\ ~Pending(c)
    /\ LET p == policy[conn[c].obj]
           gen == IF p.gen = 0 THEN 1 ELSE p.gen
           first == p.gen = 0
       IN  /\ first \/ p.current = conn[c].ctx
           /\ IF Crowded(c)
              THEN /\ conn' = [conn EXCEPT ![c] = Off]    \* "observer_sessions"
                   /\ UNCHANGED <<policy, watch>>
              ELSE /\ policy' = [policy EXCEPT ![conn[c].obj] =
                         [p EXCEPT !.gen = gen, !.current = conn[c].ctx,
                                   !.sessions = @ \cup {c}, !.known = TRUE,
                                   !.aged = FALSE]]
                   /\ conn' = [d \in Conns |->
                         IF d = c
                         THEN [conn[c] EXCEPT !.pc = "open", !.gen = gen]
                         ELSE [conn[d] EXCEPT
                                 !.fresh = @ /\ ~(first /\ conn[d].obs = conn[c].obs)]]
                   /\ watch' = [watch EXCEPT ![c] =
                         [pc |-> "idle", obs |-> conn[c].obs, obj |-> conn[c].obj,
                          gen |-> gen, ctx |-> NoContext]]
    /\ UNCHANGED <<environment, table, made, tasks, pipeline, stopped>>

-----------------------------------------------------------------------------
(* The session.                                                            *)

\* stream reads a record; it looks at its context before each read only.
ReadRecord(c) ==
    /\ conn[c].pc = "open"
    /\ ~conn[c].cancelled /\ ~stopped
    /\ ~conn[c].hold
    /\ conn' = [conn EXCEPT ![c].hold = TRUE]
    /\ UNCHANGED <<environment, policies, watch, tasks, pipeline, stopped>>

\* The select of the send may still win after the cancellation.
Forward(c) ==
    /\ conn[c].pc = "open"
    /\ conn[c].hold
    /\ Len(out) < OutMax
    /\ out' = Append(out, Data(conn[c].obs, conn[c].obj, conn[c].gen, conn[c].ctx))
    /\ conn' = [conn EXCEPT ![c].hold = FALSE]
    /\ UNCHANGED <<environment, policies, watch, tasks, inHand, live, stopped>>

\* The stream returns and release gives the place back; the watcher's context
\* ends with it, unless its check has just returned.
EndSession(c) ==
    /\ conn[c].pc = "open"
    /\ conn' = [conn EXCEPT ![c] = Off]
    /\ policy' = [policy EXCEPT ![conn[c].obj].sessions = @ \ {c}]
    /\ watch' = [watch EXCEPT ![c] = IF @.pc = "idle" THEN NoWatch ELSE @]
    /\ UNCHANGED <<environment, table, made, tasks, pipeline, stopped>>

\* watchAuthorization: the recheck answers something else than the session was
\* admitted with, while the session still lives.
Recheck(c) ==
    /\ watch[c].pc = "idle"
    /\ conn[c].pc = "open" /\ ~conn[c].cancelled
    /\ \/ /\ authority[conn[c].obs] # conn[c].ctx
          /\ watch' = [watch EXCEPT ![c].pc = "decided",
                                    ![c].ctx = authority[conn[c].obs]]
          /\ UNCHANGED outages
       \/ /\ outages < MaxOutages                 \* unverifiable past the bound
          /\ outages' = outages + 1
          /\ watch' = [watch EXCEPT ![c].pc = "decided", ![c].ctx = NoContext]
    /\ UNCHANGED <<authority, changes, policies, conn, tasks, pipeline, stopped>>

\* Admission.Current
Current(p, g) == policy[p].gen = g

\* changeAdmission from a watcher: a late one is not new authority.
WatchChange(c) ==
    /\ watch[c].pc = "decided"
    /\ LET p == watch[c].obj
       IN  IF Current(p, watch[c].gen)
           THEN /\ policy' = Begun(p, watch[c].ctx)
                /\ conn' = Cancelled(p, watch[c].obs)
                /\ watch' = [watch EXCEPT ![c].pc = "marker",
                                ![c].gen = policy[p].gen + 1,
                                ![c].ctx = policy[p].current]
           ELSE /\ watch' = [watch EXCEPT ![c] = NoWatch]
                /\ UNCHANGED <<policy, conn>>
    /\ UNCHANGED <<environment, table, made, tasks, pipeline, stopped>>

WatcherMarker(c) == Marker(watch[c].obs, watch[c].obj, watch[c].gen, watch[c].ctx)

WatchMarker(c) ==
    /\ watch[c].pc = "marker"
    /\ Completed(watch[c].obj, WatcherMarker(c))
    /\ watch' = [watch EXCEPT ![c] = NoWatch]
    /\ UNCHANGED <<environment, table, made, conn, tasks, inHand, live, stopped>>

-----------------------------------------------------------------------------
(* reconcileOnce: one sweep over the retained contributors.                *)

\* Mutant: an observer without a live session is not looked at.
RetainedConnected ==
    {[obs |-> o, obj |-> table[o], gen |-> policy[table[o]].gen,
      prev |-> policy[table[o]].current, verdict |-> "asked"] :
        o \in {x \in Observers : table[x] # 0 /\ policy[table[x]].sessions # {}}}

\* Whoever contributed under the current policy, connected or not.
Retained ==
    {[obs |-> o, obj |-> table[o], gen |-> policy[table[o]].gen,
      prev |-> policy[table[o]].current, verdict |-> "asked"] :
        o \in {x \in Observers : table[x] # 0 /\ policy[table[x]].known}}

\* The snapshot: the policies not verified within the authority's lifetime.
Sweep ==
    /\ ~stopped
    /\ tasks = {}
    /\ tasks' \in SUBSET Retained \ {{}}
    /\ UNCHANGED <<environment, policies, conn, watch, pipeline, stopped>>

\* ReconcileObserver answers, or does not; a policy it could not verify stands.
Ask(t) ==
    /\ t.verdict = "asked"
    /\ \/ /\ tasks' = (tasks \ {t}) \cup
                      (IF authority[t.obs] = t.prev THEN {}
                       ELSE {[t EXCEPT !.verdict = "withdraw"]})
          /\ UNCHANGED outages
       \/ /\ outages < MaxOutages
          /\ outages' = outages + 1
          /\ tasks' = tasks \ {t}
    /\ UNCHANGED <<authority, changes, policies, conn, watch, pipeline, stopped>>

\* The withdrawals follow one after the other once every answer is in.
Withdraw(t) ==
    /\ t.verdict = "withdraw"
    /\ \A u \in tasks : u.verdict = "withdraw"
    /\ IF stopped
       THEN /\ tasks' = {}
            /\ UNCHANGED <<policy, conn>>
       ELSE IF Current(t.obj, t.gen)
       THEN /\ policy' = Begun(t.obj, NoContext)
            /\ conn' = Cancelled(t.obj, t.obs)
            /\ tasks' = (tasks \ {t}) \cup
                        {[t EXCEPT !.verdict = "marker", !.gen = t.gen + 1]}
       ELSE /\ tasks' = tasks \ {t}
            /\ UNCHANGED <<policy, conn>>
    /\ UNCHANGED <<environment, table, made, watch, pipeline, stopped>>

TaskMarker(t) == Marker(t.obs, t.obj, t.gen, t.prev)

WithdrawMarker(t) ==
    /\ t.verdict = "marker"
    /\ Completed(t.obj, TaskMarker(t))
    /\ tasks' = tasks \ {t}
    /\ UNCHANGED <<environment, table, made, conn, watch, inHand, live, stopped>>

-----------------------------------------------------------------------------
(* The decode loop.                                                        *)

\* A marker resets every audience its context fed (scopeController.Apply); a
\* record is projected only when its generation is current.
Decode ==
    /\ inHand = NoRecord
    /\ out # <<>>
    /\ out' = Tail(out)
    /\ LET f == Head(out)
       IN  \/ /\ f.kind = "marker"
              /\ live' = {x \in live : x.ctx # f.ctx}
              /\ UNCHANGED inHand
           \/ /\ f.kind = "data"
              /\ inHand' = IF Current(f.obj, f.gen) THEN f ELSE inHand
              /\ UNCHANGED live
    /\ UNCHANGED <<environment, policies, actors, stopped>>

\* The projections run after the check, without any lock.
Project ==
    /\ inHand # NoRecord
    /\ live' = live \cup {inHand}
    /\ inHand' = NoRecord
    /\ UNCHANGED <<environment, policies, actors, out, stopped>>

-----------------------------------------------------------------------------
(* The environment.                                                        *)

\* The control plane changes its mind about an observer.
AuthorityChanges(o) ==
    /\ changes < MaxChanges
    /\ changes' = changes + 1
    /\ \E a \in (Contexts \cup {NoContext}) \ {authority[o]} :
          authority' = [authority EXCEPT ![o] = a]
    /\ UNCHANGED <<outages, policies, actors, pipeline, stopped>>

\* The retention window since the last admission under p has passed.
PolicyAges(p) ==
    /\ changes < MaxChanges
    /\ changes' = changes + 1
    /\ ~policy[p].aged
    /\ policy' = [policy EXCEPT ![p].aged = TRUE]
    /\ UNCHANGED <<authority, outages, table, made, actors, pipeline, stopped>>

\* The daemon's context ends.
StopAdmissions ==
    /\ ~stopped
    /\ stopped' = TRUE
    /\ UNCHANGED <<environment, policies, actors, pipeline>>

Handler(c) ==
    \/ Resolve(c) \/ FindPolicy(c) \/ AdmitRefused(c) \/ AdmitWait(c) \/ AwaitDone(c)
    \/ AdmitTransition(c) \/ AdmitMarker(c) \/ AdmitOpen(c)

Watcher(c) == Recheck(c) \/ WatchChange(c) \/ WatchMarker(c)

Reconciler == Sweep \/ \E t \in tasks : Ask(t) \/ Withdraw(t) \/ WithdrawMarker(t)

AdmissionNext ==
    \/ \E c \in Conns :
          \/ \E o \in Observers : Hello(c, o)
          \/ Handler(c) \/ Watcher(c)
          \/ ReadRecord(c) \/ Forward(c) \/ EndSession(c)
    \/ Reconciler
    \/ Decode \/ Project
    \/ \E o \in Observers : AuthorityChanges(o)
    \/ \E p \in Objects : PolicyAges(p)
    \/ StopAdmissions

AdmissionSpec == AdmissionInit /\ [][AdmissionNext]_admissionVars

\* Handshakes, watchers, the sweep and the decode loop make progress; nobody
\* promises that feeders connect, send or leave.
AdmissionFairness ==
    /\ \A c \in Conns : WF_admissionVars(Handler(c)) /\ WF_admissionVars(Watcher(c))
    /\ WF_admissionVars(Reconciler)
    /\ WF_admissionVars(Decode) /\ WF_admissionVars(Project)

AdmissionFairSpec == AdmissionSpec /\ AdmissionFairness

-----------------------------------------------------------------------------
Records(kind) ==
    [kind : {kind}, obs : Observers, obj : Objects, gen : Nat,
     ctx : Contexts \cup {NoContext}]

PolicyType ==
    [gen : Nat, current : Contexts \cup {NoContext}, sessions : SUBSET Conns,
     known : BOOLEAN, pending : BOOLEAN, aged : BOOLEAN]

ConnType ==
    [pc : {"off", "lookup", "find", "loop", "await", "marker", "open"}, obs : Observers,
     ctx : Contexts \cup {NoContext}, looked : Nat, obj : 0..MaxObjects, gen : Nat,
     cancelled : BOOLEAN, hold : BOOLEAN, fresh : BOOLEAN]

WatchType ==
    [pc : {"off", "idle", "decided", "marker"}, obs : Observers, obj : 0..MaxObjects,
     gen : Nat, ctx : Contexts \cup {NoContext}]

TaskType ==
    [obs : Observers, obj : Objects, gen : Nat, prev : Contexts \cup {NoContext},
     verdict : {"asked", "withdraw", "marker"}]

\* Every variable has its type; no policy holds more sessions than its cap, the
\* channel keeps its capacity, and only objects made so far are in use.
AdmissionTypeOK ==
    /\ authority \in [Observers -> Contexts \cup {NoContext}]
    /\ changes \in 0..MaxChanges /\ outages \in 0..MaxOutages
    /\ table \in [Observers -> 0..MaxObjects]
    /\ made \in 0..MaxObjects
    /\ policy \in [Objects -> PolicyType]
    /\ \A p \in Objects : Cardinality(policy[p].sessions) <= MaxSessions
    /\ conn \in [Conns -> ConnType] /\ watch \in [Conns -> WatchType] /\ tasks \subseteq TaskType
    /\ \A c \in Conns : conn[c].obj <= made /\ watch[c].obj <= made
    /\ out \in Seq(Records("data") \cup Records("marker")) /\ Len(out) <= OutMax
    /\ inHand \in Records("data") \cup {NoRecord}
    /\ live \subseteq Records("data")
    /\ stopped \in BOOLEAN

\* Markers of transitions that have begun and are not in the channel yet.
Owed ==
    {ConnMarker(c) : c \in {d \in Conns : conn[d].pc = "marker"}}
    \cup {WatcherMarker(c) : c \in {d \in Conns : watch[d].pc = "marker"}}
    \cup {TaskMarker(t) : t \in {u \in tasks : u.verdict = "marker"}}

InChannel == {out[i] : i \in DOMAIN out}

\* Whatever an observer contributed under a policy that is no longer its own is
\* out of the live picture or will be: the marker that resets it is in the
\* channel or owed.  This covers records forwarded by cancelled sessions and
\* records that passed the generation check just before the transition.
WithdrawnIsPurged ==
    stopped \/ \A x \in live \cup ({inHand} \ {NoRecord}) :
        \/ Current(x.obj, x.gen)
        \/ \E m \in Owed \cup InChannel :
              m.kind = "marker" /\ m.obj = x.obj /\ m.ctx = x.ctx

\* "no new-generation DATA precedes the marker" (beginTransitionLocked): no
\* record of a generation is in the channel ahead of the marker that started
\* that generation, and none while that marker is still owed.
MarkerFirst ==
    stopped \/ \A i \in DOMAIN out : out[i].kind = "data" =>
        /\ \A m \in Owed : m.obj = out[i].obj => m.gen > out[i].gen
        /\ \A j \in DOMAIN out :
              j > i /\ out[j].kind = "marker" /\ out[j].obj = out[i].obj
                 => out[j].gen > out[i].gen

\* "Exactly one marker per transition" (completeTransition): a policy has at
\* most one transition waiting for its marker, and then it is marked pending.
OneMarkerOwed ==
    \A m, n \in Owed : m.obj = n.obj => m = n /\ policy[m.obj].pending

\* "A lookup begun before another authoritative transition cannot undo it"
\* (admit): a handshake that replaces the policy has looked the observer up
\* after the last change of that policy.
StaleLookupNeverWins ==
    [][\A c \in Conns : AdmitTransition(c) => conn[c].fresh]_admissionVars

\* Once the control plane stops changing its mind, nothing an observer sent
\* under another authorisation stays in the live picture, whether or not the
\* observer is still connected, as long as the policy that admitted it is
\* tracked (reclaimIdlePoliciesLocked gives up the others).
Enforced ==
    <>[](stopped \/ \A x \in live : \/ x.ctx = authority[x.obs]
                                    \/ x.obj # table[x.obs])

\* A change of policy is enforced by one marker, which goes ahead of the records
\* it rules and purges what it withdraws (admit, beginTransitionLocked,
\* completeTransition and decodeLoop).
MarkersInOrder == AdmissionTypeOK /\ MarkerFirst /\ OneMarkerOwed /\ WithdrawnIsPurged

\* What is withdrawn is purged when the change is complete, and it does become
\* complete, also for an observer that left (reconcileOnce).
WithdrawalTakesEffect == []WithdrawnIsPurged /\ Enforced

=============================================================================

--------------------------- MODULE AudienceViews ---------------------------
(***************************************************************************)
(* What reaches the separated live states of the audiences                 *)
(* (go/internal/audience, go/internal/identity, decodeLoop and             *)
(* scopeController of go/cmd/navlistener/main.go).                         *)
(*                                                                         *)
(* An observer has a context: who owns it, which collections it is in and  *)
(* what may be published of it.  The context of a session rides on every   *)
(* frame of it; when the context changes, a marker with the previous one   *)
(* follows the session's last frame through the decode channel and resets  *)
(* every audience the old frames may have reached.  The reset and the      *)
(* projections are written apart, and a panic in either is recovered and   *)
(* drops the frame or the marker it met.                                   *)
(*                                                                         *)
(* One observer is modelled; a view is the set of what has been merged     *)
(* into it, and a reset empties it whoever contributed.                    *)
(***************************************************************************)
EXTENDS Integers, Sequences, FiniteSets

CONSTANTS
  MaxDynamicViews,  \* maxDynamicViews
  DecodeChannel,    \* frames in the channel
  MaxFrames,        \* bound: frames received
  MaxPanics         \* bound: panics while a frame or a marker is applied

ASSUME AudienceBounds ==
  {MaxDynamicViews, DecodeChannel, MaxFrames, MaxPanics} \subseteq Nat

VARIABLES
  contexts,    \* the observer's context, before and after the change
  contextNow,  \* which of the two is authorized
  channel,     \* frames and the marker, in order
  applying,    \* the frame that has passed the admission check
  views,       \* the content of each state, or NoView
  purged,      \* contexts whose marker has been applied to the end
  framesSent, panics

audienceVars == <<contexts, contextNow, channel, applying, views, purged, framesSent, panics>>

\* The raw tags of two signals; the first is a component of "e1".
RawSignals == {"e1b", "l5"}
Canonical(sig) == IF sig = "e1b" THEN "e1" ELSE sig
Dynamic == {"organization", "collection"}
Fixed == {"operator", "public", "publicEvents"}
NoView == [made |-> FALSE]
Holding(S) == [made |-> TRUE, content |-> S]
NoFrame == [kind |-> "none"]

\* Normalize: an event is no more public than the observation, and an
\* attributed station has public metadata.
Normalized(c) ==
  /\ c.use = "private" => c.events = "private"
  /\ c.use = "attributed" => c.metadata # "none"
ContextRecords ==
  [owned : BOOLEAN, collections : BOOLEAN, use : {"private", "anonymous", "attributed"},
   metadata : {"none", "full"}, events : {"private", "redacted", "public"}, signals : {{}, {"e1"}}]
Contexts == {c \in ContextRecords : Normalized(c) /\ (c.metadata = "full" <=> c.use = "attributed")}
\* NewPrivateContext.
PrivateContext ==
  [owned |-> FALSE, collections |-> FALSE, use |-> "private", metadata |-> "none",
   events |-> "private", signals |-> {}]
PublicContext ==
  [owned |-> TRUE, collections |-> FALSE, use |-> "attributed", metadata |-> "full",
   events |-> "public", signals |-> {}]

AudienceInit ==
  /\ \E before \in Contexts, after \in {PrivateContext, PublicContext} :
       before # after /\ contexts = <<before, after>>
  /\ contextNow = 1
  /\ channel = <<>> /\ applying = NoFrame
  /\ views = [a \in Dynamic \cup Fixed |-> IF a \in Fixed THEN Holding({}) ELSE NoView]
  /\ purged = {} /\ framesSent = 0 /\ panics = 0
-----------------------------------------------------------------------------
\* A frame of the session that is authorized now.
ReceiveFrame ==
  /\ framesSent < MaxFrames /\ Len(channel) < DecodeChannel
  /\ \E sig \in RawSignals, what \in {"navigation", "observables", "details"} :
       channel' = Append(channel, [kind |-> "frame", of |-> contextNow, sig |-> sig, what |-> what])
  /\ framesSent' = framesSent + 1
  /\ UNCHANGED <<contexts, contextNow, applying, views, purged, panics>>
\* The authorization changes (AuthorizationEqual no longer holds): the session
\* ends and its marker follows its frames.
ChangeContext ==
  /\ contextNow = 1 /\ Len(channel) < DecodeChannel
  /\ contextNow' = 2
  /\ channel' = Append(channel, [kind |-> "marker", of |-> 1])
  /\ UNCHANGED <<contexts, applying, views, purged, framesSent, panics>>
\* decodeLoop: a frame whose admission is no longer current is not projected.
TakeFrame ==
  /\ applying = NoFrame /\ channel # <<>> /\ Head(channel).kind = "frame"
  /\ channel' = Tail(channel)
  /\ applying' = IF Head(channel).of = contextNow THEN Head(channel) ELSE NoFrame
  /\ UNCHANGED <<contexts, contextNow, views, purged, framesSent, panics>>
-----------------------------------------------------------------------------
PublicEligible(c) == c.use \in {"anonymous", "attributed"}
AllowsSignal(c, sig) == c.signals = {} \/ Canonical(sig) \in c.signals
\* What a frame adds to a view: the context it came under, whether it is under
\* the observer's name, its signal and whether per-satellite observables ride on it.
Contribution(f, named, observables) == [of |-> f.of, named |-> named, sig |-> f.sig, observables |-> observables]
AsReceived(f) == {Contribution(f, TRUE, f.what = "observables")}
\* ProjectPublic.
ProjectPublic(f, c) ==
  IF f.what = "details" \/ ~PublicEligible(c) \/ ~AllowsSignal(c, f.sig) THEN {}
  ELSE IF c.use = "anonymous" THEN {Contribution(f, FALSE, FALSE)}
  ELSE {Contribution(f, TRUE, f.what = "observables")}
ProjectPublicEvents(f, c) ==
  CASE c.events = "private" -> {}
    [] c.events = "redacted" -> {[p EXCEPT !.named = FALSE, !.observables = FALSE] : p \in ProjectPublic(f, c)}
    [] c.events = "public" -> ProjectPublic(f, c)
Membership(c) ==
  (IF c.owned THEN <<"organization">> ELSE <<>>) \o (IF c.collections THEN <<"collection">> ELSE <<>>)
Materialized(v) == {a \in Dynamic : v[a].made}
EnsureDynamic(v, a) == v[a].made \/ Cardinality(Materialized(v)) < MaxDynamicViews
Merged(v, a, S) == [v EXCEPT ![a] = Holding((IF v[a].made THEN v[a].content ELSE {}) \cup S)]
Offered(v, a, S) == IF EnsureDynamic(v, a) THEN Merged(v, a, S) ELSE v
ApplyPrivate(v, f, c) ==
  LET m == Membership(c)
      first == IF Len(m) > 0 THEN Offered(v, m[1], AsReceived(f)) ELSE v
  IN  IF Len(m) > 1 THEN Offered(first, m[2], AsReceived(f)) ELSE first
\* The states after each of the four projections of a frame.
Stages(f, c) ==
  LET s1 == Merged(views, "operator", AsReceived(f))
      s2 == ApplyPrivate(s1, f, c)
      s3 == Merged(s2, "public", ProjectPublic(f, c))
      s4 == Merged(s3, "publicEvents", ProjectPublicEvents(f, c))
  IN  <<s1, s2, s3, s4>>
ApplyFrame ==
  /\ applying # NoFrame
  /\ views' = Stages(applying, contexts[applying.of])[4]
  /\ applying' = NoFrame
  /\ UNCHANGED <<contexts, contextNow, channel, purged, framesSent, panics>>
\* recoverDecodePanic: what was applied before the panic stays.
FramePanics ==
  /\ applying # NoFrame /\ panics < MaxPanics
  /\ \E i \in 1..3 : views' = Stages(applying, contexts[applying.of])[i]
  /\ panics' = panics + 1
  /\ applying' = NoFrame
  /\ UNCHANGED <<contexts, contextNow, channel, purged, framesSent>>
-----------------------------------------------------------------------------
\* ResetContext: the audiences the previous context may have reached.
\* Mutant: collections are forgotten.
AffectedOwner(c) ==
  {"operator"} \cup {a \in {"organization"} : c.owned} \cup {a \in {"public"} : PublicEligible(c)}
Affected(c) ==
  {"operator"} \cup {a \in {"organization"} : c.owned} \cup {a \in {"collection"} : c.collections}
    \cup {a \in {"public"} : PublicEligible(c)}
ResetOf(v, A) == [a \in DOMAIN v |-> IF a \in A /\ v[a].made THEN Holding({}) ELSE v[a]]
\* scopeController.Apply: the views first, then the public event state.
WithEvents(A) == IF "public" \in A THEN A \cup {"publicEvents"} ELSE A
ApplyMarker ==
  /\ applying = NoFrame /\ channel # <<>> /\ Head(channel).kind = "marker"
  /\ LET A == Affected(contexts[Head(channel).of]) IN views' = ResetOf(views, WithEvents(A))
  /\ purged' = purged \cup {Head(channel).of}
  /\ channel' = Tail(channel)
  /\ UNCHANGED <<contexts, contextNow, applying, framesSent, panics>>
\* A panic drops the marker: nothing is reset, or the event state is not.
MarkerPanics ==
  /\ applying = NoFrame /\ channel # <<>> /\ Head(channel).kind = "marker"
  /\ panics < MaxPanics
  /\ views' \in {views, ResetOf(views, Affected(contexts[Head(channel).of]))}
  /\ panics' = panics + 1
  /\ channel' = Tail(channel)
  /\ UNCHANGED <<contexts, contextNow, applying, purged, framesSent>>

AudienceNext ==
  \/ ReceiveFrame \/ ChangeContext \/ TakeFrame
  \/ ApplyFrame \/ FramePanics \/ ApplyMarker \/ MarkerPanics

AudienceSpec == AudienceInit /\ [][AudienceNext]_audienceVars
-----------------------------------------------------------------------------
Content(a) == IF views[a].made THEN views[a].content ELSE {}

\* Once the marker of a context has been applied, no audience holds anything
\* that came under it, whichever projections its frames took and whatever
\* frame was half applied: the reset and the projections agree on where a
\* frame may have gone.  Only a marker lost to a panic leaves something.
NothingOutlivesItsScope ==
  \A a \in DOMAIN views : \A p \in Content(a) : p.of \notin purged

\* Audience.Allows: a private view holds only what came from its members.
ViewsHoldTheirMembers ==
  /\ \A p \in Content("organization") : contexts[p.of].owned
  /\ \A p \in Content("collection") : contexts[p.of].collections

\* What the public states hold was granted by the policy it was received
\* under: the signal, the name and the observables; and the event state,
\* written by its own projection, grants no more than its visibility says.
PublicHoldsOnlyGrants ==
  /\ \A p \in Content("public") \cup Content("publicEvents") :
       /\ PublicEligible(contexts[p.of]) /\ AllowsSignal(contexts[p.of], p.sig)
       /\ p.named \/ p.observables => contexts[p.of].use = "attributed"
  /\ \A p \in Content("publicEvents") :
       /\ contexts[p.of].events # "private"
       /\ p.named \/ p.observables => contexts[p.of].events = "public"

\* What an audience's states hold was received under a policy in force, from
\* its members, and within its grants (ApplyPrivate, Apply).
ViewsAreSound ==
    /\ NothingOutlivesItsScope
    /\ ViewsHoldTheirMembers
    /\ PublicHoldsOnlyGrants

=============================================================================

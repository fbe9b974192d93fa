------------------------------ MODULE PreAuth ------------------------------
(***************************************************************************)
(* The push endpoint up to the authenticated session                       *)
(* (go/internal/ingest/preauth.go; serve, handle and handshake of push.go):*)
(* the accept loop, the per-address guard with its two buckets, the pool   *)
(* of pre-authentication slots, the hand-over to the fleet's connection    *)
(* budget and the ways a connection ends.                                  *)
(*                                                                         *)
(* What the peer sends and what authorize answers are inputs.  The policy  *)
(* admission that follows is Admission.tla, the stream PushDelivery.tla.   *)
(* Time passes in ticks: the accept bucket holds whole tokens, the log     *)
(* bucket the LogWindow-th parts of a line.  How long the accept loop      *)
(* backs off is left out.                                                  *)
(***************************************************************************)
EXTENDS Integers, FiniteSets

CONSTANTS
  Conns,         \* connections, reused once they ended
  Addresses,     \* remote addresses
  PreAuthSlots,  \* preAuthSlots(MaxConns)
  FleetSlots,    \* MaxConns
  PerAddress,    \* maxPreAuthPerAddress
  Burst,         \* preAuthBurst
  Rate,          \* preAuthRate, per tick
  LogLines,      \* preAuthLogLines
  LogWindow,     \* preAuthLogWindow, in ticks
  MaxTracked,    \* maxTrackedAddresses
  PreAuthTicks   \* bound: ticks

ASSUME PreAuthBounds ==
  /\ {PreAuthSlots, FleetSlots, PerAddress, Burst, LogWindow, MaxTracked} \subseteq Nat \ {0}
  /\ {Rate, LogLines, PreAuthTicks} \subseteq Nat
  /\ IsFiniteSet(Conns)

VARIABLES
  conn,      \* per connection: how far its handler is
  remote,    \* per connection: the address whose place it holds
  entries,   \* addressGuard.entries: the addresses in the table
  inflight, tokens, logTokens, \* per address: its addressState
  untouched, \* per address: ticks since refilled
  preAuth,   \* PushServer.preAuth: slots taken
  fleet,     \* PushServer.conns: slots taken
  accepting, \* the accept loop: run, backoff, waiting for its handlers or returned
  opened,    \* ghost: per address and tick, places reserved since then
  logged,    \* ghost: per address and tick, warnings logged since then
  paTicks    \* ticks passed

guardVars == <<entries, tokens, logTokens, untouched, opened, logged>>
preAuthVars == <<conn, remote, guardVars, inflight, preAuth, fleet, accepting, paTicks>>

Handshake == {"magic", "hello", "evidence", "authorized"}
HoldsSlot == Handshake \cup {"takeover", "closing"}
HoldsAddress == HoldsSlot \cup {"takenover", "closed"}
HoldsFleet == {"takeover", "takenover", "session"}

NoAddress == "none"
LogFull == LogLines * LogWindow
NoneSince == [t \in 0..PreAuthTicks |-> 0]

PreAuthInit ==
  /\ conn = [c \in Conns |-> "none"]
  /\ remote = [c \in Conns |-> NoAddress]
  /\ entries = {}
  /\ inflight = [a \in Addresses |-> 0]
  /\ tokens = [a \in Addresses |-> Burst]
  /\ logTokens = [a \in Addresses |-> LogFull]
  /\ untouched = [a \in Addresses |-> 0]
  /\ preAuth = 0 /\ fleet = 0
  /\ accepting = "run"
  /\ opened = [a \in Addresses |-> NoneSince]
  /\ logged = [a \in Addresses |-> NoneSince]
  /\ paTicks = 0
-----------------------------------------------------------------------------
Smaller(a, b) == IF a < b THEN a ELSE b

\* pruneLocked: what the table forgets to make room.
Pruned ==
  LET idle == {a \in entries : inflight[a] = 0}
      old == {a \in idle : untouched[a] >= LogWindow}
  IN  IF Cardinality(entries \ old) < MaxTracked THEN old ELSE idle
Forgotten(a) == IF a \in entries \/ Cardinality(entries) < MaxTracked THEN {} ELSE Pruned

\* state: both buckets refilled to now.  An address outside the table has the
\* values of a new one.
Tokens(a) == Smaller(Burst, tokens[a] + untouched[a] * Rate)
LogTokens(a) == Smaller(LogFull, logTokens[a] + untouched[a] * LogLines)

\* The entry of a is looked up or made; what f holds for it becomes v.
Entered(f, new, a, v) ==
  [b \in Addresses |-> IF b = a THEN v ELSE IF b \in Forgotten(a) THEN new ELSE f[b]]
CountedSince(h, n) == [t \in 0..PreAuthTicks |-> IF t <= paTicks THEN h[t] + n ELSE 0]

\* state followed by taking n places and l log lines out of the buckets.
State(a, n, l) ==
  /\ entries' = (entries \ Forgotten(a)) \cup {a}
  /\ tokens' = Entered(tokens, Burst, a, Tokens(a) - n)
  /\ logTokens' = Entered(logTokens, LogFull, a, LogTokens(a) - l * LogWindow)
  /\ untouched' = Entered(untouched, 0, a, 0)
  /\ opened' = Entered(opened, NoneSince, a, CountedSince(opened[a], n))
  /\ logged' = Entered(logged, NoneSince, a, CountedSince(logged[a], l))

\* admit, and preAuthWarn with allowLog.
Admits(a) == inflight[a] < PerAddress /\ Tokens(a) >= 1
PreAuthWarn(a) == State(a, 0, IF LogTokens(a) < LogWindow THEN 0 ELSE 1)
-----------------------------------------------------------------------------
\* One turn of the accept loop.  Without a slot the place is given back, its
\* token is not.
AcceptRefused(a) ==
  /\ accepting = "run"
  /\ ~Admits(a) \/ preAuth = PreAuthSlots
  /\ State(a, IF Admits(a) THEN 1 ELSE 0, 0)
  /\ UNCHANGED <<conn, remote, inflight, preAuth, fleet, accepting, paTicks>>
AcceptConn(c, a) ==
  /\ accepting = "run" /\ conn[c] = "none"
  /\ Admits(a) /\ preAuth < PreAuthSlots
  /\ State(a, 1, 0)
  /\ inflight' = [inflight EXCEPT ![a] = @ + 1]
  /\ preAuth' = preAuth + 1
  /\ conn' = [conn EXCEPT ![c] = "magic"]
  /\ remote' = [remote EXCEPT ![c] = a]
  /\ UNCHANGED <<fleet, accepting, paTicks>>
\* Accept fails for now, and the loop sleeps.
AcceptFails ==
  /\ accepting = "run"
  /\ accepting' = "backoff"
  /\ UNCHANGED <<conn, remote, guardVars, inflight, preAuth, fleet, paTicks>>
BackoffOver ==
  /\ accepting = "backoff"
  /\ accepting' = "run"
  /\ UNCHANGED <<conn, remote, guardVars, inflight, preAuth, fleet, paTicks>>
\* The parent context is cancelled, or Accept fails for good: the handlers'
\* context is cancelled and the loop waits for them.
ListenerEnds ==
  /\ accepting \in {"run", "backoff"}
  /\ accepting' = "waiting"
  /\ UNCHANGED <<conn, remote, guardVars, inflight, preAuth, fleet, paTicks>>
ServeReturns ==
  /\ accepting = "waiting" /\ \A c \in Conns : conn[c] = "none"
  /\ accepting' = "returned"
  /\ UNCHANGED <<conn, remote, guardVars, inflight, preAuth, fleet, paTicks>>
-----------------------------------------------------------------------------
Moves(c, from, to) ==
  /\ conn[c] = from
  /\ conn' = [conn EXCEPT ![c] = to]
  /\ UNCHANGED <<remote, inflight, preAuth, fleet, accepting, paTicks>>

\* handle up to the HELLO: no deadline can be set, or a bad magic.
DeadlineFails(c) == Moves(c, "magic", "closing") /\ UNCHANGED guardVars
BadMagic(c) == Moves(c, "magic", "closing") /\ PreAuthWarn(remote[c])
MagicRead(c) == Moves(c, "magic", "hello") /\ UNCHANGED guardVars

\* handshake: no HELLO, not JSON or not authorized is warned about; a feed,
\* an SBF format or a session that will not do is refused without.
BadHello(c) == Moves(c, "hello", "closing") /\ PreAuthWarn(remote[c])
HelloRefused(c) == Moves(c, "hello", "closing") /\ UNCHANGED guardVars
HelloTaken(c, evidence) ==
  /\ Moves(c, "hello", IF evidence THEN "evidence" ELSE "authorized")
  /\ UNCHANGED guardVars
\* readEvidence; what the evidence shows never refuses the session.
NoEvidence(c) == Moves(c, "evidence", "closing") /\ UNCHANGED guardVars
EvidenceRead(c) == Moves(c, "evidence", "authorized") /\ UNCHANGED guardVars

\* A parser panics and handle recovers.
HandshakePanics(c) ==
  /\ \E p \in Handshake : Moves(c, p, "closing")
  /\ UNCHANGED guardVars

\* handle: a slot of the fleet, while that of the handshake is still held.
\* Mutant: the refused connection is closed and gives nothing back.
FleetFullLeaks(c) ==
  /\ fleet = FleetSlots
  /\ Moves(c, "authorized", "none")
  /\ UNCHANGED guardVars
FleetFull(c) ==
  /\ fleet = FleetSlots
  /\ Moves(c, "authorized", "closing")
  /\ UNCHANGED guardVars
FleetSlot(c) ==
  /\ conn[c] = "authorized" /\ fleet < FleetSlots
  /\ fleet' = fleet + 1
  /\ conn' = [conn EXCEPT ![c] = "takeover"]
  /\ UNCHANGED <<remote, guardVars, inflight, preAuth, accepting, paTicks>>

\* finishPreAuth, called or deferred: the slot, then the address's place.
GiveBackSlot(c) ==
  /\ conn[c] \in {"takeover", "closing"}
  /\ preAuth' = preAuth - 1
  /\ conn' = [conn EXCEPT ![c] = IF @ = "takeover" THEN "takenover" ELSE "closed"]
  /\ UNCHANGED <<remote, guardVars, inflight, fleet, accepting, paTicks>>
GiveBackPlace(c) ==
  /\ conn[c] \in {"takenover", "closed"}
  /\ inflight' = [inflight EXCEPT ![remote[c]] = @ - 1]
  /\ conn' = [conn EXCEPT ![c] = IF @ = "takenover" THEN "session" ELSE "none"]
  /\ remote' = [remote EXCEPT ![c] = NoAddress]
  /\ UNCHANGED <<guardVars, preAuth, fleet, accepting, paTicks>>

\* A refused admission, a panic, the stream's end or shutdown.
SessionOver(c) ==
  /\ conn[c] = "session"
  /\ fleet' = fleet - 1
  /\ conn' = [conn EXCEPT ![c] = "none"]
  /\ UNCHANGED <<remote, guardVars, inflight, preAuth, accepting, paTicks>>

PreAuthTick ==
  /\ paTicks < PreAuthTicks
  /\ paTicks' = paTicks + 1
  /\ untouched' = [a \in Addresses |-> IF a \in entries THEN untouched[a] + 1 ELSE 0]
  /\ UNCHANGED <<conn, remote, entries, tokens, logTokens, opened, logged, inflight, preAuth, fleet, accepting>>

PreAuthNext ==
  \/ \E a \in Addresses : AcceptRefused(a)
  \/ \E c \in Conns, a \in Addresses : AcceptConn(c, a)
  \/ AcceptFails
  \/ BackoffOver
  \/ ListenerEnds
  \/ ServeReturns
  \/ \E c \in Conns : DeadlineFails(c)
  \/ \E c \in Conns : BadMagic(c)
  \/ \E c \in Conns : MagicRead(c)
  \/ \E c \in Conns : BadHello(c)
  \/ \E c \in Conns : HelloRefused(c)
  \/ \E c \in Conns, evidence \in BOOLEAN : HelloTaken(c, evidence)
  \/ \E c \in Conns : NoEvidence(c)
  \/ \E c \in Conns : EvidenceRead(c)
  \/ \E c \in Conns : HandshakePanics(c)
  \/ \E c \in Conns : FleetFull(c)
  \/ \E c \in Conns : FleetSlot(c)
  \/ \E c \in Conns : GiveBackSlot(c)
  \/ \E c \in Conns : GiveBackPlace(c)
  \/ \E c \in Conns : SessionOver(c)
  \/ PreAuthTick

PreAuthSpec == PreAuthInit /\ [][PreAuthNext]_preAuthVars
-----------------------------------------------------------------------------
ConnsIn(phases) == {c \in Conns : conn[c] \in phases}
From(a) == {c \in ConnsIn(HoldsAddress) : remote[c] = a}

\* Every way a connection ends gives back exactly what it holds: the slots
\* taken and the places of an address are those of the connections that hold
\* one, and an address with a connection in flight is never forgotten.
SlotsMatchConnections ==
  /\ preAuth = Cardinality(ConnsIn(HoldsSlot)) /\ preAuth <= PreAuthSlots
  /\ fleet = Cardinality(ConnsIn(HoldsFleet)) /\ fleet <= FleetSlots
  /\ \A a \in Addresses : inflight[a] = Cardinality(From(a)) /\ (inflight[a] > 0 => a \in entries)

\* No address has more connections before authentication than its bound,
\* though the table forgets addresses when it is full.
PerAddressHolds == \A a \in Addresses : Cardinality(From(a)) <= PerAddress

\* From any tick on an address opens at most a burst and the rate for the
\* ticks passed, and puts at most its lines and their rate in the log, unless
\* the table forgot it in between.
RateIsBounded ==
  \A a \in Addresses, t \in 0..paTicks :
    /\ opened[a][t] <= Burst + Rate * (paTicks - t)
    /\ LogWindow * logged[a][t] <= LogFull + LogLines * (paTicks - t)

\* Work before authentication stays within its budgets, and every slot comes
\* back (addressGuard, PushServer.handle).
PreAuthIsSound ==
    /\ SlotsMatchConnections
    /\ PerAddressHolds
    /\ RateIsBounded

=============================================================================

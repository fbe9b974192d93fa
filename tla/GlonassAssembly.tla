-------------------------- MODULE GlonassAssembly --------------------------
(***************************************************************************)
(* The immediate data of one GLONASS satellite (applyGLONASS,              *)
(* computeGloDisco and the GLONASS gates of Propagate in                   *)
(* go/internal/state/state.go).  Strings 1 to 4 of a frame carry the three *)
(* axes and the clock and no tag that says they belong together, so they   *)
(* are buffered per relay and accepted when their feeder stamps lie within *)
(* one frame.  The assembled set is keyed on its reference time tb, and    *)
(* is shared by all relays: one that hears the satellite live, and one     *)
(* that drains a spool.                                                    *)
(*                                                                         *)
(* A tick is a frame: two strings are within glonassFrameWindow exactly    *)
(* when they were on the air in the same tick.  Strings 2 and 3 are        *)
(* buffered and checked alike and one stands for both.  tb is the tick of  *)
(* its upload; its reuse on the next day is outside the bound.             *)
(***************************************************************************)
EXTENDS Integers, Sequences

CONSTANTS
  GloSlack,    \* ingest.RecvTimestampSlack, in ticks
  GloTrust,    \* discoTrustAge, in ticks
  GloMaxTk,    \* gloDiscoMaxTk: tb further apart than this are not adjacent
  GloCap,      \* gloPropagateMaxEphAge, in ticks
  GloTicks     \* bound: ticks of a behaviour

ASSUME GloBounds == {GloSlack, GloTrust, GloMaxTk, GloCap, GloTicks} \subseteq Nat

VARIABLES
  tbAir,      \* tbAir[t]: the tb broadcast at tick t
  gloFrames,  \* st.gloFrames: per relay, the tick of each buffered string
  glo         \* the served set and its discontinuities

gloVars == <<tbAir, gloFrames, glo>>

GloRelays == {"live", "spool"}
GloStrings == {1, 2, 4}
NoTick == 0
GloNow == Len(tbAir)

NoGloDisco == [from |-> 0, to |-> 0]
NoPending == [tb |-> 0, from |-> 0]
EmptyGlo == [tbs |-> {}, clock |-> 0, tbAt |-> 0, at |-> 0, recv |-> 0,
             orbit |-> NoGloDisco, time |-> NoGloDisco, pend |-> NoPending,
             before |-> 0, since |-> 0]
EmptyFrames == [r \in GloRelays |-> [n \in GloStrings |-> NoTick]]
HaveGloEph == glo.tbs # {}

GloInit ==
  /\ tbAir = <<1>>
  /\ gloFrames = EmptyFrames
  /\ glo = EmptyGlo
-----------------------------------------------------------------------------
\* The frame window over one relay's strings.
\* Mutant: the strings are accepted whatever their stamps.
WithinFrameAlways(b, n, m) == TRUE
WithinFrame(b, n, m) == b[n] = b[m]

HasAxes(b) == b[1] # NoTick /\ b[2] # NoTick /\ WithinFrame(b, 1, 2)
HasClock(b) == b[4] # NoTick /\ b[4] = b[1] /\ b[4] = b[2]

\* AssembleGLONASS: the axes, and the clock when its string is of this frame.
\* A set is the tbs its strings were broadcast under, and its clock.
Assembled(b) ==
  [tbs |-> {tbAir[b[1]], tbAir[b[2]]},
   tb |-> tbAir[b[2]],
   clock |-> IF HasClock(b) THEN tbAir[b[4]] ELSE 0]

ServedTb(g) == CHOOSE tb \in g.tbs : TRUE
SameTb(g, e) == g.tbs # {} /\ e.tb \in g.tbs
Apart(a, b) == IF a > b THEN a - b ELSE b - a

CarriedClock(g, e) ==
  IF e.clock = 0 /\ SameTb(g, e) THEN g.clock ELSE e.clock

\* computeGloDisco: both discontinuities of a changeover, or a pending time
\* half that waits for the incoming set's string 4.  Whatever was pending
\* from an older changeover is dropped.
StillPending(g, e) == IF e.clock = 0 /\ g.clock # 0 THEN [tb |-> e.tb, from |-> g.clock] ELSE NoPending

Measurable(g, e) ==
  /\ GloNow - g.at < GloTrust
  /\ Apart(e.tb, ServedTb(g)) <= GloMaxTk
computeGloDisco(g, e) ==
  IF ~Measurable(g, e)
    THEN [g EXCEPT !.orbit = NoGloDisco, !.time = NoGloDisco, !.pend = NoPending]
    ELSE [g EXCEPT !.orbit = [from |-> ServedTb(g), to |-> e.tb],
                   !.time = IF g.clock # 0 /\ e.clock # 0
                              THEN [from |-> g.clock, to |-> e.clock]
                              ELSE NoGloDisco,
                   !.pend = StillPending(g, e)]

\* The deferred half, once the awaited tb has its clock.
Completes(g, e) == g.pend # NoPending /\ e.clock # 0 /\ e.tb = g.pend.tb
CompletePending(g, e) ==
  IF Completes(g, e)
    THEN [g EXCEPT !.time = [from |-> g.pend.from, to |-> e.clock], !.pend = NoPending]
    ELSE g

Changeover(g, e) == IF g.tbs # {} /\ ~SameTb(g, e) THEN computeGloDisco(g, e) ELSE g

GloReplayed(g, t) == g.tbs # {} /\ g.recv > t + GloSlack

TbStamp(g, e, t) == IF SameTb(g, e) THEN g.tbAt ELSE t

\* The ghosts: the tb served before, and since when, on the collector's clock, this entry has held the tb it serves.
TakeString(g, e, t) ==
  [g EXCEPT !.tbs = e.tbs, !.clock = e.clock, !.tbAt = TbStamp(glo, e, t),
            !.at = GloNow, !.recv = t,
            !.before = IF glo.tbs # {} /\ ~SameTb(glo, e) THEN ServedTb(glo) ELSE @,
            !.since = IF SameTb(glo, e) THEN @ ELSE GloNow]

ApplySet(e, t) ==
  LET c == [e EXCEPT !.clock = CarriedClock(glo, e)]
  IN  TakeString(CompletePending(Changeover(glo, c), c), c, t)

\* applyGLONASS for strings 1 to 4, received by relay r at tick t.
applyGLONASS(r, n, t) ==
  LET b == [gloFrames[r] EXCEPT ![n] = t]
  IN  /\ gloFrames' = [gloFrames EXCEPT ![r] = b]
      /\ glo' = IF HasAxes(b) => GloReplayed(glo, t) THEN glo ELSE ApplySet(Assembled(b), t)
      /\ UNCHANGED tbAir

HearLive == \E n \in GloStrings : applyGLONASS("live", n, GloNow)
\* A spool is drained in the order it was recorded.
InOrder(t) == \A n \in GloStrings : gloFrames["spool"][n] <= t
HearSpool ==
  \E n \in GloStrings, t \in 1..(GloNow - 1) : InOrder(t) /\ applyGLONASS("spool", n, t)

\* gloFrameBuffer drops a relay that has been silent, or the oldest at capacity.
EvictRelay(r) ==
  /\ gloFrames[r] # EmptyFrames[r]
  /\ gloFrames' = [gloFrames EXCEPT ![r] = EmptyFrames[r]]
  /\ UNCHANGED <<tbAir, glo>>

\* Expire: nothing was heard live in this tick.  A draining spool keeps the
\* entry too; leaving that out only lets it go sooner.
ExpireGlonass ==
  /\ \A n \in GloStrings : gloFrames["live"][n] < GloNow
  /\ <<gloFrames, glo>> # <<EmptyFrames, EmptyGlo>>
  /\ gloFrames' = EmptyFrames
  /\ glo' = EmptyGlo
  /\ UNCHANGED tbAir

\* The satellite: a frozen tb is one that is never replaced.
GloTick ==
  /\ GloNow < GloTicks
  /\ \E tb \in {tbAir[GloNow]} \cup (IF GloNow + 1 - tbAir[GloNow] > GloSlack THEN {GloNow + 1} ELSE {}) :
       tbAir' = Append(tbAir, tb)
  /\ UNCHANGED <<gloFrames, glo>>

GloNext ==
  \/ HearLive
  \/ HearSpool
  \/ \E r \in GloRelays : EvictRelay(r)
  \/ ExpireGlonass
  \/ GloTick

GloSpec == GloInit /\ [][GloNext]_gloVars
-----------------------------------------------------------------------------
\* Propagate's gates for GLONASS.
GloServes ==
  /\ HaveGloEph
  /\ GloNow - glo.tbAt <= GloCap
  /\ GloNow - glo.recv <= GloCap

\* The three axes come from one broadcast set, although no string says which
\* set it belongs to and two relays interleave across a changeover.
OneGlonassSet == HaveGloEph => \E tb \in 1..GloNow : glo.tbs = {tb}

\* The clock served with a set is that set's clock, also after it was
\* carried from an earlier frame of the same tb.
ClockOfTheSet == HaveGloEph /\ glo.clock # 0 => glo.clock \in glo.tbs

\* The discontinuities served compare the set served now with the one served
\* before it: a deferred time half never completes against another changeover.
DiscoOfThisChangeover ==
  /\ glo.orbit # NoGloDisco => glo.orbit = [from |-> glo.before, to |-> ServedTb(glo)]
  /\ glo.time # NoGloDisco => glo.time = [from |-> glo.before, to |-> ServedTb(glo)]

\* A position is never propagated from a tb this entry has held for longer
\* than the cap, however often the frozen set is received again.
FrozenTbIsDropped == GloServes => GloNow - glo.since <= GloCap

\* That holds of the strings that carry the axes: one of them changes the
\* served set only to the set it was broadcast in, and an older set only
\* within the slack of the newer one's upload.
AxesNeverRegress ==
  [][\A r \in GloRelays, n \in {1, 2}, t \in 1..GloNow :
        applyGLONASS(r, n, t) /\ HaveGloEph /\ glo'.tbs # glo.tbs =>
          glo'.tbs = {tbAir[t]} /\ t + GloSlack >= ServedTb(glo)]_gloVars

\* A frame heard whole and live is what is served, clock included.
LiveFrameServed ==
  (\A n \in GloStrings : gloFrames["live"][n] = GloNow) /\ glo.at = GloNow /\ glo.recv = GloNow
    => glo.tbs = {tbAir[GloNow]} /\ glo.clock = tbAir[GloNow]

\* The same of GLONASS, whose strings name no set (applyGLONASS).
GlonassIsSound ==
    /\ [](/\ OneGlonassSet
          /\ ClockOfTheSet
          /\ DiscoOfThisChangeover
          /\ FrozenTbIsDropped
          /\ LiveFrameServed)
    /\ AxesNeverRegress

=============================================================================

---------------------------- MODULE NavAssembly ----------------------------
(***************************************************************************)
(* How one satellite signal's broadcast ephemeris and clock are rebuilt    *)
(* from their parts (go/internal/state/state.go, gnss/frame).  A set       *)
(* arrives as parts which every station relays: live, or hours later from  *)
(* a spool it drains after an outage.  All stations write the same         *)
(* per-satellite buffer; when the parts in it agree, the set is assembled  *)
(* and replaces the served one.                                            *)
(*                                                                         *)
(* Four slots stand for each message family's buffer: the two halves of    *)
(* the orbit, the clock, and the carrier of the group delay (GPS and       *)
(* BeiDou message 30, Galileo word 5; elsewhere it is the clock's own      *)
(* part).  A buffered part is the tick it was on the air; what it says is  *)
(* air[that tick].  Words 2 and 3 of a Galileo set are checked alike and   *)
(* one stands for both.  Health stands for every value that is read off    *)
(* the same part and folded with it on arrival (accuracy, ages of data,    *)
(* ionosphere, week check), the alert for the flags every part carries.    *)
(* Which stations were heard, receipt stamps and almanacs are left out.    *)
(***************************************************************************)
EXTENDS Integers, FiniteSets, Sequences

CONSTANTS
  Signals,      \* the signals a run considers: a message family and its bounds
  IodSpace,     \* how many issue-of-data values there are before one is reused
  ClockStale,   \* bcnavClkStaleSOW, in ticks
  TrustAge,     \* discoTrustAge, in ticks
  ServeCap,     \* propagateMaxEphAge, in ticks
  HalfWeek      \* the age at which the time of week wraps

\* slack is ingest.RecvTimestampSlack in ticks: 0 where a tick is longer.  A set
\* is broadcast for slack + 1 .. onAir ticks, and a behaviour has last ticks.
Families == {"lnav", "inav", "fnav", "d1", "cnav", "bcnav2"}
Signal == [family : Families, slack : Nat, onAir : Nat, last : Nat]

ASSUME NavBounds ==
  /\ Signals \subseteq Signal
  /\ {IodSpace, ClockStale, TrustAge, ServeCap, HalfWeek} \subseteq Nat
  /\ IodSpace > 0
  /\ \A s \in Signals : s.onAir > s.slack /\ HalfWeek >= ServeCap + s.onAir

VARIABLES
  signal,   \* the signal of this behaviour
  air,      \* air[t]: the orbit and the clock the satellite broadcast at tick t
  buffer,   \* st.sf1..3 / galW / fnav / bd1..3 / gc10.. / bc10..: the part heard last
  sv,       \* what this svState serves
  told,     \* history: when the health and the alert received last were on the
            \* air, and whether this entry ever served a mixture of two uploads
  heard     \* lastSeen is of this tick

navVars == <<signal, air, buffer, sv, told, heard>>

Parts == {"orbit1", "orbit2", "clock"}
Slots == Parts \cup {"delay"}
NotHeard == 0 - 1
NoDelay == 0 - 1
NoClock == 0 - 1
NoOrbit == 0 - 1
NoDisco == [from |-> <<>>, time |-> FALSE]

family == signal.family
ReplaySlack == signal.slack
Tick == DOMAIN air
Clocktime == Len(air)
OrbitAt(t) == air[t].orbit
ClockAt(t) == air[t].clock
\* An orbit and a clock are named by the tick of their upload, so an orbit is
\* its own reference time toe.
\* Successive uploads have different issues, and one comes back after IodSpace
\* uploads: IS-GPS-200 excludes it for six hours only, and a spool is relayed
\* for seven days.
Iod(o) == Cardinality({OrbitAt(t) : t \in 1..o}) % IodSpace

EmptySV == [have |-> FALSE, eph |-> <<>>, at |-> 0, recv |-> 0, newest |-> 0,
            clk |-> NoClock, of |-> NoOrbit, tgd |-> NoDelay, disco |-> NoDisco,
            health |-> NotHeard, alert |-> NotHeard]
EmptyBuffer == [p \in Slots |-> NotHeard]
NothingTold == [health |-> NotHeard, alert |-> NotHeard, mixed |-> FALSE]

NavInit ==
  /\ signal \in Signals
  /\ air = <<[orbit |-> 1, clock |-> 1]>>
  /\ buffer = EmptyBuffer
  /\ sv = EmptySV
  /\ told = NothingTold
  /\ heard = FALSE
-----------------------------------------------------------------------------
\* What each message carries.  "aside" is a message outside the set (GPS
\* subframes 4 and 5, Galileo word 5, BeiDou subframes 4 and 5, message 40),
\* "clockAlone" one of the clock messages without a group delay (GPS 31-37,
\* BeiDou 34).  F/NAV pages 5 and 6 and the other CNAV messages return before
\* the entry is looked up.
Messages ==
  Parts \cup (IF family \in {"cnav", "bcnav2"} THEN {"clockAlone"} ELSE {})
        \cup (IF family \in {"cnav", "fnav"} THEN {} ELSE {"aside"})

SlotsOf(m) ==
  CASE m = "clock" -> IF family = "inav" THEN {"clock"} ELSE {"clock", "delay"}
    [] m = "clockAlone" -> {"clock"}
    [] m = "aside" -> IF family = "inav" THEN {"delay"} ELSE {}
    [] OTHER -> {m}

CarriesHealth(m) ==
  CASE family = "inav" -> m = "aside"
    [] family = "cnav" -> m = "orbit1"
    [] family = "bcnav2" -> m # "orbit1"
    [] OTHER -> m = "clock"

CarriesAlert(m) == family \in {"lnav", "cnav", "bcnav2"}
-----------------------------------------------------------------------------
\* The assemblers.  `b` holds the buffered parts.
Orbits(b) == {OrbitAt(b["orbit1"]), OrbitAt(b["orbit2"])}
\* The elements of a set, by the upload each part of them comes from.  Galileo's
\* clock part also carries orbit elements.
Elements(b) ==
  <<OrbitAt(b["orbit1"]), OrbitAt(b["orbit2"])>>
    \o (IF family \in {"inav", "fnav"} THEN <<OrbitAt(b["clock"])>> ELSE <<>>)
Uploads(elements) == {elements[i] : i \in DOMAIN elements}
ClockOptional == family \in {"cnav", "bcnav2"}

Complete(b) == \A p \in Parts : (p = "clock" /\ ClockOptional) \/ b[p] # NotHeard

\* AssembleGPS: IODE of subframes 2 and 3 and the low bits of the IODC.
SameIODE(b) == \A o \in Orbits(b) : Iod(o) = Iod(OrbitAt(b["clock"]))
\* AssembleGalileo, AssembleGalileoFNAV: one IODnav.
SameIODnav(b) == \A o \in Uploads(Elements(b)) : Iod(o) = Iod(OrbitAt(b["clock"]))
AdjacentSubframes(b) == b["orbit1"] = b["clock"] /\ b["orbit2"] = b["orbit1"]
\* AssembleGPSCNAV: messages 10 and 11 share a toe.
SameToe(b) == OrbitAt(b["orbit1"]) = OrbitAt(b["orbit2"])
\* AssembleBeiDouBCNAV2: messages 10 and 11 are within 3 s.
AdjacentMessages(b) == b["orbit1"] = b["orbit2"]

Coherent(b) ==
  CASE family = "lnav" -> SameIODE(b)
    [] family \in {"inav", "fnav"} -> SameIODnav(b)
    [] family = "d1" -> AdjacentSubframes(b)
    [] family = "cnav" -> SameToe(b)
    [] OTHER -> AdjacentMessages(b)

\* clkOK of AssembleGPSCNAV: the clock's toc is the orbit's toe.
CnavClock(b) == OrbitAt(b["clock"]) = OrbitAt(b["orbit1"])
\* clkOK of AssembleBeiDouBCNAV2: the clock message is recent.
BcnavClock(b) ==
  b["orbit1"] - b["clock"] <= ClockStale /\ b["clock"] - b["orbit1"] <= ClockStale
ClockOK(b) ==
  CASE family = "cnav" -> b["clock"] # NotHeard /\ CnavClock(b)
    [] family = "bcnav2" -> b["clock"] # NotHeard /\ BcnavClock(b)
    [] OTHER -> TRUE

StaleReplay(s, t) == s.recv > t + ReplaySlack

\* The changeover test.  D1 and CNAV compare toe; the others the issue and the elements.
EphChanged(s, b) == ~s.have \/ Elements(b) # s.eph

\* The group delay is named, like the clock, by its upload.
DelayOf(b) == IF b["delay"] = NotHeard THEN NoDelay ELSE ClockAt(b["delay"])

\* LNAV compares the IODC, whose low bits are the IODE, CNAV the whole clock
\* model and B-CNAV2 the IODC of the clock set alone.  An IODC does not come
\* back within the seven days.
ClkChanged(s, b) ==
  /\ ClockOK(b)
  /\ \/ s.clk = NoClock
     \/ LET of == OrbitAt(b["clock"])
            clk == ClockAt(b["clock"])
        IN  CASE family = "lnav" -> <<Iod(of), clk>> # <<Iod(s.of), s.clk>>
              [] family = "cnav" -> <<clk, of, DelayOf(b)>> # <<s.clk, s.of, s.tgd>>
              [] OTHER -> clk # s.clk

\* tgdRefresh of B-CNAV2: the delay is not covered by the IODC.
TgdRefresh(s, b) ==
  family = "bcnav2" /\ ClockOK(b) /\ DelayOf(b) \notin {NoDelay, s.tgd}
-----------------------------------------------------------------------------
\* computeDisco, and the callers' rule that a time discontinuity needs a
\* decoded clock on both sides.
Trusted(s, b) ==
  LET from == s.eph[1]
      to == OrbitAt(b["orbit1"])
  IN  /\ to - from < TrustAge
      /\ from - to < TrustAge
      /\ Clocktime - s.at < TrustAge
\* Of B-CNAV2 the two clocks must also have a group delay alike.
TimeKnown(s, b) ==
  /\ ClockOK(b)
  /\ s.clk # NoClock
  /\ family = "bcnav2" => (s.tgd = NoDelay <=> DelayOf(b) = NoDelay)
ComputeDisco(s, b) ==
  IF Trusted(s, b)
    THEN [from |-> s.eph, time |-> TimeKnown(s, b)]
    ELSE NoDisco

ClockOf(b) == [clk |-> ClockAt(b["clock"]), of |-> OrbitAt(b["clock"]), tgd |-> DelayOf(b)]
ClockKept(s) == [clk |-> s.clk, of |-> s.of, tgd |-> s.tgd]
ClockDropped == [clk |-> NoClock, of |-> NoOrbit, tgd |-> NoDelay]

Latest(a, b) == IF a > b THEN a ELSE b

\* A changeover, stamped with the collector's clock and with the reception
\* time of the part that completed the set.
Adopt(s, b, t) ==
  [s EXCEPT !.have = TRUE, !.eph = Elements(b), !.at = Clocktime, !.recv = t,
            !.newest = Latest(@, t),
            !.disco = IF s.have THEN ComputeDisco(s, b) ELSE @]
AdoptIfNew(s, b, t) == IF EphChanged(s, b) THEN Adopt(s, b, t) ELSE s
WithClock(s, c) == [s EXCEPT !.clk = c.clk, !.of = c.of, !.tgd = c.tgd]

NothingNew(s, b) == ~EphChanged(s, b) /\ ~ClkChanged(s, b) /\ ~TgdRefresh(s, b)
Replayed(s, t) == s.have /\ StaleReplay(s, t)

\* The handlers, once the parts in `b` assemble; `t` is when the part that
\* has just arrived was received.  LNAV and D1 read the health again from the
\* buffered first subframe.
applyGPSLNAV(s, b, t) ==
  IF NothingNew(s, b) \/ Replayed(s, t) THEN s
  ELSE [WithClock(AdoptIfNew(s, b, t), ClockOf(b)) EXCEPT !.health = b["clock"]]

\* IODnav covers the clock: no refresh without a changeover.
applyGalileoINAV(s, b, t) ==
  IF ~EphChanged(s, b) \/ Replayed(s, t) THEN s
  ELSE WithClock(Adopt(s, b, t), ClockOf(b))
applyGalileoFNAV(s, b, t) ==
  IF ~EphChanged(s, b) \/ Replayed(s, t) THEN s
  ELSE WithClock(Adopt(s, b, t), ClockOf(b))

\* The clock of an unchanged toe is refreshed before the frame's age is looked at.
applyBeiDouD1(s, b, t) ==
  IF ~EphChanged(s, b) THEN WithClock(s, ClockOf(b))
  ELSE IF Replayed(s, t) THEN s
  ELSE [WithClock(Adopt(s, b, t), ClockOf(b)) EXCEPT !.health = b["clock"]]

CnavClockAfter(s, b) ==
  IF ClockOK(b) THEN ClockOf(b)
  ELSE IF EphChanged(s, b) THEN ClockDropped
  ELSE ClockKept(s)
applyGPSCNAV(s, b, t) ==
  IF NothingNew(s, b) \/ Replayed(s, t) THEN s
  ELSE WithClock(AdoptIfNew(s, b, t), CnavClockAfter(s, b))

\* A clock stays served until the next one decodes.
applyBeiDouBCNAV2(s, b, t) ==
  IF NothingNew(s, b) \/ Replayed(s, t) THEN s
  ELSE WithClock(AdoptIfNew(s, b, t), IF ClockOK(b) THEN ClockOf(b) ELSE ClockKept(s))

Handled(s, b, t) ==
  CASE family = "lnav" -> applyGPSLNAV(s, b, t)
    [] family = "inav" -> applyGalileoINAV(s, b, t)
    [] family = "fnav" -> applyGalileoFNAV(s, b, t)
    [] family = "d1" -> applyBeiDouD1(s, b, t)
    [] family = "cnav" -> applyGPSCNAV(s, b, t)
    [] OTHER -> applyBeiDouBCNAV2(s, b, t)
Assembles(b) == Complete(b) /\ Coherent(b)

\* What is taken from a message as it arrives, whatever its age, before any
\* assembly.
Folded(s, m, t) ==
  [s EXCEPT !.health = IF CarriesHealth(m) THEN t ELSE @,
            !.alert = IF CarriesAlert(m) THEN t ELSE @]

\* Word 5 and page 1 also refresh the group delay of the clock in service;
\* word 5 only while the buffered words assemble.
WithDelay(s, m, b) ==
  IF \/ family = "inav" /\ m = "aside" /\ s.have /\ Assembles(b)
     \/ family = "fnav" /\ m = "clock" /\ s.clk # NoClock
    THEN [s EXCEPT !.tgd = DelayOf(b)]
    ELSE s

Applied(s, m, b, t) ==
  LET folded == WithDelay(Folded(s, m, t), m, b)
  IN  IF m # "aside" /\ Assembles(b) THEN Handled(folded, b, t) ELSE folded

\* Where the issue of data is all that is compared, two uploads that share one
\* are taken for one.
MatchedByIssue == family \in {"lnav", "inav", "fnav"}
Mixed(s) ==
  MatchedByIssue /\ s.have /\ Cardinality(Uploads(s.eph) \cup {s.of}) > 1

\* apply*: the message heard at tick t reaches the collector now, whichever
\* station relays it.  One that does not decode, is out of range or names
\* another transmitter is dropped before anything is touched.
Receive(m, t) ==
  LET b == [p \in Slots |-> IF p \in SlotsOf(m) THEN t ELSE buffer[p]]
  IN  /\ buffer' = b
      /\ sv' = Applied(sv, m, b, t)
      /\ told' = [health |-> IF CarriesHealth(m) THEN t ELSE told.health,
                  alert |-> IF CarriesAlert(m) THEN t ELSE told.alert,
                  mixed |-> told.mixed \/ Mixed(sv')]
      /\ heard' = TRUE
      /\ UNCHANGED <<signal, air>>

\* applyObservation keeps the entry alive without any navigation data.
Observe ==
  /\ ~heard
  /\ heard' = TRUE
  /\ UNCHANGED <<signal, air, buffer, sv, told>>

\* Expire: the whole entry goes, its buffers and its stamps too.
Expire ==
  /\ ~heard
  /\ <<buffer, sv>> # <<EmptyBuffer, EmptySV>>
  /\ buffer' = EmptyBuffer
  /\ sv' = EmptySV
  /\ told' = NothingTold
  /\ UNCHANGED <<signal, air, heard>>

\* The satellite: the same message, a clock-only refresh, or a new upload.
\* Galileo's IODnav covers the clock, so it has no clock-only refresh.
Broadcasts ==
  LET last == air[Clocktime]
      next == Clocktime + 1
      age == next - last.orbit
  IN  {b \in {last,
              [last EXCEPT !.clock = next],
              [orbit |-> next, clock |-> next]} :
         /\ b.orbit = last.orbit => age < signal.onAir
         /\ b.orbit # last.orbit => age > ReplaySlack
         /\ b.orbit = last.orbit /\ b # last => family \notin {"inav", "fnav"}}

NextTick ==
  /\ Clocktime < signal.last
  /\ \E b \in Broadcasts : air' = Append(air, b)
  /\ heard' = FALSE
  /\ UNCHANGED <<signal, buffer, sv, told>>

NavNext ==
  \/ NextTick
  \/ Observe
  \/ Expire
  \/ \E m \in Messages, t \in Tick : Receive(m, t)

NavSpec == NavInit /\ [][NavNext]_navVars
-----------------------------------------------------------------------------
Serves(s) ==
  /\ s.have
  /\ Clocktime - s.at <= ServeCap
  /\ Clocktime - s.recv <= ServeCap

\* Parts that go together: of one upload or, where the issue of data is all
\* that is compared, of two uploads that share one.
Together(o, p) == o = p \/ (MatchedByIssue /\ Iod(o) = Iod(p))

\* The served orbit is one broadcast set: no interleaving of live and
\* replayed parts assembles a set the satellite never sent (AssembleGPS and
\* its siblings), unless a replayed part meets the reuse of its own issue.
OneBroadcastSet == \A o, p \in Uploads(sv.eph) : Together(o, p)

\* Whatever is replayed, the served set is one that was still on the air
\* within the slack of the newest set applied to this entry: what the
\* comments at staleReplay and at its callers say of every family.
SetIsRecent ==
  sv.have => \E t \in Tick :
    OrbitAt(t) \in Uploads(sv.eph) /\ t + ReplaySlack >= sv.newest

\* It does hold where the part that carries the clock is matched with the
\* orbit: there a live part can only complete the live set, unless the reuse
\* of an issue has mixed two uploads.
ServedIsRecent == ~ClockOptional /\ ~told.mixed => SetIsRecent

\* Except on B-CNAV2, where the clock is independent by design, the served
\* clock was broadcast with the served orbit, the same reuse apart.
ClockDescribesOrbit ==
  sv.clk # NoClock /\ family # "bcnav2" => \A o \in Uploads(sv.eph) : Together(sv.of, o)

\* The served discontinuity compares the set now served with an adjacent
\* one, the older side first unless this one was received within the slack
\* of the other's upload (computeDisco), with the exceptions of ServedIsRecent.
DiscoIsForward ==
  ~ClockOptional /\ ~told.mixed /\ sv.disco.from # <<>> =>
    LET from == sv.disco.from[1]
        to == sv.eph[1]
    IN  from # to /\ (from > to => sv.recv + ReplaySlack >= from)

\* A time discontinuity is served only while there is a clock to attribute
\* it to: a changeover without a coherent clock reports none.
TimeDiscoHasClocks == sv.disco.time => sv.clk # NoClock

\* A position is never computed from a set whose age has wrapped the time of
\* week, although replay applies old sets with a fresh apply time (Propagate),
\* with the exceptions of ServedIsRecent.
NeverWraps ==
  ~ClockOptional /\ Serves(sv) /\ ~told.mixed => Clocktime - sv.eph[1] < HalfWeek

\* Once the whole current message has been heard live, it is what is served,
\* also after a mixture and also when its issue is that of the set it replaces:
\* no gate against replays, and no issue-of-data gate, keeps it out.  Its group
\* delay too, except on I/NAV, where a word 5 that finds the buffered
\* words mixed is only made up for by the next one.
LiveSetServed ==
  (\A p \in Parts : buffer[p] = Clocktime) =>
    /\ Uploads(sv.eph) = {OrbitAt(Clocktime)}
    /\ sv.clk = ClockAt(Clocktime)
    /\ family # "inav" => sv.tgd = DelayOf(buffer)

\* Health and alert are those of the message received last that carries
\* them: no assembly brings back an earlier one from the buffer (the
\* freshest-wins folds, and applyBeiDouBCNAV2, which does not fold again).
FreshestWins == sv.health = told.health /\ sv.alert = told.alert

\* On F/NAV a revised group delay reaches the served clock with the page
\* that brings it, under an unchanged IODnav (applyGalileoFNAV).
PageDelayServed ==
  family = "fnav" /\ sv.clk # NoClock => sv.tgd = DelayOf(buffer)


=============================================================================

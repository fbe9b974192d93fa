---------------------------- MODULE SignalProofs ----------------------------
(***************************************************************************)
(* What is proved of the signals' own rules: the GLONASS entry that is     *)
(* assembled from the strings of several relays (GlonassAssembly), and the *)
(* reception and power alarms that rest on a forecast computed outside the *)
(* station's lock (ReceptionChecks).                                       *)
(***************************************************************************)
EXTENDS GlonassAssembly, ReceptionChecks, FiniteSetTheorems, SequenceTheorems, TLAPS

(***************************************************************************)
(* GLONASS: what one entry holds, whatever the relays send.                *)
(***************************************************************************)

Disco == [from : Nat, to : Nat]
GloSet == [tbs : SUBSET Nat, clock : Nat, tbAt : Nat, at : Nat, recv : Nat,
           orbit : Disco, time : Disco, pend : [tb : Nat, from : Nat],
           before : Nat, since : Nat]

\* The satellite numbers its sets by the tick of their upload.
AirOK ==
    /\ tbAir \in Seq(Nat) /\ Len(tbAir) >= 1
    /\ \A i \in 1..Len(tbAir) : tbAir[i] \in 1..i

\* Nothing is buffered before it was on the air.
FramesOK ==
    /\ gloFrames \in [GloRelays -> [GloStrings -> Nat]]
    /\ \A r \in GloRelays, n \in GloStrings : gloFrames[r][n] <= GloNow

\* An entry without a set is as it was made.
FreshUntilSet == glo \in GloSet /\ (~HaveGloEph => glo = EmptyGlo)

\* The served set is one tb, uploaded before the string it came in, and held
\* no longer than its stamp says.
Holds(g, tb) ==
    /\ g.tbs = {tb} /\ tb \in 1..g.recv /\ g.recv <= GloNow
    /\ g.tbAt <= g.since /\ g.since <= GloNow
    /\ g.clock \in {0, tb}
    /\ g.orbit # NoGloDisco => g.orbit = [from |-> g.before, to |-> tb]
    /\ g.time # NoGloDisco => g.time = [from |-> g.before, to |-> tb]
    /\ g.pend # NoPending => g.pend = [tb |-> tb, from |-> g.before]
SetHeld == HaveGloEph => \E tb \in Nat : Holds(glo, tb)

GloInv == AirOK /\ FramesOK /\ FreshUntilSet /\ SetHeld /\ LiveFrameServed

\* A set of one tb is served as that tb.
LEMMA OneTb ==
    ASSUME NEW g \in GloSet, NEW tb, g.tbs = {tb}
    PROVE  ServedTb(g) = tb
BY DEF ServedTb

\* What a coherent pair of axes assembles to: one tb, and no other's clock.
LEMMA AssembledIsOne ==
    ASSUME AirOK, NEW b \in [GloStrings -> Nat], HasAxes(b),
           \A n \in GloStrings : b[n] <= GloNow
    PROVE  LET tb == tbAir[b[1]]
           IN  /\ tb \in 1..b[1] /\ b[1] \in 1..GloNow
               /\ Assembled(b).tbs = {tb} /\ Assembled(b).tb = tb
               /\ Assembled(b).clock = IF HasClock(b) THEN tb ELSE 0
<1>1. b[1] \in Nat /\ b[2] \in Nat /\ b[4] \in Nat /\ b[1] <= GloNow /\ b[2] = b[1] /\ b[1] # 0
  BY DEF HasAxes, WithinFrame, GloStrings, NoTick
<1>2. b[1] \in 1..Len(tbAir)
  BY <1>1 DEF GloNow, AirOK
<1>3. tbAir[b[1]] \in 1..b[1]
  BY <1>2 DEF AirOK
<1>4. Assembled(b).tbs = {tbAir[b[1]]} /\ Assembled(b).tb = tbAir[b[1]]
  BY <1>1 DEF Assembled
<1>5. Assembled(b).clock = IF HasClock(b) THEN tbAir[b[1]] ELSE 0
  BY <1>1 DEF Assembled, HasClock
<1> QED BY <1>1, <1>2, <1>3, <1>4, <1>5 DEF GloNow, AirOK

\* The set a string completes is held as one tb, with its own clock and the
\* discontinuities of the changeover that brought it.
LEMMA SetApplied ==
    ASSUME GloBounds, FreshUntilSet, SetHeld, GloNow \in Nat,
           NEW e, NEW tb \in Nat, NEW t \in 1..GloNow, tb \in 1..t,
           e = [tbs |-> {tb}, tb |-> tb, clock |-> e.clock], e.clock \in {0, tb}
    PROVE  LET g == ApplySet(e, t)
           IN  /\ g \in GloSet /\ Holds(g, tb) /\ g.recv = t /\ g.at = GloNow
               /\ e.clock # 0 => g.clock = tb
<1> DEFINE c == [e EXCEPT !.clock = CarriedClock(glo, e)]
           k == Changeover(glo, c)
           h == CompletePending(k, c)
           g == ApplySet(e, t)
<1>0. t \in Nat /\ t <= GloNow /\ tb # 0
  OBVIOUS
<1>1. /\ c.tbs = {tb} /\ c.tb = tb /\ c.clock \in {0, tb}
      /\ e.clock # 0 => c.clock = tb
  <2>1. CarriedClock(glo, e) \in {0, tb}
    <3>1. CASE SameTb(glo, e)
      <4>1. PICK old \in Nat : Holds(glo, old)
        BY <3>1 DEF SameTb, SetHeld, HaveGloEph
      <4>2. old = tb
        BY <3>1, <4>1 DEF SameTb, Holds
      <4> QED BY <4>1, <4>2 DEF CarriedClock, Holds
    <3>2. CASE ~SameTb(glo, e)
      BY <3>2 DEF CarriedClock
    <3> QED BY <3>1, <3>2
  <2>2. e.clock # 0 => CarriedClock(glo, e) = tb
    BY DEF CarriedClock
  <2>3. c.tbs = e.tbs /\ c.tb = e.tb /\ c.clock = CarriedClock(glo, e)
    OBVIOUS
  <2>4. e.tbs = {tb} /\ e.tb = tb
    OBVIOUS
  <2> QED BY <2>1, <2>2, <2>3, <2>4
<1> HIDE DEF c
<1>2. SameTb(glo, c) <=> SameTb(glo, e)
  BY <1>1 DEF SameTb
<1>3. /\ k \in GloSet /\ k.tbs = glo.tbs /\ k.before = glo.before /\ k.since = glo.since
      /\ SameTb(glo, c) \/ glo.tbs = {} => k = glo
      /\ ~SameTb(glo, c) /\ glo.tbs # {} =>
           /\ k.orbit # NoGloDisco => k.orbit = [from |-> ServedTb(glo), to |-> tb]
           /\ k.time # NoGloDisco => k.time = [from |-> ServedTb(glo), to |-> tb]
           /\ k.pend # NoPending => k.pend = [tb |-> tb, from |-> ServedTb(glo)]
  <2>1. CASE SameTb(glo, c) \/ glo.tbs = {}
    <3>1. k = glo
      BY <2>1 DEF Changeover
    <3> QED BY <3>1, <2>1 DEF FreshUntilSet
  <2>2. CASE ~SameTb(glo, c) /\ glo.tbs # {}
    <3>1. PICK old \in Nat : Holds(glo, old)
      BY <2>2 DEF SetHeld, HaveGloEph
    <3>2. ServedTb(glo) = old
      BY <3>1, OneTb DEF FreshUntilSet, Holds
    <3>3. glo.clock \in {0, old}
      BY <3>1 DEF Holds
    <3>4. k = computeGloDisco(glo, c)
      BY <2>2 DEF Changeover
    <3>5. CASE ~Measurable(glo, c)
      <4>1. k = [glo EXCEPT !.orbit = NoGloDisco, !.time = NoGloDisco, !.pend = NoPending]
        BY <3>4, <3>5 DEF computeGloDisco
      <4>2. NoGloDisco \in Disco /\ NoPending \in [tb : Nat, from : Nat]
        BY DEF NoGloDisco, NoPending, Disco
      <4> QED BY <4>1, <4>2, <2>2 DEF FreshUntilSet, GloSet
    <3>6. CASE Measurable(glo, c)
      <4> DEFINE tm == IF glo.clock # 0 /\ c.clock # 0
                         THEN [from |-> glo.clock, to |-> c.clock] ELSE NoGloDisco
                 ob == [from |-> ServedTb(glo), to |-> c.tb]
                 pd == StillPending(glo, c)
      <4>1. k = [glo EXCEPT !.orbit = ob, !.time = tm, !.pend = pd]
        BY <3>4, <3>6 DEF computeGloDisco
      <4>2. ob \in Disco /\ ob = [from |-> old, to |-> tb]
        BY <1>1, <3>2 DEF Disco
      <4>3. tm \in Disco /\ (tm # NoGloDisco => tm = [from |-> old, to |-> tb])
        BY <1>1, <3>3 DEF Disco, NoGloDisco
      <4>4. pd \in [tb : Nat, from : Nat] /\ (pd # NoPending => pd = [tb |-> tb, from |-> old])
        BY <1>1, <3>3 DEF StillPending, NoPending
      <4> HIDE DEF ob, tm, pd
      <4>5. k.orbit = ob /\ k.time = tm /\ k.pend = pd
        BY <4>1 DEF FreshUntilSet, GloSet
      <4>6. k \in GloSet /\ k.tbs = glo.tbs /\ k.before = glo.before /\ k.since = glo.since
        BY <4>1, <4>2, <4>3, <4>4 DEF FreshUntilSet, GloSet
      <4> QED BY <2>2, <3>2, <4>2, <4>3, <4>4, <4>5, <4>6
    <3> QED BY <3>5, <3>6
  <2> QED BY <2>1, <2>2
<1> HIDE DEF k
<1>4. /\ h \in GloSet /\ h.before = k.before /\ h.since = k.since /\ h.orbit = k.orbit
      /\ \/ h = k
         \/ /\ k.pend # NoPending /\ c.clock # 0 /\ c.tb = k.pend.tb
            /\ h.time = [from |-> k.pend.from, to |-> c.clock] /\ h.pend = NoPending
  <2>1. CASE Completes(k, c)
    <3> DEFINE tm == [from |-> k.pend.from, to |-> c.clock]
    <3>1. h = [k EXCEPT !.time = tm, !.pend = NoPending]
      BY <2>1 DEF CompletePending
    <3>2. tm \in Disco /\ NoPending \in [tb : Nat, from : Nat]
      BY <1>1, <1>3 DEF Disco, NoPending, GloSet
    <3>3. h \in GloSet /\ h.time = tm /\ h.pend = NoPending
          /\ h.before = k.before /\ h.since = k.since /\ h.orbit = k.orbit
      BY <3>1, <3>2, <1>3 DEF GloSet
    <3> QED BY <2>1, <3>3 DEF Completes
  <2>2. CASE ~Completes(k, c)
    BY <2>2, <1>3 DEF CompletePending
  <2> QED BY <2>1, <2>2
<1> HIDE DEF h
<1> DEFINE bf == IF glo.tbs # {} /\ ~SameTb(glo, c) THEN ServedTb(glo) ELSE h.before
           sn == IF SameTb(glo, c) THEN h.since ELSE GloNow
<1>5. g = [h EXCEPT !.tbs = c.tbs, !.clock = c.clock, !.tbAt = TbStamp(glo, c, t),
                    !.at = GloNow, !.recv = t, !.before = bf, !.since = sn]
  BY DEF ApplySet, TakeString, c, k, h
<1>6. bf \in Nat /\ sn \in Nat /\ TbStamp(glo, c, t) \in Nat
      /\ TbStamp(glo, c, t) <= sn /\ sn <= GloNow
  <2>1. CASE SameTb(glo, c)
    <3>1. PICK old \in Nat : Holds(glo, old)
      BY <2>1 DEF SameTb, SetHeld, HaveGloEph
    <3> QED BY <2>1, <3>1, <1>3, <1>4 DEF Holds, TbStamp, GloSet, FreshUntilSet
  <2>2. CASE ~SameTb(glo, c)
    <3>1. CASE glo.tbs = {}
      BY <2>2, <3>1, <1>0, <1>3, <1>4 DEF TbStamp, GloSet, FreshUntilSet
    <3>2. CASE glo.tbs # {}
      <4>1. PICK old \in Nat : Holds(glo, old)
        BY <3>2 DEF SetHeld, HaveGloEph
      <4>2. ServedTb(glo) = old
        BY <4>1, OneTb DEF FreshUntilSet, Holds
      <4> QED BY <2>2, <3>2, <4>2, <1>0 DEF TbStamp
    <3> QED BY <3>1, <3>2
  <2> QED BY <2>1, <2>2
<1>7. g \in GloSet /\ g.tbs = {tb} /\ g.clock = c.clock /\ g.tbAt = TbStamp(glo, c, t)
      /\ g.at = GloNow /\ g.recv = t /\ g.before = bf /\ g.since = sn
      /\ g.orbit = h.orbit /\ g.time = h.time /\ g.pend = h.pend
  <2> HIDE DEF bf, sn, g
  <2> DEFINE st == TbStamp(glo, c, t)
  <2>1. c.tbs = {tb} /\ c.clock \in Nat /\ {tb} \in SUBSET Nat
    BY <1>1
  <2>2. st \in Nat /\ bf \in Nat /\ sn \in Nat /\ t \in Nat /\ GloNow \in Nat
    BY <1>6, <1>0
  <2> HIDE DEF st
  <2>3. g = [h EXCEPT !.tbs = {tb}, !.clock = c.clock, !.tbAt = st,
                      !.at = GloNow, !.recv = t, !.before = bf, !.since = sn]
    BY <1>5, <2>1 DEF st
  <2>4. h \in GloSet
    BY <1>4
  <2>5. g \in GloSet
    BY <2>1, <2>2, <2>3, <2>4 DEF GloSet
  <2>6. g.tbs = {tb} /\ g.clock = c.clock /\ g.tbAt = st /\ g.at = GloNow /\ g.recv = t
    BY <2>3, <2>4 DEF GloSet
  <2>7. g.before = bf /\ g.since = sn /\ g.orbit = h.orbit /\ g.time = h.time /\ g.pend = h.pend
    BY <2>3, <2>4 DEF GloSet
  <2> QED BY <2>5, <2>6, <2>7 DEF st
<1>8. /\ h.orbit # NoGloDisco => h.orbit = [from |-> bf, to |-> tb]
      /\ h.time # NoGloDisco => h.time = [from |-> bf, to |-> tb]
      /\ h.pend # NoPending => h.pend = [tb |-> tb, from |-> bf]
  <2>1. /\ k.orbit # NoGloDisco => k.orbit = [from |-> bf, to |-> tb]
        /\ k.time # NoGloDisco => k.time = [from |-> bf, to |-> tb]
        /\ k.pend # NoPending => k.pend = [tb |-> tb, from |-> bf]
    <3>1. CASE glo.tbs = {}
      <4>1. k = EmptyGlo
        BY <3>1, <1>3 DEF FreshUntilSet, HaveGloEph
      <4> QED BY <4>1 DEF EmptyGlo
    <3>2. CASE SameTb(glo, c)
      <4>1. PICK old \in Nat : Holds(glo, old)
        BY <3>2 DEF SameTb, SetHeld, HaveGloEph
      <4>2. old = tb
        BY <3>2, <4>1, <1>1 DEF SameTb, Holds
      <4>3. bf = glo.before
        BY <3>2, <1>3, <1>4
      <4>4. k = glo
        BY <3>2, <1>3
      <4> HIDE DEF bf
      <4> QED BY <4>1, <4>2, <4>3, <4>4 DEF Holds
    <3>3. CASE glo.tbs # {} /\ ~SameTb(glo, c)
      BY <3>3, <1>3
    <3> QED BY <3>1, <3>2, <3>3
  <2> HIDE DEF bf
  <2>2. CASE h = k
    BY <2>1, <2>2
  <2>3. CASE h # k
    <3>1. k.pend = [tb |-> tb, from |-> bf] /\ c.clock = tb
      BY <2>1, <2>3, <1>4, <1>1
    <3>2. k.pend.from = bf
      BY <3>1
    <3> QED BY <2>1, <2>3, <3>1, <3>2, <1>4
  <2> QED BY <2>2, <2>3
<1> HIDE DEF g, bf, sn
<1>9. Holds(g, tb)
  BY <1>0, <1>1, <1>6, <1>7, <1>8 DEF Holds
<1> QED BY <1>1, <1>7, <1>9 DEF g

\* A string of a relay: the entry is left alone, or takes the set completed.
LEMMA StringApplied ==
    ASSUME GloBounds, GloInv, NEW r \in GloRelays, NEW n \in GloStrings,
           NEW t \in 1..GloNow, applyGLONASS(r, n, t)
    PROVE  LET b == [gloFrames[r] EXCEPT ![n] = t]
           IN  /\ b \in [GloStrings -> Nat] /\ (\A i \in GloStrings : b[i] <= GloNow)
               /\ \/ glo' = glo /\ (HasAxes(b) => GloReplayed(glo, t))
                  \/ /\ HasAxes(b) /\ ~GloReplayed(glo, t)
                     /\ b[1] \in 1..GloNow
                     /\ glo' = ApplySet(Assembled(b), t)
<1>1. gloFrames[r] \in [GloStrings -> Nat] /\ t \in Nat /\ t <= GloNow
  BY DEF GloInv, FramesOK, AirOK, GloNow
<1> DEFINE b == [gloFrames[r] EXCEPT ![n] = t]
<1>2. b \in [GloStrings -> Nat] /\ \A i \in GloStrings : b[i] <= GloNow
  BY <1>1 DEF GloInv, FramesOK
<1>3. glo' = IF HasAxes(b) => GloReplayed(glo, t) THEN glo ELSE ApplySet(Assembled(b), t)
  BY DEF applyGLONASS
<1> HIDE DEF b
<1>4. HasAxes(b) => b[1] \in 1..GloNow
  BY <1>2, AssembledIsOne DEF GloInv
<1> QED BY <1>2, <1>3, <1>4 DEF b

\* A relay's string preserves the invariant: live, or in a spool's order.
LEMMA RelayKeepsGlo ==
    ASSUME GloBounds, GloInv, NEW r \in GloRelays, NEW n \in GloStrings,
           NEW t \in 1..GloNow, applyGLONASS(r, n, t),
           \A i \in GloStrings : gloFrames[r][i] <= t,
           r = "live" <=> t = GloNow
    PROVE  GloInv'
<1> DEFINE b == [gloFrames[r] EXCEPT ![n] = t]
<1>0. /\ GloNow \in Nat /\ GloNow >= 1 /\ t \in Nat /\ t <= GloNow
      /\ GloNow' = GloNow /\ tbAir' = tbAir
  BY DEF GloInv, AirOK, GloNow, applyGLONASS
<1>1. b \in [GloStrings -> Nat] /\ (\A i \in GloStrings : b[i] <= t)
      /\ gloFrames' = [gloFrames EXCEPT ![r] = b]
  BY <1>0 DEF GloInv, FramesOK, applyGLONASS
<1>2. \/ glo' = glo /\ (HasAxes(b) => GloReplayed(glo, t))
      \/ HasAxes(b) /\ glo' = ApplySet(Assembled(b), t)
  BY StringApplied
<1> HIDE DEF b
<1> DEFINE tb == tbAir[b[1]]
           e == Assembled(b)
<1>3. HasAxes(b) =>
        /\ tb \in 1..t /\ b[1] \in 1..t
        /\ e = [tbs |-> {tb}, tb |-> tb, clock |-> e.clock]
        /\ e.clock = IF HasClock(b) THEN tb ELSE 0
  <2> SUFFICES ASSUME HasAxes(b) PROVE
        /\ tb \in 1..t /\ b[1] \in 1..t
        /\ e = [tbs |-> {tb}, tb |-> tb, clock |-> e.clock]
        /\ e.clock = IF HasClock(b) THEN tb ELSE 0
    OBVIOUS
  <2>1. \A i \in GloStrings : b[i] <= GloNow
    BY <1>0, <1>1
  <2>2. /\ tb \in 1..b[1] /\ b[1] \in 1..GloNow /\ e.tbs = {tb} /\ e.tb = tb
        /\ e.clock = IF HasClock(b) THEN tb ELSE 0
    BY <1>1, <2>1, AssembledIsOne DEF GloInv
  <2>3. b[1] \in Nat /\ b[1] <= t
    BY <1>1 DEF GloStrings
  <2>4. e = [tbs |-> e.tbs, tb |-> e.tb, clock |-> e.clock]
    BY DEF Assembled
  <2> QED BY <1>0, <2>2, <2>3, <2>4
<1> HIDE DEF e, tb
<1>4. HasAxes(b) /\ glo' = ApplySet(e, t) =>
        /\ glo' \in GloSet /\ Holds(glo', tb) /\ glo'.recv = t /\ glo'.at = GloNow
        /\ e.clock # 0 => glo'.clock = tb
  <2> SUFFICES ASSUME HasAxes(b), glo' = ApplySet(e, t) PROVE
        /\ glo' \in GloSet /\ Holds(glo', tb) /\ glo'.recv = t /\ glo'.at = GloNow
        /\ e.clock # 0 => glo'.clock = tb
    OBVIOUS
  <2>1. tb \in Nat /\ e.clock \in {0, tb}
    BY <1>3
  <2> QED BY <1>0, <1>3, <2>1, SetApplied DEF GloInv
<1>5. FramesOK'
  BY <1>0, <1>1 DEF GloInv, FramesOK
<1>6. /\ FreshUntilSet' /\ SetHeld'
  <2>1. CASE glo' = glo
    BY <2>1, <1>0 DEF GloInv, FreshUntilSet, SetHeld, Holds, HaveGloEph
  <2>2. CASE HasAxes(b) /\ glo' = ApplySet(e, t)
    <3>1. glo'.tbs = {tb} /\ tb \in Nat
      BY <2>2, <1>3, <1>4 DEF Holds
    <3>2. PICK q \in Nat : q = tb
      BY <3>1
    <3>3. Holds(glo, q)'
      BY <2>2, <3>2, <1>0, <1>4 DEF Holds
    <3>4. FreshUntilSet'
      BY <2>2, <1>4, <3>1 DEF FreshUntilSet, HaveGloEph
    <3>5. SetHeld'
      BY <3>3 DEF SetHeld
    <3> QED BY <3>4, <3>5
  <2> QED BY <1>2, <2>1, <2>2 DEF e
<1>7. LiveFrameServed'
  <2> SUFFICES ASSUME \A i \in GloStrings : gloFrames'["live"][i] = GloNow,
                      glo'.at = GloNow, glo'.recv = GloNow
               PROVE  glo'.tbs = {tbAir[GloNow]} /\ glo'.clock = tbAir[GloNow]
    BY <1>0 DEF LiveFrameServed
  <2>1. CASE r = "live"
    <3>1. \A i \in GloStrings : b[i] = GloNow
      BY <2>1, <1>1 DEF GloInv, FramesOK
    <3>2. HasAxes(b) /\ HasClock(b) /\ b[1] = GloNow /\ GloNow >= 1
      BY <3>1, <1>0 DEF HasAxes, HasClock, WithinFrame, GloStrings, NoTick
    <3>3. ~GloReplayed(glo, t)
      <4>1. CASE glo.tbs = {}
        BY <4>1 DEF GloReplayed
      <4>2. CASE glo.tbs # {}
        <5>1. PICK old \in Nat : Holds(glo, old)
          BY <4>2 DEF GloInv, SetHeld, HaveGloEph
        <5>2. glo.recv <= GloNow /\ t = GloNow /\ GloSlack \in Nat /\ glo.recv \in Nat
          BY <5>1, <2>1 DEF Holds, GloBounds, GloInv, FreshUntilSet, GloSet
        <5> QED BY <5>2, <1>0 DEF GloReplayed
      <4> QED BY <4>1, <4>2
    <3>4. glo' = ApplySet(e, t)
      BY <1>2, <3>2, <3>3 DEF e
    <3>5. tb = tbAir[GloNow] /\ e.clock = tb /\ tb # 0
      BY <3>2, <1>3 DEF tb
    <3> QED BY <3>2, <3>4, <3>5, <1>4 DEF Holds
  <2>2. CASE r # "live"
    <3>1. gloFrames'["live"] = gloFrames["live"] /\ t < GloNow
      BY <2>2, <1>0, <1>1 DEF GloInv, FramesOK, GloRelays
    <3>2. glo' = glo
      BY <1>2, <1>4, <3>1, <1>0 DEF e
    <3> QED BY <3>1, <3>2 DEF GloInv, LiveFrameServed
  <2> QED BY <2>1, <2>2
<1> QED BY <1>0, <1>5, <1>6, <1>7 DEF GloInv, AirOK

\* The invariant of GLONASS assembly is inductive.
LEMMA GloStep ==
    ASSUME GloBounds, GloInv, [GloNext]_gloVars
    PROVE  GloInv'
<1>0. GloNow \in Nat /\ GloNow >= 1
  BY DEF GloInv, AirOK, GloNow
<1>1. CASE HearLive
  <2>1. PICK n \in GloStrings : applyGLONASS("live", n, GloNow)
    BY <1>1 DEF HearLive
  <2>2. \A i \in GloStrings : gloFrames["live"][i] <= GloNow
    BY DEF GloInv, FramesOK, GloRelays
  <2>3. GloNow \in 1..GloNow /\ "live" \in GloRelays
    BY <1>0 DEF GloRelays
  <2> QED BY <2>1, <2>2, <2>3, RelayKeepsGlo
<1>2. CASE HearSpool
  <2>1. PICK n \in GloStrings, t \in 1..(GloNow - 1) : InOrder(t) /\ applyGLONASS("spool", n, t)
    BY <1>2 DEF HearSpool
  <2>2. t \in 1..GloNow /\ t # GloNow /\ "spool" \in GloRelays
    BY <1>0 DEF GloRelays
  <2>3. \A i \in GloStrings : gloFrames["spool"][i] <= t
    BY <2>1 DEF InOrder
  <2> QED BY <2>1, <2>2, <2>3, RelayKeepsGlo
<1>3. ASSUME NEW r \in GloRelays, EvictRelay(r) PROVE GloInv'
  <2>1. gloFrames' = [gloFrames EXCEPT ![r] = EmptyFrames[r]] /\ tbAir' = tbAir /\ glo' = glo
        /\ GloNow' = GloNow
    BY <1>3 DEF EvictRelay, GloNow
  <2>2. EmptyFrames[r] = [n \in GloStrings |-> NoTick]
    BY DEF EmptyFrames
  <2>3. FramesOK'
    BY <2>1, <2>2, <1>0 DEF GloInv, FramesOK, NoTick
  <2>4. LiveFrameServed'
    <3>1. CASE r = "live"
      <4>1. gloFrames'["live"][1] = 0
        BY <3>1, <2>1, <2>2 DEF GloInv, FramesOK, GloStrings, NoTick
      <4> QED BY <4>1, <2>1, <1>0 DEF LiveFrameServed, GloStrings
    <3>2. CASE r # "live"
      <4>1. gloFrames'["live"] = gloFrames["live"]
        BY <3>2, <2>1 DEF GloInv, FramesOK, GloRelays
      <4> QED BY <4>1, <2>1 DEF GloInv, LiveFrameServed
    <3> QED BY <3>1, <3>2
  <2> QED BY <2>1, <2>3, <2>4 DEF GloInv, AirOK, FreshUntilSet, SetHeld, Holds, HaveGloEph
<1>4. CASE ExpireGlonass
  <2>1. gloFrames' = EmptyFrames /\ glo' = EmptyGlo /\ tbAir' = tbAir /\ GloNow' = GloNow
    BY <1>4 DEF ExpireGlonass, GloNow
  <2>2. FramesOK'
    BY <2>1, <1>0 DEF FramesOK, EmptyFrames, NoTick
  <2>3. EmptyGlo \in GloSet
    BY DEF EmptyGlo, GloSet, Disco, NoGloDisco, NoPending
  <2>4. ~HaveGloEph' /\ glo'.recv = 0
    BY <2>1 DEF EmptyGlo, HaveGloEph
  <2> QED BY <2>1, <2>2, <2>3, <2>4, <1>0 DEF GloInv, AirOK, FreshUntilSet, SetHeld, LiveFrameServed
<1>5. CASE GloTick
  <2>1. PICK tb \in {tbAir[GloNow]} \cup (IF GloNow + 1 - tbAir[GloNow] > GloSlack THEN {GloNow + 1} ELSE {}) :
          tbAir' = Append(tbAir, tb)
    BY <1>5 DEF GloTick
  <2>2. gloFrames' = gloFrames /\ glo' = glo
    BY <1>5 DEF GloTick
  <2>3. tbAir[GloNow] \in 1..GloNow
    BY <1>0 DEF GloInv, AirOK, GloNow
  <2>4. tb \in 1..(GloNow + 1)
    BY <2>1, <2>3, <1>0
  <2>5. GloNow' = GloNow + 1 /\ AirOK'
    BY <2>1, <2>4, <1>0 DEF GloInv, AirOK, GloNow
  <2>6. FramesOK'
    BY <2>2, <2>5, <1>0 DEF GloInv, FramesOK, GloRelays, GloStrings
  <2>7. SetHeld'
    <3> SUFFICES ASSUME HaveGloEph PROVE \E old \in Nat : Holds(glo, old)'
      BY <2>2 DEF SetHeld, HaveGloEph
    <3>1. PICK old \in Nat : Holds(glo, old)
      BY DEF GloInv, SetHeld
    <3>2. Holds(glo, old)'
      BY <3>1, <2>2, <2>5, <1>0 DEF Holds, GloInv, FreshUntilSet, GloSet
    <3> QED BY <3>2
  <2>8. LiveFrameServed'
    <3>1. gloFrames'["live"][1] # GloNow'
      BY <2>2, <2>5, <1>0 DEF GloInv, FramesOK, GloRelays, GloStrings
    <3> QED BY <3>1 DEF LiveFrameServed, GloStrings
  <2> QED BY <2>2, <2>5, <2>6, <2>7, <2>8 DEF GloInv, FreshUntilSet, HaveGloEph
<1>6. CASE UNCHANGED gloVars
  BY <1>6 DEF gloVars, GloInv, AirOK, FramesOK, FreshUntilSet, SetHeld, Holds, HaveGloEph,
       LiveFrameServed, GloNow
<1> QED BY <1>1, <1>2, <1>3, <1>4, <1>5, <1>6 DEF GloNext

\* What an entry holds is sound to serve.
LEMMA GloInvIsSound ==
    ASSUME GloBounds, GloInv
    PROVE  /\ OneGlonassSet /\ ClockOfTheSet /\ DiscoOfThisChangeover
           /\ FrozenTbIsDropped /\ LiveFrameServed
<1>0. GloNow \in Nat /\ glo \in GloSet /\ GloCap \in Nat
  BY DEF GloInv, AirOK, FreshUntilSet, GloNow, GloBounds
<1>1. CASE ~HaveGloEph
  <2>1. glo = EmptyGlo
    BY <1>1 DEF GloInv, FreshUntilSet
  <2> QED BY <1>1, <2>1 DEF GloInv, OneGlonassSet, ClockOfTheSet, DiscoOfThisChangeover,
        FrozenTbIsDropped, GloServes, EmptyGlo
<1>2. CASE HaveGloEph
  <2>1. PICK tb \in Nat : Holds(glo, tb)
    BY <1>2 DEF GloInv, SetHeld
  <2>2. ServedTb(glo) = tb
    BY <2>1, <1>0, OneTb DEF Holds
  <2>3. tb \in 1..GloNow
    BY <2>1, <1>0 DEF Holds, GloSet
  <2>4. glo.tbAt \in Nat /\ glo.since \in Nat /\ glo.tbAt <= glo.since
    BY <2>1, <1>0 DEF Holds, GloSet
  <2>5. OneGlonassSet /\ ClockOfTheSet /\ DiscoOfThisChangeover
    BY <2>1, <2>2, <2>3 DEF Holds, OneGlonassSet, ClockOfTheSet, DiscoOfThisChangeover
  <2>6. FrozenTbIsDropped
    BY <2>4, <1>0 DEF FrozenTbIsDropped, GloServes
  <2> QED BY <2>5, <2>6 DEF GloInv
<1> QED BY <1>1, <1>2

\* A string that carries an axis changes the set only to its own, and to an
\* older one only within the slack.
LEMMA AxesStep ==
    ASSUME GloBounds, GloInv
    PROVE  \A r \in GloRelays, n \in {1, 2}, t \in 1..GloNow :
              applyGLONASS(r, n, t) /\ HaveGloEph /\ glo'.tbs # glo.tbs =>
                glo'.tbs = {tbAir[t]} /\ t + GloSlack >= ServedTb(glo)
<1> SUFFICES ASSUME NEW r \in GloRelays, NEW n \in {1, 2}, NEW t \in 1..GloNow,
                    applyGLONASS(r, n, t), HaveGloEph, glo'.tbs # glo.tbs
             PROVE  glo'.tbs = {tbAir[t]} /\ t + GloSlack >= ServedTb(glo)
  OBVIOUS
<1> DEFINE b == [gloFrames[r] EXCEPT ![n] = t]
<1>0. n \in GloStrings /\ GloNow \in Nat /\ t \in Nat /\ GloSlack \in Nat
  BY DEF GloStrings, GloInv, AirOK, GloNow, GloBounds
<1>1. /\ b \in [GloStrings -> Nat] /\ (\A i \in GloStrings : b[i] <= GloNow)
      /\ HasAxes(b) /\ ~GloReplayed(glo, t) /\ glo' = ApplySet(Assembled(b), t)
  BY <1>0, StringApplied
<1>2. b[1] = t
  BY <1>0, <1>1 DEF HasAxes, WithinFrame, GloInv, FramesOK, GloStrings
<1> HIDE DEF b
<1> DEFINE tb == tbAir[t]
           e == Assembled(b)
<1>3. tb \in 1..t /\ e.tbs = {tb} /\ e.tb = tb /\ e.clock \in {0, tb}
  BY <1>1, <1>2, AssembledIsOne DEF GloInv
<1>4. e = [tbs |-> {tb}, tb |-> tb, clock |-> e.clock]
  <2>1. e = [tbs |-> e.tbs, tb |-> e.tb, clock |-> e.clock]
    BY DEF Assembled
  <2> QED BY <2>1, <1>3
<1> HIDE DEF e, tb
<1>5. Holds(glo', tb)
  BY <1>0, <1>1, <1>3, <1>4, SetApplied DEF GloInv, e
<1>6. PICK old \in Nat : Holds(glo, old)
  BY DEF GloInv, SetHeld
<1>7. ServedTb(glo) = old /\ old <= glo.recv /\ glo.recv \in Nat
  BY <1>6, OneTb DEF GloInv, FreshUntilSet, Holds, GloSet
<1>8. ~(glo.recv > t + GloSlack)
  BY <1>1 DEF GloReplayed, HaveGloEph
<1> QED BY <1>0, <1>5, <1>7, <1>8 DEF Holds, tb

\* The immediate data of a GLONASS satellite is of one tb, with that tb's
\* clock and the discontinuities of its own changeover, is not held past the
\* cap, is the live frame's when that was heard whole, and does not regress
\* (applyGLONASS, computeGloDisco): for any tolerances and any number of
\* frames and replays.
THEOREM GlonassStaysSound == GloSpec => GlonassIsSound
<1> USE GloBounds
<1>1. GloInit => GloInv
  <2> SUFFICES ASSUME GloInit PROVE GloInv
    OBVIOUS
  <2>1. tbAir = <<1>> /\ gloFrames = EmptyFrames /\ glo = EmptyGlo /\ GloNow = 1
    BY DEF GloInit, GloNow
  <2>2. EmptyGlo \in GloSet
    BY DEF EmptyGlo, GloSet, Disco, NoGloDisco, NoPending
  <2>3. AirOK /\ FramesOK
    BY <2>1 DEF AirOK, FramesOK, EmptyFrames, NoTick
  <2>4. ~HaveGloEph /\ glo.recv = 0
    BY <2>1 DEF EmptyGlo, HaveGloEph
  <2> QED BY <2>1, <2>2, <2>3, <2>4 DEF GloInv, FreshUntilSet, SetHeld, LiveFrameServed
<1>2. GloInv /\ [GloNext]_gloVars => GloInv'
  BY GloStep
<1>3. GloInv => /\ OneGlonassSet /\ ClockOfTheSet /\ DiscoOfThisChangeover
               /\ FrozenTbIsDropped /\ LiveFrameServed
  BY GloInvIsSound
<1>4. GloInv /\ [GloNext]_gloVars =>
        [\A r \in GloRelays, n \in {1, 2}, t \in 1..GloNow :
            applyGLONASS(r, n, t) /\ HaveGloEph /\ glo'.tbs # glo.tbs =>
              glo'.tbs = {tbAir[t]} /\ t + GloSlack >= ServedTb(glo)]_gloVars
  BY AxesStep
<1> QED BY <1>1, <1>2, <1>3, <1>4, PTL DEF GloSpec, GlonassIsSound, AxesNeverRegress

(***************************************************************************)
(* The reception checks.                                                   *)
(***************************************************************************)

MachineType == [alarm : SUBSET Gnss, pending : SUBSET Gnss, target : SUBSET Gnss,
                since : [Gnss -> Int], last : Int]
RunType == [Gnss -> [want : BOOLEAN, from : Int]]
Finding == [covered : SUBSET Gnss, bad : SUBSET Gnss]

\* A run stands behind a dwell that is under way: same finding, same start,
\* and not long enough yet.  A machine that saw no sample has no run.
RunBehind(m, r, g) ==
    /\ r[g].from # None => r[g].from \in Nat /\ r[g].from <= m.last
    /\ g \in m.pending <=> r[g].from # None /\ ~(r[g].want <=> g \in m.alarm)
    /\ g \in m.pending =>
         /\ m.since[g] = r[g].from /\ (r[g].want <=> g \in m.target)
         /\ m.last - r[g].from < Dwell(r[g].want)
Agree(m, r) ==
    /\ m.last = None \/ m.last \in Nat
    /\ \A g \in Gnss : RunBehind(m, r, g)

\* The alarm of a constellation changed at the end of a whole run.
Earned(m, k, r, g) ==
    ~(g \in k.alarm <=> g \in m.alarm) =>
        /\ (r[g].want <=> g \in k.alarm) /\ r[g].from # None
        /\ k.last - r[g].from >= Dwell(r[g].want)

\* A dwell is at least a tick, to alarm and to recover.
LEMMA DwellPositive ==
    ASSUME RcBounds, NEW w \in BOOLEAN
    PROVE  Dwell(w) \in Nat /\ Dwell(w) >= 1
BY DEF RcBounds, Dwell

\* A machine made anew holds its alarm and has no run.
LEMMA HeldAgrees ==
    ASSUME NEW m \in MachineType
    PROVE  /\ AlarmKept(m) \in MachineType /\ NoRun \in RunType
           /\ AlarmKept(m).alarm = m.alarm /\ Agree(AlarmKept(m), NoRun)
<1>1. AlarmKept(m) = [alarm |-> m.alarm, pending |-> {}, target |-> {},
                 since |-> [g \in Gnss |-> None], last |-> None]
  BY DEF AlarmKept, FreshMachine
<1>2. NoRun \in RunType
  BY DEF NoRun, RunType, None
<1>3. AlarmKept(m) \in MachineType
  BY <1>1 DEF MachineType, None
<1>4. Agree(AlarmKept(m), NoRun)
  BY <1>1 DEF Agree, RunBehind, NoRun
<1> QED BY <1>1, <1>2, <1>3, <1>4

\* Coverage that ends takes the dwell and the run with it, and no other.
LEMMA RetainedAgrees ==
    ASSUME NEW m \in MachineType, NEW r \in RunType, Agree(m, r), NEW cov \in SUBSET Gnss
    PROVE  LET k == RetainCoverage(m, cov)
               q == [g \in Gnss |-> IF g \in cov THEN r[g] ELSE NoRun[g]]
           IN  /\ k \in MachineType /\ q \in RunType /\ Agree(k, q)
               /\ k.alarm = m.alarm /\ k.last = m.last
<1> DEFINE k == RetainCoverage(m, cov)
           q == [g \in Gnss |-> IF g \in cov THEN r[g] ELSE NoRun[g]]
           sn == [g \in Gnss |-> IF g \in cov THEN m.since[g] ELSE None]
<1>1. sn \in [Gnss -> Int]
  BY DEF MachineType, None
<1>2. k = [m EXCEPT !.pending = m.pending \cap cov, !.target = m.target \cap cov, !.since = sn]
  BY DEF RetainCoverage
<1>3. k \in MachineType /\ k.alarm = m.alarm /\ k.last = m.last
      /\ k.pending = m.pending \cap cov /\ k.target = m.target \cap cov /\ k.since = sn
  <2> HIDE DEF k, sn
  <2> QED BY <1>1, <1>2 DEF MachineType
<1>4. q \in RunType
  BY DEF RunType, NoRun, None
<1>5. ASSUME NEW g \in Gnss PROVE RunBehind(k, q, g)
  <2>1. CASE g \in cov
    <3>1. q[g] = r[g] /\ sn[g] = m.since[g]
      BY <2>1
    <3> HIDE DEF k, q, sn
    <3> QED BY <2>1, <3>1, <1>3 DEF Agree, RunBehind
  <2>2. CASE g \notin cov
    <3>1. q[g].from = None
      BY <2>2 DEF NoRun
    <3> HIDE DEF k, q, sn
    <3> QED BY <2>2, <3>1, <1>3 DEF RunBehind
  <2> QED BY <2>1, <2>2
<1> QED BY <1>3, <1>4, <1>5 DEF Agree

\* One sample, of one constellation: what Step and the run make of it.
LEMMA SampleAgrees ==
    ASSUME RcBounds, NEW m \in MachineType, NEW r \in RunType, Agree(m, r),
           NEW c \in Finding, NEW t \in Nat,
           \A g \in Gnss : g \notin c.covered => g \notin m.pending
    PROVE  LET k == Step(m, c.covered, c.bad, t)
               q == RunOf(r, m.last, c, t, TRUE)
           IN  /\ k \in MachineType /\ q \in RunType /\ Agree(k, q)
               /\ \A g \in Gnss : Earned(m, k, q, g)
<1> DEFINE k == Step(m, c.covered, c.bad, t)
           q == RunOf(r, m.last, c, t, TRUE)
<1> SUFFICES k \in MachineType /\ q \in RunType /\ Agree(k, q) /\ \A g \in Gnss : Earned(m, k, q, g)
  OBVIOUS
<1>0. /\ m.last \in Int /\ (m.last = None \/ m.last \in Nat) /\ FreshTicks \in Nat
      /\ c.covered \subseteq Gnss /\ c.bad \subseteq Gnss
  BY DEF MachineType, Agree, RcBounds, Finding
<1>n. \A g \in Gnss : NoRun[g].from = None
  BY DEF NoRun
<1>1. q \in RunType
  BY <1>0 DEF RunOf, RunType, NoRun, None
<1>2. CASE m.last # None /\ t <= m.last
  <2>1. CASE t = m.last
    <3>1. ~Interrupted(m, t)
      BY <1>0, <2>1 DEF Interrupted
    <3>2. k = m
      BY <1>2, <2>1, <3>1 DEF Step
    <3>3. \A g \in Gnss : q[g] = IF g \in c.covered THEN r[g] ELSE NoRun[g]
      BY <2>1 DEF RunOf
    <3>4. ASSUME NEW g \in Gnss PROVE RunBehind(m, q, g)
      <4>1. CASE g \in c.covered
        <5>1. q[g] = r[g]
          BY <3>3, <4>1
        <5> HIDE DEF q
        <5> QED BY <5>1 DEF Agree, RunBehind
      <4>2. CASE g \notin c.covered
        <5> HIDE DEF q
        <5>1. q[g].from = None
          BY <1>n, <3>3, <4>2
        <5> QED BY <5>1, <4>2 DEF RunBehind
      <4> QED BY <4>1, <4>2
    <3> HIDE DEF k, q
    <3> QED BY <1>0, <1>1, <3>2, <3>4 DEF Agree, Earned
  <2>2. CASE t < m.last
    <3>1. Interrupted(m, t)
      BY <1>2, <2>2 DEF Interrupted
    <3>2. k = [m EXCEPT !.pending = {}]
      BY <1>2, <3>1 DEF Step, MachineType
    <3>3. k \in MachineType /\ k.pending = {} /\ k.alarm = m.alarm /\ k.last = m.last
      <4> HIDE DEF k
      <4> QED BY <3>2 DEF MachineType
    <3>4. \A g \in Gnss : q[g].from = None
      BY <2>2, <1>0 DEF RunOf, NoRun
    <3> HIDE DEF k, q
    <3> QED BY <1>0, <1>1, <3>3, <3>4 DEF Agree, RunBehind, Earned
  <2> HIDE DEF k, q
  <2> QED BY <1>0, <1>2, <2>1, <2>2
<1>3. CASE m.last = None \/ t > m.last
  <2> DEFINE j == IF Interrupted(m, t) THEN [m EXCEPT !.pending = {}] ELSE m
             changing == {g \in c.covered : (g \in c.bad) # (g \in j.alarm)}
             going == {g \in changing : g \in j.pending /\ (g \in j.target) = (g \in c.bad)}
             since == [g \in Gnss |-> IF g \in going THEN j.since[g] ELSE IF g \in changing THEN t ELSE None]
             done == {g \in changing : t - since[g] >= Dwell(g \in c.bad)}
  <2>1. /\ j \in MachineType /\ j.alarm = m.alarm /\ j.last = m.last
        /\ j.target = m.target /\ j.since = m.since
        /\ j.pending = IF Interrupted(m, t) THEN {} ELSE m.pending
    BY DEF MachineType
  <2>2. k = [alarm |-> (j.alarm \ done) \cup (done \cap c.bad), pending |-> changing \ done,
             target |-> (changing \ done) \cap c.bad,
             since |-> [g \in Gnss |-> IF g \in done THEN None ELSE since[g]], last |-> t]
    <3>1. ~(j.last # None /\ t <= j.last)
      BY <1>0, <1>3, <2>1
    <3> QED BY <3>1 DEF Step
  <2> HIDE DEF j
  <2>3. since \in [Gnss -> Int]
    BY <2>1 DEF MachineType, None
  <2>4. changing \subseteq Gnss /\ going \subseteq changing /\ done \subseteq changing
    BY <1>0
  <2>5. \A g \in Gnss :
          since[g] = IF g \in going THEN j.since[g] ELSE IF g \in changing THEN t ELSE None
    OBVIOUS
  <2>6. \A g \in Gnss : /\ g \in changing <=> g \in c.covered /\ ~(g \in c.bad <=> g \in j.alarm)
                        /\ g \in going <=> g \in changing /\ g \in j.pending /\ (g \in j.target <=> g \in c.bad)
                        /\ g \in done <=> g \in changing /\ t - since[g] >= Dwell(g \in c.bad)
    BY <1>0
  <2> HIDE DEF changing, going, since, done
  <2>7. /\ k.alarm = (j.alarm \ done) \cup (done \cap c.bad) /\ k.pending = changing \ done
        /\ k.target = (changing \ done) \cap c.bad /\ k.last = t
        /\ \A g \in Gnss : g \notin done => k.since[g] = since[g]
        /\ k \in MachineType
    <3> HIDE DEF k
    <3>1. [g \in Gnss |-> IF g \in done THEN None ELSE since[g]] \in [Gnss -> Int]
      BY <2>3 DEF None
    <3> QED BY <2>1, <2>2, <2>3, <2>4, <3>1 DEF MachineType
  <2>8. /\ \A g \in Gnss : g \notin c.covered => q[g] = NoRun[g]
        /\ \A g \in Gnss :
             g \in c.covered /\ r[g].from # None /\ r[g].want = (g \in c.bad) /\ t - m.last <= FreshTicks
               => q[g] = r[g]
    BY <1>0, <1>3 DEF RunOf, None
  <2>10. ASSUME NEW g \in Gnss, g \in c.covered,
                ~(r[g].from # None /\ r[g].want = (g \in c.bad) /\ t - m.last <= FreshTicks)
         PROVE  q[g].from = t /\ (q[g].want <=> g \in c.bad)
    <3>1. q[g] = [want |-> g \in c.bad, from |-> t]
      BY <1>0, <1>3, <2>10 DEF RunOf, None
    <3> HIDE DEF q
    <3>2. CASE g \in c.bad
      <4>1. (g \in c.bad) = TRUE
        BY <3>2
      <4>2. q[g] = [want |-> TRUE, from |-> t]
        BY <3>1, <4>1, Zenon
      <4> QED BY <3>2, <4>2
    <3>3. CASE g \notin c.bad
      <4>1. (g \in c.bad) = FALSE
        BY <3>3
      <4>2. q[g] = [want |-> FALSE, from |-> t]
        BY <3>1, <4>1, Zenon
      <4> QED BY <3>3, <4>2
    <3> QED BY <3>2, <3>3
  <2> HIDE DEF k, q
  <2>9. ASSUME NEW g \in Gnss PROVE RunBehind(k, q, g) /\ Earned(m, k, q, g)
    <3>0. /\ r[g].want \in BOOLEAN /\ r[g].from \in Int /\ RunBehind(m, r, g)
          /\ (g \in c.bad) \in BOOLEAN
      BY DEF RunType, Agree
    <3>1. CASE g \notin c.covered
      <4>1. q[g].from = None
        BY <1>n, <2>8, <3>1
      <4>2. g \notin changing /\ g \notin done
        BY <2>6, <3>1
      <4> QED BY <4>1, <4>2, <2>1, <2>7 DEF RunBehind, Earned
    <3>2. CASE g \in c.covered /\ r[g].from # None /\ r[g].want = (g \in c.bad) /\ t - m.last <= FreshTicks
      <4>1. q[g] = r[g]
        BY <2>8, <3>2
      <4>2. m.last \in Nat /\ r[g].from \in Nat /\ r[g].from <= m.last /\ t > m.last
        BY <3>0, <3>2, <1>0, <1>3 DEF RunBehind, None
      <4>3. j.pending = m.pending
        BY <2>1, <3>2, <4>2 DEF Interrupted
      <4>4. (r[g].want <=> g \in c.bad)
        BY <3>0, <3>2
      <4>5. CASE g \in changing
        <5>1. g \in m.pending
          BY <4>4, <4>5, <2>1, <2>6, <3>0, <3>2 DEF RunBehind
        <5>2. g \in going
          BY <5>1, <4>3, <4>4, <4>5, <2>1, <2>6, <3>0 DEF RunBehind
        <5>3. since[g] = r[g].from
          BY <5>1, <5>2, <2>1, <2>5, <3>0 DEF RunBehind
        <5>4. CASE g \in done
          <6>1. t - r[g].from >= Dwell(g \in c.bad)
            BY <5>3, <5>4, <2>6
          <6>2. g \in k.alarm <=> g \in c.bad
            BY <5>4, <2>7
          <6>3. g \notin k.pending
            BY <5>4, <2>7
          <6> QED BY <3>0, <3>2, <4>1, <4>2, <4>4, <6>1, <6>2, <6>3, <2>7 DEF RunBehind, Earned
        <5>5. CASE g \notin done
          <6>1. ~(t - r[g].from >= Dwell(g \in c.bad))
            BY <5>3, <5>5, <4>5, <2>6
          <6>2. t - r[g].from < Dwell(r[g].want)
            BY <6>1, <4>2, <4>4, <3>0 DEF Dwell, RcBounds
          <6>3. (g \in k.alarm <=> g \in m.alarm) /\ g \in k.pending /\ (g \in k.target <=> g \in c.bad)
            BY <5>5, <4>5, <2>1, <2>7
          <6>4. ~(g \in c.bad <=> g \in m.alarm)
            BY <4>5, <2>1, <2>6
          <6>5. k.since[g] = r[g].from /\ k.last = t
            BY <5>3, <5>5, <2>7
          <6> QED BY <3>2, <4>1, <4>2, <4>4, <6>2, <6>3, <6>4, <6>5 DEF RunBehind, Earned
        <5> QED BY <5>4, <5>5
      <4>6. CASE g \notin changing
        <5>1. (g \in k.alarm <=> g \in m.alarm) /\ g \notin k.pending /\ (g \in c.bad <=> g \in m.alarm)
          BY <4>6, <3>2, <2>1, <2>4, <2>6, <2>7
        <5> QED BY <3>2, <4>1, <4>2, <4>4, <5>1, <2>7 DEF RunBehind, Earned
      <4> QED BY <4>5, <4>6
    <3>3. CASE g \in c.covered /\ ~(r[g].from # None /\ r[g].want = (g \in c.bad) /\ t - m.last <= FreshTicks)
      <4>1. q[g].from = t /\ (q[g].want <=> g \in c.bad)
        BY <2>10, <3>3
      <4>2. g \notin going
        <5> SUFFICES ASSUME g \in going PROVE FALSE
          OBVIOUS
        <5>1. g \in m.pending /\ ~Interrupted(m, t) /\ (g \in m.target <=> g \in c.bad)
          BY <2>1, <2>6
        <5>2. r[g].from # None /\ (r[g].want <=> g \in c.bad) /\ r[g].from \in Nat /\ r[g].from <= m.last
          BY <5>1, <3>0 DEF RunBehind
        <5>3. m.last # None /\ t - m.last <= FreshTicks
          BY <5>1, <5>2, <1>0, <1>3 DEF Interrupted, None
        <5> QED BY <3>0, <3>3, <5>2, <5>3
      <4>3. CASE g \in changing
        <5>1. since[g] = t
          BY <4>2, <4>3, <2>5
        <5>2. g \notin done
          <6>1. Dwell(g \in c.bad) \in Nat /\ Dwell(g \in c.bad) >= 1
            BY <3>0, DwellPositive
          <6> QED BY <5>1, <6>1, <2>6
        <5>3. (g \in k.alarm <=> g \in m.alarm) /\ g \in k.pending /\ (g \in k.target <=> g \in c.bad)
              /\ k.since[g] = t /\ k.last = t /\ ~(g \in c.bad <=> g \in m.alarm)
          BY <4>3, <5>1, <5>2, <2>1, <2>6, <2>7
        <5>4. t - t < Dwell(q[g].want)
          BY DEF Dwell, RcBounds
        <5> QED BY <4>1, <5>3, <5>4 DEF RunBehind, Earned, None
      <4>4. CASE g \notin changing
        <5>1. (g \in k.alarm <=> g \in m.alarm) /\ g \notin k.pending /\ (g \in c.bad <=> g \in m.alarm)
          BY <4>4, <3>3, <2>1, <2>4, <2>6, <2>7
        <5> QED BY <4>1, <5>1, <2>7 DEF RunBehind, Earned
      <4> QED BY <4>3, <4>4
    <3> QED BY <3>1, <3>2, <3>3
  <2> QED BY <1>1, <2>7, <2>9 DEF Agree
<1> HIDE DEF k, q
<1> QED BY <1>0, <1>2, <1>3

\* Check and CheckPower, for one machine: a sample of any coverage.
LEMMA CheckedAgrees ==
    ASSUME RcBounds, NEW m \in MachineType, NEW r \in RunType, Agree(m, r),
           NEW c \in Finding, NEW t \in Nat, NEW new \in BOOLEAN
    PROVE  LET k == Checked(m, c, t, new)
               q == RunOf(r, m.last, c, t, new)
           IN  /\ k \in MachineType /\ q \in RunType /\ Agree(k, q)
               /\ \A g \in Gnss : Earned(m, k, q, g)
<1> DEFINE k == Checked(m, c, t, new)
           q == RunOf(r, m.last, c, t, new)
           j == RetainCoverage(m, c.covered)
           p == [g \in Gnss |-> IF g \in c.covered THEN r[g] ELSE NoRun[g]]
<1> SUFFICES k \in MachineType /\ q \in RunType /\ Agree(k, q) /\ \A g \in Gnss : Earned(m, k, q, g)
  OBVIOUS
<1>0. c.covered \in SUBSET Gnss
  BY DEF Finding
<1>1. j \in MachineType /\ p \in RunType /\ Agree(j, p) /\ j.alarm = m.alarm /\ j.last = m.last
  BY <1>0, RetainedAgrees
<1>2. CASE rcKind = "reception" /\ c.covered = {}
  <2>1. k = AlarmKept(m)
    BY <1>2 DEF Checked
  <2>2. q = NoRun
    BY <1>2 DEF RunOf, NoRun
  <2> HIDE DEF k, q
  <2> QED BY <2>1, <2>2, HeldAgrees DEF Earned
<1>3. CASE ~(rcKind = "reception" /\ c.covered = {}) /\ new
  <2>1. k = Step(j, c.covered, c.bad, t)
    BY <1>3 DEF Checked
  <2>2. q = RunOf(p, j.last, c, t, TRUE)
    BY <1>1, <1>3 DEF RunOf
  <2>3. \A g \in Gnss : g \notin c.covered => g \notin j.pending
    BY DEF RetainCoverage, MachineType
  <2> HIDE DEF k, q, j, p
  <2>4. k \in MachineType /\ q \in RunType /\ Agree(k, q) /\ \A g \in Gnss : Earned(j, k, q, g)
    BY <1>1, <2>1, <2>2, <2>3, SampleAgrees
  <2> QED BY <1>1, <2>4 DEF Earned
<1>4. CASE ~(rcKind = "reception" /\ c.covered = {}) /\ ~new
  <2>1. k = j
    BY <1>4 DEF Checked
  <2>2. q = p
    BY <1>4 DEF RunOf
  <2> HIDE DEF k, q, j, p
  <2> QED BY <1>1, <2>1, <2>2 DEF Earned
<1> HIDE DEF k, q
<1> QED BY <1>2, <1>3, <1>4

\* What a report says of constellations names constellations, and the joint
\* check covers no more than the delivered model.
LEMMA FindingsAreOf ==
    ASSUME RcBounds, rcKind \in {"reception", "power", "snapshot"}, NEW found \in Findings
    PROVE  /\ \A n \in Names : found[n] \in Finding
           /\ rcKind = "power" => found["joint"].covered \subseteq found["remote"].covered
<1>1. CASE rcKind = "reception"
  <2>1. PICK c \in SUBSET Gnss, b \in SUBSET Gnss : found = [check |-> [covered |-> c, bad |-> b]]
    BY <1>1 DEF Findings, ReceptionFindings
  <2>2. found["check"] \in Finding
    BY <2>1 DEF Finding
  <2>3. Names = {"check"}
    BY <1>1 DEF Names
  <2> QED BY <1>1, <2>2, <2>3
<1>2. CASE rcKind = "power"
  <2>1. PICK r \in Assessments, l \in Assessments :
          found = [remote |-> Quorum(r.covered, r.bad), joint |-> Joint(r, l)]
    BY <1>2 DEF Findings, PowerFindings
  <2>2. \A x, y : Quorum(x, y) \in Finding
    BY DEF Quorum, Finding, RcBounds
  <2>3. found["remote"] = Quorum(r.covered, r.bad) /\ found["joint"] = Joint(r, l)
    BY <2>1
  <2>4. Joint(r, l).covered \subseteq Quorum(r.covered, r.bad).covered
    <3>1. IsFiniteSet(r.covered) /\ r.covered \cap l.covered \subseteq r.covered
      <4>1. r.covered \subseteq PowerEntries /\ IsFiniteSet(PowerEntries)
        BY DEF Assessments, RcBounds
      <4> QED BY <4>1, FS_Subset
    <3>2. /\ Cardinality(r.covered \cap l.covered) <= Cardinality(r.covered)
          /\ Cardinality(r.covered \cap l.covered) \in Nat /\ Cardinality(r.covered) \in Nat
      BY <3>1, FS_Subset, FS_CardinalityType
    <3>3. MinExpected \in Nat
      BY DEF RcBounds
    <3>4. Joint(r, l).covered = IF Cardinality(r.covered \cap l.covered) >= MinExpected THEN {PowerGnss} ELSE {}
      BY DEF Joint, Quorum
    <3>5. Quorum(r.covered, r.bad).covered = IF Cardinality(r.covered) >= MinExpected THEN {PowerGnss} ELSE {}
      BY DEF Quorum
    <3> QED BY <3>2, <3>3, <3>4, <3>5
  <2>5. Names = {"remote", "joint"}
    BY <1>2 DEF Names
  <2>6. Joint(r, l) \in Finding
    BY <2>2 DEF Joint
  <2> QED BY <1>2, <2>2, <2>3, <2>4, <2>5, <2>6
<1>3. CASE rcKind = "snapshot"
  BY <1>3 DEF Names
<1> QED BY <1>1, <1>2, <1>3

-----------------------------------------------------------------------------
RcForecast == [at : Nat, session : Nat]
RcTypeOK ==
    /\ rcKind \in {"reception", "power", "snapshot"} /\ rcNow \in Nat
    /\ rcStation \in [session : Nat, control : Int, last : Int, first : BOOLEAN]
    /\ rcForecasts \in Seq(RcForecast)
    /\ rcWriter \in [1..RcSessions -> Nat \cup {None}]
    /\ rcMachines \in [Names -> MachineType] /\ rcRuns \in [Names -> RunType]
    /\ rcVerdict \in [Names -> [alarm : SUBSET Gnss, covered : SUBSET Gnss]]
    /\ rcSnap \in [request : Ids \cup {0}, scopes : SUBSET Scopes, expires : Nat, result : SUBSET SUBSET Scopes]

MachinesAgree == \A n \in Names : Agree(rcMachines[n], rcRuns[n])
RcInv == RcTypeOK /\ ForecastsOfTheSession /\ MachinesAgree /\ VerdictHolds

\* The forecasts kept are the newest of those computed.
LEMMA LastOfKeeps ==
    ASSUME RcBounds, NEW S, NEW q \in Seq(S)
    PROVE  /\ LastOf(q) \in Seq(S)
           /\ \A i \in 1..Len(LastOf(q)) : \E j \in 1..Len(q) : LastOf(q)[i] = q[j]
<1>1. FcKeep \in Nat /\ FcKeep >= 1 /\ Len(q) \in Nat
  BY DEF RcBounds
<1>2. CASE Len(q) > FcKeep
  <2> DEFINE a == Len(q) - FcKeep + 1
             z == SubSeq(q, a, Len(q))
  <2>1. LastOf(q) = z
    BY <1>2 DEF LastOf
  <2>2. /\ a \in Int /\ Len(q) \in Int /\ Len(q) - a + 1 = FcKeep /\ a <= Len(q)
        /\ \A i \in a..Len(q) : q[i] \in S
    <3>1. a \in Int /\ 1 <= a /\ Len(q) - a + 1 = FcKeep /\ a <= Len(q)
      BY <1>1, <1>2
    <3> HIDE DEF a, z
    <3>2. \A i \in a..Len(q) : i \in 1..Len(q)
      BY <1>1, <3>1
    <3>3. \A i \in 1..Len(q) : q[i] \in S
      BY ElementOfSeq
    <3> QED BY <1>1, <3>1, <3>2, <3>3
  <2>3. \A i \in 1..FcKeep : a + i - 1 \in 1..Len(q)
    BY <1>1, <1>2
  <2> HIDE DEF a
  <2>4. /\ z \in Seq(S) /\ Len(z) = (IF a <= Len(q) THEN Len(q) - a + 1 ELSE 0)
        /\ \A i \in 1..(Len(q) - a + 1) : z[i] = q[a + i - 1]
    <3>1. /\ SubSeq(q, a, Len(q)) \in Seq(S)
          /\ Len(SubSeq(q, a, Len(q))) = (IF a <= Len(q) THEN Len(q) - a + 1 ELSE 0)
          /\ \A i \in 1..(Len(q) - a + 1) : SubSeq(q, a, Len(q))[i] = q[a + i - 1]
      BY ONLY <2>2, SubSeqProperties
    <3> QED BY <3>1
  <2> HIDE DEF z
  <2> QED BY <2>1, <2>2, <2>3, <2>4
<1>3. CASE ~(Len(q) > FcKeep)
  BY <1>3 DEF LastOf
<1> QED BY <1>2, <1>3

\* A machine that saw nothing agrees with the run of nothing.
LEMMA EmptyMachineAgrees ==
    /\ FreshMachine \in MachineType /\ NoRun \in RunType /\ Agree(FreshMachine, NoRun)
<1>1. FreshMachine \in MachineType
  BY DEF FreshMachine, MachineType, None
<1>2. NoRun \in RunType
  BY DEF NoRun, RunType, None
<1>3. Agree(FreshMachine, NoRun)
  BY DEF FreshMachine, Agree, RunBehind, NoRun
<1> QED BY <1>1, <1>2, <1>3

\* Steps that leave the machines and their verdicts alone.
LEMMA MachinesStay ==
    ASSUME RcInv, UNCHANGED <<rcKind, machineVars>>
    PROVE  /\ MachinesAgree' /\ VerdictHolds' /\ Names' = Names
           /\ \A n \in Names, g \in Gnss : (g \in rcMachines'[n].alarm) = (g \in rcMachines[n].alarm)
<1>1. Names' = Names
  BY DEF Names
<1>2. rcMachines' = rcMachines /\ rcRuns' = rcRuns /\ rcVerdict' = rcVerdict /\ rcKind' = rcKind
  BY DEF machineVars
<1> QED BY <1>1, <1>2 DEF RcInv, MachinesAgree, VerdictHolds

\* The action properties, of one step.
EarnedStep ==
    \A n \in Names, g \in Gnss : (g \in rcMachines'[n].alarm) # (g \in rcMachines[n].alarm) =>
        /\ rcRuns'[n][g].want = (g \in rcMachines'[n].alarm)
        /\ rcRuns'[n][g].from # None
        /\ rcMachines'[n].last - rcRuns'[n][g].from >= Dwell(rcRuns'[n][g].want)
TurnsStep ==
    rcSnap'.request # rcSnap.request => rcSnap.request = 0 \/ rcSnap.result # {} \/ rcSnap.expires <= rcNow

\* A step in which every machine takes a step of its own.
LEMMA MachinesMove ==
    ASSUME RcInv, Names' = Names,
           \A n \in Names : /\ rcMachines'[n] \in MachineType /\ rcRuns'[n] \in RunType
                            /\ Agree(rcMachines'[n], rcRuns'[n])
                            /\ \A g \in Gnss : Earned(rcMachines[n], rcMachines'[n], rcRuns'[n], g)
    PROVE  MachinesAgree' /\ EarnedStep
<1>1. MachinesAgree'
  BY DEF MachinesAgree
<1>2. ASSUME NEW n \in Names, NEW g \in Gnss,
             (g \in rcMachines'[n].alarm) # (g \in rcMachines[n].alarm)
      PROVE  /\ rcRuns'[n][g].want = (g \in rcMachines'[n].alarm)
             /\ rcRuns'[n][g].from # None
             /\ rcMachines'[n].last - rcRuns'[n][g].from >= Dwell(rcRuns'[n][g].want)
  <2>1. Earned(rcMachines[n], rcMachines'[n], rcRuns'[n], g) /\ rcRuns'[n][g].want \in BOOLEAN
    BY DEF RunType
  <2>2. ~(g \in rcMachines'[n].alarm <=> g \in rcMachines[n].alarm)
    BY <1>2
  <2>3. /\ (rcRuns'[n][g].want <=> g \in rcMachines'[n].alarm) /\ rcRuns'[n][g].from # None
        /\ rcMachines'[n].last - rcRuns'[n][g].from >= Dwell(rcRuns'[n][g].want)
    BY <2>1, <2>2 DEF Earned
  <2>4. rcRuns'[n][g].want = (g \in rcMachines'[n].alarm)
    BY <2>1, <2>3
  <2> QED BY <2>3, <2>4
<1> QED BY <1>1, <1>2 DEF EarnedStep

\* A new session holds the alarms and starts every dwell anew.
LEMMA BeginKeeps ==
    ASSUME RcBounds, RcInv, BeginRcSession
    PROVE  RcInv' /\ EarnedStep /\ TurnsStep
<1>1. /\ rcStation' = [rcStation EXCEPT !.session = rcStation.session + 1, !.last = None, !.first = TRUE]
      /\ rcForecasts' = <<>> /\ UNCHANGED <<rcKind, rcNow, rcWriter, rcVerdict, rcSnap>>
      /\ rcMachines' = [n \in Names |-> AlarmKept(rcMachines[n])] /\ rcRuns' = [n \in Names |-> NoRun]
  BY DEF BeginRcSession
<1>2. Names' = Names
  BY <1>1 DEF Names
<1>3. \A n \in Names : /\ rcMachines'[n] = AlarmKept(rcMachines[n]) /\ rcRuns'[n] = NoRun
                       /\ rcMachines[n] \in MachineType
  BY <1>1 DEF RcInv, RcTypeOK
<1>4. \A n \in Names : /\ rcMachines'[n] \in MachineType /\ rcRuns'[n] \in RunType
                       /\ Agree(rcMachines'[n], rcRuns'[n]) /\ rcMachines'[n].alarm = rcMachines[n].alarm
  BY <1>3, HeldAgrees
<1>5. MachinesAgree' /\ EarnedStep
  BY <1>2, <1>4, MachinesMove DEF Earned
<1>6. rcMachines' \in [Names -> MachineType] /\ rcRuns' \in [Names -> RunType]
  BY <1>1, <1>4
<1>7. RcTypeOK'
  <2>1. rcStation' \in [session : Nat, control : Int, last : Int, first : BOOLEAN]
    <3>1. rcStation \in [session : Nat, control : Int, last : Int, first : BOOLEAN]
      BY DEF RcInv, RcTypeOK
    <3>2. rcStation.session + 1 \in Nat /\ None \in Int /\ TRUE \in BOOLEAN
      BY <3>1 DEF None
    <3> QED BY ONLY <1>1, <3>1, <3>2
  <2>2. rcForecasts' \in Seq(RcForecast)
    BY <1>1
  <2>3. rcWriter' \in [1..RcSessions -> Nat \cup {None}] /\ rcNow' \in Nat
    BY <1>1 DEF RcInv, RcTypeOK
  <2>4. rcVerdict' \in [Names' -> [alarm : SUBSET Gnss, covered : SUBSET Gnss]]
    BY <1>1, <1>2 DEF RcInv, RcTypeOK
  <2>5. /\ rcKind' \in {"reception", "power", "snapshot"}
        /\ rcSnap' \in [request : Ids \cup {0}, scopes : SUBSET Scopes, expires : Nat, result : SUBSET SUBSET Scopes]
    BY <1>1 DEF RcInv, RcTypeOK
  <2> QED BY <1>2, <1>6, <2>1, <2>2, <2>3, <2>4, <2>5 DEF RcTypeOK
<1>8. VerdictHolds'
  BY <1>1, <1>2, <1>4 DEF RcInv, VerdictHolds
<1>9. ForecastsOfTheSession' /\ TurnsStep
  BY <1>1 DEF ForecastsOfTheSession, TurnsStep
<1> QED BY <1>5, <1>7, <1>8, <1>9 DEF RcInv

\* A forecast that is begun touches no machine.
LEMMA PendingKeeps ==
    ASSUME RcBounds, RcInv, NEW s \in 1..RcSessions, BeginPending(s)
    PROVE  RcInv' /\ EarnedStep /\ TurnsStep
<1> DEFINE lst == IF Due THEN rcNow ELSE rcStation.last
           wr == IF Due THEN rcNow ELSE None
<1>1. /\ rcStation' = [rcStation EXCEPT !.control = rcNow, !.last = lst]
      /\ rcWriter' = [rcWriter EXCEPT ![s] = wr]
      /\ UNCHANGED <<rcKind, rcNow, rcForecasts, machineVars, rcSnap>>
  BY DEF BeginPending
<1>2. lst \in Int /\ wr \in Nat \cup {None} /\ rcNow \in Int
  BY DEF RcInv, RcTypeOK
<1> HIDE DEF lst, wr
<1>3. MachinesAgree' /\ VerdictHolds' /\ Names' = Names /\ EarnedStep
  BY <1>1, MachinesStay DEF EarnedStep
<1>4. RcTypeOK' /\ rcStation'.session = rcStation.session
  BY <1>1, <1>2, <1>3 DEF RcInv, RcTypeOK, machineVars
<1>5. ForecastsOfTheSession' /\ TurnsStep
  BY <1>1, <1>4 DEF RcInv, ForecastsOfTheSession, TurnsStep
<1> QED BY <1>3, <1>4, <1>5 DEF RcInv

\* A forecast is stored only for the session it was computed for.
LEMMA ForecastKeeps ==
    ASSUME RcBounds, RcInv, NEW s \in 1..RcSessions, EndForecast(s)
    PROVE  RcInv' /\ EarnedStep /\ TurnsStep
<1>1. /\ rcWriter[s] # None /\ rcWriter' = [rcWriter EXCEPT ![s] = None]
      /\ UNCHANGED <<rcKind, rcNow, rcStation, machineVars, rcSnap>>
  BY DEF EndForecast
<1>2. MachinesAgree' /\ VerdictHolds' /\ Names' = Names /\ EarnedStep
  BY <1>1, MachinesStay DEF EarnedStep
<1> DEFINE f == [at |-> rcWriter[s], session |-> s]
           q == Append(rcForecasts, f)
<1>3. rcForecasts' \in Seq(RcForecast) /\ ForecastsOfTheSession'
  <2>1. CASE UNCHANGED rcForecasts
    <3>1. rcForecasts \in Seq(RcForecast) /\ ForecastsOfTheSession
      BY DEF RcInv, RcTypeOK
    <3>2. rcForecasts' = rcForecasts /\ rcStation' = rcStation
      BY <1>1, <2>1
    <3> HIDE DEF f, q
    <3> QED BY <3>1, <3>2 DEF ForecastsOfTheSession
  <2>2. CASE StillCurrent(s) /\ rcForecasts' = LastOf(q)
    <3>1. f \in RcForecast /\ f.session = rcStation.session
      BY <1>1, <2>2 DEF RcForecast, StillCurrent, RcInv, RcTypeOK, RcBounds
    <3> HIDE DEF f
    <3>2. q \in Seq(RcForecast) /\ \A i \in 1..Len(q) : q[i].session = rcStation.session
      <4>1. rcForecasts \in Seq(RcForecast)
        BY DEF RcInv, RcTypeOK
      <4>2. \A i \in 1..Len(rcForecasts) : rcForecasts[i].session = rcStation.session
        BY DEF RcInv, ForecastsOfTheSession
      <4>3. /\ q \in Seq(RcForecast) /\ Len(q) = Len(rcForecasts) + 1
            /\ q[Len(rcForecasts) + 1] = f
            /\ \A i \in 1..Len(rcForecasts) : q[i] = rcForecasts[i]
        BY <3>1, <4>1, AppendProperties
      <4> HIDE DEF q
      <4>4. ASSUME NEW i \in 1..Len(q) PROVE q[i].session = rcStation.session
        <5>1. Len(rcForecasts) \in Nat
          BY <4>1
        <5> DEFINE n == Len(rcForecasts)
        <5> HIDE DEF n
        <5>2. i = n + 1 \/ i \in 1..n
          BY <4>3, <5>1 DEF n
        <5>3. CASE i = n + 1
          BY <3>1, <4>3, <5>3 DEF n
        <5>4. CASE i \in 1..n
          BY <4>2, <4>3, <5>4 DEF n
        <5> QED BY <5>2, <5>3, <5>4
      <4> QED BY <4>3, <4>4
    <3> HIDE DEF q
    <3>3. /\ LastOf(q) \in Seq(RcForecast)
          /\ \A i \in 1..Len(LastOf(q)) : \E j \in 1..Len(q) : LastOf(q)[i] = q[j]
      BY <3>2, LastOfKeeps
    <3>4. \A i \in 1..Len(LastOf(q)) : LastOf(q)[i].session = rcStation.session
      BY <3>2, <3>3
    <3> QED BY <1>1, <2>2, <3>3, <3>4 DEF ForecastsOfTheSession
  <2> QED BY <2>1, <2>2 DEF EndForecast
<1>4. RcTypeOK'
  BY <1>1, <1>2, <1>3 DEF RcInv, RcTypeOK, machineVars
<1> QED BY <1>1, <1>2, <1>3, <1>4 DEF RcInv, TurnsStep

\* A check that finds no session or no observation keeps the alarm.
LEMMA UnknownKeeps ==
    ASSUME RcBounds, RcInv, CheckUnknown
    PROVE  RcInv' /\ EarnedStep /\ TurnsStep
<1> DEFINE v(n) == [alarm |-> IF rcKind = "reception" THEN rcMachines[n].alarm ELSE {}, covered |-> {}]
<1>1. /\ UNCHANGED <<rcKind, rcNow, rcStation, rcForecasts, rcWriter, rcSnap>>
      /\ rcMachines' = [n \in Names |-> AlarmKept(rcMachines[n])] /\ rcRuns' = [n \in Names |-> NoRun]
      /\ rcVerdict' = [n \in Names |-> v(n)]
  BY DEF CheckUnknown
<1>2. Names' = Names
  BY <1>1 DEF Names
<1>3. \A n \in Names : /\ rcMachines'[n] = AlarmKept(rcMachines[n]) /\ rcRuns'[n] = NoRun
                       /\ rcMachines[n] \in MachineType
  BY <1>1 DEF RcInv, RcTypeOK
<1>4. \A n \in Names : /\ rcMachines'[n] \in MachineType /\ rcRuns'[n] \in RunType
                       /\ Agree(rcMachines'[n], rcRuns'[n]) /\ rcMachines'[n].alarm = rcMachines[n].alarm
  BY <1>3, HeldAgrees
<1>5. MachinesAgree' /\ EarnedStep
  BY <1>2, <1>4, MachinesMove DEF Earned
<1>6. rcMachines' \in [Names -> MachineType] /\ rcRuns' \in [Names -> RunType]
  BY <1>1, <1>4
<1>7. \A n \in Names : rcVerdict'[n] = v(n) /\ v(n) \in [alarm : SUBSET Gnss, covered : SUBSET Gnss]
  BY <1>1, <1>3 DEF MachineType
<1>8. rcVerdict' \in [Names -> [alarm : SUBSET Gnss, covered : SUBSET Gnss]]
  <2>1. \A n \in Names : v(n) \in [alarm : SUBSET Gnss, covered : SUBSET Gnss]
    BY <1>7
  <2> HIDE DEF v
  <2> QED BY <1>1, <2>1
<1>9. RcTypeOK'
  BY <1>1, <1>2, <1>6, <1>8 DEF RcInv, RcTypeOK
<1>10. VerdictHolds'
  <2>1. CASE rcKind = "reception"
    BY <1>1, <1>2, <1>4, <1>7, <2>1 DEF VerdictHolds
  <2>2. CASE rcKind = "power"
    <3>1. "joint" \in Names
      BY <2>2 DEF Names
    <3>2. rcVerdict'["joint"].covered = {}
      <4>1. rcVerdict'["joint"] = v("joint")
        BY <1>7, <3>1
      <4>2. v("joint").covered = {}
        OBVIOUS
      <4> HIDE DEF v
      <4> QED BY <4>1, <4>2
    <3> QED BY <1>1, <2>2, <3>2 DEF VerdictHolds
  <2> QED BY <1>1, <2>1, <2>2 DEF VerdictHolds
<1> QED BY <1>1, <1>5, <1>9, <1>10 DEF RcInv, ForecastsOfTheSession, TurnsStep

\* A sample against a forecast moves every machine and its run alike.
LEMMA KnownKeeps ==
    ASSUME RcBounds, RcInv, SampleArrives
    PROVE  RcInv' /\ EarnedStep /\ TurnsStep
<1>1. PICK i \in 1..Len(rcForecasts), t \in 0..(rcNow + AheadTicks), new \in BOOLEAN, found \in Findings :
        CheckKnown(rcForecasts[i], t, new, found)
  BY DEF SampleArrives
<1>2. t \in Nat
  BY <1>1 DEF RcInv, RcTypeOK, RcBounds
<1> DEFINE c == [n \in Names |-> IF InForce(rcForecasts[i], t) THEN found[n] ELSE Uncovered]
           fresh == new \/ rcStation.first
           fst == rcStation.first /\ rcKind = "reception" /\ c["check"].covered = {}
<1>3. /\ UNCHANGED <<rcKind, rcNow, rcForecasts, rcWriter, rcSnap>>
      /\ rcMachines' = [n \in Names |-> Checked(rcMachines[n], c[n], t, fresh)]
      /\ rcRuns' = [n \in Names |-> RunOf(rcRuns[n], rcMachines[n].last, c[n], t, fresh)]
      /\ rcVerdict' = [n \in Names |-> [alarm |-> rcMachines'[n].alarm, covered |-> c[n].covered]]
      /\ rcStation' = [rcStation EXCEPT !.first = fst]
  BY <1>1 DEF CheckKnown
<1>4. /\ \A n \in Names : c[n] \in Finding
      /\ rcKind = "power" => c["joint"].covered \subseteq c["remote"].covered
  <2>1. /\ \A n \in Names : found[n] \in Finding
        /\ rcKind = "power" => found["joint"].covered \subseteq found["remote"].covered
    BY FindingsAreOf DEF RcInv, RcTypeOK
  <2>2. Uncovered \in Finding /\ Uncovered.covered = {}
    BY DEF Uncovered, Finding
  <2>3. rcKind = "power" => "joint" \in Names /\ "remote" \in Names
    BY DEF Names
  <2> QED BY <2>1, <2>2, <2>3
<1>5. fresh \in BOOLEAN /\ fst \in BOOLEAN
  BY DEF RcInv, RcTypeOK
<1> HIDE DEF c, fresh, fst
<1>6. Names' = Names
  BY <1>3 DEF Names
<1>7. ASSUME NEW n \in Names
      PROVE  /\ rcMachines'[n] \in MachineType /\ rcRuns'[n] \in RunType
             /\ Agree(rcMachines'[n], rcRuns'[n])
             /\ \A g \in Gnss : Earned(rcMachines[n], rcMachines'[n], rcRuns'[n], g)
  <2>1. PICK m : m = rcMachines[n]
    OBVIOUS
  <2>2. PICK r : r = rcRuns[n]
    OBVIOUS
  <2>3. PICK d \in Finding : d = c[n]
    BY <1>4
  <2>4. PICK w \in BOOLEAN : w = fresh
    BY <1>5
  <2>5. m \in MachineType /\ r \in RunType /\ Agree(m, r)
    BY <2>1, <2>2 DEF RcInv, RcTypeOK, MachinesAgree
  <2>6. rcMachines'[n] = Checked(m, d, t, w) /\ rcRuns'[n] = RunOf(r, m.last, d, t, w)
    BY <1>3, <2>1, <2>2, <2>3, <2>4
  <2>7. /\ Checked(m, d, t, w) \in MachineType /\ RunOf(r, m.last, d, t, w) \in RunType
        /\ Agree(Checked(m, d, t, w), RunOf(r, m.last, d, t, w))
        /\ \A g \in Gnss : Earned(m, Checked(m, d, t, w), RunOf(r, m.last, d, t, w), g)
    BY <1>2, <2>5, CheckedAgrees
  <2> QED BY <2>1, <2>6, <2>7
<1>8. MachinesAgree' /\ EarnedStep
  BY <1>6, <1>7, MachinesMove
<1>9. rcMachines' \in [Names -> MachineType] /\ rcRuns' \in [Names -> RunType]
  BY <1>3, <1>7
<1>10. \A n \in Names : /\ rcVerdict'[n] = [alarm |-> rcMachines'[n].alarm, covered |-> c[n].covered]
                        /\ rcVerdict'[n] \in [alarm : SUBSET Gnss, covered : SUBSET Gnss]
  BY <1>3, <1>4, <1>7 DEF MachineType, Finding
<1>11. rcVerdict' \in [Names -> [alarm : SUBSET Gnss, covered : SUBSET Gnss]]
  BY <1>3, <1>10
<1>12. rcStation' \in [session : Nat, control : Int, last : Int, first : BOOLEAN]
       /\ rcStation'.session = rcStation.session
  BY <1>3, <1>5 DEF RcInv, RcTypeOK
<1>13. RcTypeOK'
  BY <1>3, <1>6, <1>9, <1>11, <1>12 DEF RcInv, RcTypeOK
<1>14. VerdictHolds'
  <2>1. \A n \in Names : rcVerdict'[n].alarm = rcMachines'[n].alarm
    <3> HIDE DEF c
    <3> SUFFICES ASSUME NEW n \in Names PROVE rcVerdict'[n].alarm = rcMachines'[n].alarm
      OBVIOUS
    <3> DEFINE rec == [alarm |-> rcMachines'[n].alarm, covered |-> c[n].covered]
    <3>1. rcVerdict'[n] = rec
      BY <1>10
    <3>2. rec.alarm = rcMachines'[n].alarm
      OBVIOUS
    <3> HIDE DEF rec
    <3> QED BY ONLY <3>1, <3>2
  <2>2. rcKind = "power" => rcVerdict'["joint"].covered \subseteq rcVerdict'["remote"].covered
    <3> SUFFICES ASSUME rcKind = "power"
                 PROVE  rcVerdict'["joint"].covered \subseteq rcVerdict'["remote"].covered
      OBVIOUS
    <3>1. "joint" \in Names /\ "remote" \in Names
      BY DEF Names
    <3>2. c["joint"].covered \subseteq c["remote"].covered
      BY <1>4
    <3> HIDE DEF c
    <3>3. \A n \in Names : rcVerdict'[n].covered = c[n].covered
      <4> SUFFICES ASSUME NEW n \in Names PROVE rcVerdict'[n].covered = c[n].covered
        OBVIOUS
      <4> DEFINE rec == [alarm |-> rcMachines'[n].alarm, covered |-> c[n].covered]
      <4>1. rcVerdict'[n] = rec
        BY <1>10
      <4>2. rec.covered = c[n].covered
        OBVIOUS
      <4> HIDE DEF rec
      <4> QED BY ONLY <4>1, <4>2
    <3> QED BY <3>1, <3>2, <3>3
  <2> QED BY <1>3, <1>6, <2>1, <2>2 DEF VerdictHolds
<1> QED BY <1>3, <1>8, <1>12, <1>13, <1>14 DEF RcInv, ForecastsOfTheSession, TurnsStep

\* Snapshots take turns and touch no machine.
LEMMA SnapshotKeeps ==
    ASSUME RcBounds, RcInv, NEW id \in Ids, NEW scopes \in SUBSET Scopes,
           PostSnapshot(id, scopes) \/ SnapshotReported(id, scopes)
    PROVE  RcInv' /\ EarnedStep /\ TurnsStep
<1>1. UNCHANGED <<rcKind, rcNow, rcStation, rcForecasts, rcWriter, machineVars>>
  BY DEF PostSnapshot, SnapshotReported
<1>2. MachinesAgree' /\ VerdictHolds' /\ Names' = Names /\ EarnedStep
  BY <1>1, MachinesStay DEF EarnedStep
<1>3. /\ rcSnap' \in [request : Ids \cup {0}, scopes : SUBSET Scopes, expires : Nat, result : SUBSET SUBSET Scopes]
      /\ TurnsStep
  <2>0. rcNow + RequestLife \in Nat /\ rcSnap.expires \in Nat /\ rcNow \in Nat
    BY DEF RcInv, RcTypeOK, RcBounds
  <2>1. CASE PostSnapshot(id, scopes)
    BY <2>0, <2>1 DEF PostSnapshot, SnapPending, TurnsStep
  <2>2. CASE SnapshotReported(id, scopes)
    BY <2>2 DEF SnapshotReported, TurnsStep, RcInv, RcTypeOK
  <2> QED BY <2>1, <2>2
<1>4. RcTypeOK'
  BY <1>1, <1>2, <1>3 DEF RcInv, RcTypeOK, machineVars
<1> QED BY <1>1, <1>2, <1>3, <1>4 DEF RcInv, ForecastsOfTheSession

\* Every step keeps the invariant, earns its alarms and takes its turn.
LEMMA RcStep ==
    ASSUME RcBounds, RcInv, [RcNext]_rcVars
    PROVE  RcInv' /\ [EarnedStep]_rcVars /\ [TurnsStep]_rcVars
<1>1. CASE RcTick
  <2>1. rcNow' = rcNow + 1 /\ UNCHANGED <<rcKind, rcStation, rcForecasts, rcWriter, machineVars, rcSnap>>
    BY <1>1 DEF RcTick
  <2>2. MachinesAgree' /\ VerdictHolds' /\ Names' = Names /\ EarnedStep
    BY <2>1, MachinesStay DEF EarnedStep
  <2>3. RcTypeOK'
    BY <2>1, <2>2 DEF RcInv, RcTypeOK, machineVars
  <2> QED BY <2>1, <2>2, <2>3 DEF RcInv, ForecastsOfTheSession, TurnsStep
<1>2. CASE UNCHANGED rcVars
  <2>1. UNCHANGED <<rcKind, rcNow, rcStation, rcForecasts, rcWriter, machineVars, rcSnap>>
    BY <1>2 DEF rcVars
  <2>2. MachinesAgree' /\ VerdictHolds' /\ Names' = Names
    BY <2>1, MachinesStay
  <2>3. RcTypeOK'
    BY <2>1, <2>2 DEF RcInv, RcTypeOK, machineVars
  <2> QED BY <1>2, <2>1, <2>2, <2>3 DEF RcInv, ForecastsOfTheSession
<1>3. ASSUME RcNext, ~RcTick PROVE RcInv' /\ EarnedStep /\ TurnsStep
  BY <1>3, BeginKeeps, PendingKeeps, ForecastKeeps, UnknownKeeps, KnownKeeps, SnapshotKeeps DEF RcNext
<1> QED BY <1>1, <1>2, <1>3

\* A run as long as its dwell has changed the alarm.
LEMMA RcInvIsSound ==
    ASSUME RcBounds, RcInv
    PROVE  ForecastsOfTheSession /\ DwellIsEnough /\ VerdictHolds
<1>1. ASSUME NEW n \in Names, NEW g \in Gnss, rcRuns[n][g].from # None,
             rcMachines[n].last - rcRuns[n][g].from >= Dwell(rcRuns[n][g].want)
      PROVE  (g \in rcMachines[n].alarm) = rcRuns[n][g].want
  <2>1. RunBehind(rcMachines[n], rcRuns[n], g) /\ rcRuns[n][g].want \in BOOLEAN
    BY DEF RcInv, MachinesAgree, Agree, RcTypeOK, RunType
  <2>2. rcMachines[n].last \in Int /\ rcRuns[n][g].from \in Int
    <3>1. rcMachines[n] \in MachineType /\ rcRuns[n] \in RunType
      BY DEF RcInv, RcTypeOK
    <3>2. rcMachines[n].last \in Int
      BY <3>1 DEF MachineType
    <3>3. rcRuns[n][g].from \in Int
      BY <3>1 DEF RunType
    <3> QED BY <3>2, <3>3
  <2>3. Dwell(rcRuns[n][g].want) \in Nat
    BY <2>1, DwellPositive
  <2>4. g \notin rcMachines[n].pending
    BY <1>1, <2>1, <2>2, <2>3 DEF RunBehind
  <2>5. rcRuns[n][g].want <=> g \in rcMachines[n].alarm
    BY <1>1, <2>1, <2>4 DEF RunBehind
  <2> QED BY <2>1, <2>5
<1> QED BY <1>1 DEF RcInv, DwellIsEnough

\* The collector's reception alarms rest on the forecasts of their session and
\* on a whole dwell of fresh samples, and on no less (Manager.Check,
\* CheckPower, Machine.Step): for any constellations, dwells, quorums and
\* forecasts, any samples in any order, and any sessions that replace one
\* another.
THEOREM ReceptionStaysSound == RcSpec => ReceptionIsSound
<1> USE RcBounds
<1>1. RcInit => RcInv
  <2> SUFFICES ASSUME RcInit PROVE RcInv
    OBVIOUS
  <2>1. \A n \in Names : rcMachines[n] = FreshMachine /\ rcRuns[n] = NoRun
    BY DEF RcInit
  <2>2. MachinesAgree
    BY <2>1, EmptyMachineAgrees DEF MachinesAgree
  <2>3. rcMachines \in [Names -> MachineType] /\ rcRuns \in [Names -> RunType]
    BY EmptyMachineAgrees DEF RcInit
  <2>4. RcTypeOK
    BY <2>3 DEF RcInit, RcTypeOK, None, NoneAsked
  <2>5. VerdictHolds
    <3>1. \A n \in Names : rcVerdict[n].alarm = {} /\ rcVerdict[n].covered = {} /\ rcMachines[n].alarm = {}
      BY <2>1 DEF RcInit, FreshMachine
    <3>2. rcKind = "power" => "joint" \in Names
      BY DEF Names
    <3> QED BY <3>1, <3>2 DEF VerdictHolds
  <2> QED BY <2>2, <2>4, <2>5 DEF RcInv, RcInit, ForecastsOfTheSession
<1>2. RcInv /\ [RcNext]_rcVars => RcInv'
  BY RcStep
<1>3. RcInv => ForecastsOfTheSession /\ DwellIsEnough /\ VerdictHolds
  BY RcInvIsSound
<1>4. RcInv /\ [RcNext]_rcVars =>
        [\A n \in Names, g \in Gnss : (g \in rcMachines'[n].alarm) # (g \in rcMachines[n].alarm) =>
            /\ rcRuns'[n][g].want = (g \in rcMachines'[n].alarm)
            /\ rcRuns'[n][g].from # None
            /\ rcMachines'[n].last - rcRuns'[n][g].from >= Dwell(rcRuns'[n][g].want)]_rcVars
  BY RcStep DEF EarnedStep
<1>5. RcInv /\ [RcNext]_rcVars =>
        [rcSnap'.request # rcSnap.request =>
            rcSnap.request = 0 \/ rcSnap.result # {} \/ rcSnap.expires <= rcNow]_rcVars
  BY RcStep DEF TurnsStep
<1> QED BY <1>1, <1>2, <1>3, <1>4, <1>5, PTL DEF RcSpec, ReceptionIsSound, DwellIsEarned, SnapshotsTakeTurns

=============================================================================

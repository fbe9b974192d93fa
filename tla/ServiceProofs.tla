--------------------------- MODULE ServiceProofs ----------------------------
(***************************************************************************)
(* The services around the live picture, for every value of the constants. *)
(* Before authentication: the budgets of the push endpoint hold.  The live *)
(* states: each holds only what its audience may see.  The feeds: a body   *)
(* is of one state of the store and is never served after it was           *)
(* withdrawn.                                                              *)
(***************************************************************************)
EXTENDS PreAuth, AudienceViews, FeedServing, FiniteSetTheorems, TLAPS

-----------------------------------------------------------------------------
(***************************************************************************)
(* Before authentication.                                                  *)
(***************************************************************************)
Phases == HoldsAddress \cup {"none", "session"}

\* The buckets of the guard: never above their size, and what an address took
\* since a tick and what its bucket holds now stay within the bucket and its
\* rate.  An address outside the table has the values of a new one, and
\* nothing is counted for a tick to come.
GuardType ==
  /\ entries \subseteq Addresses
  /\ tokens \in [Addresses -> 0..Burst]
  /\ logTokens \in [Addresses -> 0..LogFull]
  /\ untouched \in [Addresses -> Nat]
  /\ opened \in [Addresses -> [0..PreAuthTicks -> Nat]]
  /\ logged \in [Addresses -> [0..PreAuthTicks -> Nat]]
Credit ==
  \A a \in Addresses, t \in 0..PreAuthTicks :
    /\ t <= paTicks => /\ opened[a][t] + Tokens(a) <= Burst + Rate * (paTicks - t)
                       /\ LogWindow * logged[a][t] + LogTokens(a) <= LogFull + LogLines * (paTicks - t)
    /\ t > paTicks => opened[a][t] = 0 /\ logged[a][t] = 0
Fresh ==
  \A a \in Addresses : a \notin entries =>
    /\ tokens[a] = Burst /\ logTokens[a] = LogFull /\ untouched[a] = 0
    /\ opened[a] = NoneSince /\ logged[a] = NoneSince
GuardInv == GuardType /\ Credit /\ Fresh

\* The connections and what they hold.
ConnType ==
  /\ conn \in [Conns -> Phases]
  /\ remote \in [Conns -> Addresses \cup {NoAddress}]
  /\ \A c \in Conns : conn[c] \in HoldsAddress => remote[c] \in Addresses
  /\ inflight \in [Addresses -> Nat]
  /\ preAuth \in Nat /\ fleet \in Nat
ConnInv == ConnType /\ SlotsMatchConnections /\ \A a \in Addresses : inflight[a] <= PerAddress

PreAuthInv == paTicks \in 0..PreAuthTicks /\ GuardInv /\ ConnInv
-----------------------------------------------------------------------------
\* The budgets, rates and caps as numbers.
LEMMA PaConstants ==
  /\ PreAuthSlots \in Nat /\ FleetSlots \in Nat /\ PerAddress \in Nat /\ MaxTracked \in Nat
  /\ PreAuthSlots > 0 /\ FleetSlots > 0 /\ PerAddress > 0
  /\ Burst \in Nat /\ Burst > 0 /\ LogWindow \in Nat /\ LogWindow > 0
  /\ Rate \in Nat /\ LogLines \in Nat /\ PreAuthTicks \in Nat
  /\ IsFiniteSet(Conns)
BY PreAuthBounds

\* The laws of products of naturals the token arithmetic needs.
LEMMA Products ==
  ASSUME NEW m \in Nat, NEW n \in Nat
  PROVE  /\ m * n \in Nat
         /\ m * (n + 1) = m * n + m
         /\ (n + 1) * m = n * m + m
         /\ n * m = m * n
         /\ 0 * m = 0 /\ m * 0 = 0
OBVIOUS

\* The full warning bucket is a natural number.
LEMMA LogFullNat == LogFull \in Nat
BY PaConstants, Products DEF LogFull

\* Two sets of connections that differ at most in c.
LEMMA OneConnection ==
  ASSUME NEW S \in SUBSET Conns, NEW T \in SUBSET Conns, NEW c \in Conns,
         \A d \in Conns \ {c} : d \in S <=> d \in T
  PROVE  /\ Cardinality(S) \in Nat
         /\ (c \in S <=> c \in T) => Cardinality(T) = Cardinality(S)
         /\ (c \notin S /\ c \in T) => Cardinality(T) = Cardinality(S) + 1
         /\ (c \in S /\ c \notin T) => Cardinality(T) = Cardinality(S) - 1 /\ Cardinality(S) > 0
<1>1. IsFiniteSet(S) /\ IsFiniteSet(T)
  BY PaConstants, FS_Subset
<1>2. Cardinality(S) \in Nat /\ Cardinality(T) \in Nat
  BY <1>1, FS_CardinalityType
<1>3. ASSUME c \in S <=> c \in T PROVE Cardinality(T) = Cardinality(S)
  <2>1. S = T
    BY <1>3
  <2> QED BY <2>1
<1>4. ASSUME c \notin S, c \in T PROVE Cardinality(T) = Cardinality(S) + 1
  <2>1. T = S \cup {c}
    BY <1>4
  <2> QED BY <2>1, <1>4, <1>1, FS_AddElement
<1>5. ASSUME c \in S, c \notin T PROVE Cardinality(T) = Cardinality(S) - 1 /\ Cardinality(S) > 0
  <2>1. S = T \cup {c}
    BY <1>5
  <2>2. Cardinality(S) = Cardinality(T) + 1
    BY <2>1, <1>5, <1>1, FS_AddElement
  <2> QED BY <2>2, <1>2
<1> QED BY <1>2, <1>3, <1>4, <1>5
-----------------------------------------------------------------------------
\* A refilled bucket is typed and holds no less than the stored one.
LEMMA BucketType ==
  ASSUME GuardType, NEW a \in Addresses
  PROVE  /\ Tokens(a) \in 0..Burst /\ tokens[a] <= Tokens(a)
         /\ LogTokens(a) \in 0..LogFull /\ logTokens[a] <= LogTokens(a)
<1>1. tokens[a] \in 0..Burst /\ logTokens[a] \in 0..LogFull /\ untouched[a] \in Nat
  BY DEF GuardType
<1>2. untouched[a] * Rate \in Nat /\ untouched[a] * LogLines \in Nat
  BY <1>1, PaConstants, Products
<1>3. PICK x : x = untouched[a] * Rate
  OBVIOUS
<1>4. PICK y : y = untouched[a] * LogLines
  OBVIOUS
<1>5. x \in Nat /\ y \in Nat
  BY <1>2, <1>3, <1>4
<1>6. Tokens(a) = Smaller(Burst, tokens[a] + x) /\ LogTokens(a) = Smaller(LogFull, logTokens[a] + y)
  BY <1>3, <1>4 DEF Tokens, LogTokens
<1> QED BY <1>1, <1>5, <1>6, PaConstants, LogFullNat DEF Smaller

\* state with what is taken out of the buckets keeps their account.
LEMMA StateKeeps ==
  ASSUME GuardInv, paTicks \in 0..PreAuthTicks, NEW a \in Addresses, NEW n \in {0, 1}, NEW l \in {0, 1},
         n <= Tokens(a), l * LogWindow <= LogTokens(a), State(a, n, l), paTicks' = paTicks
  PROVE  GuardInv'
<1> USE PaConstants, LogFullNat
<1>0. GuardType /\ Credit /\ Fresh
  BY DEF GuardInv
<1>1. l * LogWindow \in Nat
  BY Products
<1>2. Tokens(a) - n \in 0..Burst /\ LogTokens(a) - l * LogWindow \in 0..LogFull
  <2>1. PICK w : w = l * LogWindow
    OBVIOUS
  <2>2. w \in Nat /\ w <= LogTokens(a)
    BY <2>1, <1>1
  <2> QED BY <1>0, <2>1, <2>2, BucketType
<1>3. \A b \in Addresses : CountedSince(opened[b], n) \in [0..PreAuthTicks -> Nat] /\ CountedSince(logged[b], l) \in [0..PreAuthTicks -> Nat]
  <2> SUFFICES ASSUME NEW b \in Addresses
               PROVE  CountedSince(opened[b], n) \in [0..PreAuthTicks -> Nat] /\ CountedSince(logged[b], l) \in [0..PreAuthTicks -> Nat]
    OBVIOUS
  <2>1. opened[b] \in [0..PreAuthTicks -> Nat] /\ logged[b] \in [0..PreAuthTicks -> Nat]
    BY <1>0 DEF GuardType
  <2>2. ASSUME NEW h \in [0..PreAuthTicks -> Nat], NEW k \in {0, 1}
        PROVE  CountedSince(h, k) \in [0..PreAuthTicks -> Nat]
    BY <2>2 DEF CountedSince
  <2> QED BY <2>1, <2>2
<1>4. NoneSince \in [0..PreAuthTicks -> Nat]
  BY DEF NoneSince
<1>5. GuardType'
  <2>1. entries' \subseteq Addresses
    BY <1>0 DEF State, GuardType
  <2>2. tokens' \in [Addresses -> 0..Burst]
    BY <1>0, <1>2 DEF State, GuardType, Entered
  <2>3. logTokens' \in [Addresses -> 0..LogFull]
    BY <1>0, <1>2 DEF State, GuardType, Entered
  <2>4. untouched' \in [Addresses -> Nat]
    BY <1>0 DEF State, GuardType, Entered
  <2>5. opened' \in [Addresses -> [0..PreAuthTicks -> Nat]]
    BY <1>0, <1>3, <1>4 DEF State, GuardType, Entered
  <2>6. logged' \in [Addresses -> [0..PreAuthTicks -> Nat]]
    BY <1>0, <1>3, <1>4 DEF State, GuardType, Entered
  <2> QED BY <2>1, <2>2, <2>3, <2>4, <2>5, <2>6 DEF GuardType
<1>6. Fresh'
  <2> SUFFICES ASSUME NEW b \in Addresses, b \notin entries'
               PROVE  /\ tokens'[b] = Burst /\ logTokens'[b] = LogFull /\ untouched'[b] = 0
                      /\ opened'[b] = NoneSince /\ logged'[b] = NoneSince
    BY DEF Fresh, NoneSince
  <2>1. b # a
    BY DEF State
  <2>2. CASE b \in Forgotten(a)
    BY <2>1, <2>2 DEF State, Entered
  <2>3. CASE b \notin Forgotten(a)
    <3>1. b \notin entries
      BY <2>3 DEF State
    <3> QED BY <3>1, <2>1, <2>3, <1>0 DEF State, Entered, Fresh
  <2> QED BY <2>2, <2>3
<1>7. Credit'
  <2> SUFFICES ASSUME NEW b \in Addresses, NEW t \in 0..PreAuthTicks
               PROVE  /\ t <= paTicks => /\ opened'[b][t] + Tokens(b)' <= Burst + Rate * (paTicks - t)
                                         /\ LogWindow * logged'[b][t] + LogTokens(b)' <= LogFull + LogLines * (paTicks - t)
                      /\ t > paTicks => opened'[b][t] = 0 /\ logged'[b][t] = 0
    BY DEF Credit
  <2>a. t <= paTicks => Rate * (paTicks - t) \in Nat /\ LogLines * (paTicks - t) \in Nat
    <3>1. t <= paTicks => paTicks - t \in Nat
      OBVIOUS
    <3> QED BY <3>1, Products
  <2>c. /\ t <= paTicks => /\ opened[b][t] + Tokens(b) <= Burst + Rate * (paTicks - t)
                           /\ LogWindow * logged[b][t] + LogTokens(b) <= LogFull + LogLines * (paTicks - t)
        /\ t > paTicks => opened[b][t] = 0 /\ logged[b][t] = 0
    BY <1>0 DEF Credit
  <2>d. opened[b][t] \in Nat /\ logged[b][t] \in Nat
    BY <1>0 DEF GuardType
  <2>1. CASE b = a
    <3>1. tokens'[b] = Tokens(a) - n /\ logTokens'[b] = LogTokens(a) - l * LogWindow /\ untouched'[b] = 0
      BY <2>1 DEF State, Entered
    <3>2. Tokens(b)' = Tokens(a) - n /\ LogTokens(b)' = LogTokens(a) - l * LogWindow
      <4>1. 0 * Rate = 0 /\ 0 * LogLines = 0
        BY Products
      <4>2. Tokens(b)' = Smaller(Burst, (Tokens(a) - n) + 0) /\ LogTokens(b)' = Smaller(LogFull, (LogTokens(a) - l * LogWindow) + 0)
        BY <3>1, <4>1 DEF Tokens, LogTokens, LogFull
      <4> QED BY <4>2, <1>2 DEF Smaller
    <3>3. /\ opened'[b][t] = IF t <= paTicks THEN opened[b][t] + n ELSE 0
          /\ logged'[b][t] = IF t <= paTicks THEN logged[b][t] + l ELSE 0
      BY <2>1 DEF State, Entered, CountedSince
    <3>4. LogWindow * (logged[b][t] + l) = LogWindow * logged[b][t] + l * LogWindow
      BY <2>d
    <3>5. LogWindow * logged[b][t] \in Nat
      BY <2>d, Products
    <3>6. t <= paTicks => opened[b][t] + n + (Tokens(a) - n) <= Burst + Rate * (paTicks - t)
      BY <2>c, <2>1, <2>a, <2>d, <1>0, BucketType
    <3>7. t <= paTicks => LogWindow * logged[b][t] + l * LogWindow + (LogTokens(a) - l * LogWindow) <= LogFull + LogLines * (paTicks - t)
      BY <2>c, <2>1, <2>a, <3>5, <1>0, <1>1, BucketType
    <3>8. t <= paTicks => opened'[b][t] + Tokens(b)' <= Burst + Rate * (paTicks - t)
      BY <3>2, <3>3, <3>6
    <3>9. t <= paTicks => LogWindow * logged'[b][t] + LogTokens(b)' <= LogFull + LogLines * (paTicks - t)
      BY <3>2, <3>3, <3>4, <3>7
    <3>10. t > paTicks => opened'[b][t] = 0 /\ logged'[b][t] = 0
      BY <3>3
    <3> QED BY <3>8, <3>9, <3>10
  <2>2. CASE b # a /\ b \in Forgotten(a)
    <3>1. tokens'[b] = Burst /\ logTokens'[b] = LogFull /\ untouched'[b] = 0
      BY <2>2 DEF State, Entered
    <3>2. Tokens(b)' = Burst /\ LogTokens(b)' = LogFull
      <4>1. 0 * Rate = 0 /\ 0 * LogLines = 0
        BY Products
      <4>2. Tokens(b)' = Smaller(Burst, Burst + 0) /\ LogTokens(b)' = Smaller(LogFull, LogFull + 0)
        BY <3>1, <4>1 DEF Tokens, LogTokens, LogFull
      <4> QED BY <4>2 DEF Smaller
    <3>3. opened'[b][t] = 0 /\ logged'[b][t] = 0
      BY <2>2 DEF State, Entered, NoneSince
    <3>4. LogWindow * 0 = 0
      BY Products
    <3> QED BY <3>2, <3>3, <3>4, <2>a
  <2>3. CASE b # a /\ b \notin Forgotten(a)
    <3>1. /\ tokens'[b] = tokens[b] /\ logTokens'[b] = logTokens[b] /\ untouched'[b] = untouched[b]
          /\ opened'[b] = opened[b] /\ logged'[b] = logged[b]
      BY <2>3 DEF State, Entered
    <3>2. Tokens(b)' = Tokens(b) /\ LogTokens(b)' = LogTokens(b)
      BY <3>1 DEF Tokens, LogTokens, LogFull
    <3> QED BY <3>1, <3>2, <2>c
  <2> QED BY <2>1, <2>2, <2>3
<1> QED BY <1>5, <1>6, <1>7 DEF GuardInv

\* Time fills the buckets no faster than the rate allows.
LEMMA TickKeeps ==
  ASSUME GuardInv, paTicks \in 0..PreAuthTicks, PreAuthTick
  PROVE  GuardInv' /\ paTicks' \in 0..PreAuthTicks
<1> USE PaConstants, LogFullNat
<1>0. GuardType /\ Credit /\ Fresh
  BY DEF GuardInv
<1>1. paTicks' = paTicks + 1 /\ paTicks' \in 0..PreAuthTicks
  BY DEF PreAuthTick
<1>2. UNCHANGED <<entries, tokens, logTokens, opened, logged>>
  BY DEF PreAuthTick
<1>3. GuardType'
  BY <1>0, <1>2, SMTT(20) DEF GuardType, PreAuthTick
<1>4. Fresh'
  BY <1>0, <1>2 DEF Fresh, PreAuthTick
<1>5. ASSUME NEW b \in Addresses
      PROVE  Tokens(b)' <= Tokens(b) + Rate /\ LogTokens(b)' <= LogTokens(b) + LogLines
  <2>1. untouched[b] \in Nat /\ untouched'[b] \in {untouched[b] + 1, 0}
    BY <1>0 DEF PreAuthTick, GuardType
  <2>2. tokens[b] \in 0..Burst /\ logTokens[b] \in 0..LogFull
    BY <1>0 DEF GuardType
  <2>3. PICK x \in Nat : x = untouched[b] * Rate
    BY <2>1, Products
  <2>4. PICK y \in Nat : y = untouched[b] * LogLines
    BY <2>1, Products
  <2>5. untouched'[b] * Rate \in {x + Rate, 0} /\ untouched'[b] * LogLines \in {y + LogLines, 0}
    <3>1. (untouched[b] + 1) * Rate = x + Rate /\ (untouched[b] + 1) * LogLines = y + LogLines
      BY <2>1, <2>3, <2>4, Products
    <3>2. 0 * Rate = 0 /\ 0 * LogLines = 0
      BY Products
    <3> QED BY <2>1, <3>1, <3>2
  <2>6. PICK u \in {x + Rate, 0} : u = untouched'[b] * Rate
    BY <2>5
  <2>7. PICK v \in {y + LogLines, 0} : v = untouched'[b] * LogLines
    BY <2>5
  <2>8. /\ Tokens(b) = Smaller(Burst, tokens[b] + x) /\ Tokens(b)' = Smaller(Burst, tokens[b] + u)
        /\ LogTokens(b) = Smaller(LogFull, logTokens[b] + y) /\ LogTokens(b)' = Smaller(LogFull, logTokens[b] + v)
    BY <1>2, <2>3, <2>4, <2>6, <2>7 DEF Tokens, LogTokens, LogFull
  <2> QED BY <2>2, <2>8 DEF Smaller
<1>6. Credit'
  <2> SUFFICES ASSUME NEW b \in Addresses, NEW t \in 0..PreAuthTicks
               PROVE  /\ t <= paTicks' => /\ opened[b][t] + Tokens(b)' <= Burst + Rate * (paTicks' - t)
                                          /\ LogWindow * logged[b][t] + LogTokens(b)' <= LogFull + LogLines * (paTicks' - t)
                      /\ t > paTicks' => opened[b][t] = 0 /\ logged[b][t] = 0
    BY <1>2 DEF Credit
  <2>0. /\ t <= paTicks => /\ opened[b][t] + Tokens(b) <= Burst + Rate * (paTicks - t)
                           /\ LogWindow * logged[b][t] + LogTokens(b) <= LogFull + LogLines * (paTicks - t)
        /\ t > paTicks => opened[b][t] = 0 /\ logged[b][t] = 0
    BY <1>0 DEF Credit
  <2>a. opened[b][t] \in Nat /\ LogWindow * logged[b][t] \in Nat
    <3>1. logged[b][t] \in Nat /\ opened[b][t] \in Nat
      BY <1>0 DEF GuardType
    <3> QED BY <3>1, Products
  <2>b. /\ Tokens(b) \in 0..Burst /\ LogTokens(b) \in 0..LogFull
        /\ Tokens(b)' \in 0..Burst /\ LogTokens(b)' \in 0..LogFull
    <3>1. Tokens(b) \in 0..Burst /\ LogTokens(b) \in 0..LogFull
      BY <1>0, BucketType
    <3>2. untouched'[b] \in Nat /\ tokens'[b] \in 0..Burst /\ logTokens'[b] \in 0..LogFull
      BY <1>3 DEF GuardType, LogFull
    <3>3. PICK u \in Nat : u = untouched'[b] * Rate
      BY <3>2, Products
    <3>4. PICK v \in Nat : v = untouched'[b] * LogLines
      BY <3>2, Products
    <3>5. Tokens(b)' = Smaller(Burst, tokens'[b] + u) /\ LogTokens(b)' = Smaller(LogFull, logTokens'[b] + v)
      BY <3>3, <3>4 DEF Tokens, LogTokens, LogFull
    <3> QED BY <3>1, <3>2, <3>5 DEF Smaller
  <2>1. CASE t <= paTicks
    <3>1. paTicks - t \in Nat /\ paTicks' - t = (paTicks - t) + 1
      BY <1>1, <2>1
    <3>2. PICK k \in Nat : k = paTicks - t
      BY <3>1
    <3>3. Rate * (k + 1) = Rate * k + Rate /\ LogLines * (k + 1) = LogLines * k + LogLines
      BY Products
    <3>4. Rate * (paTicks' - t) = Rate * k + Rate /\ LogLines * (paTicks' - t) = LogLines * k + LogLines
      BY <3>1, <3>2, <3>3
    <3>5. PICK x \in Nat : x = Rate * k
      BY Products
    <3>6. PICK y \in Nat : y = LogLines * k
      BY Products
    <3>7. opened[b][t] + Tokens(b) <= Burst + x /\ LogWindow * logged[b][t] + LogTokens(b) <= LogFull + y
      BY <2>0, <2>1, <3>2, <3>5, <3>6
    <3>8. opened[b][t] + Tokens(b)' <= Burst + (x + Rate) /\ LogWindow * logged[b][t] + LogTokens(b)' <= LogFull + (y + LogLines)
      BY <1>5, <2>a, <2>b, <3>7
    <3> QED BY <3>8, <3>4, <3>5, <3>6, <1>1, <2>1
  <2>2. CASE t = paTicks'
    <3>1. opened[b][t] = 0 /\ logged[b][t] = 0
      BY <2>0, <2>2, <1>1
    <3>2. LogWindow * logged[b][t] = 0 /\ Rate * (paTicks' - t) = 0 /\ LogLines * (paTicks' - t) = 0
      <4>1. paTicks' - t = 0
        BY <2>2, <1>1
      <4> QED BY <3>1, <4>1, Products
    <3> QED BY <3>1, <3>2, <2>b, <2>2, <1>1
  <2>3. CASE t > paTicks'
    BY <2>3, <2>0, <1>1
  <2> QED BY <2>1, <2>2, <2>3, <1>1
<1> QED BY <1>1, <1>3, <1>4, <1>6 DEF GuardInv
-----------------------------------------------------------------------------
\* What a connection's move from one phase to another does to a pool.
LEMMA ConnsInMoves ==
  ASSUME conn \in [Conns -> Phases], NEW c \in Conns, NEW q \in Phases, NEW P,
         conn' = [conn EXCEPT ![c] = q]
  PROVE  /\ Cardinality(ConnsIn(P)) \in Nat
         /\ (conn[c] \in P <=> q \in P) => Cardinality(ConnsIn(P)') = Cardinality(ConnsIn(P))
         /\ (conn[c] \notin P /\ q \in P) => Cardinality(ConnsIn(P)') = Cardinality(ConnsIn(P)) + 1
         /\ (conn[c] \in P /\ q \notin P) => /\ Cardinality(ConnsIn(P)') = Cardinality(ConnsIn(P)) - 1
                                             /\ Cardinality(ConnsIn(P)) > 0
<1>1. PICK S \in SUBSET Conns : S = ConnsIn(P)
  BY DEF ConnsIn
<1>2. PICK T \in SUBSET Conns : T = ConnsIn(P)'
  BY DEF ConnsIn
<1>3. \A d \in Conns \ {c} : d \in S <=> d \in T
  BY <1>1, <1>2 DEF ConnsIn
<1>4. (c \in S <=> conn[c] \in P) /\ (c \in T <=> q \in P)
  BY <1>1, <1>2 DEF ConnsIn
<1>5. /\ Cardinality(S) \in Nat
      /\ (c \in S <=> c \in T) => Cardinality(T) = Cardinality(S)
      /\ (c \notin S /\ c \in T) => Cardinality(T) = Cardinality(S) + 1
      /\ (c \in S /\ c \notin T) => Cardinality(T) = Cardinality(S) - 1 /\ Cardinality(S) > 0
  BY <1>3, OneConnection
<1> QED BY <1>1, <1>2, <1>4, <1>5

\* What one connection's move does to an address's count of connections.
LEMMA FromMoves ==
  ASSUME ConnType, NEW c \in Conns, NEW q \in Phases, NEW r \in Addresses \cup {NoAddress}, NEW a \in Addresses,
         conn' = [conn EXCEPT ![c] = q], remote' = [remote EXCEPT ![c] = r]
  PROVE  /\ Cardinality(From(a)) \in Nat
         /\ ((conn[c] \in HoldsAddress /\ remote[c] = a) <=> (q \in HoldsAddress /\ r = a))
              => Cardinality(From(a)') = Cardinality(From(a))
         /\ (~(conn[c] \in HoldsAddress /\ remote[c] = a) /\ q \in HoldsAddress /\ r = a)
              => Cardinality(From(a)') = Cardinality(From(a)) + 1
         /\ (conn[c] \in HoldsAddress /\ remote[c] = a /\ ~(q \in HoldsAddress /\ r = a))
              => Cardinality(From(a)') = Cardinality(From(a)) - 1 /\ Cardinality(From(a)) > 0
<1>1. PICK S \in SUBSET Conns : S = From(a)
  BY DEF From, ConnsIn
<1>2. PICK T \in SUBSET Conns : T = From(a)'
  BY DEF From, ConnsIn
<1>3. conn \in [Conns -> Phases] /\ remote \in [Conns -> Addresses \cup {NoAddress}]
  BY DEF ConnType
<1>4. \A d \in Conns \ {c} : d \in S <=> d \in T
  BY <1>1, <1>2, <1>3 DEF From, ConnsIn
<1>5. (c \in S <=> (conn[c] \in HoldsAddress /\ remote[c] = a)) /\ (c \in T <=> (q \in HoldsAddress /\ r = a))
  BY <1>1, <1>2, <1>3 DEF From, ConnsIn
<1> QED BY <1>1, <1>2, <1>4, <1>5, OneConnection

\* The table never forgets an address with a connection in flight.
LEMMA ForgottenIsIdle ==
  ASSUME NEW a \in Addresses, NEW b \in Forgotten(a)
  PROVE  inflight[b] = 0
BY DEF Forgotten, Pruned

\* A handler's step that holds the same before and after.
LEMMA MovesKeeps ==
  ASSUME ConnInv, NEW c \in Conns, NEW from \in HoldsSlot \ {"takeover"}, NEW to \in HoldsSlot \ {"takeover"},
         Moves(c, from, to), \A b \in Addresses : b \in entries /\ inflight[b] > 0 => b \in entries'
  PROVE  ConnInv'
<1>0. ConnType /\ SlotsMatchConnections /\ \A a \in Addresses : inflight[a] <= PerAddress
  BY DEF ConnInv
<1>1. conn \in [Conns -> Phases] /\ remote \in [Conns -> Addresses \cup {NoAddress}]
  BY <1>0 DEF ConnType
<1>2. conn[c] = from /\ conn' = [conn EXCEPT ![c] = to] /\ remote' = [remote EXCEPT ![c] = remote[c]]
  BY <1>1 DEF Moves
<1>3. /\ from \in HoldsSlot /\ from \in HoldsAddress /\ from \notin HoldsFleet /\ from \in Phases
      /\ to \in HoldsSlot /\ to \in HoldsAddress /\ to \notin HoldsFleet /\ to \in Phases
  BY DEF HoldsSlot, HoldsAddress, HoldsFleet, Handshake, Phases
<1>4. UNCHANGED <<inflight, preAuth, fleet>>
  BY DEF Moves
<1>5. ConnType'
  BY <1>0, <1>2, <1>3, <1>4 DEF ConnType
<1>6. Cardinality(ConnsIn(HoldsSlot)') = Cardinality(ConnsIn(HoldsSlot))
  BY <1>1, <1>2, <1>3, ConnsInMoves
<1>7. Cardinality(ConnsIn(HoldsFleet)') = Cardinality(ConnsIn(HoldsFleet))
  BY <1>1, <1>2, <1>3, ConnsInMoves
<1>8. ASSUME NEW a \in Addresses PROVE Cardinality(From(a)') = Cardinality(From(a))
  <2>1. \A d \in Conns : (conn'[d] \in HoldsAddress <=> conn[d] \in HoldsAddress) /\ remote'[d] = remote[d]
    BY <1>1, <1>2, <1>3
  <2>2. From(a)' = From(a)
    BY <2>1 DEF From, ConnsIn
  <2> QED BY <2>2
<1>9. SlotsMatchConnections'
  <2>1. preAuth' = Cardinality(ConnsIn(HoldsSlot)') /\ preAuth' <= PreAuthSlots
    BY <1>0, <1>4, <1>6 DEF SlotsMatchConnections
  <2>2. fleet' = Cardinality(ConnsIn(HoldsFleet)') /\ fleet' <= FleetSlots
    BY <1>0, <1>4, <1>7 DEF SlotsMatchConnections
  <2>3. ASSUME NEW a \in Addresses PROVE inflight'[a] = Cardinality(From(a)') /\ (inflight'[a] > 0 => a \in entries')
    BY <1>0, <1>4, <1>8 DEF SlotsMatchConnections
  <2> QED BY <2>1, <2>2, <2>3 DEF SlotsMatchConnections
<1> QED BY <1>0, <1>4, <1>5, <1>9 DEF ConnInv

\* A step that leaves the connections alone.
LEMMA ConnsKept ==
  ASSUME ConnInv, UNCHANGED <<conn, remote, inflight, preAuth, fleet>>,
         \A b \in Addresses : b \in entries /\ inflight[b] > 0 => b \in entries'
  PROVE  ConnInv'
<1>0. ConnType /\ SlotsMatchConnections /\ \A a \in Addresses : inflight[a] <= PerAddress
  BY DEF ConnInv
<1>1. ConnType'
  BY <1>0 DEF ConnType
<1>2. \A P : ConnsIn(P)' = ConnsIn(P)
  BY DEF ConnsIn
<1>3. \A a \in Addresses : From(a)' = From(a)
  BY <1>2 DEF From
<1>4. SlotsMatchConnections'
  BY <1>0, <1>2, <1>3 DEF SlotsMatchConnections
<1> QED BY <1>0, <1>1, <1>4 DEF ConnInv

\* A look at the table never loses an address in flight.
LEMMA StateEntries ==
  ASSUME NEW a \in Addresses, NEW n, NEW l, State(a, n, l)
  PROVE  a \in entries' /\ \A b \in Addresses : b \in entries /\ inflight[b] > 0 => b \in entries'
BY ForgottenIsIdle DEF State

\* A step that leaves the guard alone keeps its part of the invariant.
LEMMA GuardKept ==
  ASSUME GuardInv, UNCHANGED guardVars, paTicks' = paTicks
  PROVE  GuardInv'
<1>1. UNCHANGED <<entries, tokens, logTokens, untouched, opened, logged>>
  BY DEF guardVars
<1>2. GuardType'
  BY <1>1 DEF GuardInv, GuardType, LogFull
<1>3. Fresh'
  BY <1>1 DEF GuardInv, Fresh, LogFull, NoneSince
<1>4. \A b : Tokens(b)' = Tokens(b) /\ LogTokens(b)' = LogTokens(b)
  BY <1>1 DEF Tokens, LogTokens, LogFull
<1>5. Credit'
  BY <1>1, <1>4 DEF GuardInv, Credit, LogFull
<1> QED BY <1>2, <1>3, <1>5 DEF GuardInv

\* A warning spends only of the warning bucket, and keeps the addresses in use.
LEMMA WarnKeeps ==
  ASSUME GuardInv, paTicks \in 0..PreAuthTicks, paTicks' = paTicks, NEW a \in Addresses, PreAuthWarn(a)
  PROVE  GuardInv' /\ \A b \in Addresses : b \in entries /\ inflight[b] > 0 => b \in entries'
<1>1. PICK l \in {0, 1} : l = IF LogTokens(a) < LogWindow THEN 0 ELSE 1
  OBVIOUS
<1>2. State(a, 0, l)
  BY <1>1 DEF PreAuthWarn
<1>3. Tokens(a) \in 0..Burst /\ LogTokens(a) \in 0..LogFull
  BY BucketType DEF GuardInv
<1>4. 0 <= Tokens(a) /\ l * LogWindow <= LogTokens(a)
  <2>1. 0 * LogWindow = 0 /\ 1 * LogWindow = LogWindow
    BY PaConstants
  <2>2. LogTokens(a) \in Nat
    BY <1>3, LogFullNat
  <2>3. CASE l = 0
    BY <2>1, <2>2, <2>3, <1>3, PaConstants
  <2>4. CASE l = 1
    BY <2>1, <2>2, <2>4, <1>1, <1>3, PaConstants
  <2> QED BY <2>3, <2>4
<1>5. GuardInv'
  BY <1>2, <1>4, StateKeeps
<1> QED BY <1>2, <1>5, StateEntries
-----------------------------------------------------------------------------
\* A refused connection takes no slot and no place.
LEMMA AcceptRefusedKeeps ==
  ASSUME PreAuthInv, NEW a \in Addresses, AcceptRefused(a)
  PROVE  PreAuthInv'
<1>0. paTicks \in 0..PreAuthTicks /\ GuardInv /\ ConnInv
  BY DEF PreAuthInv
<1>1. PICK n \in {0, 1} : n = IF Admits(a) THEN 1 ELSE 0
  OBVIOUS
<1>2. State(a, n, 0) /\ UNCHANGED <<conn, remote, inflight, preAuth, fleet, paTicks>>
  BY <1>1 DEF AcceptRefused
<1>3. Tokens(a) \in 0..Burst /\ LogTokens(a) \in 0..LogFull
  BY <1>0, BucketType DEF GuardInv
<1>4. n <= Tokens(a) /\ 0 * LogWindow <= LogTokens(a)
  <2>1. 0 * LogWindow = 0
    BY PaConstants
  <2> QED BY <2>1, <1>1, <1>3, PaConstants, LogFullNat DEF Admits
<1>5. GuardInv'
  BY <1>0, <1>2, <1>4, StateKeeps
<1>6. ConnInv'
  BY <1>0, <1>2, StateEntries, ConnsKept
<1> QED BY <1>0, <1>2, <1>5, <1>6 DEF PreAuthInv

\* An admitted connection takes one token, one slot and one place.
LEMMA AcceptConnKeeps ==
  ASSUME PreAuthInv, NEW c \in Conns, NEW a \in Addresses, AcceptConn(c, a)
  PROVE  PreAuthInv'
<1> USE PaConstants, LogFullNat
<1>0. paTicks \in 0..PreAuthTicks /\ GuardInv /\ ConnType /\ SlotsMatchConnections /\ \A b \in Addresses : inflight[b] <= PerAddress
  BY DEF PreAuthInv, ConnInv
<1>1. /\ State(a, 1, 0) /\ UNCHANGED <<fleet, paTicks>> /\ Admits(a) /\ conn[c] = "none"
      /\ preAuth' = preAuth + 1 /\ preAuth < PreAuthSlots /\ inflight' = [inflight EXCEPT ![a] = @ + 1]
      /\ conn' = [conn EXCEPT ![c] = "magic"] /\ remote' = [remote EXCEPT ![c] = a]
  BY DEF AcceptConn
<1>2. Tokens(a) \in 0..Burst /\ LogTokens(a) \in 0..LogFull
  BY <1>0, BucketType DEF GuardInv
<1>3. 1 <= Tokens(a) /\ 0 * LogWindow <= LogTokens(a)
  <2>1. 0 * LogWindow = 0
    OBVIOUS
  <2> QED BY <2>1, <1>1, <1>2 DEF Admits
<1>4. GuardInv'
  BY <1>0, <1>1, <1>3, StateKeeps
<1>5. a \in entries' /\ \A b \in Addresses : b \in entries /\ inflight[b] > 0 => b \in entries'
  BY <1>1, StateEntries
<1>6. conn \in [Conns -> Phases] /\ "magic" \in Phases /\ a \in Addresses \cup {NoAddress}
  BY <1>0 DEF ConnType, Phases, HoldsAddress, HoldsSlot, Handshake
<1>7. /\ "none" \notin HoldsSlot /\ "none" \notin HoldsAddress /\ "none" \notin HoldsFleet
      /\ "magic" \in HoldsSlot /\ "magic" \in HoldsAddress /\ "magic" \notin HoldsFleet
  BY DEF HoldsSlot, HoldsAddress, HoldsFleet, Handshake
<1>8. Cardinality(ConnsIn(HoldsSlot)') = Cardinality(ConnsIn(HoldsSlot)) + 1
  BY <1>1, <1>6, <1>7, ConnsInMoves
<1>9. Cardinality(ConnsIn(HoldsFleet)') = Cardinality(ConnsIn(HoldsFleet))
  BY <1>1, <1>6, <1>7, ConnsInMoves
<1>10. ASSUME NEW b \in Addresses
       PROVE  Cardinality(From(b)') = (IF b = a THEN Cardinality(From(b)) + 1 ELSE Cardinality(From(b)))
  <2>1. /\ ConnType /\ "magic" \in Phases /\ a \in Addresses \cup {NoAddress}
        /\ conn' = [conn EXCEPT ![c] = "magic"] /\ remote' = [remote EXCEPT ![c] = a]
    BY <1>0, <1>1, <1>6
  <2>2. /\ ((conn[c] \in HoldsAddress /\ remote[c] = b) <=> ("magic" \in HoldsAddress /\ a = b))
             => Cardinality(From(b)') = Cardinality(From(b))
        /\ (~(conn[c] \in HoldsAddress /\ remote[c] = b) /\ "magic" \in HoldsAddress /\ a = b)
             => Cardinality(From(b)') = Cardinality(From(b)) + 1
    BY <2>1, FromMoves
  <2> QED BY <1>1, <1>7, <2>2
<1>11. ConnType'
  BY <1>0, <1>1, <1>6 DEF ConnType
<1>12. SlotsMatchConnections'
  <2>1. preAuth' = Cardinality(ConnsIn(HoldsSlot)') /\ preAuth' <= PreAuthSlots
    BY <1>0, <1>1, <1>8 DEF SlotsMatchConnections, ConnType
  <2>2. fleet' = Cardinality(ConnsIn(HoldsFleet)') /\ fleet' <= FleetSlots
    BY <1>0, <1>1, <1>9 DEF SlotsMatchConnections
  <2>3. ASSUME NEW b \in Addresses PROVE inflight'[b] = Cardinality(From(b)') /\ (inflight'[b] > 0 => b \in entries')
    BY <1>0, <1>1, <1>5, <1>10 DEF SlotsMatchConnections, ConnType
  <2> QED BY <2>1, <2>2, <2>3 DEF SlotsMatchConnections
<1>13. \A b \in Addresses : inflight'[b] <= PerAddress
  BY <1>0, <1>1 DEF Admits, ConnType
<1> QED BY <1>0, <1>1, <1>4, <1>11, <1>12, <1>13 DEF PreAuthInv, ConnInv

\* The steps of the handshake.
LEMMA HandshakeKeeps ==
  ASSUME PreAuthInv, NEW c \in Conns,
         \/ DeadlineFails(c) \/ BadMagic(c) \/ MagicRead(c) \/ BadHello(c) \/ HelloRefused(c)
         \/ (\E evidence \in BOOLEAN : HelloTaken(c, evidence))
         \/ NoEvidence(c) \/ EvidenceRead(c) \/ HandshakePanics(c) \/ FleetFull(c)
  PROVE  PreAuthInv'
<1>0. paTicks \in 0..PreAuthTicks /\ GuardInv /\ ConnInv
  BY DEF PreAuthInv
<1>1. PICK from \in Handshake, to \in Handshake \cup {"closing"} :
        /\ Moves(c, from, to)
        /\ UNCHANGED guardVars \/ PreAuthWarn(remote[c])
  BY DEF DeadlineFails, BadMagic, MagicRead, BadHello, HelloRefused, HelloTaken, NoEvidence, EvidenceRead,
         HandshakePanics, FleetFull, Handshake
<1>2. from \in HoldsSlot \ {"takeover"} /\ to \in HoldsSlot \ {"takeover"} /\ from \in HoldsAddress
  BY DEF HoldsSlot, Handshake, HoldsAddress
<1>3. conn[c] = from /\ paTicks' = paTicks
  BY <1>1 DEF Moves
<1>4. PICK a \in Addresses : a = remote[c]
  BY <1>0, <1>2, <1>3 DEF ConnInv, ConnType
<1>5. GuardInv' /\ \A b \in Addresses : b \in entries /\ inflight[b] > 0 => b \in entries'
  <2>1. CASE UNCHANGED guardVars
    BY <2>1, <1>0, <1>3, GuardKept DEF guardVars
  <2>2. CASE PreAuthWarn(remote[c])
    BY <2>2, <1>0, <1>3, <1>4, WarnKeeps
  <2> QED BY <1>1, <2>1, <2>2
<1>6. ConnInv'
  BY <1>0, <1>1, <1>2, <1>5, MovesKeeps
<1> QED BY <1>0, <1>3, <1>5, <1>6 DEF PreAuthInv

\* A fleet slot is taken under its cap.
LEMMA FleetSlotKeeps ==
  ASSUME PreAuthInv, NEW c \in Conns, FleetSlot(c)
  PROVE  PreAuthInv'
<1> USE PaConstants
<1>0. paTicks \in 0..PreAuthTicks /\ GuardInv /\ ConnType /\ SlotsMatchConnections /\ \A b \in Addresses : inflight[b] <= PerAddress
  BY DEF PreAuthInv, ConnInv
<1>1. /\ conn[c] = "authorized" /\ conn' = [conn EXCEPT ![c] = "takeover"] /\ fleet' = fleet + 1 /\ fleet < FleetSlots
      /\ UNCHANGED guardVars /\ UNCHANGED <<remote, inflight, preAuth, paTicks>>
  BY DEF FleetSlot
<1>2. GuardInv'
  BY <1>0, <1>1, GuardKept
<1>3. conn \in [Conns -> Phases] /\ "takeover" \in Phases
  BY <1>0 DEF ConnType, Phases, HoldsAddress, HoldsSlot
<1>4. /\ "authorized" \in HoldsSlot /\ "authorized" \in HoldsAddress /\ "authorized" \notin HoldsFleet
      /\ "takeover" \in HoldsSlot /\ "takeover" \in HoldsAddress /\ "takeover" \in HoldsFleet
  BY DEF HoldsSlot, HoldsAddress, HoldsFleet, Handshake
<1>5. Cardinality(ConnsIn(HoldsSlot)') = Cardinality(ConnsIn(HoldsSlot))
  BY <1>1, <1>3, <1>4, ConnsInMoves
<1>6. Cardinality(ConnsIn(HoldsFleet)') = Cardinality(ConnsIn(HoldsFleet)) + 1
  BY <1>1, <1>3, <1>4, ConnsInMoves
<1>7. ASSUME NEW a \in Addresses PROVE Cardinality(From(a)') = Cardinality(From(a))
  <2>1. PICK r \in Addresses \cup {NoAddress} : r = remote[c]
    BY <1>0 DEF ConnType
  <2>2. remote' = [remote EXCEPT ![c] = r]
    BY <2>1, <1>0, <1>1 DEF ConnType
  <2>3. (conn[c] \in HoldsAddress /\ remote[c] = a) <=> ("takeover" \in HoldsAddress /\ r = a)
    BY <2>1, <1>1, <1>4
  <2>4. ConnType /\ "takeover" \in Phases /\ conn' = [conn EXCEPT ![c] = "takeover"]
    BY <1>0, <1>1, <1>3
  <2> QED BY <2>2, <2>3, <2>4, FromMoves
<1>8. ConnType'
  BY <1>0, <1>1, <1>3, <1>4 DEF ConnType
<1>9. SlotsMatchConnections'
  <2>1. preAuth' = Cardinality(ConnsIn(HoldsSlot)') /\ preAuth' <= PreAuthSlots
    BY <1>0, <1>1, <1>5 DEF SlotsMatchConnections
  <2>2. fleet' = Cardinality(ConnsIn(HoldsFleet)') /\ fleet' <= FleetSlots
    BY <1>0, <1>1, <1>6 DEF SlotsMatchConnections, ConnType
  <2>3. ASSUME NEW a \in Addresses PROVE inflight'[a] = Cardinality(From(a)') /\ (inflight'[a] > 0 => a \in entries')
    BY <1>0, <1>1, <1>7 DEF SlotsMatchConnections, guardVars
  <2> QED BY <2>1, <2>2, <2>3 DEF SlotsMatchConnections
<1> QED BY <1>0, <1>1, <1>2, <1>8, <1>9 DEF PreAuthInv, ConnInv

\* The pre-authentication slot comes back once, on takeover or close.
LEMMA GiveBackSlotKeeps ==
  ASSUME PreAuthInv, NEW c \in Conns, GiveBackSlot(c)
  PROVE  PreAuthInv'
<1> USE PaConstants
<1>0. paTicks \in 0..PreAuthTicks /\ GuardInv /\ ConnType /\ SlotsMatchConnections /\ \A b \in Addresses : inflight[b] <= PerAddress
  BY DEF PreAuthInv, ConnInv
<1>1. PICK q \in {"takenover", "closed"} :
        /\ conn[c] = (IF q = "takenover" THEN "takeover" ELSE "closing") /\ conn' = [conn EXCEPT ![c] = q]
  BY DEF GiveBackSlot
<1>2. preAuth' = preAuth - 1 /\ UNCHANGED guardVars /\ UNCHANGED <<remote, inflight, fleet, paTicks>>
  BY DEF GiveBackSlot
<1>3. GuardInv'
  BY <1>0, <1>2, GuardKept
<1>4. conn \in [Conns -> Phases] /\ q \in Phases
  BY <1>0 DEF ConnType, Phases, HoldsAddress
<1>5. /\ conn[c] \in HoldsSlot /\ conn[c] \in HoldsAddress /\ q \notin HoldsSlot /\ q \in HoldsAddress
      /\ conn[c] \in HoldsFleet <=> q \in HoldsFleet
  BY <1>1 DEF HoldsSlot, HoldsAddress, HoldsFleet, Handshake
<1>6. Cardinality(ConnsIn(HoldsSlot)') = Cardinality(ConnsIn(HoldsSlot)) - 1 /\ Cardinality(ConnsIn(HoldsSlot)) > 0
  BY <1>1, <1>4, <1>5, ConnsInMoves
<1>7. Cardinality(ConnsIn(HoldsFleet)') = Cardinality(ConnsIn(HoldsFleet))
  BY <1>1, <1>4, <1>5, ConnsInMoves
<1>8. ASSUME NEW a \in Addresses PROVE Cardinality(From(a)') = Cardinality(From(a))
  <2>1. PICK r \in Addresses \cup {NoAddress} : r = remote[c]
    BY <1>0 DEF ConnType
  <2>2. remote' = [remote EXCEPT ![c] = r]
    BY <2>1, <1>0, <1>2 DEF ConnType
  <2>3. (conn[c] \in HoldsAddress /\ remote[c] = a) <=> (q \in HoldsAddress /\ r = a)
    BY <2>1, <1>5
  <2>4. ConnType /\ q \in Phases /\ conn' = [conn EXCEPT ![c] = q]
    BY <1>0, <1>1, <1>4
  <2> QED BY <2>2, <2>3, <2>4, FromMoves
<1>9. preAuth' \in Nat /\ preAuth' = Cardinality(ConnsIn(HoldsSlot)') /\ preAuth' <= PreAuthSlots
  BY <1>0, <1>2, <1>6 DEF SlotsMatchConnections, ConnType
<1>10. ConnType'
  BY <1>0, <1>1, <1>2, <1>4, <1>5, <1>9 DEF ConnType
<1>11. SlotsMatchConnections'
  <2>1. fleet' = Cardinality(ConnsIn(HoldsFleet)') /\ fleet' <= FleetSlots
    BY <1>0, <1>2, <1>7 DEF SlotsMatchConnections
  <2>2. ASSUME NEW a \in Addresses PROVE inflight'[a] = Cardinality(From(a)') /\ (inflight'[a] > 0 => a \in entries')
    BY <1>0, <1>2, <1>8 DEF SlotsMatchConnections, guardVars
  <2> QED BY <1>9, <2>1, <2>2 DEF SlotsMatchConnections
<1> QED BY <1>0, <1>2, <1>3, <1>10, <1>11 DEF PreAuthInv, ConnInv

\* The place in the address's share comes back once.
LEMMA GiveBackPlaceKeeps ==
  ASSUME PreAuthInv, NEW c \in Conns, GiveBackPlace(c)
  PROVE  PreAuthInv'
<1> USE PaConstants
<1>0. paTicks \in 0..PreAuthTicks /\ GuardInv /\ ConnType /\ SlotsMatchConnections /\ \A b \in Addresses : inflight[b] <= PerAddress
  BY DEF PreAuthInv, ConnInv
<1>1. PICK q \in {"session", "none"} :
        /\ conn[c] = (IF q = "session" THEN "takenover" ELSE "closed") /\ conn' = [conn EXCEPT ![c] = q]
  BY DEF GiveBackPlace
<1>2. conn \in [Conns -> Phases] /\ q \in Phases
  BY <1>0 DEF ConnType, Phases
<1>3. /\ conn[c] \notin HoldsSlot /\ conn[c] \in HoldsAddress /\ q \notin HoldsSlot /\ q \notin HoldsAddress
      /\ conn[c] \in HoldsFleet <=> q \in HoldsFleet
  BY <1>1 DEF HoldsSlot, HoldsAddress, HoldsFleet, Handshake
<1>4. PICK a \in Addresses : a = remote[c]
  BY <1>0, <1>3 DEF ConnType
<1>5. /\ inflight' = [inflight EXCEPT ![a] = @ - 1] /\ remote' = [remote EXCEPT ![c] = NoAddress]
      /\ UNCHANGED guardVars /\ UNCHANGED <<preAuth, fleet, paTicks>>
  BY <1>4 DEF GiveBackPlace
<1>6. GuardInv'
  BY <1>0, <1>5, GuardKept
<1>7. Cardinality(ConnsIn(HoldsSlot)') = Cardinality(ConnsIn(HoldsSlot))
  BY <1>1, <1>2, <1>3, ConnsInMoves
<1>8. Cardinality(ConnsIn(HoldsFleet)') = Cardinality(ConnsIn(HoldsFleet))
  BY <1>1, <1>2, <1>3, ConnsInMoves
<1>9. NoAddress \in Addresses \cup {NoAddress}
  OBVIOUS
<1>10. ASSUME NEW b \in Addresses
       PROVE  /\ b = a => Cardinality(From(b)') = Cardinality(From(b)) - 1 /\ Cardinality(From(b)) > 0
              /\ b # a => Cardinality(From(b)') = Cardinality(From(b))
  <2>1. conn' = [conn EXCEPT ![c] = q] /\ remote' = [remote EXCEPT ![c] = NoAddress] /\ ConnType
    BY <1>0, <1>1, <1>5
  <2>2. ~(q \in HoldsAddress /\ NoAddress = b) /\ ((conn[c] \in HoldsAddress /\ remote[c] = b) <=> b = a)
    BY <1>3, <1>4
  <2> QED BY <2>1, <2>2, <1>2, <1>9, FromMoves
<1>11. ASSUME NEW b \in Addresses
       PROVE  inflight'[b] \in Nat /\ inflight'[b] = Cardinality(From(b)') /\ inflight'[b] <= inflight[b]
  BY <1>0, <1>5, <1>10 DEF SlotsMatchConnections, ConnType
<1>12. ConnType'
  <2>1. inflight' \in [Addresses -> Nat]
    BY <1>0, <1>5, <1>11 DEF ConnType
  <2>2. ASSUME NEW d \in Conns, conn'[d] \in HoldsAddress PROVE remote'[d] \in Addresses
    <3>1. d # c
      BY <2>2, <1>1, <1>2, <1>3
    <3> QED BY <3>1, <2>2, <1>0, <1>1, <1>5 DEF ConnType
  <2> QED BY <2>1, <2>2, <1>0, <1>1, <1>2, <1>5 DEF ConnType
<1>13. SlotsMatchConnections'
  <2>1. preAuth' = Cardinality(ConnsIn(HoldsSlot)') /\ preAuth' <= PreAuthSlots
    BY <1>0, <1>5, <1>7 DEF SlotsMatchConnections
  <2>2. fleet' = Cardinality(ConnsIn(HoldsFleet)') /\ fleet' <= FleetSlots
    BY <1>0, <1>5, <1>8 DEF SlotsMatchConnections
  <2>3. ASSUME NEW b \in Addresses PROVE inflight'[b] = Cardinality(From(b)') /\ (inflight'[b] > 0 => b \in entries')
    BY <1>0, <1>5, <1>11 DEF SlotsMatchConnections, guardVars, ConnType
  <2> QED BY <2>1, <2>2, <2>3 DEF SlotsMatchConnections
<1>14. \A b \in Addresses : inflight'[b] <= PerAddress
  BY <1>0, <1>11 DEF ConnType
<1> QED BY <1>0, <1>5, <1>6, <1>12, <1>13, <1>14 DEF PreAuthInv, ConnInv

\* The end of a session gives the fleet slot back.
LEMMA SessionOverKeeps ==
  ASSUME PreAuthInv, NEW c \in Conns, SessionOver(c)
  PROVE  PreAuthInv'
<1> USE PaConstants
<1>0. paTicks \in 0..PreAuthTicks /\ GuardInv /\ ConnType /\ SlotsMatchConnections /\ \A b \in Addresses : inflight[b] <= PerAddress
  BY DEF PreAuthInv, ConnInv
<1>1. /\ conn[c] = "session" /\ conn' = [conn EXCEPT ![c] = "none"] /\ fleet' = fleet - 1
      /\ UNCHANGED guardVars /\ UNCHANGED <<remote, inflight, preAuth, paTicks>>
  BY DEF SessionOver
<1>2. GuardInv'
  BY <1>0, <1>1, GuardKept
<1>3. conn \in [Conns -> Phases] /\ "none" \in Phases
  BY <1>0 DEF ConnType, Phases
<1>4. /\ "session" \notin HoldsSlot /\ "session" \notin HoldsAddress /\ "session" \in HoldsFleet
      /\ "none" \notin HoldsSlot /\ "none" \notin HoldsAddress /\ "none" \notin HoldsFleet
  BY DEF HoldsSlot, HoldsAddress, HoldsFleet, Handshake
<1>5. Cardinality(ConnsIn(HoldsSlot)') = Cardinality(ConnsIn(HoldsSlot))
  BY <1>1, <1>3, <1>4, ConnsInMoves
<1>6. Cardinality(ConnsIn(HoldsFleet)') = Cardinality(ConnsIn(HoldsFleet)) - 1 /\ Cardinality(ConnsIn(HoldsFleet)) > 0
  BY <1>1, <1>3, <1>4, ConnsInMoves
<1>7. ASSUME NEW a \in Addresses PROVE Cardinality(From(a)') = Cardinality(From(a))
  <2>1. PICK r \in Addresses \cup {NoAddress} : r = remote[c]
    BY <1>0 DEF ConnType
  <2>2. remote' = [remote EXCEPT ![c] = r]
    BY <2>1, <1>0, <1>1 DEF ConnType
  <2>3. (conn[c] \in HoldsAddress /\ remote[c] = a) <=> ("none" \in HoldsAddress /\ r = a)
    BY <1>1, <1>4
  <2>4. ConnType /\ "none" \in Phases /\ conn' = [conn EXCEPT ![c] = "none"]
    BY <1>0, <1>1, <1>3
  <2> QED BY <2>2, <2>3, <2>4, FromMoves
<1>8. fleet' \in Nat /\ fleet' = Cardinality(ConnsIn(HoldsFleet)') /\ fleet' <= FleetSlots
  BY <1>0, <1>1, <1>6 DEF SlotsMatchConnections, ConnType
<1>9. ConnType'
  BY <1>0, <1>1, <1>3, <1>4, <1>8 DEF ConnType
<1>10. SlotsMatchConnections'
  <2>1. preAuth' = Cardinality(ConnsIn(HoldsSlot)') /\ preAuth' <= PreAuthSlots
    BY <1>0, <1>1, <1>5 DEF SlotsMatchConnections
  <2>2. ASSUME NEW a \in Addresses PROVE inflight'[a] = Cardinality(From(a)') /\ (inflight'[a] > 0 => a \in entries')
    BY <1>0, <1>1, <1>7 DEF SlotsMatchConnections, guardVars
  <2> QED BY <1>8, <2>1, <2>2 DEF SlotsMatchConnections
<1> QED BY <1>0, <1>1, <1>2, <1>9, <1>10 DEF PreAuthInv, ConnInv

\* A step that changes nothing of the budgets keeps the invariant.
LEMMA RestKeeps ==
  ASSUME PreAuthInv, UNCHANGED <<conn, remote, guardVars, inflight, preAuth, fleet, paTicks>>
  PROVE  PreAuthInv'
<1>1. GuardInv'
  BY GuardKept DEF PreAuthInv
<1>2. entries' = entries
  BY DEF guardVars
<1>3. ConnInv'
  BY <1>2, ConnsKept DEF PreAuthInv
<1> QED BY <1>1, <1>3 DEF PreAuthInv

\* With no connection and no tracked address the invariant holds.
LEMMA PaInit ==
  ASSUME PreAuthInit
  PROVE  PreAuthInv
<1> USE PaConstants, LogFullNat
<1>1. \A P : "none" \notin P => ConnsIn(P) = {}
  BY DEF ConnsIn, PreAuthInit
<1>2. "none" \notin HoldsSlot /\ "none" \notin HoldsAddress /\ "none" \notin HoldsFleet
  BY DEF HoldsSlot, HoldsAddress, HoldsFleet, Handshake
<1>3. Cardinality({}) = 0
  BY FS_EmptySet
<1>4. \A a \in Addresses : From(a) = {}
  BY <1>1, <1>2 DEF From
<1>5. SlotsMatchConnections
  <2>1. ConnsIn(HoldsSlot) = {} /\ ConnsIn(HoldsFleet) = {}
    BY <1>1, <1>2
  <2>2. preAuth = 0 /\ fleet = 0 /\ \A a \in Addresses : inflight[a] = 0
    BY DEF PreAuthInit
  <2>3. \A a \in Addresses : inflight[a] = Cardinality(From(a)) /\ ~(inflight[a] > 0)
    BY <1>3, <1>4, <2>2
  <2>4. 0 <= PreAuthSlots /\ 0 <= FleetSlots
    OBVIOUS
  <2> QED BY <1>3, <2>1, <2>2, <2>3, <2>4 DEF SlotsMatchConnections
<1>6. ConnType
  BY <1>2 DEF ConnType, PreAuthInit, Phases
<1>7. GuardType
  BY DEF GuardType, PreAuthInit, NoneSince
<1>8. Fresh
  BY DEF Fresh, PreAuthInit
<1>9. Credit
  <2> SUFFICES ASSUME NEW a \in Addresses, NEW t \in 0..PreAuthTicks
               PROVE  /\ t <= paTicks => /\ opened[a][t] + Tokens(a) <= Burst + Rate * (paTicks - t)
                                         /\ LogWindow * logged[a][t] + LogTokens(a) <= LogFull + LogLines * (paTicks - t)
                      /\ t > paTicks => opened[a][t] = 0 /\ logged[a][t] = 0
    BY DEF Credit
  <2>1. opened[a][t] = 0 /\ logged[a][t] = 0 /\ paTicks = 0
    BY DEF PreAuthInit, NoneSince
  <2>2. Tokens(a) \in 0..Burst /\ LogTokens(a) \in 0..LogFull
    BY <1>7, BucketType
  <2>3. LogWindow * 0 = 0
    BY Products
  <2>4. t <= paTicks => paTicks - t = 0
    BY <2>1
  <2>5. Rate * 0 = 0 /\ LogLines * 0 = 0
    BY Products
  <2> QED BY <2>1, <2>2, <2>3, <2>4, <2>5
<1>10. paTicks \in 0..PreAuthTicks /\ \A a \in Addresses : inflight[a] <= PerAddress
  BY DEF PreAuthInit
<1> QED BY <1>5, <1>6, <1>7, <1>8, <1>9, <1>10 DEF PreAuthInv, ConnInv, GuardInv

\* Every step of the budgets keeps the invariant.
LEMMA PaStep ==
  ASSUME PreAuthInv, [PreAuthNext]_preAuthVars
  PROVE  PreAuthInv'
<1>1. ASSUME NEW a \in Addresses, AcceptRefused(a) PROVE PreAuthInv'
  BY <1>1, AcceptRefusedKeeps
<1>2. ASSUME NEW c \in Conns, NEW a \in Addresses, AcceptConn(c, a) PROVE PreAuthInv'
  BY <1>2, AcceptConnKeeps
<1>3. CASE AcceptFails \/ BackoffOver \/ ListenerEnds \/ ServeReturns
  BY <1>3, RestKeeps DEF AcceptFails, BackoffOver, ListenerEnds, ServeReturns
<1>4. ASSUME NEW c \in Conns,
             \/ DeadlineFails(c) \/ BadMagic(c) \/ MagicRead(c) \/ BadHello(c) \/ HelloRefused(c)
             \/ (\E evidence \in BOOLEAN : HelloTaken(c, evidence))
             \/ NoEvidence(c) \/ EvidenceRead(c) \/ HandshakePanics(c) \/ FleetFull(c)
      PROVE  PreAuthInv'
  BY <1>4, HandshakeKeeps
<1>5. ASSUME NEW c \in Conns, FleetSlot(c) PROVE PreAuthInv'
  BY <1>5, FleetSlotKeeps
<1>6. ASSUME NEW c \in Conns, GiveBackSlot(c) PROVE PreAuthInv'
  BY <1>6, GiveBackSlotKeeps
<1>7. ASSUME NEW c \in Conns, GiveBackPlace(c) PROVE PreAuthInv'
  BY <1>7, GiveBackPlaceKeeps
<1>8. ASSUME NEW c \in Conns, SessionOver(c) PROVE PreAuthInv'
  BY <1>8, SessionOverKeeps
<1>9. CASE PreAuthTick
  <2>1. GuardInv' /\ paTicks' \in 0..PreAuthTicks
    BY <1>9, TickKeeps DEF PreAuthInv
  <2>2. UNCHANGED <<conn, remote, inflight, preAuth, fleet>> /\ entries' = entries
    BY <1>9 DEF PreAuthTick
  <2>3. ConnInv'
    BY <2>2, ConnsKept DEF PreAuthInv
  <2> QED BY <2>1, <2>3 DEF PreAuthInv
<1>10. CASE UNCHANGED preAuthVars
  BY <1>10, RestKeeps DEF preAuthVars
<1> QED BY <1>1, <1>2, <1>3, <1>4, <1>5, <1>6, <1>7, <1>8, <1>9, <1>10 DEF PreAuthNext

\* The invariant says what the run checks.
LEMMA PaImplies ==
  ASSUME PreAuthInv
  PROVE  PreAuthIsSound
<1> USE PaConstants, LogFullNat
<1>0. paTicks \in 0..PreAuthTicks /\ GuardType /\ Credit /\ ConnType /\ SlotsMatchConnections /\ \A b \in Addresses : inflight[b] <= PerAddress
  BY DEF PreAuthInv, ConnInv, GuardInv
<1>1. PerAddressHolds
  BY <1>0 DEF PerAddressHolds, SlotsMatchConnections
<1>2. RateIsBounded
  <2> SUFFICES ASSUME NEW a \in Addresses, NEW t \in 0..paTicks
               PROVE  /\ opened[a][t] <= Burst + Rate * (paTicks - t)
                      /\ LogWindow * logged[a][t] <= LogFull + LogLines * (paTicks - t)
    BY DEF RateIsBounded
  <2>1. t \in 0..PreAuthTicks /\ t <= paTicks /\ paTicks - t \in Nat
    BY <1>0
  <2>2. /\ opened[a][t] + Tokens(a) <= Burst + Rate * (paTicks - t)
        /\ LogWindow * logged[a][t] + LogTokens(a) <= LogFull + LogLines * (paTicks - t)
    BY <1>0, <2>1 DEF Credit
  <2>3. Tokens(a) \in Nat /\ LogTokens(a) \in Nat
    BY <1>0, BucketType
  <2>4. opened[a][t] \in Nat /\ logged[a][t] \in Nat
    BY <1>0, <2>1 DEF GuardType
  <2>5. Rate * (paTicks - t) \in Nat /\ LogLines * (paTicks - t) \in Nat /\ LogWindow * logged[a][t] \in Nat
    BY <2>1, <2>4, Products
  <2> QED BY <2>2, <2>3, <2>4, <2>5
<1> QED BY <1>0, <1>1, <1>2 DEF PreAuthIsSound

\* Work before authentication stays within its budgets for every number of
\* connections, addresses and slots and every rate: the slots taken are those
\* of the connections that hold one, no address exceeds its places, and what
\* an address opens or logs is bounded by its bucket and its rate.
THEOREM BudgetsHold == PreAuthSpec => []PreAuthIsSound
<1>1. PreAuthInit => PreAuthInv
  BY PaInit
<1>2. PreAuthInv /\ [PreAuthNext]_preAuthVars => PreAuthInv'
  BY PaStep
<1>3. PreAuthInv => PreAuthIsSound
  BY PaImplies
<1> QED BY <1>1, <1>2, <1>3, PTL DEF PreAuthSpec

-----------------------------------------------------------------------------
(***************************************************************************)
(* The audiences' live states.  What is in a state is judged by the        *)
(* context it came under: the state is one that context reaches, and what  *)
(* the context does not grant is not in it.                                *)
(***************************************************************************)
ViewNames == Dynamic \cup Fixed
Frames == [kind : {"frame"}, of : {1, 2}, sig : RawSignals,
           what : {"navigation", "observables", "details"}]
Markers == [kind : {"marker"}, of : {1}]
Contributions == [of : {1, 2}, named : BOOLEAN, sig : RawSignals, observables : BOOLEAN]
ViewStates == {NoView} \cup {Holding(S) : S \in SUBSET Contributions}
ViewMaps == {v \in [ViewNames -> ViewStates] : \A a \in Fixed : v[a].made}

ContentOf(v, a) == IF v[a].made THEN v[a].content ELSE {}

\* A contribution belongs into a state: its context reaches it and grants it.
Belongs(p, a) ==
  LET c == contexts[p.of]
  IN  /\ a = "organization" => c.owned
      /\ a = "collection" => c.collections
      /\ a \in {"public", "publicEvents"} =>
           /\ PublicEligible(c) /\ AllowsSignal(c, p.sig)
           /\ p.named \/ p.observables => c.use = "attributed"
      /\ a = "publicEvents" =>
           c.events # "private" /\ (p.named \/ p.observables => c.events = "public")

\* States that hold only what belongs there, and nothing of a purged context.
Proper(v, gone) ==
  /\ v \in ViewMaps
  /\ \A a \in ViewNames : \A p \in ContentOf(v, a) : Belongs(p, a) /\ p.of \notin gone

AudienceTypeOK ==
  /\ contexts \in [{1, 2} -> ContextRecords] /\ contextNow \in {1, 2}
  /\ channel \in Seq(Frames \cup Markers)
  /\ applying \in Frames \cup {NoFrame}
  /\ purged \subseteq {1}

\* The marker is sent once, behind every frame of the context it withdraws,
\* and once it has been applied no frame of that context is left.
ScopeInOrder ==
  /\ \A i \in 1..Len(channel) : channel[i].of <= contextNow
  /\ applying # NoFrame => applying.of <= contextNow
  /\ contextNow = 1 => purged = {} /\ \A i \in 1..Len(channel) : channel[i].kind = "frame"
  /\ \A i, j \in 1..Len(channel) : i < j /\ channel[i].kind = "marker" => channel[j].kind = "frame" /\ channel[j].of = 2
  /\ purged # {} =>
       /\ \A i \in 1..Len(channel) : channel[i].kind = "frame" /\ channel[i].of = 2
       /\ applying # NoFrame => applying.of = 2

AudienceInv == AudienceTypeOK /\ ScopeInOrder /\ Proper(views, purged)

\* The context of a contribution, a frame or a marker is one of the two.
LEMMA ContextOf ==
    ASSUME AudienceTypeOK, NEW i \in {1, 2}
    PROVE  /\ contexts[i] \in ContextRecords
           /\ contexts[i].owned \in BOOLEAN /\ contexts[i].collections \in BOOLEAN
           /\ contexts[i].use \in {"private", "anonymous", "attributed"}
           /\ contexts[i].events \in {"private", "redacted", "public"}
BY DEF AudienceTypeOK, ContextRecords

\* Adding what belongs there keeps the states proper (Offer, Apply).
LEMMA MergedProper ==
    ASSUME NEW gone, NEW v, Proper(v, gone), NEW a \in ViewNames, NEW S \in SUBSET Contributions,
           \A p \in S : Belongs(p, a) /\ p.of \notin gone
    PROVE  Proper(Merged(v, a, S), gone)
<1> DEFINE w == Merged(v, a, S)
<1>1. v \in [ViewNames -> ViewStates] /\ \A b \in Fixed : v[b].made
  BY DEF Proper, ViewMaps
<1>2. ASSUME NEW b \in ViewNames
      PROVE  ContentOf(v, b) \subseteq Contributions
  <2>1. CASE v[b] = NoView
    BY <2>1 DEF ContentOf, NoView
  <2>2. CASE \E T \in SUBSET Contributions : v[b] = Holding(T)
    BY <2>2 DEF ContentOf, Holding
  <2> QED BY <1>1, <2>1, <2>2 DEF ViewStates
<1>3. w = [v EXCEPT ![a] = Holding(ContentOf(v, a) \cup S)]
  BY DEF Merged, ContentOf
<1> HIDE DEF w
<1>4. Holding(ContentOf(v, a) \cup S) \in ViewStates
  BY <1>2 DEF ViewStates
<1>5. w \in [ViewNames -> ViewStates] /\ w[a] = Holding(ContentOf(v, a) \cup S)
      /\ \A b \in ViewNames \ {a} : w[b] = v[b]
  BY <1>1, <1>3, <1>4
<1>6. w \in ViewMaps
  <2>1. Holding(ContentOf(v, a) \cup S).made
    BY DEF Holding
  <2> QED BY <1>1, <1>5, <2>1 DEF ViewMaps, ViewNames
<1>7. ContentOf(w, a) = ContentOf(v, a) \cup S
  BY <1>5 DEF ContentOf, Holding
<1>8. \A b \in ViewNames \ {a} : ContentOf(w, b) = ContentOf(v, b)
  BY <1>5 DEF ContentOf
<1> QED BY <1>6, <1>7, <1>8 DEF Proper, w

\* What a frame brings belongs where its projections put it.
LEMMA ProjectionsBelong ==
    ASSUME AudienceTypeOK, NEW f \in Frames
    PROVE  LET c == contexts[f.of]
           IN  /\ {AsReceived(f), ProjectPublic(f, c), ProjectPublicEvents(f, c)} \subseteq SUBSET Contributions
               /\ \A p \in AsReceived(f) : p.of = f.of /\ Belongs(p, "operator")
                    /\ (c.owned => Belongs(p, "organization")) /\ (c.collections => Belongs(p, "collection"))
               /\ \A p \in ProjectPublic(f, c) : p.of = f.of /\ Belongs(p, "public")
               /\ \A p \in ProjectPublicEvents(f, c) : p.of = f.of /\ Belongs(p, "publicEvents")
<1> DEFINE c == contexts[f.of]
<1>1. f.of \in {1, 2} /\ f.sig \in RawSignals
  BY DEF Frames
<1>2. /\ c.use \in {"private", "anonymous", "attributed"}
      /\ c.events \in {"private", "redacted", "public"}
  BY <1>1, ContextOf
<1>3. \A n, o \in BOOLEAN : /\ Contribution(f, n, o) \in Contributions
                            /\ Contribution(f, n, o).of = f.of /\ Contribution(f, n, o).sig = f.sig
                            /\ Contribution(f, n, o).named = n /\ Contribution(f, n, o).observables = o
  BY <1>1 DEF Contribution, Contributions
<1> HIDE DEF c
<1>4. AsReceived(f) \in SUBSET Contributions
      /\ \A p \in AsReceived(f) : p.of = f.of /\ Belongs(p, "operator")
           /\ (c.owned => Belongs(p, "organization")) /\ (c.collections => Belongs(p, "collection"))
  BY <1>3 DEF AsReceived, Belongs, c
<1>5. ProjectPublic(f, c) \in SUBSET Contributions
      /\ \A p \in ProjectPublic(f, c) :
           /\ p.of = f.of /\ p.sig = f.sig /\ PublicEligible(c) /\ AllowsSignal(c, f.sig)
           /\ p.named \in BOOLEAN /\ p.observables \in BOOLEAN
           /\ p.named \/ p.observables => c.use = "attributed"
  <2>1. CASE f.what = "details" \/ ~PublicEligible(c) \/ ~AllowsSignal(c, f.sig)
    BY <2>1 DEF ProjectPublic
  <2>2. CASE ~(f.what = "details" \/ ~PublicEligible(c) \/ ~AllowsSignal(c, f.sig)) /\ c.use = "anonymous"
    <3>1. ProjectPublic(f, c) = {Contribution(f, FALSE, FALSE)}
      BY <2>2 DEF ProjectPublic
    <3> QED BY <2>2, <3>1, <1>3
  <2>3. CASE ~(f.what = "details" \/ ~PublicEligible(c) \/ ~AllowsSignal(c, f.sig)) /\ c.use # "anonymous"
    <3>1. ProjectPublic(f, c) = {Contribution(f, TRUE, f.what = "observables")} /\ c.use = "attributed"
      BY <2>3 DEF ProjectPublic, PublicEligible
    <3>2. (f.what = "observables") \in BOOLEAN
      OBVIOUS
    <3> QED BY <2>3, <3>1, <3>2, <1>3
  <2> QED BY <2>1, <2>2, <2>3
<1>6. \A p \in ProjectPublic(f, c) : Belongs(p, "public")
  BY <1>5 DEF Belongs, c
<1>7. ProjectPublicEvents(f, c) \in SUBSET Contributions
      /\ \A p \in ProjectPublicEvents(f, c) : p.of = f.of /\ Belongs(p, "publicEvents")
  <2>1. CASE c.events = "private"
    BY <2>1 DEF ProjectPublicEvents
  <2>2. CASE c.events = "redacted"
    <3>1. ProjectPublicEvents(f, c) = {[p EXCEPT !.named = FALSE, !.observables = FALSE] : p \in ProjectPublic(f, c)}
      BY <2>2 DEF ProjectPublicEvents
    <3>2. ASSUME NEW p \in ProjectPublic(f, c), NEW q, q = [p EXCEPT !.named = FALSE, !.observables = FALSE]
          PROVE  /\ q \in Contributions /\ q.of = p.of /\ q.sig = p.sig
                 /\ q.named = FALSE /\ q.observables = FALSE
      BY <3>2, <1>5 DEF Contributions
    <3>3. ASSUME NEW q \in ProjectPublicEvents(f, c)
          PROVE  q \in Contributions /\ q.of = f.of /\ Belongs(q, "publicEvents")
      <4>1. PICK p \in ProjectPublic(f, c) : q = [p EXCEPT !.named = FALSE, !.observables = FALSE]
        BY <3>1
      <4> QED BY <4>1, <3>2, <1>5, <2>2 DEF Belongs, c
    <3> QED BY <3>3
  <2>3. CASE c.events = "public"
    <3>1. ProjectPublicEvents(f, c) = ProjectPublic(f, c)
      BY <2>3 DEF ProjectPublicEvents
    <3> QED BY <3>1, <1>5, <2>3 DEF Belongs, c
  <2> QED BY <1>2, <2>1, <2>2, <2>3
<1> QED BY <1>4, <1>5, <1>6, <1>7 DEF c

\* A private state takes a member's frame, if there is room for it.
LEMMA OfferedProper ==
    ASSUME NEW gone, NEW v, Proper(v, gone), NEW a \in ViewNames, NEW S \in SUBSET Contributions,
           \A p \in S : Belongs(p, a) /\ p.of \notin gone
    PROVE  Proper(Offered(v, a, S), gone)
BY MergedProper DEF Offered

\* The private states of a frame's owner and collections (ApplyPrivate).
LEMMA PrivateProper ==
    ASSUME AudienceTypeOK, NEW f \in Frames, NEW gone, f.of \notin gone, NEW v, Proper(v, gone)
    PROVE  Proper(ApplyPrivate(v, f, contexts[f.of]), gone)
<1> DEFINE c == contexts[f.of]
           R == AsReceived(f)
<1>1. /\ R \in SUBSET Contributions
      /\ \A p \in R : p.of \notin gone
      /\ c.owned => \A p \in R : Belongs(p, "organization")
      /\ c.collections => \A p \in R : Belongs(p, "collection")
  BY ProjectionsBelong
<1>2. c.owned \in BOOLEAN /\ c.collections \in BOOLEAN
  BY ContextOf DEF Frames
<1>3. "organization" \in ViewNames /\ "collection" \in ViewNames
  BY DEF ViewNames, Dynamic
<1> HIDE DEF c, R
<1>4. CASE ~c.owned /\ ~c.collections
  <2>1. Membership(c) = <<>>
    BY <1>4 DEF Membership
  <2>2. ApplyPrivate(v, f, c) = v
    BY <2>1 DEF ApplyPrivate
  <2> QED BY <2>2 DEF c
<1>5. CASE c.owned /\ ~c.collections
  <2>1. Membership(c) = <<"organization">>
    BY <1>5 DEF Membership
  <2>2. ApplyPrivate(v, f, c) = Offered(v, "organization", R)
    BY <2>1 DEF ApplyPrivate, R
  <2> QED BY <1>1, <1>3, <1>5, <2>2, OfferedProper DEF c
<1>6. CASE ~c.owned /\ c.collections
  <2>1. Membership(c) = <<"collection">>
    BY <1>6 DEF Membership
  <2>2. ApplyPrivate(v, f, c) = Offered(v, "collection", R)
    BY <2>1 DEF ApplyPrivate, R
  <2> QED BY <1>1, <1>3, <1>6, <2>2, OfferedProper DEF c
<1>7. CASE c.owned /\ c.collections
  <2>1. PICK m : m = Membership(c)
    OBVIOUS
  <2>2. Len(m) = 2 /\ m[1] = "organization" /\ m[2] = "collection"
    <3>1. m = <<"organization">> \o <<"collection">>
      BY <1>7, <2>1 DEF Membership
    <3>2. <<"organization">> \in Seq({"organization", "collection"}) /\ <<"collection">> \in Seq({"organization", "collection"})
      OBVIOUS
    <3> QED BY <3>1, <3>2
  <2>6. ApplyPrivate(v, f, c) = Offered(Offered(v, "organization", R), "collection", R)
    BY <2>1, <2>2 DEF ApplyPrivate, R
  <2>3. Proper(Offered(v, "organization", R), gone)
    BY <1>1, <1>3, <1>7, OfferedProper
  <2>4. PICK w : w = Offered(v, "organization", R)
    OBVIOUS
  <2>5. Proper(Offered(w, "collection", R), gone)
    BY <1>1, <1>3, <1>7, <2>3, <2>4, OfferedProper
  <2> QED BY <2>4, <2>5, <2>6 DEF c
<1> QED BY <1>2, <1>4, <1>5, <1>6, <1>7

\* However far the projections of a frame get, the states stay proper.
LEMMA StagesProper ==
    ASSUME AudienceInv, NEW f \in Frames, f.of \notin purged, NEW i \in 1..4
    PROVE  Proper(Stages(f, contexts[f.of])[i], purged)
<1> DEFINE c == contexts[f.of]
           s1 == Merged(views, "operator", AsReceived(f))
           s2 == ApplyPrivate(s1, f, c)
           s3 == Merged(s2, "public", ProjectPublic(f, c))
           s4 == Merged(s3, "publicEvents", ProjectPublicEvents(f, c))
<1>1. AudienceTypeOK /\ Proper(views, purged)
  BY DEF AudienceInv
<1>2. {"operator", "public", "publicEvents"} \subseteq ViewNames
  BY DEF ViewNames, Fixed
<1>3. /\ AsReceived(f) \in SUBSET Contributions /\ ProjectPublic(f, c) \in SUBSET Contributions
      /\ ProjectPublicEvents(f, c) \in SUBSET Contributions
      /\ \A p \in AsReceived(f) : Belongs(p, "operator") /\ p.of \notin purged
      /\ \A p \in ProjectPublic(f, c) : Belongs(p, "public") /\ p.of \notin purged
      /\ \A p \in ProjectPublicEvents(f, c) : Belongs(p, "publicEvents") /\ p.of \notin purged
  BY <1>1, ProjectionsBelong
<1>4. PICK v1 : v1 = s1
  OBVIOUS
<1>5. Proper(v1, purged)
  BY <1>1, <1>2, <1>3, <1>4, MergedProper
<1>6. PICK v2 : v2 = ApplyPrivate(v1, f, c)
  OBVIOUS
<1>7. Proper(v2, purged)
  BY <1>1, <1>5, <1>6, PrivateProper
<1>8. PICK v3 : v3 = Merged(v2, "public", ProjectPublic(f, c))
  OBVIOUS
<1>9. Proper(v3, purged)
  BY <1>2, <1>3, <1>7, <1>8, MergedProper
<1>10. PICK v4 : v4 = Merged(v3, "publicEvents", ProjectPublicEvents(f, c))
  OBVIOUS
<1>11. Proper(v4, purged)
  BY <1>2, <1>3, <1>9, <1>10, MergedProper
<1>12. Stages(f, c) = <<v1, v2, v3, v4>>
  BY <1>4, <1>6, <1>8, <1>10 DEF Stages
<1> QED BY <1>5, <1>7, <1>9, <1>11, <1>12

\* Emptying states keeps them proper.
LEMMA ResetProper ==
    ASSUME NEW gone, NEW v, Proper(v, gone), NEW A
    PROVE  /\ Proper(ResetOf(v, A), gone)
           /\ \A a \in ViewNames \cap A : ContentOf(ResetOf(v, A), a) = {}
           /\ \A a \in ViewNames \ A : ContentOf(ResetOf(v, A), a) = ContentOf(v, a)
<1>1. v \in [ViewNames -> ViewStates] /\ (\A b \in Fixed : v[b].made) /\ DOMAIN v = ViewNames
  BY DEF Proper, ViewMaps
<1>2. Holding({}) \in ViewStates /\ Holding({}).made /\ Holding({}).content = {}
  BY DEF ViewStates, Holding
<1>3. \A a \in ViewNames : ResetOf(v, A)[a] = IF a \in A /\ v[a].made THEN Holding({}) ELSE v[a]
  BY <1>1 DEF ResetOf
<1>4. ResetOf(v, A) \in ViewMaps
  <2>1. ResetOf(v, A) \in [ViewNames -> ViewStates]
    BY <1>1, <1>2 DEF ResetOf
  <2> QED BY <1>1, <1>2, <1>3, <2>1 DEF ViewMaps, ViewNames
<1>5. \A a \in ViewNames \cap A : ContentOf(ResetOf(v, A), a) = {}
  BY <1>2, <1>3 DEF ContentOf
<1>6. \A a \in ViewNames \ A : ContentOf(ResetOf(v, A), a) = ContentOf(v, a)
  BY <1>3 DEF ContentOf
<1> QED BY <1>4, <1>5, <1>6 DEF Proper

\* The reset and the projections agree: where something of a context belongs,
\* its marker empties the state.
LEMMA MarkerReaches ==
    ASSUME NEW p, NEW a \in ViewNames, Belongs(p, a)
    PROVE  a \in WithEvents(Affected(contexts[p.of]))
BY DEF Belongs, WithEvents, Affected, ViewNames, Dynamic, Fixed

\* The states start empty.
LEMMA AudienceStarts ==
    ASSUME AudienceInit
    PROVE  AudienceInv
<1>1. AudienceTypeOK
  <2>1. PICK before \in Contexts, after \in {PrivateContext, PublicContext} : contexts = <<before, after>>
    BY DEF AudienceInit
  <2>2. before \in ContextRecords /\ after \in ContextRecords
    <3>1. before \in ContextRecords
      BY DEF Contexts
    <3>2. PrivateContext \in ContextRecords
      BY DEF PrivateContext, ContextRecords
    <3>3. PublicContext \in ContextRecords
      BY DEF PublicContext, ContextRecords
    <3> QED BY <3>1, <3>2, <3>3
  <2>3. contexts \in [{1, 2} -> ContextRecords]
    BY <2>1, <2>2
  <2> QED BY <2>3 DEF AudienceInit, AudienceTypeOK
<1>2. ScopeInOrder
  BY DEF AudienceInit, ScopeInOrder
<1>3. Proper(views, purged)
  <2>1. Holding({}) \in ViewStates /\ Holding({}).made /\ Holding({}).content = {} /\ NoView \in ViewStates /\ ~NoView.made
    BY DEF ViewStates, Holding, NoView
  <2>2. views = [a \in ViewNames |-> IF a \in Fixed THEN Holding({}) ELSE NoView]
    BY DEF AudienceInit, ViewNames
  <2>3. views \in ViewMaps
    BY <2>1, <2>2 DEF ViewMaps, ViewNames
  <2>4. \A a \in ViewNames : ContentOf(views, a) = {}
    BY <2>1, <2>2 DEF ContentOf
  <2> QED BY <2>3, <2>4 DEF Proper
<1> QED BY <1>1, <1>2, <1>3 DEF AudienceInv

\* A step that leaves the contexts, the purged and the states alone.
LEMMA StatesKept ==
    ASSUME Proper(views, purged), UNCHANGED <<contexts, views, purged>>
    PROVE  Proper(views, purged)'
BY DEF Proper, Belongs

\* A frame is received, or the context changes and its marker follows.
LEMMA ChannelGrows ==
    ASSUME AudienceInv, ReceiveFrame \/ ChangeContext
    PROVE  AudienceInv'
<1>1. UNCHANGED <<contexts, applying, views, purged>> /\ contextNow \in {1, 2} /\ channel \in Seq(Frames \cup Markers)
  BY DEF ReceiveFrame, ChangeContext, AudienceInv, AudienceTypeOK
<1>2. PICK m : channel' = Append(channel, m)
         /\ \/ m \in Frames /\ m.of = contextNow /\ contextNow' = contextNow
            \/ m \in Markers /\ contextNow = 1 /\ contextNow' = 2
  <2>1. CASE ReceiveFrame
    <3>1. PICK sig \in RawSignals, what \in {"navigation", "observables", "details"} :
             channel' = Append(channel, [kind |-> "frame", of |-> contextNow, sig |-> sig, what |-> what])
      BY <2>1 DEF ReceiveFrame
    <3>2. PICK x : x = [kind |-> "frame", of |-> contextNow, sig |-> sig, what |-> what]
      OBVIOUS
    <3>3. x \in Frames /\ x.of = contextNow /\ contextNow' = contextNow
      BY <1>1, <2>1, <3>2 DEF Frames, ReceiveFrame
    <3> QED BY <3>1, <3>2, <3>3
  <2>2. CASE ChangeContext
    <3>1. [kind |-> "marker", of |-> 1] \in Markers
      BY DEF Markers
    <3> QED BY <2>2, <3>1 DEF ChangeContext
  <2> QED BY <2>1, <2>2
<1>3. /\ m \in Frames => m.kind = "frame"
      /\ m \in Markers => m.kind = "marker" /\ m.of = 1
  BY DEF Frames, Markers
<1>4. channel' \in Seq(Frames \cup Markers) /\ Len(channel') = Len(channel) + 1
      /\ channel'[Len(channel) + 1] = m /\ \A i \in 1..Len(channel) : channel'[i] = channel[i]
  BY <1>1, <1>2
<1>5. AudienceTypeOK'
  BY <1>1, <1>2, <1>4 DEF AudienceInv, AudienceTypeOK
<1>6. ScopeInOrder'
  <2>1. ScopeInOrder /\ purged \subseteq {1} /\ Len(channel) \in Nat
    BY <1>1 DEF AudienceInv, AudienceTypeOK
  <2>2. \A i \in 1..Len(channel') : i \in 1..Len(channel) \/ i = Len(channel) + 1
    BY <2>1, <1>4
  <2>3. \A i \in 1..Len(channel') : channel'[i].of <= contextNow'
    <3>1. contextNow' \in {1, 2} /\ contextNow <= contextNow' /\ m.of <= contextNow'
      BY <1>1, <1>2, <1>3
    <3>2. \A i \in 1..Len(channel) : channel[i].of \in {1, 2}
      BY <1>1 DEF Frames, Markers
    <3> QED BY <2>1, <2>2, <1>1, <1>4, <3>1, <3>2 DEF ScopeInOrder
  <2>4. applying' # NoFrame => applying'.of <= contextNow'
    BY <2>1, <1>1, <1>2 DEF ScopeInOrder, NoFrame, AudienceInv, AudienceTypeOK, Frames
  <2>5. contextNow' = 1 => purged' = {} /\ \A i \in 1..Len(channel') : channel'[i].kind = "frame"
    BY <2>1, <2>2, <1>1, <1>2, <1>3, <1>4 DEF ScopeInOrder
  <2>6. \A i, j \in 1..Len(channel') : i < j /\ channel'[i].kind = "marker" => channel'[j].kind = "frame" /\ channel'[j].of = 2
    <3> SUFFICES ASSUME NEW i \in 1..Len(channel'), NEW j \in 1..Len(channel'), i < j, channel'[i].kind = "marker"
                 PROVE  channel'[j].kind = "frame" /\ channel'[j].of = 2
      OBVIOUS
    <3>1. i \in 1..Len(channel) /\ channel[i].kind = "marker"
      BY <1>4, <2>1
    <3>2. contextNow = 2
      BY <2>1, <3>1, <1>1 DEF ScopeInOrder
    <3>3. m \in Frames /\ m.of = 2
      BY <1>2, <3>2
    <3> QED BY <2>1, <2>2, <3>1, <3>3, <1>3, <1>4 DEF ScopeInOrder
  <2>7. purged' # {} =>
         /\ \A i \in 1..Len(channel') : channel'[i].kind = "frame" /\ channel'[i].of = 2
         /\ applying' # NoFrame => applying'.of = 2
    <3> SUFFICES ASSUME purged # {} PROVE
         /\ \A i \in 1..Len(channel') : channel'[i].kind = "frame" /\ channel'[i].of = 2
         /\ applying # NoFrame => applying.of = 2
      BY <1>1
    <3>1. contextNow = 2
      BY <2>1, <1>1 DEF ScopeInOrder
    <3>2. m \in Frames /\ m.of = 2
      BY <1>2, <3>1
    <3> QED BY <2>1, <2>2, <3>2, <1>3, <1>4 DEF ScopeInOrder
  <2> QED BY <2>3, <2>4, <2>5, <2>6, <2>7 DEF ScopeInOrder
<1>7. Proper(views, purged)'
  BY <1>1, StatesKept DEF AudienceInv
<1> QED BY <1>5, <1>6, <1>7 DEF AudienceInv

\* The channel without its head is in order.
LEMMA ChannelShrinks ==
    ASSUME AudienceInv, channel # <<>>, channel' = Tail(channel)
    PROVE  /\ channel' \in Seq(Frames \cup Markers) /\ Head(channel) \in Frames \cup Markers
           /\ Len(channel) \in Nat \ {0} /\ Len(channel') = Len(channel) - 1 /\ Head(channel) = channel[1]
           /\ \A i \in 1..Len(channel') : i + 1 \in 1..Len(channel) /\ channel'[i] = channel[i + 1]
<1>1. channel \in Seq(Frames \cup Markers)
  BY DEF AudienceInv, AudienceTypeOK
<1>2. Len(channel) \in Nat \ {0} /\ Head(channel) = channel[1] /\ Head(channel) \in Frames \cup Markers
      /\ Tail(channel) \in Seq(Frames \cup Markers) /\ Len(Tail(channel)) = Len(channel) - 1
  BY <1>1
<1>3. \A i \in 1..Len(Tail(channel)) : i + 1 \in 1..Len(channel) /\ Tail(channel)[i] = channel[i + 1]
  BY <1>1, <1>2
<1> QED BY <1>2, <1>3

\* decodeLoop takes a frame off the channel.
LEMMA FrameTaken ==
    ASSUME AudienceInv, TakeFrame
    PROVE  AudienceInv'
<1>1. UNCHANGED <<contexts, contextNow, views, purged>> /\ channel' = Tail(channel) /\ channel # <<>>
  BY DEF TakeFrame
<1>2. /\ channel' \in Seq(Frames \cup Markers) /\ Head(channel) \in Frames \cup Markers
      /\ Len(channel) \in Nat \ {0} /\ Len(channel') = Len(channel) - 1 /\ Head(channel) = channel[1]
      /\ \A i \in 1..Len(channel') : i + 1 \in 1..Len(channel) /\ channel'[i] = channel[i + 1]
  BY <1>1, ChannelShrinks
<1>3. applying' = NoFrame \/ (applying' = channel[1] /\ channel[1] \in Frames)
  <2>1. Head(channel).kind = "frame"
    BY DEF TakeFrame
  <2>2. Head(channel) \in Frames
    BY <1>2, <2>1 DEF Markers
  <2> QED BY <1>2, <2>2 DEF TakeFrame
<1>4. AudienceTypeOK'
  BY <1>1, <1>2, <1>3 DEF AudienceInv, AudienceTypeOK
<1>5. ScopeInOrder'
  <2>1. ScopeInOrder /\ 1 \in 1..Len(channel)
    BY <1>2 DEF AudienceInv
  <2>2. \A i \in 1..Len(channel') : channel'[i].of <= contextNow'
    BY <2>1, <1>1, <1>2 DEF ScopeInOrder
  <2>3. applying' # NoFrame => applying'.of <= contextNow'
    BY <2>1, <1>1, <1>3 DEF ScopeInOrder
  <2>4. contextNow' = 1 => purged' = {} /\ \A i \in 1..Len(channel') : channel'[i].kind = "frame"
    BY <2>1, <1>1, <1>2 DEF ScopeInOrder
  <2>5. \A i, j \in 1..Len(channel') : i < j /\ channel'[i].kind = "marker" => channel'[j].kind = "frame" /\ channel'[j].of = 2
    <3> SUFFICES ASSUME NEW i \in 1..Len(channel'), NEW j \in 1..Len(channel'), i < j, channel'[i].kind = "marker"
                 PROVE  channel'[j].kind = "frame" /\ channel'[j].of = 2
      OBVIOUS
    <3>1. i + 1 \in 1..Len(channel) /\ j + 1 \in 1..Len(channel) /\ i + 1 < j + 1
      BY <1>2
    <3>2. channel'[i] = channel[i + 1] /\ channel'[j] = channel[j + 1]
      BY <1>2
    <3> QED BY <2>1, <3>1, <3>2 DEF ScopeInOrder
  <2>6. purged' # {} =>
         /\ \A i \in 1..Len(channel') : channel'[i].kind = "frame" /\ channel'[i].of = 2
         /\ applying' # NoFrame => applying'.of = 2
    BY <2>1, <1>1, <1>2, <1>3 DEF ScopeInOrder
  <2> QED BY <2>2, <2>3, <2>4, <2>5, <2>6 DEF ScopeInOrder
<1>6. Proper(views, purged)'
  BY <1>1, StatesKept DEF AudienceInv
<1> QED BY <1>4, <1>5, <1>6 DEF AudienceInv

\* A frame is projected, to the end or to a panic (recoverDecodePanic).
LEMMA FrameApplied ==
    ASSUME AudienceInv, ApplyFrame \/ FramePanics
    PROVE  AudienceInv'
<1>1. UNCHANGED <<contexts, contextNow, channel, purged>> /\ applying' = NoFrame /\ applying # NoFrame
  BY DEF ApplyFrame, FramePanics
<1>2. PICK i \in 1..4 : views' = Stages(applying, contexts[applying.of])[i]
  BY DEF ApplyFrame, FramePanics
<1>3. applying \in Frames /\ applying.of \notin purged
  BY <1>1 DEF AudienceInv, AudienceTypeOK, ScopeInOrder
<1>4. Proper(views', purged)
  BY <1>2, <1>3, StagesProper
<1>5. Proper(views, purged)'
  BY <1>1, <1>4 DEF Proper, Belongs
<1>6. AudienceTypeOK' /\ ScopeInOrder'
  BY <1>1 DEF AudienceInv, AudienceTypeOK, ScopeInOrder
<1> QED BY <1>5, <1>6 DEF AudienceInv

\* A marker is applied, to the end or to a panic (scopeController.Apply).
LEMMA MarkerApplied ==
    ASSUME AudienceInv, ApplyMarker \/ MarkerPanics
    PROVE  AudienceInv'
<1>1. UNCHANGED <<contexts, contextNow, applying>> /\ applying = NoFrame
      /\ channel' = Tail(channel) /\ channel # <<>> /\ Head(channel).kind = "marker"
  BY DEF ApplyMarker, MarkerPanics
<1>2. /\ channel' \in Seq(Frames \cup Markers) /\ Head(channel) \in Frames \cup Markers
      /\ Len(channel) \in Nat \ {0} /\ Len(channel') = Len(channel) - 1 /\ Head(channel) = channel[1]
      /\ \A i \in 1..Len(channel') : i + 1 \in 1..Len(channel) /\ channel'[i] = channel[i + 1]
  BY <1>1, ChannelShrinks
<1>3. Head(channel).of = 1 /\ channel[1].kind = "marker"
  BY <1>1, <1>2 DEF Frames, Markers
<1>4. purged' \in {purged, {1}} /\ purged \subseteq {1}
  BY <1>3 DEF ApplyMarker, MarkerPanics, AudienceInv, AudienceTypeOK
<1>5. AudienceTypeOK'
  BY <1>1, <1>2, <1>4 DEF AudienceInv, AudienceTypeOK
<1>6. ScopeInOrder'
  <2>1. ScopeInOrder /\ 1 \in 1..Len(channel) /\ contextNow \in {1, 2}
    BY <1>2 DEF AudienceInv, AudienceTypeOK
  <2>2. \A i \in 1..Len(channel') : channel'[i].kind = "frame" /\ channel'[i].of = 2
    BY <2>1, <1>2, <1>3 DEF ScopeInOrder
  <2>3. contextNow = 2
    BY <2>1, <1>3 DEF ScopeInOrder
  <2> QED BY <2>2, <2>3, <1>1 DEF ScopeInOrder
<1>7. Proper(views', purged')
  <2>1. Proper(views, purged)
    BY DEF AudienceInv
  <2>2. CASE ApplyMarker
    <3> DEFINE A == WithEvents(Affected(contexts[1]))
    <3>1. views' = ResetOf(views, A) /\ purged' = purged \cup {1}
      BY <2>2, <1>3 DEF ApplyMarker
    <3> HIDE DEF A
    <3>2. /\ Proper(views', purged)
          /\ \A a \in ViewNames \cap A : ContentOf(views', a) = {}
          /\ \A a \in ViewNames \ A : ContentOf(views', a) = ContentOf(views, a)
      BY <2>1, <3>1, ResetProper
    <3>3. ASSUME NEW a \in ViewNames, NEW p \in ContentOf(views', a)
          PROVE  p.of # 1
      <4>1. a \notin A /\ p \in ContentOf(views, a)
        BY <3>2, <3>3
      <4>2. Belongs(p, a)
        BY <2>1, <4>1 DEF Proper
      <4>3. a \in WithEvents(Affected(contexts[p.of]))
        BY <4>2, MarkerReaches
      <4> QED BY <4>1, <4>3 DEF A
    <3> QED BY <3>1, <3>2, <3>3 DEF Proper
  <2>3. CASE MarkerPanics
    <3>1. purged' = purged /\ (views' = views \/ views' = ResetOf(views, Affected(contexts[1])))
      BY <2>3, <1>3 DEF MarkerPanics
    <3> QED BY <2>1, <3>1, ResetProper
  <2> QED BY <2>2, <2>3
<1>8. Proper(views, purged)'
  BY <1>1, <1>7 DEF Proper, Belongs
<1> QED BY <1>5, <1>6, <1>8 DEF AudienceInv

\* What is proper is what the run checks.
LEMMA ProperIsSound ==
    ASSUME AudienceInv
    PROVE  ViewsAreSound
<1>1. \A a \in ViewNames : Content(a) = ContentOf(views, a)
  BY DEF Content, ContentOf
<1>2. \A a \in ViewNames : \A p \in Content(a) : Belongs(p, a) /\ p.of \notin purged
  BY <1>1 DEF AudienceInv, Proper
<1>3. {"organization", "collection", "public", "publicEvents"} \subseteq ViewNames /\ DOMAIN views = ViewNames
  BY DEF ViewNames, Dynamic, Fixed, AudienceInv, Proper, ViewMaps
<1>4. NothingOutlivesItsScope
  BY <1>2, <1>3 DEF NothingOutlivesItsScope
<1>5. ViewsHoldTheirMembers
  BY <1>2, <1>3 DEF ViewsHoldTheirMembers, Belongs
<1>6. PublicHoldsOnlyGrants
  BY <1>2, <1>3 DEF PublicHoldsOnlyGrants, Belongs
<1> QED BY <1>4, <1>5, <1>6 DEF ViewsAreSound

\* What reaches an audience's live state came from its members, under a policy
\* that is not withdrawn, and within what that policy grants, wherever a panic
\* cuts a frame or a marker (scopeController.Apply, recoverDecodePanic).
THEOREM ViewsStaySound == AudienceSpec => []ViewsAreSound
<1>1. AudienceInit => AudienceInv
  BY AudienceStarts
<1>2. AudienceInv /\ [AudienceNext]_audienceVars => AudienceInv'
  <2> SUFFICES ASSUME AudienceInv, [AudienceNext]_audienceVars
               PROVE  AudienceInv'
    OBVIOUS
  <2>1. CASE ReceiveFrame \/ ChangeContext
    BY <2>1, ChannelGrows
  <2>2. CASE TakeFrame
    BY <2>2, FrameTaken
  <2>3. CASE ApplyFrame \/ FramePanics
    BY <2>3, FrameApplied
  <2>4. CASE ApplyMarker \/ MarkerPanics
    BY <2>4, MarkerApplied
  <2>5. CASE UNCHANGED audienceVars
    BY <2>5 DEF audienceVars, AudienceInv, AudienceTypeOK, ScopeInOrder, Proper, Belongs
  <2> QED BY <2>1, <2>2, <2>3, <2>4, <2>5 DEF AudienceNext
<1>3. AudienceInv => ViewsAreSound
  BY ProperIsSound
<1> QED BY <1>1, <1>2, <1>3, PTL DEF AudienceSpec

-----------------------------------------------------------------------------
(***************************************************************************)
(* The feeds.  Generations only grow, so what is read later was read of a  *)
(* store no older: a body whose generation is still the store's is of that *)
(* one state, and an entry admitted under a policy is no older than it.    *)
(***************************************************************************)
Bodies == Nat \X Nat
EntryType == [body : Bodies, epoch : Nat, state : Nat]
BuildType == [at : {"idle", "start", "built", "ok", "error"}, state : Nat, epoch : Nat,
              gen : Nat, lo : Nat, tries : Nat]
RequestType ==
  [at : {"idle", "lookup", "lock", "scoped", "rendering", "recheck", "check", "write", "sent", "answered"},
   gen : Nat, conn : BOOLEAN, private : BOOLEAN, body : {<<>>} \cup Bodies, granted : BOOLEAN]

FeedTypeOK ==
  /\ listener \in Listeners
  /\ feedEpoch \in Nat /\ liveGen \in Nat
  /\ withdrawal \in {"idle", "advance", "deliveries", "cache"}
  /\ cache \in {<<>>} \cup {<<e>> : e \in EntryType}
  /\ build \in [Builders -> BuildType] /\ req \in [Requests -> RequestType]

\* The store is one generation ahead of the policy between its reset and Advance.
GenerationsMeet == liveGen = IF withdrawal = "advance" THEN feedEpoch + 1 ELSE feedEpoch

CacheOfOneState ==
  cache # <<>> => cache[1].body = <<cache[1].state, cache[1].state>> /\ cache[1].epoch <= cache[1].state

BuildOK(b) ==
  /\ b.at # "idle" => b.epoch <= b.state /\ b.state <= liveGen
  /\ b.at \in {"built", "ok"} => b.lo = b.gen /\ b.state <= b.gen /\ b.gen <= liveGen

MayRead(q) == q.granted \/ (listener.unauthenticated /\ ~listener.readAuth)
RequestOK(q) ==
  /\ q.gen <= feedEpoch
  /\ q.body # <<>> => q.body[1] = q.body[2] /\ q.gen <= q.body[1]
  /\ q.conn => q.gen = feedEpoch \/ withdrawal = "deliveries"
  /\ q.at \notin {"idle", "answered"} /\ q.private => MayRead(q)

\* A request renders exactly while its build is under way, under a policy no
\* older than the one its delivery began under.
RendersFor(q, b) ==
  /\ b.at # "idle" <=> q.at = "rendering"
  /\ q.at = "rendering" => q.gen <= b.epoch /\ (b.at = "ok" => q.body = <<b.gen, b.gen>>)

LockIsHeld ==
  renderLock # "free" =>
    \/ renderLock \in Builders /\ build[renderLock].at # "idle"
    \/ renderLock \in Requests /\ req[renderLock].at = "recheck"

FeedInv ==
  /\ FeedTypeOK /\ GenerationsMeet /\ CacheOfOneState /\ LockIsHeld
  /\ \A p \in Builders : BuildOK(build[p])
  /\ \A r \in Requests : RequestOK(req[r]) /\ RendersFor(req[r], build[r])

\* A cached body that serves a delivery is of one state, and of no older policy.
LEMMA CachedIsCurrent ==
    ASSUME FeedInv, NEW e \in Nat, CachedBody(e)
    PROVE  /\ cache[1].body \in Bodies /\ cache[1].body # <<>>
           /\ cache[1].body[1] = cache[1].body[2] /\ e <= cache[1].body[1]
<1>1. PICK x \in EntryType : cache = <<x>>
  BY DEF FeedInv, FeedTypeOK, CachedBody
<1>2. cache[1] = x /\ cache # <<>> /\ x.state \in Nat /\ x.epoch = e
  BY <1>1 DEF CachedBody, EntryType
<1>3. x.body = <<x.state, x.state>> /\ e <= x.state
  BY <1>2 DEF FeedInv, CacheOfOneState
<1> QED BY <1>2, <1>3 DEF Bodies

\* A step that changes one request, which does not render before or after.
LEMMA RequestMoves ==
    ASSUME FeedInv, NEW r \in Requests, NEW q \in RequestType, RequestOK(q),
           req' = [req EXCEPT ![r] = q], UNCHANGED <<feedPolicyVars, cache, build>>,
           req[r].at # "rendering", q.at # "rendering",
           renderLock' = "free" \/ (renderLock' = renderLock /\ req[r].at # "recheck")
    PROVE  FeedInv'
<1>1. UNCHANGED <<listener, feedEpoch, liveGen, withdrawal, cache, build>>
  BY DEF feedPolicyVars
<1>2. req \in [Requests -> RequestType] /\ req'[r] = q /\ \A s \in Requests \ {r} : req'[s] = req[s]
  BY DEF FeedInv, FeedTypeOK
<1>3. FeedTypeOK' /\ GenerationsMeet' /\ CacheOfOneState'
  BY <1>1, <1>2 DEF FeedInv, FeedTypeOK, GenerationsMeet, CacheOfOneState
<1>4. LockIsHeld'
  BY <1>1, <1>2 DEF FeedInv, LockIsHeld
<1>5. \A p \in Builders : BuildOK(build[p])'
  BY <1>1 DEF FeedInv, BuildOK
<1>6. \A s \in Requests : RequestOK(req[s])'
  BY <1>1, <1>2 DEF FeedInv, RequestOK, MayRead
<1>7. \A s \in Requests : RendersFor(req[s], build[s])'
  BY <1>1, <1>2 DEF FeedInv, RendersFor
<1> QED BY <1>3, <1>4, <1>5, <1>6, <1>7 DEF FeedInv

\* A request begins to render (ScopedStart, RenderLock).
LEMMA RenderBegins ==
    ASSUME FeedInv, NEW r \in Requests, req[r].at \in {"scoped", "lock"},
           req' = [req EXCEPT ![r].at = "rendering"], build' = [build EXCEPT ![r] = Rendering],
           renderLock' \in {renderLock, r}, UNCHANGED <<feedPolicyVars, cache>>
    PROVE  FeedInv'
<1>1. UNCHANGED <<listener, feedEpoch, liveGen, withdrawal, cache>>
  BY DEF feedPolicyVars
<1>2. /\ req \in [Requests -> RequestType] /\ build \in [Builders -> BuildType] /\ r \in Builders
      /\ feedEpoch \in Nat /\ liveGen \in Nat /\ feedEpoch <= liveGen
  BY DEF FeedInv, FeedTypeOK, Builders, GenerationsMeet
<1>3. PICK b : b = Rendering
  OBVIOUS
<1>4. b \in BuildType /\ b.at = "start" /\ b.state = liveGen /\ b.epoch = feedEpoch
  BY <1>2, <1>3 DEF Rendering, NoBuild, BuildType
<1>5. PICK q : q = [req[r] EXCEPT !.at = "rendering"]
  OBVIOUS
<1>6. /\ q \in RequestType /\ q.at = "rendering" /\ q.gen = req[r].gen /\ q.conn = req[r].conn
      /\ q.private = req[r].private /\ q.body = req[r].body /\ q.granted = req[r].granted
  BY <1>2, <1>5 DEF RequestType
<1>7. req'[r] = q /\ build'[r] = b /\ (\A s \in Requests \ {r} : req'[s] = req[s]) /\ (\A p \in Builders \ {r} : build'[p] = build[p])
      /\ req' \in [Requests -> RequestType] /\ build' \in [Builders -> BuildType]
  BY <1>2, <1>3, <1>4, <1>5, <1>6
<1>8. FeedTypeOK' /\ GenerationsMeet' /\ CacheOfOneState'
  BY <1>1, <1>7 DEF FeedInv, FeedTypeOK, GenerationsMeet, CacheOfOneState
<1>9. LockIsHeld'
  BY <1>2, <1>4, <1>7 DEF FeedInv, LockIsHeld
<1>10. \A p \in Builders : BuildOK(build[p])'
  BY <1>1, <1>2, <1>4, <1>7 DEF FeedInv, BuildOK
<1>11. \A s \in Requests : RequestOK(req[s])'
  <2>1. RequestOK(req[r])
    BY DEF FeedInv
  <2>2. RequestOK(req[r])'
    BY <1>1, <1>6, <1>7, <2>1 DEF RequestOK, MayRead
  <2> QED BY <1>1, <1>7, <2>2 DEF FeedInv, RequestOK, MayRead
<1>12. \A s \in Requests : RendersFor(req[s], build[s])'
  <2>1. req[r].gen <= feedEpoch
    BY DEF FeedInv, RequestOK
  <2>2. RendersFor(req[r], build[r])'
    BY <1>4, <1>6, <1>7, <2>1 DEF RendersFor
  <2> QED BY <1>7, <2>2 DEF FeedInv, RendersFor, Builders
<1> QED BY <1>8, <1>9, <1>10, <1>11, <1>12 DEF FeedInv

\* An admitted build is of the store's present state (Admissible).
LEMMA AdmittedEntry ==
    ASSUME FeedInv, NEW p \in Builders, build[p].at = "ok", Admissible(build[p]), NEW body,
           body = <<build[p].gen, build[p].gen>>, cache' = <<Entry(build[p], body)>>
    PROVE  cache' \in {<<e>> : e \in EntryType} /\ CacheOfOneState'
<1>1. build[p] \in BuildType /\ liveGen \in Nat /\ BuildOK(build[p])
  BY DEF FeedInv, FeedTypeOK
<1>2. PICK b \in BuildType : b = build[p]
  BY <1>1
<1>3. b.gen = b.state /\ b.epoch <= b.state /\ b.state \in Nat /\ b.epoch \in Nat
  BY <1>1, <1>2 DEF BuildOK, Admissible, BuildType
<1>4. Entry(b, body) \in EntryType
  BY <1>2, <1>3 DEF Entry, EntryType, Bodies
<1>5. cache'[1] = Entry(b, body)
  BY <1>2
<1> QED BY <1>2, <1>3, <1>4, <1>5 DEF CacheOfOneState, Entry

\* The build of a request or of the ticker moves (buildFeed).
LEMMA BuildMoves ==
    ASSUME FeedInv, NEW p \in Builders, BuildOnce(p) \/ BuildCheck(p) \/ BuildFails(p)
    PROVE  FeedInv'
<1>1. UNCHANGED <<listener, feedEpoch, liveGen, withdrawal, cache, renderLock>>
  BY DEF BuildOnce, BuildCheck, BuildFails, feedPolicyVars, feedBounds
<1>2. /\ req \in [Requests -> RequestType] /\ build \in [Builders -> BuildType]
      /\ feedEpoch \in Nat /\ liveGen \in Nat /\ feedEpoch <= liveGen
  BY DEF FeedInv, FeedTypeOK, GenerationsMeet
<1>3. build[p] \in BuildType /\ BuildOK(build[p])
  BY DEF FeedInv, FeedTypeOK
<1>4. PICK b \in BuildType :
         /\ build' = [build EXCEPT ![p] = b] /\ build[p].at \in {"start", "built"}
         /\ b.at \in {"start", "built", "ok", "error"} /\ b.epoch = build[p].epoch /\ b.state = build[p].state
         /\ b.at = "built" => b.gen = liveGen /\ b.lo = liveGen
         /\ b.at = "ok" => b.gen = liveGen /\ b.gen = build[p].gen /\ b.lo = build[p].lo /\ build[p].at = "built"
         /\ req' = IF b.at = "ok" /\ p \in Requests THEN [req EXCEPT ![p].body = <<b.lo, liveGen>>] ELSE req
  <2>1. CASE BuildOnce(p)
    <3>1. PICK b : b = [build[p] EXCEPT !.at = "built", !.gen = liveGen, !.lo = liveGen, !.tries = @ + 1]
      OBVIOUS
    <3>2. b \in BuildType /\ b.at = "built" /\ b.gen = liveGen /\ b.lo = liveGen
          /\ b.epoch = build[p].epoch /\ b.state = build[p].state
      <4>1. PICK x \in BuildType : x = build[p]
        BY <1>3
      <4>2. b = [x EXCEPT !.at = "built", !.gen = liveGen, !.lo = liveGen, !.tries = x.tries + 1] /\ x.tries + 1 \in Nat
        BY <3>1, <4>1 DEF BuildType
      <4> QED BY <1>2, <4>1, <4>2 DEF BuildType
    <3>3. build' = [build EXCEPT ![p] = b] /\ req' = req /\ build[p].at = "start"
      BY <2>1, <3>1 DEF BuildOnce
    <3> QED BY <3>2, <3>3
  <2>2. CASE BuildCheck(p)
    <3>1. PICK x \in {"ok", "start", "error"} :
             /\ x = IF BuildDone(build[p]) THEN "ok" ELSE IF build[p].tries < RenderTries THEN "start" ELSE "error"
      OBVIOUS
    <3>2. x = "ok" <=> BuildDone(build[p])
      BY <3>1
    <3>3. PICK b : b = [build[p] EXCEPT !.at = x]
      OBVIOUS
    <3>4. b \in BuildType /\ b.at = x /\ b.gen = build[p].gen /\ b.lo = build[p].lo
          /\ b.epoch = build[p].epoch /\ b.state = build[p].state
      BY <1>3, <3>3 DEF BuildType
    <3>5. build' = [build EXCEPT ![p] = b] /\ build[p].at = "built"
      BY <2>2, <3>1, <3>3 DEF BuildCheck
    <3>6. req' = IF b.at = "ok" /\ p \in Requests THEN [req EXCEPT ![p].body = <<b.lo, liveGen>>] ELSE req
      BY <2>2, <3>2, <3>4 DEF BuildCheck
    <3> QED BY <3>2, <3>4, <3>5, <3>6 DEF BuildDone
  <2>3. CASE BuildFails(p)
    <3>1. PICK b : b = [build[p] EXCEPT !.at = "error"]
      OBVIOUS
    <3>2. b \in BuildType /\ b.at = "error" /\ b.epoch = build[p].epoch /\ b.state = build[p].state
      BY <1>3, <3>1 DEF BuildType
    <3>3. build' = [build EXCEPT ![p] = b] /\ req' = req /\ build[p].at = "built"
      BY <2>3, <3>1 DEF BuildFails
    <3> QED BY <3>2, <3>3
  <2> QED BY <2>1, <2>2, <2>3
<1>5. build'[p] = b /\ (\A x \in Builders \ {p} : build'[x] = build[x]) /\ build' \in [Builders -> BuildType]
  BY <1>2, <1>4
<1>6. b.at # "idle" /\ BuildOK(b)
  <2>1. b.epoch <= b.state /\ b.state <= liveGen /\ b.gen \in Nat /\ b.lo \in Nat /\ b.state \in Nat
    BY <1>3, <1>4 DEF BuildOK, BuildType
  <2> QED BY <1>3, <1>4, <2>1 DEF BuildOK
<1>7. /\ req' \in [Requests -> RequestType]
      /\ \A s \in Requests \ {p} : req'[s] = req[s]
      /\ p \in Requests => /\ req[p].at = "rendering" /\ req'[p].at = "rendering" /\ req'[p].gen = req[p].gen
                           /\ req'[p].conn = req[p].conn /\ req'[p].private = req[p].private /\ req'[p].granted = req[p].granted
                           /\ IF b.at = "ok" THEN req'[p].body = <<b.gen, b.gen>> ELSE req'[p].body = req[p].body
  <2>1. p \in Requests => req[p].at = "rendering" /\ req[p] \in RequestType
    BY <1>2, <1>4 DEF FeedInv, RendersFor
  <2>2. CASE b.at = "ok" /\ p \in Requests
    <3>1. b.lo = b.gen /\ b.gen = liveGen /\ <<b.lo, liveGen>> = <<b.gen, b.gen>> /\ <<b.gen, b.gen>> \in Bodies
      BY <1>2, <1>6, <2>2, <1>4 DEF BuildOK, Bodies
    <3>2. PICK q : q = [req[p] EXCEPT !.body = <<b.gen, b.gen>>]
      OBVIOUS
    <3>3. /\ q \in RequestType /\ q.at = req[p].at /\ q.gen = req[p].gen /\ q.conn = req[p].conn
          /\ q.private = req[p].private /\ q.granted = req[p].granted /\ q.body = <<b.gen, b.gen>>
      BY <2>1, <2>2, <3>1, <3>2 DEF RequestType
    <3>4. req' = [req EXCEPT ![p] = q]
      BY <1>4, <2>2, <3>1, <3>2
    <3> QED BY <1>2, <2>1, <2>2, <3>3, <3>4
  <2>3. CASE ~(b.at = "ok" /\ p \in Requests)
    <3>1. req' = req
      BY <1>4, <2>3
    <3> QED BY <1>2, <2>1, <2>3, <3>1
  <2> QED BY <2>2, <2>3
<1>8. FeedTypeOK' /\ GenerationsMeet' /\ CacheOfOneState'
  BY <1>1, <1>5, <1>7 DEF FeedInv, FeedTypeOK, GenerationsMeet, CacheOfOneState
<1>9. LockIsHeld'
  <2>1. \A x \in Builders : build[x].at # "idle" => build'[x].at # "idle"
    BY <1>5, <1>6
  <2>2. \A s \in Requests : req[s].at = "recheck" => req'[s].at = "recheck"
    BY <1>7
  <2> QED BY <1>1, <2>1, <2>2 DEF FeedInv, LockIsHeld
<1>10. \A x \in Builders : BuildOK(build[x])'
  BY <1>1, <1>5, <1>6 DEF FeedInv, BuildOK
<1>11. \A s \in Requests : RequestOK(req[s])'
  <2>1. ASSUME p \in Requests PROVE RequestOK(req[p])'
    <3>1. RequestOK(req[p]) /\ req[p].gen <= build[p].epoch /\ req[p].gen \in Nat
      BY <1>2, <1>7, <2>1 DEF FeedInv, RendersFor, RequestType
    <3>2. b.at = "ok" => req[p].gen <= b.gen /\ b.gen \in Nat
      BY <1>2, <1>3, <1>4, <1>6, <3>1 DEF BuildOK, BuildType
    <3>3. req'[p].body # <<>> => req'[p].body[1] = req'[p].body[2] /\ req'[p].gen <= req'[p].body[1]
      BY <1>7, <2>1, <3>1, <3>2 DEF RequestOK
    <3> QED BY <1>1, <1>7, <2>1, <3>1, <3>3 DEF RequestOK, MayRead
  <2> QED BY <1>1, <1>7, <2>1 DEF FeedInv, RequestOK, MayRead
<1>12. \A s \in Requests : RendersFor(req[s], build[s])'
  <2>1. p \in Requests => RendersFor(req[p], build[p])'
    BY <1>4, <1>5, <1>6, <1>7 DEF FeedInv, RendersFor
  <2> QED BY <1>5, <1>7, <2>1 DEF FeedInv, RendersFor, Builders
<1> QED BY <1>8, <1>9, <1>10, <1>11, <1>12 DEF FeedInv

\* The policy transition, in the order of scopeController.Apply.
LEMMA PolicyMoves ==
    ASSUME FeedInv, WithdrawReset \/ WithdrawAdvance \/ WithdrawDeliveries \/ WithdrawCache
    PROVE  FeedInv'
<1>1. /\ req \in [Requests -> RequestType] /\ build \in [Builders -> BuildType]
      /\ feedEpoch \in Nat /\ liveGen \in Nat /\ GenerationsMeet
  BY DEF FeedInv, FeedTypeOK
<1>2. UNCHANGED <<listener, renderLock, build>>
  BY DEF WithdrawReset, WithdrawAdvance, WithdrawDeliveries, WithdrawCache, feedCacheVars
<1>3. /\ cache' \in {cache, <<>>} /\ withdrawal' \in {"idle", "advance", "deliveries", "cache"}
      /\ feedEpoch' \in Nat /\ liveGen' \in Nat /\ feedEpoch <= feedEpoch' /\ liveGen <= liveGen'
      /\ GenerationsMeet'
  BY <1>1 DEF WithdrawReset, WithdrawAdvance, WithdrawDeliveries, WithdrawCache, feedCacheVars, GenerationsMeet
<1>4. /\ req' \in [Requests -> RequestType]
      /\ \A r \in Requests :
           /\ req'[r].at = req[r].at /\ req'[r].gen = req[r].gen /\ req'[r].body = req[r].body
           /\ req'[r].private = req[r].private /\ req'[r].granted = req[r].granted
           /\ req'[r].conn => req[r].conn /\ withdrawal # "deliveries"
  <2>1. CASE WithdrawDeliveries
    <3>1. req' = [r \in Requests |-> [req[r] EXCEPT !.conn = FALSE]]
      BY <2>1 DEF WithdrawDeliveries
    <3>2. ASSUME NEW r \in Requests
          PROVE  /\ req'[r] \in RequestType
                 /\ req'[r].at = req[r].at /\ req'[r].gen = req[r].gen /\ req'[r].body = req[r].body
                 /\ req'[r].private = req[r].private /\ req'[r].granted = req[r].granted /\ req'[r].conn = FALSE
      <4>1. req'[r] = [req[r] EXCEPT !.conn = FALSE] /\ req[r] \in RequestType
        BY <1>1, <3>1
      <4> QED BY <4>1 DEF RequestType
    <3> QED BY <3>1, <3>2
  <2>2. CASE ~WithdrawDeliveries
    <3>1. req' = req /\ withdrawal # "deliveries"
      BY <2>2 DEF WithdrawReset, WithdrawAdvance, WithdrawCache
    <3> QED BY <1>1, <3>1
  <2> QED BY <2>1, <2>2
<1>5. FeedTypeOK'
  BY <1>1, <1>2, <1>3, <1>4 DEF FeedInv, FeedTypeOK
<1>6. CacheOfOneState' /\ LockIsHeld'
  BY <1>2, <1>3, <1>4 DEF FeedInv, CacheOfOneState, LockIsHeld
<1>7. \A p \in Builders : BuildOK(build[p])'
  <2> SUFFICES ASSUME NEW p \in Builders PROVE BuildOK(build[p])'
    OBVIOUS
  <2>1. build[p] \in BuildType /\ BuildOK(build[p]) /\ build'[p] = build[p]
    BY <1>1, <1>2 DEF FeedInv
  <2> QED BY <1>1, <1>3, <2>1 DEF BuildOK, BuildType
<1>8. \A r \in Requests : RequestOK(req[r])'
  <2> SUFFICES ASSUME NEW r \in Requests PROVE RequestOK(req[r])'
    OBVIOUS
  <2>1. RequestOK(req[r]) /\ req[r].gen \in Nat
    BY <1>1 DEF FeedInv, RequestType
  <2>2. req'[r].conn => req'[r].gen = feedEpoch' \/ withdrawal' = "deliveries"
    <3>1. feedEpoch' = feedEpoch \/ withdrawal' = "deliveries"
      BY DEF WithdrawReset, WithdrawAdvance, WithdrawDeliveries, WithdrawCache
    <3> QED BY <1>4, <2>1, <3>1 DEF RequestOK
  <2>3. req'[r].gen <= feedEpoch'
    BY <1>1, <1>3, <1>4, <2>1 DEF RequestOK
  <2> QED BY <1>2, <1>4, <2>1, <2>2, <2>3 DEF RequestOK, MayRead
<1>9. \A r \in Requests : RendersFor(req[r], build[r])'
  BY <1>2, <1>4 DEF FeedInv, RendersFor
<1> QED BY <1>3, <1>5, <1>6, <1>7, <1>8, <1>9 DEF FeedInv

\* The ticker takes the lock and renders, and lets go.
LEMMA TickerMoves ==
    ASSUME FeedInv, RefreshStart \/ RefreshEnd
    PROVE  FeedInv'
<1>1. UNCHANGED <<listener, feedEpoch, liveGen, withdrawal, req>>
  BY DEF RefreshStart, RefreshEnd, feedPolicyVars, feedBounds
<1>2. /\ req \in [Requests -> RequestType] /\ build \in [Builders -> BuildType] /\ "ticker" \in Builders
      /\ feedEpoch \in Nat /\ liveGen \in Nat /\ feedEpoch <= liveGen /\ "ticker" \notin Requests
  BY FeedAssumption DEF FeedInv, FeedTypeOK, Builders, GenerationsMeet
<1>3. PICK b \in BuildType : build' = [build EXCEPT !["ticker"] = b] /\ BuildOK(b)
             /\ (renderLock' # "free" => renderLock' = "ticker" /\ b.at # "idle")
  <2>1. CASE RefreshStart
    <3>1. PICK b : b = Rendering
      OBVIOUS
    <3>2. b \in BuildType /\ b.at = "start" /\ b.state = liveGen /\ b.epoch = feedEpoch
      BY <1>2, <3>1 DEF Rendering, NoBuild, BuildType
    <3>3. BuildOK(b)
      BY <1>2, <3>2 DEF BuildOK
    <3> QED BY <2>1, <3>1, <3>2, <3>3 DEF RefreshStart
  <2>2. CASE RefreshEnd
    <3>1. NoBuild \in BuildType /\ BuildOK(NoBuild)
      BY DEF NoBuild, BuildType, BuildOK
    <3> QED BY <2>2, <3>1 DEF RefreshEnd
  <2> QED BY <2>1, <2>2
<1>4. build'["ticker"] = b /\ (\A r \in Requests : build'[r] = build[r]) /\ build' \in [Builders -> BuildType]
      /\ (\A p \in Builders \ {"ticker"} : build'[p] = build[p])
  BY <1>2, <1>3 DEF Builders
<1>5. cache' \in {<<>>} \cup {<<e>> : e \in EntryType} /\ CacheOfOneState'
  <2>1. CASE cache' = cache
    BY <2>1 DEF FeedInv, FeedTypeOK, CacheOfOneState
  <2>2. CASE cache' # cache
    <3>1. /\ build["ticker"].at = "ok" /\ Admissible(build["ticker"])
          /\ cache' = <<Entry(build["ticker"], <<build["ticker"].lo, build["ticker"].gen>>)>>
      BY <2>2 DEF RefreshStart, RefreshEnd
    <3>2. build["ticker"].lo = build["ticker"].gen
      BY <1>2, <3>1 DEF FeedInv, BuildOK
    <3> QED BY <1>2, <3>1, <3>2, AdmittedEntry
  <2> QED BY <2>1, <2>2
<1>6. FeedTypeOK' /\ GenerationsMeet'
  BY <1>1, <1>4, <1>5 DEF FeedInv, FeedTypeOK, GenerationsMeet
<1>7. LockIsHeld'
  BY <1>2, <1>3, <1>4 DEF LockIsHeld
<1>8. \A p \in Builders : BuildOK(build[p])'
  BY <1>1, <1>3, <1>4 DEF FeedInv, BuildOK
<1>9. \A r \in Requests : RequestOK(req[r])' /\ RendersFor(req[r], build[r])'
  BY <1>1, <1>4 DEF FeedInv, RequestOK, MayRead, RendersFor
<1> QED BY <1>5, <1>6, <1>7, <1>8, <1>9 DEF FeedInv

\* The render of a request ends (RenderEnd).
LEMMA RenderEnds ==
    ASSUME FeedInv, NEW r \in Requests, RenderEnd(r)
    PROVE  FeedInv'
<1>1. UNCHANGED <<listener, feedEpoch, liveGen, withdrawal, renderLock>>
  BY DEF RenderEnd, feedPolicyVars, feedBounds
<1>2. /\ req \in [Requests -> RequestType] /\ build \in [Builders -> BuildType] /\ r \in Builders
      /\ req[r].at = "rendering" /\ RequestOK(req[r]) /\ RendersFor(req[r], build[r])
  BY DEF FeedInv, FeedTypeOK, Builders, RenderEnd
<1>3. PICK x \in {"recheck", "check", "answered"} :
         x = IF renderLock = r THEN "recheck" ELSE IF build[r].at = "ok" THEN "check" ELSE "answered"
  OBVIOUS
<1>4. PICK q : q = [req[r] EXCEPT !.at = x]
  OBVIOUS
<1>5. /\ q \in RequestType /\ q.at = x /\ q.gen = req[r].gen /\ q.conn = req[r].conn
      /\ q.private = req[r].private /\ q.body = req[r].body /\ q.granted = req[r].granted
  BY <1>2, <1>4 DEF RequestType
<1>6. req' = [req EXCEPT ![r] = q] /\ build' = [build EXCEPT ![r] = NoBuild]
  BY <1>3, <1>4 DEF RenderEnd
<1>7. NoBuild \in BuildType /\ NoBuild.at = "idle" /\ BuildOK(NoBuild)
  BY DEF NoBuild, BuildType, BuildOK
<1>8. req'[r] = q /\ build'[r] = NoBuild /\ (\A s \in Requests \ {r} : req'[s] = req[s]) /\ (\A p \in Builders \ {r} : build'[p] = build[p])
      /\ req' \in [Requests -> RequestType] /\ build' \in [Builders -> BuildType]
  BY <1>2, <1>5, <1>6, <1>7
<1>9. cache' \in {<<>>} \cup {<<e>> : e \in EntryType} /\ CacheOfOneState'
  <2>1. CASE cache' = cache
    BY <2>1 DEF FeedInv, FeedTypeOK, CacheOfOneState
  <2>2. CASE cache' # cache
    <3>1. build[r].at = "ok" /\ Admissible(build[r]) /\ cache' = <<Entry(build[r], req[r].body)>>
      BY <2>2 DEF RenderEnd
    <3>2. req[r].body = <<build[r].gen, build[r].gen>>
      BY <1>2, <3>1 DEF RendersFor
    <3> QED BY <1>2, <3>1, <3>2, AdmittedEntry
  <2> QED BY <2>1, <2>2
<1>10. FeedTypeOK' /\ GenerationsMeet'
  BY <1>1, <1>8, <1>9 DEF FeedInv, FeedTypeOK, GenerationsMeet
<1>11. LockIsHeld'
  BY <1>1, <1>3, <1>5, <1>8 DEF FeedInv, LockIsHeld
<1>12. \A p \in Builders : BuildOK(build[p])'
  BY <1>1, <1>7, <1>8 DEF FeedInv, BuildOK
<1>13. \A s \in Requests : RequestOK(req[s])'
  <2>1. RequestOK(req[r])'
    BY <1>1, <1>2, <1>5, <1>8 DEF RequestOK, MayRead
  <2> QED BY <1>1, <1>8, <2>1 DEF FeedInv, RequestOK, MayRead
<1>14. \A s \in Requests : RendersFor(req[s], build[s])'
  <2>1. RendersFor(req[r], build[r])'
    BY <1>3, <1>5, <1>7, <1>8 DEF RendersFor
  <2> QED BY <1>8, <2>1 DEF FeedInv, RendersFor, Builders
<1> QED BY <1>9, <1>10, <1>11, <1>12, <1>13, <1>14 DEF FeedInv

\* A view is opened only for a reader who may have it (resolveRequestView).
LEMMA ResolvedMayRead ==
    ASSUME NEW l \in Listeners, NEW q \in Questions, ResolveView(l, q) # "refused", l.default = "private"
    PROVE  q.token = "granted" \/ (l.unauthenticated /\ ~l.readAuth)
BY DEF Listeners, Questions, ResolveView

\* A request begins.
LEMMA RequestBegun ==
    ASSUME FeedInv, NEW r \in Requests, NEW q \in Questions, RequestBegins(r, q)
    PROVE  FeedInv'
<1>1. /\ req \in [Requests -> RequestType] /\ listener \in Listeners /\ feedEpoch \in Nat
      /\ req[r].at = "idle" /\ UNCHANGED <<feedPolicyVars, cache, build, renderLock>>
  BY DEF FeedInv, FeedTypeOK, RequestBegins, feedCacheVars
<1>2. PICK n : req' = [req EXCEPT ![r] = n] /\
         n = IF ResolveView(listener, q) = "refused" THEN [NoRequest EXCEPT !.at = "answered"]
             ELSE [NoRequest EXCEPT !.at = IF ResolveView(listener, q) = "principal" THEN "scoped" ELSE "lookup",
                                    !.gen = feedEpoch, !.conn = TRUE, !.private = listener.default = "private",
                                    !.granted = q.token = "granted"]
  BY DEF RequestBegins
<1>3. n \in RequestType /\ n.at # "rendering" /\ RequestOK(n)
  <2>1. CASE ResolveView(listener, q) = "refused"
    <3>1. n = [NoRequest EXCEPT !.at = "answered"]
      BY <1>2, <2>1
    <3>2. n \in RequestType /\ n.at = "answered" /\ n.gen = 0 /\ n.body = <<>> /\ ~n.conn
      BY <3>1 DEF NoRequest, RequestType
    <3> QED BY <1>1, <3>2 DEF RequestOK
  <2>2. CASE ResolveView(listener, q) # "refused"
    <3>1. PICK x \in {"scoped", "lookup"} : x = IF ResolveView(listener, q) = "principal" THEN "scoped" ELSE "lookup"
      OBVIOUS
    <3>2. PICK y \in BOOLEAN : y = (listener.default = "private")
      OBVIOUS
    <3>3. PICK z \in BOOLEAN : z = (q.token = "granted")
      OBVIOUS
    <3>4. n = [NoRequest EXCEPT !.at = x, !.gen = feedEpoch, !.conn = TRUE, !.private = y, !.granted = z]
      BY <1>2, <2>2, <3>1, <3>2, <3>3
    <3>5. n \in RequestType /\ n.at = x /\ n.gen = feedEpoch /\ n.body = <<>> /\ n.private = y /\ n.granted = z
      BY <1>1, <3>4 DEF NoRequest, RequestType
    <3>6. y => z \/ (listener.unauthenticated /\ ~listener.readAuth)
      BY <1>1, <2>2, <3>2, <3>3, ResolvedMayRead
    <3> QED BY <1>1, <3>5, <3>6 DEF RequestOK, MayRead
  <2> QED BY <2>1, <2>2
<1> QED BY <1>1, <1>2, <1>3, RequestMoves

\* A request moves on without rendering.
LEMMA RequestGoesOn ==
    ASSUME FeedInv, NEW r \in Requests,
           \/ Lookup(r) \/ EntryExpired(r) \/ Recheck(r)
           \/ WriteCheck(r) \/ WriteBody(r) \/ DeliveryFinish(r)
    PROVE  FeedInv'
<1>1. /\ req[r] \in RequestType /\ RequestOK(req[r]) /\ feedEpoch \in Nat
      /\ UNCHANGED <<feedPolicyVars, cache, build>>
  BY DEF FeedInv, FeedTypeOK, Lookup, EntryExpired, Recheck, WriteCheck, WriteBody, DeliveryFinish, feedCacheVars
<1>2. PICK x \in {"lock", "check", "answered", "write", "sent"}, y \in {req[r].body, <<>>, cache[1].body} :
         /\ req' = [req EXCEPT ![r] = [req[r] EXCEPT !.at = x, !.body = y]]
         /\ y = cache[1].body => CachedBody(req[r].gen) \/ y = req[r].body \/ y = <<>>
         /\ x # "answered" => req[r].at \notin {"idle", "answered"}
  <2>1. [req[r] EXCEPT !.body = req[r].body] = req[r]
    BY <1>1 DEF RequestType
  <2>2. CASE Lookup(r)
    <3>1. CASE CachedBody(req[r].gen)
      <4>1. req' = [req EXCEPT ![r] = [req[r] EXCEPT !.at = "check", !.body = cache[1].body]] /\ req[r].at = "lookup"
        BY <2>2, <3>1 DEF Lookup
      <4> QED BY <3>1, <4>1
    <3>2. CASE ~CachedBody(req[r].gen)
      <4>1. req' = [req EXCEPT ![r] = [req[r] EXCEPT !.at = "lock"]] /\ req[r].at = "lookup"
        BY <2>2, <3>2 DEF Lookup
      <4>2. [req[r] EXCEPT !.at = "lock"] = [req[r] EXCEPT !.at = "lock", !.body = req[r].body]
        BY <1>1 DEF RequestType
      <4> QED BY <4>1, <4>2
    <3> QED BY <3>1, <3>2
  <2>3. CASE EntryExpired(r)
    <3>1. req' = [req EXCEPT ![r] = [req[r] EXCEPT !.at = "lock"]] /\ req[r].at = "lookup"
      BY <2>3 DEF EntryExpired
    <3>2. [req[r] EXCEPT !.at = "lock"] = [req[r] EXCEPT !.at = "lock", !.body = req[r].body]
      BY <1>1 DEF RequestType
    <3> QED BY <3>1, <3>2
  <2>4. CASE Recheck(r)
    <3>1. CASE CachedBody(req[r].gen)
      <4>1. req' = [req EXCEPT ![r] = [req[r] EXCEPT !.at = "check", !.body = cache[1].body]] /\ req[r].at = "recheck"
        BY <2>4, <3>1 DEF Recheck
      <4> QED BY <3>1, <4>1
    <3>2. CASE ~CachedBody(req[r].gen)
      <4>1. req' = [req EXCEPT ![r] = [req[r] EXCEPT !.at = "answered", !.body = <<>>]] /\ req[r].at = "recheck"
        BY <2>4, <3>2 DEF Recheck
      <4> QED BY <4>1
    <3> QED BY <3>1, <3>2
  <2>5. CASE WriteCheck(r)
    <3>1. CASE DeliveryCurrent(r)
      <4>1. req' = [req EXCEPT ![r] = [req[r] EXCEPT !.at = "write"]] /\ req[r].at = "check"
        BY <2>5, <3>1 DEF WriteCheck
      <4>2. [req[r] EXCEPT !.at = "write"] = [req[r] EXCEPT !.at = "write", !.body = req[r].body]
        BY <1>1 DEF RequestType
      <4> QED BY <4>1, <4>2
    <3>2. CASE ~DeliveryCurrent(r)
      <4>1. req' = [req EXCEPT ![r] = [req[r] EXCEPT !.at = "answered", !.body = <<>>]] /\ req[r].at = "check"
        BY <2>5, <3>2 DEF WriteCheck
      <4> QED BY <4>1
    <3> QED BY <3>1, <3>2
  <2>6. CASE WriteBody(r)
    <3>1. PICK y \in {req[r].body, <<>>} : y = IF req[r].conn THEN req[r].body ELSE <<>>
      OBVIOUS
    <3>2. req' = [req EXCEPT ![r] = [req[r] EXCEPT !.at = "sent", !.body = y]] /\ req[r].at = "write"
      BY <2>6, <3>1 DEF WriteBody
    <3> QED BY <3>1, <3>2
  <2>7. CASE DeliveryFinish(r)
    <3>1. req' = [req EXCEPT ![r] = [req[r] EXCEPT !.at = "answered", !.body = <<>>]] /\ req[r].at = "sent"
      BY <2>7 DEF DeliveryFinish
    <3> QED BY <3>1
  <2> QED BY <2>2, <2>3, <2>4, <2>5, <2>6, <2>7
<1>3. /\ y \in {<<>>} \cup Bodies
      /\ y # <<>> => y[1] = y[2] /\ req[r].gen <= y[1]
  BY <1>1, <1>2, CachedIsCurrent DEF RequestOK, RequestType
<1>4. PICK q : q = [req[r] EXCEPT !.at = x, !.body = y]
  OBVIOUS
<1>5. /\ q \in RequestType /\ q.at = x /\ q.gen = req[r].gen /\ q.conn = req[r].conn
      /\ q.private = req[r].private /\ q.body = y /\ q.granted = req[r].granted
  BY <1>1, <1>3, <1>4 DEF RequestType
<1>6. RequestOK(q)
  BY <1>1, <1>2, <1>3, <1>5 DEF RequestOK, MayRead
<1>7. /\ req[r].at # "rendering"
      /\ renderLock' = "free" \/ (renderLock' = renderLock /\ req[r].at # "recheck")
  BY DEF Lookup, EntryExpired, Recheck, WriteCheck, WriteBody, DeliveryFinish, feedCacheVars
<1> QED BY <1>1, <1>2, <1>4, <1>5, <1>6, <1>7, RequestMoves

\* A request waits for the lock, and finds the feed warm or renders it.
LEMMA LockTaken ==
    ASSUME FeedInv, NEW r \in Requests, RenderLock(r)
    PROVE  FeedInv'
<1>1. /\ req[r] \in RequestType /\ RequestOK(req[r]) /\ req[r].at = "lock"
      /\ UNCHANGED <<feedPolicyVars, cache>>
  BY DEF FeedInv, FeedTypeOK, RenderLock
<1>2. CASE /\ CachedBody(req[r].gen)
           /\ req' = [req EXCEPT ![r].at = "check", ![r].body = cache[1].body]
           /\ UNCHANGED <<renderLock, build>>
  <2>1. PICK q : q = [req[r] EXCEPT !.at = "check", !.body = cache[1].body]
    OBVIOUS
  <2>2. /\ cache[1].body \in Bodies /\ cache[1].body[1] = cache[1].body[2] /\ req[r].gen <= cache[1].body[1]
    BY <1>1, <1>2, CachedIsCurrent DEF RequestType
  <2>3. /\ q \in RequestType /\ q.at = "check" /\ q.gen = req[r].gen /\ q.conn = req[r].conn
        /\ q.private = req[r].private /\ q.body = cache[1].body /\ q.granted = req[r].granted
    BY <1>1, <2>1, <2>2 DEF RequestType
  <2>4. RequestOK(q)
    BY <1>1, <2>2, <2>3 DEF RequestOK, MayRead
  <2>5. req' = [req EXCEPT ![r] = q]
    BY <1>2, <2>1
  <2> QED BY <1>1, <1>2, <2>3, <2>4, <2>5, RequestMoves
<1>3. CASE /\ req' = [req EXCEPT ![r].at = "rendering"]
           /\ renderLock' = r
           /\ build' = [build EXCEPT ![r] = Rendering]
  BY <1>1, <1>3, RenderBegins
<1> QED BY <1>2, <1>3 DEF RenderLock

\* Every step of the request path keeps the invariant.
LEMMA FeedStep ==
    ASSUME FeedInv, [FeedNext]_feedVars
    PROVE  FeedInv'
<1>1. CASE WithdrawReset \/ WithdrawAdvance \/ WithdrawDeliveries \/ WithdrawCache
  BY <1>1, PolicyMoves
<1>2. CASE RefreshStart \/ RefreshEnd
  BY <1>2, TickerMoves
<1>3. ASSUME NEW p \in Builders, BuildStep(p) \/ BuildFails(p)
      PROVE  FeedInv'
  BY <1>3, BuildMoves DEF BuildStep
<1>4. ASSUME NEW r \in Requests, RequestStep(r)
      PROVE  FeedInv'
  <2>1. CASE ScopedStart(r)
    <3>1. req[r].at = "scoped" /\ req' = [req EXCEPT ![r].at = "rendering"] /\ build' = [build EXCEPT ![r] = Rendering]
          /\ UNCHANGED <<feedPolicyVars, cache, renderLock>>
      BY <2>1 DEF ScopedStart
    <3> QED BY <3>1, RenderBegins
  <2>2. CASE RenderLock(r)
    BY <2>2, LockTaken
  <2>3. CASE RenderEnd(r)
    BY <2>3, RenderEnds
  <2> QED BY <1>4, <2>1, <2>2, <2>3, RequestGoesOn DEF RequestStep
<1>5. ASSUME NEW r \in Requests, NEW q \in Questions, RequestBegins(r, q)
      PROVE  FeedInv'
  BY <1>5, RequestBegun
<1>6. CASE UNCHANGED feedVars
  <2>1. UNCHANGED <<listener, feedEpoch, liveGen, withdrawal, cache, renderLock, build, req>>
    BY <1>6 DEF feedVars, feedPolicyVars, feedCacheVars
  <2> QED BY <2>1 DEF FeedInv, FeedTypeOK, GenerationsMeet, CacheOfOneState, LockIsHeld, BuildOK, RequestOK, MayRead, RendersFor
<1> QED BY <1>1, <1>2, <1>3, <1>4, <1>5, <1>6 DEF FeedNext

\* Only WriteBody puts bytes on the wire.
LEMMA OnlyWriteSends ==
    ASSUME FeedInv, [FeedNext]_feedVars, NEW s \in Requests, req[s].at = "write", req'[s].at = "sent"
    PROVE  WriteBody(s)
<1>1. req \in [Requests -> RequestType]
  BY DEF FeedInv, FeedTypeOK
<1>2. CASE req' = req
  BY <1>2
<1>3. CASE WithdrawDeliveries
  <2>1. req'[s] = [req[s] EXCEPT !.conn = FALSE] /\ req[s] \in RequestType
    BY <1>1, <1>3 DEF WithdrawDeliveries
  <2>2. req'[s].at = req[s].at
    BY <2>1 DEF RequestType
  <2> QED BY <2>2
<1>4. ASSUME NEW p \in Builders, BuildCheck(p)
      PROVE  FALSE
  BY <1>1, <1>4 DEF BuildCheck
<1>5. ASSUME NEW r \in Requests, NEW q \in Questions, RequestBegins(r, q)
      PROVE  FALSE
  <2>1. req[r].at = "idle" /\ \E n : req' = [req EXCEPT ![r] = n]
    BY <1>5 DEF RequestBegins
  <2> QED BY <1>1, <2>1
<1>6. ASSUME NEW r \in Requests, RequestStep(r)
      PROVE  WriteBody(s)
  <2>1. CASE r # s
    <3>1. req'[s] = req[s]
      BY <1>1, <1>6, <2>1 DEF RequestStep, ScopedStart, Lookup, EntryExpired, RenderLock, RenderEnd, Recheck,
                              WriteCheck, WriteBody, DeliveryFinish
    <3> QED BY <3>1
  <2>2. CASE r = s
    BY <1>6, <2>2 DEF RequestStep, ScopedStart, Lookup, EntryExpired, RenderLock, RenderEnd, Recheck,
                      WriteCheck, DeliveryFinish
  <2> QED BY <2>1, <2>2
<1>7. \/ req' = req \/ WithdrawDeliveries
      \/ \E p \in Builders : BuildCheck(p)
      \/ \E r \in Requests : RequestStep(r) \/ \E q \in Questions : RequestBegins(r, q)
  BY DEF FeedNext, feedVars, WithdrawReset, WithdrawAdvance, WithdrawCache, RefreshStart, RefreshEnd,
         BuildStep, BuildOnce, BuildFails
<1> QED BY <1>2, <1>3, <1>4, <1>5, <1>6, <1>7

\* The invariant says what the run checks of every state ...
LEMMA FeedInvIsSound ==
    ASSUME FeedInv
    PROVE  BodiesNeverMix /\ PrivateNeedsGrant /\ RenderLockReturns
<1>1. PrivateNeedsGrant
  BY DEF FeedInv, PrivateNeedsGrant, RequestOK, MayRead
<1>2. RenderLockReturns
  BY DEF FeedInv, RenderLockReturns, LockIsHeld
<1>3. \A r \in Requests : req[r].at = "sent" /\ req[r].body # <<>> => req[r].body[1] = req[r].body[2]
  BY DEF FeedInv, RequestOK
<1>4. SnapshotFeeds # <<>> => SnapshotFeeds[1] >= feedEpoch
  <2> SUFFICES ASSUME SnapshotFeeds # <<>> PROVE SnapshotFeeds[1] >= feedEpoch
    OBVIOUS
  <2>1. CachedBody(feedEpoch) /\ SnapshotFeeds = cache[1].body /\ feedEpoch \in Nat
    BY DEF SnapshotFeeds, FeedInv, FeedTypeOK
  <2>2. cache[1].body \in Bodies /\ feedEpoch <= cache[1].body[1]
    BY <2>1, CachedIsCurrent
  <2> QED BY <2>1, <2>2 DEF Bodies
<1> QED BY <1>1, <1>2, <1>3, <1>4 DEF BodiesNeverMix, FeedInv, CacheOfOneState

\* ... and of every step.
LEMMA FeedStepIsSound ==
    ASSUME FeedInv, [FeedNext]_feedVars, NEW r \in Requests,
           req[r].at = "write", req'[r].at = "sent", req'[r].body # <<>>
    PROVE  req[r].body[1] >= feedEpoch \/ withdrawal = "deliveries"
<1>1. WriteBody(r) /\ req[r] \in RequestType /\ req \in [Requests -> RequestType] /\ RequestOK(req[r])
  BY OnlyWriteSends DEF FeedInv, FeedTypeOK
<1>2. req[r].conn /\ req[r].body # <<>>
  BY <1>1 DEF WriteBody
<1>3. req[r].body \in Bodies
  BY <1>1, <1>2 DEF RequestType
<1> QED BY <1>1, <1>2, <1>3 DEF RequestOK, Bodies, RequestType

\* A response is of one state of the store, reaches only a reader who may have
\* it, and carries nothing withdrawn once the connections are closed; the render
\* lock comes back; for any number of requests and policy transitions (serveFeed,
\* buildFeed, render, scopeController.Apply).
THEOREM FeedStaysSound == FeedSpec => FeedIsSound
<1>1. FeedInit => FeedInv
  <2> SUFFICES ASSUME FeedInit PROVE FeedInv
    OBVIOUS
  <2>1. NoBuild \in BuildType /\ NoBuild.at = "idle" /\ NoRequest \in RequestType /\ NoRequest.at = "idle"
        /\ NoRequest.body = <<>> /\ NoRequest.gen = 0 /\ ~NoRequest.conn
    BY DEF NoBuild, BuildType, NoRequest, RequestType
  <2>2. FeedTypeOK
    BY <2>1 DEF FeedInit, FeedTypeOK
  <2>3. \A p \in Builders : build[p] = NoBuild
    BY DEF FeedInit
  <2>4. \A r \in Requests : req[r] = NoRequest /\ build[r] = NoBuild
    BY DEF FeedInit, Builders
  <2> QED BY <2>1, <2>2, <2>3, <2>4 DEF FeedInit, FeedInv, GenerationsMeet, CacheOfOneState, LockIsHeld, BuildOK,
                                        RequestOK, RendersFor
<1>2. FeedInv /\ [FeedNext]_feedVars => FeedInv'
  BY FeedStep
<1>3. FeedInv => BodiesNeverMix /\ PrivateNeedsGrant /\ RenderLockReturns
  BY FeedInvIsSound
<1>4. FeedInv /\ [FeedNext]_feedVars =>
        \A r \in Requests :
          (req[r].at = "write" /\ req'[r].at = "sent" /\ req'[r].body # <<>>) =>
             req[r].body[1] >= feedEpoch \/ withdrawal = "deliveries"
  BY FeedStepIsSound
<1> QED BY <1>1, <1>2, <1>3, <1>4, PTL DEF FeedSpec, FeedIsSound, WithdrawnNeverServed

=============================================================================

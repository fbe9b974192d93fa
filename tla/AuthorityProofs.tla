--------------------------- MODULE AuthorityProofs ---------------------------
(***************************************************************************)
(* Who may contribute, for every value of the constants.                   *)
(*                                                                         *)
(* At the collector, for any observers, contexts, connections and          *)
(* capacity, a change of policy is enforced by exactly one marker, which   *)
(* goes ahead of the records it rules and purges what it withdraws.        *)
(* Behind it, for any operators, stations, secure elements, processes and  *)
(* authorities, concurrent transactions of the control plane leave each    *)
(* station one credential and one history, and no restart with another     *)
(* authority file makes a stored enrollment anyone else's.                 *)
(***************************************************************************)
EXTENDS Admission, ControlPlane, FiniteSetTheorems, SequenceTheorems,
        WellFoundedInduction, TLAPS

Handshaking == {"lookup", "find", "loop", "await", "marker"}
Deciding == {"asked", "withdraw"}

\* A generation seen by somebody: not ahead of the policy's, and if it is the
\* policy's own, then no transition of that policy waits for its marker.
Seen(p, g) == g <= policy[p].gen /\ (g = policy[p].gen => ~policy[p].pending)

\* What is said to be under a generation of a policy is under its context.
Under(p, g, x) == g <= policy[p].gen /\ (g = policy[p].gen => x = policy[p].current)

\* Somebody owes the marker that started generation g.
Owing(p, g) == policy[p].pending /\ policy[p].gen = g

\* A handshake has no watcher; a session contributes what its policy says
\* while it is the policy's own.
ConnPlaced(c) ==
    /\ conn[c].pc \in Handshaking => watch[c].pc = "off"
    /\ conn[c].pc \in {"loop", "await", "marker", "open"} => conn[c].obj \in Objects
    /\ conn[c].pc = "marker" => Owing(conn[c].obj, conn[c].gen)
    /\ conn[c].pc = "open" =>
         /\ conn[c].gen >= 1 /\ Seen(conn[c].obj, conn[c].gen)
         /\ Under(conn[c].obj, conn[c].gen, conn[c].ctx)

WatchPlaced(c) ==
    /\ watch[c].pc # "off" => watch[c].obj \in Objects
    /\ watch[c].pc \in {"idle", "decided"} => Seen(watch[c].obj, watch[c].gen)
    /\ watch[c].pc = "marker" => Owing(watch[c].obj, watch[c].gen)

TaskPlaced(t) ==
    /\ t.verdict \in Deciding => Seen(t.obj, t.gen) /\ Under(t.obj, t.gen, t.prev)
    /\ t.verdict = "marker" => Owing(t.obj, t.gen)

ActorsHold ==
    /\ \A c \in Conns : ConnPlaced(c) /\ WatchPlaced(c)
    /\ \A t \in tasks : TaskPlaced(t)

\* Who owes a marker of object p.
ConnOwes(c, p) == conn[c].pc = "marker" /\ conn[c].obj = p
WatchOwes(c, p) == watch[c].pc = "marker" /\ watch[c].obj = p
TaskOwes(t, p) == t.verdict = "marker" /\ t.obj = p

\* At most one does, and a sweep has one task for a policy.
OneOwner ==
    /\ \A p \in Objects : \A c, d \in Conns :
         /\ ConnOwes(c, p) /\ ConnOwes(d, p) => c = d
         /\ WatchOwes(c, p) /\ WatchOwes(d, p) => c = d
         /\ ~(ConnOwes(c, p) /\ WatchOwes(d, p))
         /\ \A t \in tasks : ~(TaskOwes(t, p) /\ (ConnOwes(c, p) \/ WatchOwes(c, p)))
    /\ \A t, u \in tasks : t.obj = u.obj => t = u

TableHolds == \A o, q \in Observers : table[o] <= made /\ (table[o] = table[q] /\ table[o] # 0 => o = q)

PoliciesHold == \A p \in Objects : IsFiniteSet(policy[p].sessions) /\ (policy[p].known => ~policy[p].pending)

\* A contribution was made under a policy's generation and its context.
Made(x) == x.gen >= 1 /\ Under(x.obj, x.gen, x.ctx)

Contributions == live \cup ({inHand} \ {NoRecord})

RecordsHold ==
    /\ \A x \in Contributions : Made(x)
    /\ \A i \in 1..Len(out) : out[i].kind = "data" => Made(out[i]) /\ Seen(out[i].obj, out[i].gen)

Ordered ==
    \A i, j \in 1..Len(out) :
        i < j /\ out[i].kind = "data" /\ out[j].kind = "marker" /\ out[j].obj = out[i].obj
           => out[j].gen > out[i].gen

\* A marker that resets what object p contributed under a context, owed or sent.
Queued(p, x) == \E i \in 1..Len(out) : out[i].kind = "marker" /\ out[i].obj = p /\ out[i].ctx = x
Purging(p, x) ==
    \/ \E c \in Conns : (ConnOwes(c, p) \/ WatchOwes(c, p)) /\ watch[c].ctx = x
    \/ \E t \in tasks : TaskOwes(t, p) /\ t.prev = x
    \/ Queued(p, x)

Purged == stopped \/ \A x \in Contributions : Current(x.obj, x.gen) \/ Purging(x.obj, x.ctx)

\* The inductive invariant.
IInv ==
    /\ AdmissionTypeOK /\ TableHolds /\ PoliciesHold /\ ActorsHold /\ OneOwner
    /\ RecordsHold /\ Ordered /\ Purged

-----------------------------------------------------------------------------
(* Types, and what the invariant says.                                     *)

\* The constants, one by one.
LEMMA Constants ==
    /\ Observers # {} /\ NoContext \notin Contexts /\ MaxObjects \in Nat \ {0} /\ MaxPolicies \in Nat \ {0}
    /\ MaxSessions \in Nat \ {0} /\ OutMax \in Nat \ {0} /\ MaxChanges \in Nat /\ MaxOutages \in Nat
    /\ Objects \subseteq Nat /\ 0 \notin Objects /\ Anyone \in Observers
BY AdmissionAssumption DEF AdmissionAssumption, Objects, Anyone

\* A connection, a watcher and a policy at rest are typed.
LEMMA RestTypes == Off \in ConnType /\ NoWatch \in WatchType /\ NewPolicy \in PolicyType
BY Constants DEF Off, NoWatch, NewPolicy, ConnType, WatchType, PolicyType

\* The types of the parts, as the steps need them.
LEMMA Typed ==
    ASSUME AdmissionTypeOK
    PROVE  /\ policy \in [Objects -> PolicyType] /\ conn \in [Conns -> ConnType] /\ watch \in [Conns -> WatchType]
           /\ tasks \subseteq TaskType /\ made \in 0..MaxObjects /\ table \in [Observers -> 0..MaxObjects]
           /\ out \in Seq(Records("data") \cup Records("marker")) /\ Len(out) \in Nat /\ Len(out) <= OutMax
           /\ live \subseteq Records("data") /\ inHand \in Records("data") \cup {NoRecord}
           /\ authority \in [Observers -> Contexts \cup {NoContext}]
BY DEF AdmissionTypeOK

\* No policy generation or flag of the invariant moves out of its type.
LEMMA Fields ==
    ASSUME policy \in [Objects -> PolicyType], NEW p \in Objects
    PROVE  /\ policy[p].gen \in Nat /\ policy[p].current \in Contexts \cup {NoContext}
           /\ policy[p].sessions \subseteq Conns /\ policy[p].pending \in BOOLEAN /\ policy[p].known \in BOOLEAN
           /\ policy[p].aged \in BOOLEAN
BY DEF PolicyType

\* A marker that is owed or sent for what was contributed, as the property
\* says it.
LEMMA PurgingMarks ==
    ASSUME NEW p, NEW x, Purging(p, x)
    PROVE  \E m \in Owed \cup InChannel : m.kind = "marker" /\ m.obj = p /\ m.ctx = x
<1>1. CASE \E c \in Conns : ConnOwes(c, p) /\ watch[c].ctx = x
  <2>1. PICK c \in Conns : ConnOwes(c, p) /\ watch[c].ctx = x
    BY <1>1
  <2>2. ConnMarker(c) \in Owed
    BY <2>1 DEF Owed, ConnOwes
  <2>. QED BY <2>1, <2>2 DEF ConnMarker, Marker, ConnOwes
<1>2. CASE \E c \in Conns : WatchOwes(c, p) /\ watch[c].ctx = x
  <2>1. PICK c \in Conns : WatchOwes(c, p) /\ watch[c].ctx = x
    BY <1>2
  <2>2. WatcherMarker(c) \in Owed
    BY <2>1 DEF Owed, WatchOwes
  <2>. QED BY <2>1, <2>2 DEF WatcherMarker, Marker, WatchOwes
<1>3. CASE \E t \in tasks : TaskOwes(t, p) /\ t.prev = x
  <2>1. PICK t \in tasks : TaskOwes(t, p) /\ t.prev = x
    BY <1>3
  <2>2. TaskMarker(t) \in Owed
    BY <2>1 DEF Owed, TaskOwes
  <2>. QED BY <2>1, <2>2 DEF TaskMarker, Marker, TaskOwes
<1>4. CASE Queued(p, x)
  <2>1. PICK i \in 1..Len(out) : out[i].kind = "marker" /\ out[i].obj = p /\ out[i].ctx = x
    BY <1>4 DEF Queued
  <2>. QED BY <2>1 DEF InChannel
<1>. QED BY <1>1, <1>2, <1>3, <1>4 DEF Purging

\* A marker that is owed belongs to one transition, which is pending.
LEMMA OwedIsPending ==
    ASSUME IInv, NEW m \in Owed
    PROVE  m.obj \in Objects /\ Owing(m.obj, m.gen)
<1>1. CASE m \in {ConnMarker(c) : c \in {d \in Conns : conn[d].pc = "marker"}}
  BY <1>1 DEF ConnMarker, Marker, IInv, ActorsHold, ConnPlaced
<1>2. CASE m \in {WatcherMarker(c) : c \in {d \in Conns : watch[d].pc = "marker"}}
  BY <1>2 DEF WatcherMarker, Marker, IInv, ActorsHold, WatchPlaced
<1>3. CASE m \in {TaskMarker(t) : t \in {u \in tasks : u.verdict = "marker"}}
  BY <1>3, Typed DEF TaskMarker, Marker, IInv, ActorsHold, TaskPlaced, TaskType
<1>. QED BY <1>1, <1>2, <1>3 DEF Owed

\* The inductive invariant says what is claimed.
LEMMA Implied == IInv => MarkersInOrder
<1> SUFFICES ASSUME IInv PROVE MarkersInOrder
  OBVIOUS
<1> USE Constants, Typed DEF IInv
<1>1. OneMarkerOwed
  <2> SUFFICES ASSUME NEW m \in Owed, NEW n \in Owed, m.obj = n.obj PROVE m = n /\ policy[m.obj].pending
    BY DEF OneMarkerOwed
  <2> DEFINE p == m.obj
  <2>1. p \in Objects /\ policy[p].pending
    BY OwedIsPending DEF Owing
  <2>2. ASSUME NEW a \in Owed, a.obj = p
        PROVE  \/ \E c \in Conns : ConnOwes(c, p) /\ a = ConnMarker(c)
               \/ \E c \in Conns : WatchOwes(c, p) /\ a = WatcherMarker(c)
               \/ \E t \in tasks : TaskOwes(t, p) /\ a = TaskMarker(t)
    BY <2>2 DEF Owed, ConnMarker, WatcherMarker, TaskMarker, Marker, ConnOwes, WatchOwes, TaskOwes
  <2>3. /\ \/ \E c \in Conns : ConnOwes(c, p) /\ m = ConnMarker(c)
           \/ \E c \in Conns : WatchOwes(c, p) /\ m = WatcherMarker(c)
           \/ \E t \in tasks : TaskOwes(t, p) /\ m = TaskMarker(t)
        /\ \/ \E c \in Conns : ConnOwes(c, p) /\ n = ConnMarker(c)
           \/ \E c \in Conns : WatchOwes(c, p) /\ n = WatcherMarker(c)
           \/ \E t \in tasks : TaskOwes(t, p) /\ n = TaskMarker(t)
    BY <2>2
  <2>4. \A t, u \in tasks : TaskOwes(t, p) /\ TaskOwes(u, p) => t = u
    BY DEF OneOwner, TaskOwes
  <2> HIDE DEF p
  <2>5. m = n
    BY <2>1, <2>3, <2>4 DEF OneOwner
  <2>. QED BY <2>1, <2>5 DEF p
<1>2. MarkerFirst
  <2>1. DOMAIN out = 1..Len(out)
    OBVIOUS
  <2>2. ASSUME NEW i \in 1..Len(out), out[i].kind = "data", NEW m \in Owed, m.obj = out[i].obj
        PROVE  m.gen > out[i].gen
    <3>1. Seen(out[i].obj, out[i].gen) /\ Owing(m.obj, m.gen) /\ m.obj \in Objects
      BY <2>2, OwedIsPending DEF RecordsHold
    <3>2. out[i].gen \in Nat /\ policy[m.obj].gen \in Nat
      BY <3>1, Fields DEF Records
    <3>. QED BY <2>2, <3>1, <3>2 DEF Seen, Owing
  <2>. QED BY <2>1, <2>2 DEF MarkerFirst, Ordered
<1>3. WithdrawnIsPurged
  <2> SUFFICES ASSUME ~stopped, NEW x \in Contributions, ~Current(x.obj, x.gen)
               PROVE  \E m \in Owed \cup InChannel : m.kind = "marker" /\ m.obj = x.obj /\ m.ctx = x.ctx
    BY DEF WithdrawnIsPurged, Contributions
  <2>1. Purging(x.obj, x.ctx)
    BY DEF Purged
  <2>. QED BY <2>1, PurgingMarks
<1>. QED BY <1>1, <1>2, <1>3 DEF MarkersInOrder

\* The collector starts without policies, sessions or records.
LEMMA InitHolds == AdmissionInit => IInv
<1> SUFFICES ASSUME AdmissionInit PROVE IInv
  OBVIOUS
<1> USE Constants, RestTypes DEF AdmissionInit
<1>1. IsFiniteSet({}) /\ Cardinality({}) = 0
  BY FS_EmptySet
<1>a. \A p \in Objects : policy[p].sessions = {} /\ policy[p].known = FALSE
  BY DEF NewPolicy
<1>b. ASSUME NEW p \in Objects
      PROVE  IsFiniteSet(policy[p].sessions) /\ Cardinality(policy[p].sessions) <= MaxSessions
  <2>1. policy[p].sessions = {}
    BY <1>a
  <2> HIDE DEF AdmissionInit
  <2>2. IsFiniteSet(policy[p].sessions) /\ Cardinality(policy[p].sessions) = 0
    BY ONLY <1>1, <2>1
  <2>. QED BY <2>2
<1>2. AdmissionTypeOK
  <2>1. out \in Seq(Records("data") \cup Records("marker")) /\ Len(out) = 0
    OBVIOUS
  <2>2. \A c \in Conns : conn[c].obj <= made /\ watch[c].obj <= made
    BY DEF Off, NoWatch
  <2>3. \A p \in Objects : Cardinality(policy[p].sessions) <= MaxSessions
    <3> HIDE DEF AdmissionInit
    <3>. QED BY <1>b
  <2>4. policy \in [Objects -> PolicyType] /\ conn \in [Conns -> ConnType] /\ watch \in [Conns -> WatchType]
    OBVIOUS
  <2>5. changes \in 0..MaxChanges /\ outages \in 0..MaxOutages /\ made \in 0..MaxObjects /\ Len(out) <= OutMax
    BY <2>1
  <2>6. table \in [Observers -> 0..MaxObjects]
    OBVIOUS
  <2>. QED BY <2>1, <2>2, <2>3, <2>4, <2>5, <2>6 DEF AdmissionTypeOK
<1>3. TableHolds /\ PoliciesHold
  <2>1. TableHolds
    BY DEF TableHolds
  <2> HIDE DEF AdmissionInit
  <2>. QED BY <1>a, <1>b, <2>1 DEF PoliciesHold
<1>4. ActorsHold /\ OneOwner
  BY DEF ActorsHold, ConnPlaced, WatchPlaced, OneOwner, ConnOwes, WatchOwes, Off, NoWatch, Handshaking
<1>5. RecordsHold /\ Ordered /\ Purged
  BY DEF RecordsHold, Ordered, Purged, Contributions
<1>. QED BY <1>2, <1>3, <1>4, <1>5 DEF IInv

-----------------------------------------------------------------------------
(* A step changes one policy at most: it begins a transition, ends one, or *)
(* leaves generation and pending mark alone but for the first generation.  *)

Touches(p) ==
    policy' \in [Objects -> PolicyType] /\ \A q \in Objects \ {p} : policy'[q] = policy[q]

Begins(p) ==
    Touches(p) /\ ~policy[p].pending /\ policy'[p].pending /\ policy'[p].gen = policy[p].gen + 1

Ends(p) ==
    /\ Touches(p) /\ ~policy'[p].pending
    /\ policy'[p].gen = policy[p].gen /\ policy'[p].current = policy[p].current

Stays(p) ==
    /\ Touches(p) /\ policy'[p].pending = policy[p].pending
    /\ \/ policy'[p].gen = policy[p].gen /\ policy'[p].current = policy[p].current
       \/ policy[p].gen = 0 /\ policy'[p].gen = 1 /\ ~policy[p].pending

Moves(p) == Begins(p) \/ Ends(p) \/ Stays(p)

\* A step that leaves the policies alone.
LEMMA NoMove ==
    ASSUME AdmissionTypeOK, UNCHANGED policy
    PROVE  1 \in Objects /\ Stays(1) /\ ~Begins(1)
BY Constants, Typed DEF Objects, Stays, Touches, Begins

\* What was seen of a policy stays so.
LEMMA SeenKept ==
    ASSUME AdmissionTypeOK, NEW p \in Objects, Moves(p)
    PROVE  /\ \A q \in Objects, g \in Nat : Seen(q, g) => Seen(q, g)'
           /\ \A q \in Objects, g \in Nat : \A x : Under(q, g, x) => Under(q, g, x)'
           /\ \A q \in Objects, g \in Nat : Owing(q, g) => Owing(q, g)' \/ (Ends(p) /\ q = p)
<1> SUFFICES ASSUME NEW q \in Objects, NEW g \in Nat
             PROVE  /\ Seen(q, g) => Seen(q, g)'
                    /\ \A x : Under(q, g, x) => Under(q, g, x)'
                    /\ Owing(q, g) => Owing(q, g)' \/ (Ends(p) /\ q = p)
  OBVIOUS
<1>1. policy[q].gen \in Nat /\ policy[q].pending \in BOOLEAN
  BY Typed, Fields
<1>2. CASE q # p
  <2>1. policy'[q] = policy[q]
    BY <1>2 DEF Moves, Begins, Ends, Stays, Touches
  <2>. QED BY <2>1 DEF Seen, Under, Owing
<1>3. CASE q = p
  BY <1>1, <1>3 DEF Moves, Begins, Ends, Stays, Seen, Under, Owing
<1>. QED BY <1>2, <1>3

SameConn(c) ==
    /\ conn'[c].pc = conn[c].pc /\ conn'[c].obj = conn[c].obj
    /\ conn'[c].gen = conn[c].gen /\ conn'[c].ctx = conn[c].ctx

\* Whoever does not take part in a step keeps their place.
LEMMA Bystanders ==
    ASSUME IInv, NEW p \in Objects, Moves(p)
    PROVE  /\ \A d \in Conns :
                /\ SameConn(d) /\ (Ends(p) => ~ConnOwes(d, p))
                /\ conn[d].pc \in Handshaking => watch'[d].pc = watch[d].pc
                => ConnPlaced(d)'
           /\ \A d \in Conns : watch'[d] = watch[d] /\ (Ends(p) => ~WatchOwes(d, p)) => WatchPlaced(d)'
           /\ \A t \in tasks : (Ends(p) => ~TaskOwes(t, p)) => TaskPlaced(t)'
<1> USE SeenKept, Typed DEF IInv, ActorsHold
<1>1. ASSUME NEW d \in Conns, SameConn(d), Ends(p) => ~ConnOwes(d, p),
             conn[d].pc \in Handshaking => watch'[d].pc = watch[d].pc
      PROVE  ConnPlaced(d)'
  <2>1. ConnPlaced(d) /\ conn[d].gen \in Nat
    BY DEF ConnType
  <2>2. PICK q, g, x : q = conn[d].obj /\ g = conn[d].gen /\ x = conn[d].ctx
    OBVIOUS
  <2>3. q \in Objects => /\ Seen(q, g) => Seen(q, g)'
                         /\ Under(q, g, x) => Under(q, g, x)'
                         /\ Owing(q, g) => Owing(q, g)' \/ (Ends(p) /\ q = p)
    BY <2>1, <2>2
  <2> HIDE SeenKept, Typed DEF IInv, ActorsHold
  <2>4. /\ conn'[d].pc \in Handshaking => watch'[d].pc = "off"
        /\ conn'[d].pc \in {"loop", "await", "marker", "open"} => conn'[d].obj \in Objects
    BY <1>1, <2>1 DEF ConnPlaced, SameConn
  <2>5. conn'[d].pc = "marker" => Owing(q, g)'
    BY <1>1, <2>1, <2>2, <2>3 DEF ConnPlaced, SameConn, ConnOwes
  <2>6. conn'[d].pc = "open" => g >= 1 /\ Seen(q, g)' /\ Under(q, g, x)'
    BY <1>1, <2>1, <2>2, <2>3 DEF ConnPlaced, SameConn
  <2>7. q = conn'[d].obj /\ g = conn'[d].gen /\ x = conn'[d].ctx
    BY <1>1, <2>2 DEF SameConn
  <2>. QED BY <2>4, <2>5, <2>6, <2>7 DEF ConnPlaced, Seen, Under, Owing
<1>2. ASSUME NEW d \in Conns, watch'[d] = watch[d], Ends(p) => ~WatchOwes(d, p)
      PROVE  WatchPlaced(d)'
  <2>1. WatchPlaced(d) /\ watch[d].gen \in Nat
    BY DEF WatchType
  <2>. QED BY <1>2, <2>1 DEF WatchPlaced, WatchOwes, Seen, Owing
<1>3. ASSUME NEW t \in tasks, Ends(p) => ~TaskOwes(t, p)
      PROVE  TaskPlaced(t)'
  <2>1. TaskPlaced(t) /\ t.gen \in Nat /\ t.obj \in Objects
    BY DEF TaskType
  <2>2. PICK q, g, x : q = t.obj /\ g = t.gen /\ x = t.prev
    OBVIOUS
  <2>3. /\ Seen(q, g) => Seen(q, g)'
        /\ Under(q, g, x) => Under(q, g, x)'
        /\ Owing(q, g) => Owing(q, g)' \/ (Ends(p) /\ q = p)
    BY <2>1, <2>2
  <2> HIDE SeenKept, Typed DEF IInv, ActorsHold
  <2>4. t.verdict = "marker" => Owing(q, g)'
    BY <1>3, <2>1, <2>2, <2>3 DEF TaskPlaced, TaskOwes
  <2>5. t.verdict \in Deciding => Seen(q, g)' /\ Under(q, g, x)'
    BY <2>1, <2>2, <2>3 DEF TaskPlaced
  <2>. QED BY <2>2, <2>4, <2>5 DEF TaskPlaced, Seen, Under, Owing
<1>. QED BY <1>1, <1>2, <1>3

\* The same for one record.
LEMMA RecordKept ==
    ASSUME AdmissionTypeOK, NEW p \in Objects, Moves(p), NEW x \in Records("data")
    PROVE  /\ Made(x) => Made(x)'
           /\ Seen(x.obj, x.gen) => Seen(x.obj, x.gen)'
BY SeenKept, SMTT(20) DEF Records, Made, Seen, Under

\* Contributions are typed as records of sessions.
LEMMA ContributionTypes ==
    ASSUME AdmissionTypeOK
    PROVE  /\ Contributions \subseteq Records("data")
           /\ \A i \in 1..Len(out) : out[i].kind = "data" => out[i] \in Records("data")
           /\ \A i \in 1..Len(out) : out[i].kind \in {"data", "marker"}
BY Typed DEF Contributions, Records

\* A step that puts nothing into the channel and takes nothing out.
LEMMA RecordsKept ==
    ASSUME IInv, NEW p \in Objects, Moves(p), UNCHANGED <<out, inHand, live>>
    PROVE  RecordsHold' /\ Ordered'
<1> USE ContributionTypes DEF IInv
<1>1. Contributions' = Contributions
  BY DEF Contributions
<1>2. \A x \in Contributions : Made(x)'
  BY RecordKept DEF RecordsHold
<1>3. ASSUME NEW i \in 1..Len(out), out[i].kind = "data" PROVE (Made(out[i]) /\ Seen(out[i].obj, out[i].gen))'
  <2> DEFINE x == out[i]
  <2>1. x \in Records("data") /\ Made(x) /\ Seen(x.obj, x.gen)
    BY <1>3 DEF RecordsHold
  <2>2. out'[i] = x
    OBVIOUS
  <2> HIDE DEF x
  <2>. QED BY <2>1, <2>2, RecordKept DEF Made, Seen, Under
<1>4. RecordsHold'
  BY <1>1, <1>2, <1>3 DEF RecordsHold, Made, Under
<1>5. Ordered'
  BY DEF Ordered
<1>. QED BY <1>4, <1>5

\* What has to be purged, after a step that begins no transition ...
LEMMA PurgedKept ==
    ASSUME IInv, NEW p \in Objects, Stays(p) \/ Ends(p), UNCHANGED <<inHand, live>>, stopped => stopped',
           \A q \in Objects : \A x : Purging(q, x) => Purging(q, x)' \/ stopped'
    PROVE  Purged'
<1> USE DEF IInv
<1>1. Contributions' = Contributions
  BY DEF Contributions
<1> SUFFICES ASSUME NEW x \in Contributions, ~stopped'
             PROVE  Current(x.obj, x.gen)' \/ Purging(x.obj, x.ctx)'
  BY <1>1 DEF Purged, Current
<1>2. x.obj \in Objects /\ x.gen \in Nat /\ x.gen >= 1 /\ x.gen <= policy[x.obj].gen
  BY ContributionTypes DEF Records, RecordsHold, Made, Under
<1>3. Current(x.obj, x.gen) \/ Purging(x.obj, x.ctx)
  BY DEF Purged
<1>4. Current(x.obj, x.gen) => Current(x.obj, x.gen)'
  BY <1>2 DEF Current, Stays, Ends, Touches
<1>. QED BY <1>2, <1>3, <1>4

\* ... and after one that does: the marker that is now owed resets what was
\* contributed under the generation that ended.
LEMMA PurgedByTransition ==
    ASSUME IInv, NEW p \in Objects, Begins(p), UNCHANGED <<inHand, live>>, stopped => stopped',
           \A q \in Objects : \A x : Purging(q, x) => Purging(q, x)',
           NEW previous, previous = policy[p].current, Purging(p, previous)'
    PROVE  Purged'
<1> USE DEF IInv
<1>1. Contributions' = Contributions
  BY DEF Contributions
<1> SUFFICES ASSUME NEW x \in Contributions, ~stopped'
             PROVE  Current(x.obj, x.gen)' \/ Purging(x.obj, x.ctx)'
  BY <1>1 DEF Purged, Current
<1>2. x.obj \in Objects /\ x.gen \in Nat /\ Under(x.obj, x.gen, x.ctx)
  BY ContributionTypes DEF Records, RecordsHold, Made
<1>3. Current(x.obj, x.gen) \/ Purging(x.obj, x.ctx)
  BY DEF Purged
<1>4. CASE Purging(x.obj, x.ctx)
  BY <1>2, <1>4
<1>5. CASE Current(x.obj, x.gen) /\ x.obj # p
  BY <1>2, <1>5 DEF Current, Begins, Touches
<1>6. CASE Current(x.obj, x.gen) /\ x.obj = p
  <2>1. x.ctx = previous
    BY <1>2, <1>6 DEF Current, Under
  <2>. QED BY <1>6, <2>1
<1>. QED BY <1>3, <1>4, <1>5, <1>6

-----------------------------------------------------------------------------
(* A handshake, or a session that reads: a step of one connection, which   *)
(* neither begins nor ends a transition.                                   *)

\* Nobody owes a marker who did not, and who owed one does.
LEMMA OwnersKept ==
    ASSUME IInv, UNCHANGED tasks,
           \A d \in Conns : /\ watch'[d].pc = watch[d].pc /\ watch'[d].obj = watch[d].obj
                            /\ watch'[d].ctx = watch[d].ctx
                            /\ conn'[d].pc = "marker" <=> conn[d].pc = "marker"
                            /\ conn[d].pc = "marker" => conn'[d].obj = conn[d].obj
    PROVE  /\ OneOwner'
           /\ out' = out => \A q \in Objects : \A x : Purging(q, x) => Purging(q, x)'
<1>1. \A d \in Conns, q \in Objects : ConnOwes(d, q)' <=> ConnOwes(d, q)
  BY DEF ConnOwes
<1>2. \A d \in Conns, q \in Objects : WatchOwes(d, q)' <=> WatchOwes(d, q)
  BY DEF WatchOwes
<1>3. OneOwner'
  BY <1>1, <1>2 DEF IInv, OneOwner, TaskOwes
<1>4. ASSUME out' = out, NEW q \in Objects, NEW x, Purging(q, x) PROVE Purging(q, x)'
  BY <1>1, <1>2, <1>4 DEF Purging, Queued, TaskOwes
<1>. QED BY <1>3, <1>4

\* Such a step keeps the invariant if the connection's next place is sound.
LEMMA ConnSteps ==
    ASSUME IInv, NEW c \in Conns, NEW next \in ConnType, conn' = [conn EXCEPT ![c] = next],
           UNCHANGED <<environment, policy, watch, tasks, pipeline, stopped>>,
           conn[c].pc # "marker", next.pc # "marker",
           next.pc \in Handshaking => watch[c].pc = "off",
           next.pc \in {"loop", "await"} => next.obj \in Objects,
           next.pc = "open" => /\ conn[c].pc = "open" /\ next.obj = conn[c].obj
                               /\ next.gen = conn[c].gen /\ next.ctx = conn[c].ctx,
           made' \in Nat, made <= made', made' <= MaxObjects, next.obj <= made',
           table' \in [Observers -> 0..MaxObjects], TableHolds'
    PROVE  IInv'
<1> USE DEF IInv
<1>0. /\ UNCHANGED <<authority, changes, outages, policy, watch, tasks, out, inHand, live, stopped>>
      /\ conn \in [Conns -> ConnType] /\ watch \in [Conns -> WatchType] /\ made \in Nat
      /\ conn'[c] = next /\ \A d \in Conns \ {c} : conn'[d] = conn[d]
      /\ 1 \in Objects /\ Stays(1)
  BY Typed, NoMove DEF environment, pipeline
<1>1. AdmissionTypeOK'
  <2>1. conn' \in [Conns -> ConnType]
    BY <1>0
  <2>2. \A d \in Conns : conn'[d].obj <= made' /\ watch'[d].obj <= made'
    <3> SUFFICES ASSUME NEW d \in Conns PROVE conn'[d].obj <= made' /\ watch'[d].obj <= made'
      OBVIOUS
    <3>1. conn[d].obj \in Nat /\ watch[d].obj \in Nat /\ conn[d].obj <= made /\ watch[d].obj <= made
      BY <1>0 DEF AdmissionTypeOK, ConnType, WatchType
    <3>. QED BY <1>0, <3>1
  <2>. QED BY <1>0, <2>1, <2>2, Constants DEF AdmissionTypeOK
<1>2. PoliciesHold'
  BY <1>0 DEF PoliciesHold
<1>3. ActorsHold'
  <2>2. ASSUME NEW d \in Conns PROVE WatchPlaced(d)'
    BY <1>0 DEF ActorsHold, WatchPlaced, Seen, Owing
  <2>3. ASSUME NEW t \in tasks PROVE TaskPlaced(t)'
    BY <1>0 DEF ActorsHold, TaskPlaced, Seen, Under, Owing
  <2>4. ASSUME NEW d \in Conns, d # c PROVE ConnPlaced(d)'
    BY <1>0, <2>4 DEF ActorsHold, ConnPlaced, Seen, Under, Owing
  <2>5. ConnPlaced(c)'
    BY <1>0 DEF ActorsHold, ConnPlaced, Seen, Under, Owing
  <2>. QED BY <1>0, <2>2, <2>3, <2>4, <2>5 DEF ActorsHold
<1>4. OneOwner' /\ \A q \in Objects : \A x : Purging(q, x) => Purging(q, x)'
  BY <1>0, OwnersKept
<1>5. RecordsHold' /\ Ordered'
  BY <1>0, RecordsKept DEF Moves
<1>6. Purged'
  BY <1>0, <1>4, PurgedKept
<1>. QED BY <1>1, <1>2, <1>3, <1>4, <1>5, <1>6

\* A handshake begins, is answered, waits for a transition of another, or is
\* refused; a session reads a record.
LEMMA HandshakeHolds ==
    ASSUME IInv, NEW c \in Conns,
           \/ \E o \in Observers : Hello(c, o)
           \/ Resolve(c) \/ AdmitRefused(c) \/ AdmitWait(c) \/ AwaitDone(c) \/ ReadRecord(c)
    PROVE  IInv'
<1> USE Constants, RestTypes
<1>0. /\ UNCHANGED <<environment, policy, table, made, watch, tasks, pipeline, stopped>>
      /\ conn[c] \in ConnType /\ ConnPlaced(c) /\ made \in Nat /\ made <= MaxObjects /\ conn[c].obj <= made
      /\ table \in [Observers -> 0..MaxObjects] /\ policy \in [Objects -> PolicyType]
      /\ authority \in [Observers -> Contexts \cup {NoContext}]
  <2>1. UNCHANGED <<environment, policy, table, made, watch, tasks, pipeline, stopped>>
    BY DEF Hello, Resolve, AdmitRefused, AdmitWait, AwaitDone, ReadRecord, policies
  <2>2. ConnPlaced(c) /\ conn[c].obj <= made
    BY DEF IInv, ActorsHold, AdmissionTypeOK
  <2>. QED BY <2>1, <2>2, Typed DEF IInv
<1>1. TableHolds'
  BY <1>0 DEF IInv, TableHolds
<1>2. ASSUME NEW next \in ConnType, conn' = [conn EXCEPT ![c] = next], next.obj <= made,
             conn[c].pc # "marker", next.pc # "marker",
             next.pc \in Handshaking => watch[c].pc = "off",
             next.pc \in {"loop", "await"} => next.obj \in Objects,
             next.pc = "open" => /\ conn[c].pc = "open" /\ next.obj = conn[c].obj
                                 /\ next.gen = conn[c].gen /\ next.ctx = conn[c].ctx
      PROVE  IInv'
  <2>1. made' \in Nat /\ made <= made' /\ made' <= MaxObjects /\ table' \in [Observers -> 0..MaxObjects]
    BY <1>0
  <2>2. next.obj <= made' /\ UNCHANGED <<environment, policy, watch, tasks, pipeline, stopped>>
    BY <1>0, <1>2
  <2>. QED BY <1>1, <1>2, <2>1, <2>2, ConnSteps
<1>3. ASSUME conn[c].pc # "marker", conn' = [conn EXCEPT ![c] = Off] PROVE IInv'
  <2>1. Off.pc = "off" /\ Off.obj <= made
    BY <1>0 DEF Off
  <2>. QED BY <1>2, <1>3, <2>1 DEF Handshaking
<1>4. ASSUME NEW o \in Observers, Hello(c, o) PROVE IInv'
  <2>1. PICK next : next = [Off EXCEPT !.pc = "lookup", !.obs = o,
                              !.looked = IF table[o] = 0 THEN 0 ELSE policy[table[o]].gen]
    OBVIOUS
  <2>2. (IF table[o] = 0 THEN 0 ELSE policy[table[o]].gen) \in Nat
    BY <1>0, Fields DEF Objects
  <2>3. next \in ConnType /\ next.pc = "lookup" /\ next.obj = 0
    BY <2>1, <2>2 DEF ConnType, Off
  <2>4. conn' = [conn EXCEPT ![c] = next] /\ conn[c].pc = "off" /\ watch[c].pc = "off"
    <3>1. conn[c] = Off /\ watch[c] = NoWatch /\ conn' = [conn EXCEPT ![c] = next]
      BY <1>4, <2>1 DEF Hello
    <3>. QED BY <3>1 DEF Off, NoWatch
  <2>5. next.obj <= made /\ next.pc # "marker" /\ next.pc # "open" /\ next.pc \notin {"loop", "await"}
    BY <1>0, <2>3
  <2>6. conn[c].pc # "marker"
    BY <2>4
  <2>. QED BY <1>2, <2>3, <2>4, <2>5, <2>6
<1>5. CASE Resolve(c)
  <2>1. conn[c].pc = "lookup" /\ conn[c].obs \in Observers /\ watch[c].pc = "off"
    BY <1>0, <1>5 DEF Resolve, ConnType, ConnPlaced, Handshaking
  <2>2. CASE authority[conn[c].obs] = NoContext
    BY <1>3, <1>5, <2>1, <2>2 DEF Resolve
  <2>3. CASE authority[conn[c].obs] # NoContext
    <3>1. PICK next : next = [conn[c] EXCEPT !.pc = "find", !.ctx = authority[conn[c].obs]]
      OBVIOUS
    <3>2. next \in ConnType /\ next.pc = "find" /\ next.obj = conn[c].obj
      BY <1>0, <2>1, <3>1 DEF ConnType
    <3>3. conn' = [conn EXCEPT ![c] = next]
      BY <1>5, <2>3, <3>1 DEF Resolve
    <3>. QED BY <1>0, <1>2, <2>1, <3>2, <3>3
  <2>. QED BY <2>2, <2>3
<1>6. CASE AdmitRefused(c)
  BY <1>3, <1>6 DEF AdmitRefused
<1>7. CASE AdmitWait(c)
  <2>1. conn[c].pc = "loop" /\ conn[c].obj \in Objects /\ watch[c].pc = "off" /\ policy[conn[c].obj].gen \in Nat
    BY <1>0, <1>7, Fields DEF AdmitWait, ConnPlaced, Handshaking
  <2>2. PICK next : next = [conn[c] EXCEPT !.pc = "await", !.gen = policy[conn[c].obj].gen]
    OBVIOUS
  <2>3. next \in ConnType /\ next.pc = "await" /\ next.obj = conn[c].obj
    BY <1>0, <2>1, <2>2 DEF ConnType
  <2>4. conn' = [conn EXCEPT ![c] = next]
    BY <1>0, <1>7, <2>2, Typed DEF AdmitWait, IInv, ConnType
  <2>. QED BY <1>0, <1>2, <2>1, <2>3, <2>4
<1>8. CASE AwaitDone(c)
  <2>1. conn[c].pc = "await" /\ conn[c].obj \in Objects /\ watch[c].pc = "off"
    BY <1>0, <1>8 DEF AwaitDone, ConnPlaced, Handshaking
  <2>2. PICK next : next = [conn[c] EXCEPT !.pc = "loop"]
    OBVIOUS
  <2>3. next \in ConnType /\ next.pc = "loop" /\ next.obj = conn[c].obj
    BY <1>0, <2>2 DEF ConnType
  <2>4. conn' = [conn EXCEPT ![c] = next] \/ conn' = [conn EXCEPT ![c] = Off]
    BY <1>8, <2>2 DEF AwaitDone
  <2>. QED BY <1>0, <1>2, <1>3, <2>1, <2>3, <2>4
<1>9. CASE ReadRecord(c)
  <2>1. PICK next : next = [conn[c] EXCEPT !.hold = TRUE]
    OBVIOUS
  <2>2. /\ next \in ConnType /\ next.pc = "open" /\ conn[c].pc = "open" /\ next.obj = conn[c].obj
        /\ next.gen = conn[c].gen /\ next.ctx = conn[c].ctx
    BY <1>0, <1>9, <2>1 DEF ConnType, ReadRecord
  <2>3. conn' = [conn EXCEPT ![c] = next]
    BY <1>9, <2>1 DEF ReadRecord
  <2>. QED BY <1>0, <1>2, <2>2, <2>3 DEF Handshaking
<1>. QED BY <1>4, <1>5, <1>6, <1>7, <1>8, <1>9

\* admit finds the observer's policy object, makes one, or refuses at the
\* ceiling; reclaiming forgets objects and never shares one.
LEMMA FindingHolds ==
    ASSUME IInv, NEW c \in Conns, FindPolicy(c)
    PROVE  IInv'
<1> USE Constants, RestTypes
<1> DEFINE o == conn[c].obs
           full == Cardinality(Tracked(table)) >= MaxPolicies
           kept == IF full THEN Reclaimed ELSE table
<1>0. /\ UNCHANGED <<environment, policy, watch, tasks, pipeline, stopped>>
      /\ conn[c] \in ConnType /\ o \in Observers /\ conn[c].pc = "find" /\ watch[c].pc = "off"
      /\ made \in Nat /\ made <= MaxObjects /\ table \in [Observers -> 0..MaxObjects]
      /\ conn \in [Conns -> ConnType]
  <2>1. UNCHANGED <<environment, policy, watch, tasks, pipeline, stopped>> /\ conn[c].pc = "find"
    BY DEF FindPolicy, policies
  <2>2. conn[c] \in ConnType /\ ConnPlaced(c) /\ conn \in [Conns -> ConnType]
    BY Typed DEF IInv, ActorsHold
  <2>3. made \in Nat /\ made <= MaxObjects /\ table \in [Observers -> 0..MaxObjects]
    BY Typed DEF IInv
  <2>. QED BY <2>1, <2>2, <2>3 DEF ConnType, ConnPlaced, Handshaking
<1>1. /\ \A u, v \in Observers : table[u] <= made /\ (table[u] = table[v] /\ table[u] # 0 => u = v)
      /\ kept \in [Observers -> 0..MaxObjects] /\ \A u \in Observers : kept[u] \in {0, table[u]}
  BY <1>0 DEF IInv, TableHolds, Reclaimed
<1> HIDE DEF kept, full
<1>2. \A u, v \in Observers : kept[u] <= made /\ (kept[u] = kept[v] /\ kept[u] # 0 => u = v)
  BY <1>0, <1>1
<1>3. ASSUME NEW n \in Objects, n <= made', made' \in Nat, made <= made', made' <= MaxObjects,
             conn' = [conn EXCEPT ![c].pc = "loop", ![c].obj = n],
             table' \in [Observers -> 0..MaxObjects], TableHolds'
      PROVE  IInv'
  <2>1. PICK next : next = [conn[c] EXCEPT !.pc = "loop", !.obj = n]
    OBVIOUS
  <2>2. next \in ConnType /\ next.pc = "loop" /\ next.obj = n
    <3>1. n \in 0..MaxObjects
      BY DEF Objects
    <3>. QED BY <1>0, <2>1, <3>1 DEF ConnType
  <2>3. conn' = [conn EXCEPT ![c] = next]
    BY <1>0, <1>3, <2>1 DEF ConnType
  <2>. QED BY <1>0, <1>3, <2>2, <2>3, ConnSteps
<1>4. CASE table[o] # 0 /\ conn' = [conn EXCEPT ![c].pc = "loop", ![c].obj = table[o]] /\ UNCHANGED policies
  <2>1. table[o] \in Objects /\ table[o] <= made /\ made' = made /\ table' = table
    BY <1>0, <1>1, <1>4 DEF Objects, policies
  <2>2. TableHolds'
    BY <2>1 DEF IInv, TableHolds
  <2>3. PICK n : n = table[o]
    OBVIOUS
  <2>4. /\ n \in Objects /\ n <= made' /\ made' \in Nat /\ made <= made' /\ made' <= MaxObjects
        /\ conn' = [conn EXCEPT ![c].pc = "loop", ![c].obj = n] /\ table' \in [Observers -> 0..MaxObjects]
    BY <1>0, <1>4, <2>1, <2>3
  <2>. QED BY <1>3, <2>2, <2>4
<1>5. CASE /\ table[o] = 0 /\ made < MaxObjects /\ made' = made + 1
           /\ table' = [kept EXCEPT ![o] = made + 1]
           /\ conn' = [conn EXCEPT ![c].pc = "loop", ![c].obj = made + 1]
  <2>1. made + 1 \in Objects /\ made' \in Nat /\ made <= made' /\ made' <= MaxObjects /\ made + 1 <= made'
    BY <1>0, <1>5 DEF Objects
  <2>2. table' \in [Observers -> 0..MaxObjects]
    BY <1>0, <1>1, <1>5
  <2>3. TableHolds'
    <3> SUFFICES ASSUME NEW u \in Observers, NEW v \in Observers
                 PROVE  table'[u] <= made' /\ (table'[u] = table'[v] /\ table'[u] # 0 => u = v)
      BY DEF TableHolds
    <3>1. /\ table'[u] = IF u = o THEN made + 1 ELSE kept[u]
          /\ table'[v] = IF v = o THEN made + 1 ELSE kept[v]
      BY <1>0, <1>1, <1>5
    <3>2. kept[u] \in Nat /\ kept[v] \in Nat /\ kept[u] <= made /\ kept[v] <= made
          /\ (kept[u] = kept[v] /\ kept[u] # 0 => u = v)
      BY <1>1, <1>2
    <3>. QED BY <1>0, <1>5, <3>1, <3>2
  <2>. QED BY <1>3, <1>5, <2>1, <2>2, <2>3
<1>6. CASE table' = kept /\ conn' = [conn EXCEPT ![c] = Off] /\ UNCHANGED <<made, policy>>
  <2>1. TableHolds' /\ table' \in [Observers -> 0..MaxObjects]
    BY <1>1, <1>2, <1>6 DEF TableHolds
  <2>2. Off.pc = "off" /\ Off.obj <= made'
    BY <1>0, <1>6 DEF Off
  <2>3. made' \in Nat /\ made <= made' /\ made' <= MaxObjects
    BY <1>0, <1>6
  <2>. QED BY <1>0, <1>6, <2>1, <2>2, <2>3, ConnSteps DEF Handshaking
<1>. QED BY <1>4, <1>5, <1>6 DEF FindPolicy, kept, full

-----------------------------------------------------------------------------
(* A transition begins.                                                    *)

\* beginTransitionLocked raises the generation, empties the policy's sessions
\* and marks it pending.
LEMMA BegunHolds ==
    ASSUME IInv, NEW p \in Objects, NEW x \in Contexts \cup {NoContext}, ~policy[p].pending,
           policy' = Begun(p, x)
    PROVE  /\ Begins(p) /\ PoliciesHold' /\ policy' \in [Objects -> PolicyType]
           /\ \A q \in Objects : Cardinality(policy'[q].sessions) <= MaxSessions
<1> USE Constants, Typed DEF IInv
<1>1. IsFiniteSet({}) /\ Cardinality({}) = 0
  BY FS_EmptySet
<1>2. /\ policy'[p].gen = policy[p].gen + 1 /\ policy'[p].sessions = {} /\ policy'[p].known = FALSE
      /\ policy'[p].pending = TRUE /\ policy'[p] \in PolicyType
      /\ \A q \in Objects \ {p} : policy'[q] = policy[q]
      /\ policy' \in [Objects -> PolicyType]
  BY SMTT(20) DEF Begun, PolicyType
<1>3. Begins(p)
  BY <1>2 DEF Begins, Touches
<1>4. IsFiniteSet(policy'[p].sessions) /\ Cardinality(policy'[p].sessions) = 0
  BY ONLY <1>1, <1>2
<1>5. \A q \in Objects : Cardinality(policy'[q].sessions) <= MaxSessions
  <2>1. Cardinality(policy'[p].sessions) <= MaxSessions
    BY <1>4
  <2>2. \A q \in Objects \ {p} : Cardinality(policy'[q].sessions) <= MaxSessions
    <3>1. \A q \in Objects : Cardinality(policy[q].sessions) <= MaxSessions
      BY DEF AdmissionTypeOK
    <3>. QED BY ONLY <1>2, <3>1
  <2>. QED BY <2>1, <2>2
<1>6. PoliciesHold'
  BY <1>2, <1>4 DEF PoliciesHold
<1>. QED BY <1>2, <1>3, <1>5, <1>6

\* The sessions it cancels stay where they are until they look at their context.
LEMMA CancelledKeeps ==
    ASSUME AdmissionTypeOK, NEW p, NEW o
    PROVE  /\ Cancelled(p, o) \in [Conns -> ConnType]
           /\ \A d \in Conns : /\ Cancelled(p, o)[d].pc = conn[d].pc /\ Cancelled(p, o)[d].obj = conn[d].obj
                                /\ Cancelled(p, o)[d].gen = conn[d].gen /\ Cancelled(p, o)[d].ctx = conn[d].ctx
                                /\ Cancelled(p, o)[d].obs = conn[d].obs
<1> USE Typed
<1>1. ASSUME NEW d \in Conns
      PROVE  /\ Cancelled(p, o)[d] \in ConnType
             /\ Cancelled(p, o)[d].pc = conn[d].pc /\ Cancelled(p, o)[d].obj = conn[d].obj
             /\ Cancelled(p, o)[d].gen = conn[d].gen /\ Cancelled(p, o)[d].ctx = conn[d].ctx
             /\ Cancelled(p, o)[d].obs = conn[d].obs
  <2>1. PICK next : next = [conn[d] EXCEPT !.cancelled = @ \/ d \in policy[p].sessions,
                                           !.fresh = @ /\ conn[d].obs # o]
    OBVIOUS
  <2>2. conn[d] \in ConnType
    OBVIOUS
  <2>3. next \in ConnType
    BY <2>1, <2>2 DEF ConnType
  <2>4. /\ next.pc = conn[d].pc /\ next.obj = conn[d].obj /\ next.gen = conn[d].gen
        /\ next.ctx = conn[d].ctx /\ next.obs = conn[d].obs
    BY <2>1, <2>2 DEF ConnType
  <2>5. Cancelled(p, o)[d] = next
    BY <2>1 DEF Cancelled
  <2>. QED BY <2>3, <2>4, <2>5
<1>2. Cancelled(p, o) = [d \in Conns |-> Cancelled(p, o)[d]]
  BY DEF Cancelled
<1>. QED BY <1>1, <1>2

\* Nobody owes a marker of a policy that is not pending.
LEMMA NobodyOwes ==
    ASSUME IInv, NEW p \in Objects, ~policy[p].pending
    PROVE  /\ \A d \in Conns : ~ConnOwes(d, p) /\ ~WatchOwes(d, p)
           /\ \A t \in tasks : ~TaskOwes(t, p)
BY DEF IInv, ActorsHold, ConnPlaced, WatchPlaced, TaskPlaced, Owing, ConnOwes, WatchOwes, TaskOwes

\* The parts of a step that begins a transition make the whole.
LEMMA BeginningHolds ==
    ASSUME IInv, NEW p \in Objects, NEW x \in Contexts \cup {NoContext}, ~policy[p].pending,
           policy' = Begun(p, x), UNCHANGED <<environment, table, made, pipeline, stopped>>,
           conn' \in [Conns -> ConnType], watch' \in [Conns -> WatchType], tasks' \subseteq TaskType,
           \A d \in Conns : conn'[d].obj <= made /\ watch'[d].obj <= made,
           ActorsHold', OneOwner',
           NEW previous, previous = policy[p].current, Purging(p, previous)',
           \A q \in Objects : \A y : Purging(q, y) => Purging(q, y)'
    PROVE  IInv'
<1>0. /\ UNCHANGED <<authority, changes, outages, table, made, out, inHand, live, stopped>>
  BY DEF environment, pipeline
<1>1. /\ Begins(p) /\ PoliciesHold' /\ policy' \in [Objects -> PolicyType]
      /\ \A q \in Objects : Cardinality(policy'[q].sessions) <= MaxSessions
  BY BegunHolds
<1>2. AdmissionTypeOK'
  BY <1>0, <1>1 DEF IInv, AdmissionTypeOK
<1>3. TableHolds'
  BY <1>0 DEF IInv, TableHolds
<1>4. RecordsHold' /\ Ordered'
  BY <1>0, <1>1, RecordsKept DEF Moves
<1>5. Purged'
  BY <1>0, <1>1, PurgedByTransition
<1>. QED BY <1>1, <1>2, <1>3, <1>4, <1>5 DEF IInv

\* A handshake replaces the policy (admit).
LEMMA AdmitTransitionHolds ==
    ASSUME IInv, NEW c \in Conns, AdmitTransition(c)
    PROVE  IInv'
<1>p. PICK p, o : p = conn[c].obj /\ o = conn[c].obs
  OBVIOUS
<1>0. /\ conn[c].pc = "loop" /\ p \in Objects /\ watch[c].pc = "off" /\ ~policy[p].pending
      /\ conn[c].ctx \in Contexts \cup {NoContext}
      /\ policy' = Begun(p, conn[c].ctx)
      /\ UNCHANGED <<environment, table, made, tasks, pipeline, stopped>>
  <2>1. ConnPlaced(c) /\ conn[c] \in ConnType
    BY Typed DEF IInv, ActorsHold
  <2>. QED BY <1>p, <2>1 DEF AdmitTransition, Pending, ConnPlaced, Handshaking, ConnType
<1>1. PICK previous, g : previous = policy[p].current /\ g = policy[p].gen + 1
  OBVIOUS
<1>2. previous \in Contexts \cup {NoContext} /\ g \in Nat
  BY <1>0, <1>1, Typed, Fields DEF IInv
<1>3. conn' = [Cancelled(p, o) EXCEPT ![c].pc = "marker", ![c].gen = g]
  BY <1>1, <1>p DEF AdmitTransition
<1>4. watch' = [watch EXCEPT ![c].ctx = previous]
  BY <1>1, <1>p DEF AdmitTransition
<1>5. /\ conn' \in [Conns -> ConnType] /\ \A d \in Conns \ {c} : SameConn(d)
      /\ conn'[c].pc = "marker" /\ conn'[c].obj = p /\ conn'[c].gen = g
  <2>1. PICK k : k = Cancelled(p, o)
    OBVIOUS
  <2>2. /\ k \in [Conns -> ConnType] /\ k[c].obj = p
        /\ \A d \in Conns : k[d].pc = conn[d].pc /\ k[d].obj = conn[d].obj /\ k[d].gen = conn[d].gen
                            /\ k[d].ctx = conn[d].ctx
    BY <1>p, <2>1, CancelledKeeps DEF IInv
  <2>3. conn' = [k EXCEPT ![c].pc = "marker", ![c].gen = g]
    BY <1>3, <2>1
  <2>4. k[c] \in ConnType
    BY <2>2
  <2>5. conn'[c] \in ConnType /\ conn'[c].pc = "marker" /\ conn'[c].obj = p /\ conn'[c].gen = g
    BY <1>2, <2>2, <2>3, <2>4 DEF ConnType
  <2>6. \A d \in Conns \ {c} : conn'[d] = k[d]
    BY <2>2, <2>3
  <2>7. conn' \in [Conns -> ConnType]
    BY <2>2, <2>3, <2>5, <2>6
  <2>. QED BY <2>2, <2>5, <2>6, <2>7 DEF SameConn
<1>6. /\ watch' \in [Conns -> WatchType] /\ \A d \in Conns \ {c} : watch'[d] = watch[d]
      /\ watch'[c].pc = "off" /\ watch'[c].ctx = previous /\ watch'[c].obj = watch[c].obj
  BY <1>0, <1>2, <1>4, Typed DEF IInv, WatchType
<1>7. Begins(p) /\ Moves(p) /\ policy'[p].pending /\ policy'[p].gen = g
  BY <1>0, <1>1, BegunHolds DEF Moves, Begins
<1>8. /\ \A d \in Conns : ~ConnOwes(d, p) /\ ~WatchOwes(d, p)
      /\ \A t \in tasks : ~TaskOwes(t, p)
  BY <1>0, NobodyOwes
<1>9. ActorsHold'
  <2>1. ASSUME NEW d \in Conns, d # c PROVE ConnPlaced(d)' /\ WatchPlaced(d)'
    BY <1>0, <1>5, <1>6, <1>7, <1>8, <2>1, Bystanders
  <2>2. ConnPlaced(c)'
    BY <1>0, <1>5, <1>6, <1>7 DEF ConnPlaced, Owing
  <2>3. WatchPlaced(c)'
    BY <1>6 DEF WatchPlaced
  <2>4. \A t \in tasks' : TaskPlaced(t)'
    BY <1>0, <1>7, <1>8, Bystanders
  <2>. QED BY <2>1, <2>2, <2>3, <2>4 DEF ActorsHold
<1>a. /\ \A d \in Conns, q \in Objects : ConnOwes(d, q)' <=> (ConnOwes(d, q) \/ (d = c /\ q = p))
      /\ \A d \in Conns, q \in Objects : WatchOwes(d, q)' <=> WatchOwes(d, q)
      /\ tasks' = tasks
  BY <1>0, <1>5, <1>6 DEF ConnOwes, WatchOwes, SameConn
<1>10. OneOwner'
  BY <1>8, <1>a DEF IInv, OneOwner, TaskOwes
<1>11. Purging(p, previous)'
  BY <1>0, <1>6, <1>a DEF Purging
<1>12. \A q \in Objects : \A y : Purging(q, y) => Purging(q, y)'
  <2> SUFFICES ASSUME NEW q \in Objects, NEW y, Purging(q, y) PROVE Purging(q, y)'
    OBVIOUS
  <2>1. \A d \in Conns : ConnOwes(d, q) \/ WatchOwes(d, q) => watch'[d].ctx = watch[d].ctx
    BY <1>0, <1>6 DEF ConnOwes, WatchOwes
  <2>2. out' = out
    BY <1>0 DEF pipeline
  <2>. QED BY <1>a, <2>1, <2>2 DEF Purging, Queued, TaskOwes
<1>13. \A d \in Conns : conn'[d].obj <= made /\ watch'[d].obj <= made
  BY <1>5, <1>6, <1>p DEF IInv, AdmissionTypeOK, SameConn
<1>14. tasks' \subseteq TaskType
  BY <1>0, Typed DEF IInv
<1>. QED BY <1>0, <1>1, <1>5, <1>6, <1>9, <1>10, <1>11, <1>12, <1>13, <1>14, BeginningHolds

\* A watcher's answer changes the policy it watches, unless it came too late
\* (changeAdmission).
LEMMA WatchChangeHolds ==
    ASSUME IInv, NEW c \in Conns, WatchChange(c), Current(watch[c].obj, watch[c].gen)
    PROVE  IInv'
<1>p. PICK p, o : p = watch[c].obj /\ o = watch[c].obs
  OBVIOUS
<1>0. /\ watch[c].pc = "decided" /\ p \in Objects /\ conn[c].pc \notin Handshaking /\ ~policy[p].pending
      /\ watch[c].ctx \in Contexts \cup {NoContext}
      /\ policy' = Begun(p, watch[c].ctx) /\ conn' = Cancelled(p, o)
      /\ UNCHANGED <<environment, table, made, tasks, pipeline, stopped>>
  <2>1. ConnPlaced(c) /\ WatchPlaced(c) /\ watch[c] \in WatchType
    BY Typed DEF IInv, ActorsHold
  <2>. QED BY <1>p, <2>1 DEF WatchChange, Current, ConnPlaced, WatchPlaced, Seen, WatchType
<1>1. PICK previous, g : previous = policy[p].current /\ g = policy[p].gen + 1
  OBVIOUS
<1>2. previous \in Contexts \cup {NoContext} /\ g \in Nat
  BY <1>0, <1>1, Typed, Fields DEF IInv
<1>4. watch' = [watch EXCEPT ![c].pc = "marker", ![c].gen = g, ![c].ctx = previous]
  BY <1>1, <1>0, <1>p DEF WatchChange
<1>5. conn' \in [Conns -> ConnType] /\ \A d \in Conns : SameConn(d)
  BY <1>0, CancelledKeeps DEF IInv, SameConn
<1>6. /\ watch' \in [Conns -> WatchType] /\ \A d \in Conns \ {c} : watch'[d] = watch[d]
      /\ watch'[c].pc = "marker" /\ watch'[c].ctx = previous /\ watch'[c].obj = p /\ watch'[c].gen = g
  <2>1. watch \in [Conns -> WatchType] /\ watch[c] \in WatchType
    BY Typed DEF IInv
  <2>2. /\ watch'[c].pc = "marker" /\ watch'[c].ctx = previous /\ watch'[c].obj = p /\ watch'[c].gen = g
        /\ watch'[c] \in WatchType
    BY <1>2, <1>4, <1>p, <2>1 DEF WatchType
  <2>3. \A d \in Conns \ {c} : watch'[d] = watch[d]
    BY <1>4, <2>1
  <2>. QED BY <1>4, <2>1, <2>2, <2>3
<1>7. Begins(p) /\ Moves(p) /\ policy'[p].pending /\ policy'[p].gen = g
  BY <1>0, <1>1, BegunHolds DEF Moves, Begins
<1>8. /\ \A d \in Conns : ~ConnOwes(d, p) /\ ~WatchOwes(d, p)
      /\ \A t \in tasks : ~TaskOwes(t, p)
  BY <1>0, NobodyOwes
<1>9. ActorsHold'
  <2>1. ASSUME NEW d \in Conns, d # c PROVE WatchPlaced(d)'
    BY <1>0, <1>6, <1>7, <1>8, <2>1, Bystanders
  <2>2. ASSUME NEW d \in Conns PROVE ConnPlaced(d)'
    BY <1>0, <1>5, <1>6, <1>7, <1>8, Bystanders
  <2>3. WatchPlaced(c)'
    BY <1>0, <1>6, <1>7 DEF WatchPlaced, Owing
  <2>4. \A t \in tasks' : TaskPlaced(t)'
    BY <1>0, <1>7, <1>8, Bystanders
  <2>. QED BY <2>1, <2>2, <2>3, <2>4 DEF ActorsHold
<1>a. /\ \A d \in Conns, q \in Objects : WatchOwes(d, q)' <=> (WatchOwes(d, q) \/ (d = c /\ q = p))
      /\ \A d \in Conns, q \in Objects : ConnOwes(d, q)' <=> ConnOwes(d, q)
      /\ tasks' = tasks
  BY <1>0, <1>5, <1>6 DEF ConnOwes, WatchOwes, SameConn
<1>10. OneOwner'
  BY <1>8, <1>a DEF IInv, OneOwner, TaskOwes
<1>11. Purging(p, previous)'
  BY <1>0, <1>6, <1>a DEF Purging
<1>12. \A q \in Objects : \A y : Purging(q, y) => Purging(q, y)'
  <2> SUFFICES ASSUME NEW q \in Objects, NEW y, Purging(q, y) PROVE Purging(q, y)'
    OBVIOUS
  <2>1. \A d \in Conns : ConnOwes(d, q) \/ WatchOwes(d, q) => watch'[d].ctx = watch[d].ctx
    BY <1>0, <1>6 DEF ConnOwes, WatchOwes, Handshaking
  <2>2. out' = out
    BY <1>0 DEF pipeline
  <2>. QED BY <1>a, <2>1, <2>2 DEF Purging, Queued, TaskOwes
<1>13. \A d \in Conns : conn'[d].obj <= made /\ watch'[d].obj <= made
  BY <1>5, <1>6, <1>p DEF IInv, AdmissionTypeOK, SameConn
<1>14. tasks' \subseteq TaskType
  BY <1>0, Typed DEF IInv
<1>. QED BY <1>0, <1>1, <1>5, <1>6, <1>9, <1>10, <1>11, <1>12, <1>13, <1>14, BeginningHolds

\* The sweep withdraws a policy whose generation is still the one it asked for.
LEMMA WithdrawHolds ==
    ASSUME IInv, NEW t \in tasks, Withdraw(t), ~stopped, Current(t.obj, t.gen)
    PROVE  IInv'
<1> DEFINE p == t.obj
           o == t.obs
<1>0. /\ t \in TaskType /\ t.verdict = "withdraw" /\ p \in Objects /\ ~policy[p].pending
      /\ policy' = Begun(p, NoContext) /\ conn' = Cancelled(p, o)
      /\ UNCHANGED <<environment, table, made, watch, pipeline, stopped>>
  <2>1. t \in TaskType /\ TaskPlaced(t)
    BY Typed DEF IInv, ActorsHold
  <2>. QED BY <2>1 DEF Withdraw, Current, TaskPlaced, Deciding, Seen, TaskType
<1>1. PICK previous, g : previous = policy[p].current /\ g = policy[p].gen + 1
  OBVIOUS
<1>2. previous = t.prev /\ g = t.gen + 1 /\ g \in Nat
  <2>1. TaskPlaced(t) /\ t.gen \in Nat
    BY <1>0 DEF IInv, ActorsHold, TaskType
  <2>. QED BY <1>0, <1>1, <2>1 DEF Current, TaskPlaced, Deciding, Under
<1>3. PICK u : u = [t EXCEPT !.verdict = "marker", !.gen = g]
  OBVIOUS
<1>4. u \in TaskType /\ u.verdict = "marker" /\ u.gen = g /\ u.obj = p /\ u.prev = previous
  BY <1>0, <1>2, <1>3 DEF TaskType
<1>b. tasks' = (tasks \ {t}) \cup {u}
  BY <1>2, <1>3 DEF Withdraw
<1>5. conn' \in [Conns -> ConnType] /\ \A d \in Conns : SameConn(d)
  BY <1>0, CancelledKeeps DEF IInv, SameConn
<1>7. Begins(p) /\ Moves(p) /\ policy'[p].pending /\ policy'[p].gen = g
  BY <1>0, <1>1, BegunHolds DEF Moves, Begins
<1>8. /\ \A d \in Conns : ~ConnOwes(d, p) /\ ~WatchOwes(d, p)
      /\ \A v \in tasks : ~TaskOwes(v, p)
  BY <1>0, NobodyOwes
<1> HIDE DEF p, o
<1>9. ActorsHold'
  <2>1. ASSUME NEW d \in Conns PROVE ConnPlaced(d)' /\ WatchPlaced(d)'
    BY <1>0, <1>5, <1>7, <1>8, Bystanders
  <2>2. \A v \in tasks : TaskPlaced(v)'
    BY <1>0, <1>7, <1>8, Bystanders
  <2>3. TaskPlaced(u)'
    BY <1>4, <1>7 DEF TaskPlaced, Deciding, Owing
  <2>. QED BY <1>b, <2>1, <2>2, <2>3 DEF ActorsHold
<1>a. /\ \A d \in Conns, q \in Objects : WatchOwes(d, q)' <=> WatchOwes(d, q)
      /\ \A d \in Conns, q \in Objects : ConnOwes(d, q)' <=> ConnOwes(d, q)
      /\ \A v : v \in tasks' => v = u \/ (v \in tasks /\ v # t)
      /\ \A v \in tasks : v # t => v.obj # p
  BY <1>0, <1>5, <1>b DEF ConnOwes, WatchOwes, SameConn, IInv, OneOwner, p
<1>10. OneOwner'
  <2>1. ASSUME NEW q \in Objects, NEW d \in Conns, NEW e \in Conns
        PROVE  /\ ConnOwes(d, q)' /\ ConnOwes(e, q)' => d = e
               /\ WatchOwes(d, q)' /\ WatchOwes(e, q)' => d = e
               /\ ~(ConnOwes(d, q)' /\ WatchOwes(e, q)')
    BY <1>a DEF IInv, OneOwner
  <2>2. ASSUME NEW q \in Objects, NEW d \in Conns, NEW v \in tasks'
        PROVE  ~(TaskOwes(v, q) /\ (ConnOwes(d, q)' \/ WatchOwes(d, q)'))
    <3>1. CASE v = u
      BY <1>4, <1>8, <1>a, <3>1 DEF TaskOwes
    <3>2. CASE v # u
      BY <1>a, <3>2 DEF IInv, OneOwner
    <3>. QED BY <3>1, <3>2
  <2>3. ASSUME NEW v \in tasks', NEW w \in tasks', v.obj = w.obj PROVE v = w
    BY <1>4, <1>a, <2>3 DEF IInv, OneOwner
  <2>. QED BY <2>1, <2>2, <2>3 DEF OneOwner, TaskOwes
<1>11. Purging(p, previous)'
  <2>1. u \in tasks' /\ TaskOwes(u, p) /\ u.prev = previous
    BY <1>4, <1>b DEF TaskOwes
  <2>. QED BY <2>1 DEF Purging, TaskOwes
<1>12. \A q \in Objects : \A y : Purging(q, y) => Purging(q, y)'
  <2> SUFFICES ASSUME NEW q \in Objects, NEW y, Purging(q, y) PROVE Purging(q, y)'
    OBVIOUS
  <2>1. \A v \in tasks : TaskOwes(v, q) => v \in tasks'
    BY <1>0, <1>b DEF TaskOwes
  <2>2. out' = out /\ watch' = watch
    BY <1>0 DEF pipeline
  <2>. QED BY <1>a, <2>1, <2>2 DEF Purging, Queued, TaskOwes
<1>13. \A d \in Conns : conn'[d].obj <= made /\ watch'[d].obj <= made
  BY <1>0, <1>5 DEF IInv, AdmissionTypeOK, SameConn
<1>14. tasks' \subseteq TaskType /\ watch' \in [Conns -> WatchType]
  BY <1>0, <1>4, <1>b, Typed DEF IInv
<1>15. NoContext \in Contexts \cup {NoContext}
  OBVIOUS
<1>. QED BY <1>0, <1>1, <1>5, <1>9, <1>10, <1>11, <1>12, <1>13, <1>14, <1>15, BeginningHolds

-----------------------------------------------------------------------------
(* A transition ends: its marker is in the channel, behind every record of *)
(* the generations before it.                                              *)

\* What is appended comes last.
LEMMA Appended ==
    ASSUME AdmissionTypeOK, NEW r \in Records("data") \cup Records("marker"), Len(out) < OutMax,
           out' = Append(out, r)
    PROVE  /\ out' \in Seq(Records("data") \cup Records("marker")) /\ Len(out') <= OutMax
           /\ Len(out') = Len(out) + 1 /\ Len(out) \in Nat
           /\ out'[Len(out) + 1] = r /\ \A i \in 1..Len(out) : out'[i] = out[i]
<1>1. /\ out \in Seq(Records("data") \cup Records("marker")) /\ Len(out) \in Nat
  BY Typed
<1>2. /\ out' \in Seq(Records("data") \cup Records("marker")) /\ Len(out') = Len(out) + 1
      /\ out'[Len(out) + 1] = r /\ \A i \in 1..Len(out) : out'[i] = out[i]
  BY <1>1, AppendProperties
<1>. QED BY <1>1, <1>2, Constants

\* completeTransition.
LEMMA CompletedHolds ==
    ASSUME IInv, NEW p \in Objects, NEW m \in Records("marker"), m.obj = p, Owing(p, m.gen),
           Completed(p, m), UNCHANGED <<inHand, live, stopped>>
    PROVE  /\ Ends(p) /\ PoliciesHold' /\ policy' \in [Objects -> PolicyType]
           /\ \A q \in Objects : Cardinality(policy'[q].sessions) <= MaxSessions
           /\ out' \in Seq(Records("data") \cup Records("marker")) /\ Len(out') <= OutMax
           /\ RecordsHold' /\ Ordered'
           /\ \A q \in Objects : \A x : Queued(q, x) => Queued(q, x)'
           /\ stopped \/ \A x : x = m.ctx => Queued(p, x)'
<1> USE DEF IInv
<1>1. /\ policy' = [policy EXCEPT ![p].pending = FALSE] /\ policy \in [Objects -> PolicyType]
  BY Typed DEF Completed
<1>2. /\ policy'[p].gen = policy[p].gen /\ policy'[p].current = policy[p].current
      /\ policy'[p].sessions = policy[p].sessions /\ policy'[p].pending = FALSE
      /\ policy'[p] \in PolicyType /\ policy' \in [Objects -> PolicyType]
      /\ \A q \in Objects \ {p} : policy'[q] = policy[q]
  <2>1. PICK old \in PolicyType : old = policy[p]
    BY <1>1
  <2>2. PICK new : new = [old EXCEPT !.pending = FALSE]
    OBVIOUS
  <2>3. /\ new \in PolicyType /\ new.pending = FALSE
        /\ new.gen = old.gen /\ new.current = old.current /\ new.sessions = old.sessions
    BY <2>2 DEF PolicyType
  <2>4. policy' = [policy EXCEPT ![p] = new]
    BY <1>1, <2>1, <2>2
  <2>5. policy'[p] = new /\ \A q \in Objects \ {p} : policy'[q] = policy[q]
    BY <1>1, <2>4
  <2>6. policy' \in [Objects -> PolicyType]
    BY <1>1, <2>3, <2>4
  <2>7. policy'[p].gen = policy[p].gen /\ policy'[p].current = policy[p].current
        /\ policy'[p].sessions = policy[p].sessions /\ policy'[p].pending = FALSE
    BY <2>1, <2>3, <2>5
  <2>8. policy'[p] \in PolicyType
    BY <2>3, <2>5
  <2>. QED BY <2>5, <2>6, <2>7, <2>8
<1>3. Ends(p) /\ Moves(p)
  BY <1>2 DEF Ends, Touches, Moves
<1>4. \A q \in Objects : policy'[q].sessions = policy[q].sessions
  BY <1>2
<1>5. \A q \in Objects : Cardinality(policy'[q].sessions) <= MaxSessions
  BY <1>4 DEF AdmissionTypeOK
<1>6. PoliciesHold'
  BY <1>2, <1>4 DEF PoliciesHold
<1>7. CASE UNCHANGED out /\ stopped
  <2>1. RecordsHold' /\ Ordered'
    BY <1>3, <1>7, RecordsKept
  <2>2. \A q \in Objects : \A x : Queued(q, x) => Queued(q, x)'
    BY <1>7 DEF Queued
  <2>. QED BY <1>2, <1>3, <1>5, <1>6, <1>7, <2>1, <2>2, Typed
<1>8. CASE Len(out) < OutMax /\ out' = Append(out, m)
  <2>1. /\ out' \in Seq(Records("data") \cup Records("marker")) /\ Len(out') <= OutMax
        /\ Len(out') = Len(out) + 1 /\ Len(out) \in Nat
        /\ out'[Len(out) + 1] = m /\ \A i \in 1..Len(out) : out'[i] = out[i]
    BY <1>8, Appended
  <2>2. m.kind = "marker" /\ m.gen \in Nat
    BY DEF Records
  <2>3. Contributions' = Contributions
    BY DEF Contributions
  <2>4. \A x \in Contributions : Made(x)'
    BY <1>3, RecordKept, ContributionTypes DEF RecordsHold
  <2>5. ASSUME NEW i \in 1..Len(out'), out'[i].kind = "data"
        PROVE  /\ i \in 1..Len(out) /\ out'[i] = out[i]
               /\ (Made(out[i]) /\ Seen(out[i].obj, out[i].gen))'
    <3>1. i \in 1..Len(out) /\ out'[i] = out[i]
      BY <2>1, <2>2, <2>5
    <3>2. PICK x : x = out[i]
      OBVIOUS
    <3>3. x \in Records("data") /\ Made(x) /\ Seen(x.obj, x.gen) /\ out'[i] = x
      BY <2>5, <3>1, <3>2, ContributionTypes DEF RecordsHold
    <3>4. Made(x)' /\ Seen(x.obj, x.gen)'
      BY <1>3, <3>3, RecordKept
    <3>. QED BY <3>1, <3>3, <3>4 DEF Made, Seen, Under
  <2>6. RecordsHold'
    BY <2>3, <2>4, <2>5 DEF RecordsHold, Made, Under
  <2>7. Ordered'
    <3> SUFFICES ASSUME NEW i \in 1..Len(out'), NEW j \in 1..Len(out'), i < j, out'[i].kind = "data",
                        out'[j].kind = "marker", out'[j].obj = out'[i].obj
                 PROVE  out'[j].gen > out'[i].gen
      BY DEF Ordered
    <3>1. i \in 1..Len(out) /\ out'[i] = out[i]
      BY <2>5
    <3>2. CASE j = Len(out) + 1
      <4>1. out'[j] = m /\ out[i].obj = p
        BY <2>1, <3>1, <3>2
      <4>2. out[i] \in Records("data") /\ Seen(out[i].obj, out[i].gen)
        BY <3>1, ContributionTypes DEF RecordsHold
      <4>3. out[i].gen \in Nat /\ policy[p].gen \in Nat
        BY <1>1, <4>2, Fields DEF Records
      <4>. QED BY <3>1, <4>1, <4>2, <4>3 DEF Seen, Owing
    <3>3. CASE j # Len(out) + 1
      <4>1. j \in 1..Len(out) /\ out'[j] = out[j]
        BY <2>1, <3>3
      <4>. QED BY <3>1, <4>1 DEF Ordered
    <3>. QED BY <3>2, <3>3
  <2>8. \A q \in Objects : \A x : Queued(q, x) => Queued(q, x)'
    BY <2>1 DEF Queued
  <2>9. \A x : x = m.ctx => Queued(p, x)'
    BY <2>1, <2>2 DEF Queued
  <2>. QED BY <1>2, <1>3, <1>5, <1>6, <2>1, <2>6, <2>7, <2>8, <2>9
<1>. QED BY <1>7, <1>8 DEF Completed

\* The parts of a step that ends a transition make the whole.
LEMMA EndingHolds ==
    ASSUME IInv, NEW p \in Objects, NEW m \in Records("marker"), m.obj = p, Owing(p, m.gen),
           Completed(p, m), UNCHANGED <<environment, table, made, inHand, live, stopped>>,
           conn' \in [Conns -> ConnType], watch' \in [Conns -> WatchType], tasks' \subseteq TaskType,
           \A d \in Conns : conn'[d].obj <= made /\ watch'[d].obj <= made,
           ActorsHold', OneOwner',
           \A q \in Objects : \A x : Purging(q, x) => Purging(q, x)' \/ stopped
    PROVE  IInv'
<1>0. /\ UNCHANGED <<authority, changes, outages, table, made, inHand, live, stopped>>
  BY DEF environment
<1>1. /\ Ends(p) /\ PoliciesHold' /\ policy' \in [Objects -> PolicyType]
      /\ \A q \in Objects : Cardinality(policy'[q].sessions) <= MaxSessions
      /\ out' \in Seq(Records("data") \cup Records("marker")) /\ Len(out') <= OutMax
      /\ RecordsHold' /\ Ordered'
  BY <1>0, CompletedHolds
<1>2. AdmissionTypeOK'
  BY <1>0, <1>1 DEF IInv, AdmissionTypeOK
<1>3. TableHolds'
  BY <1>0 DEF IInv, TableHolds
<1>4. Purged'
  BY <1>0, <1>1, PurgedKept
<1>. QED BY <1>1, <1>2, <1>3, <1>4 DEF IInv

\* The handshake that began it sends its marker and goes on, or is refused
\* because the daemon stops.
LEMMA AdmitMarkerHolds ==
    ASSUME IInv, NEW c \in Conns, AdmitMarker(c)
    PROVE  IInv'
<1>p. PICK p, m : p = conn[c].obj /\ m = ConnMarker(c)
  OBVIOUS
<1>0. /\ conn[c].pc = "marker" /\ p \in Objects /\ watch[c].pc = "off" /\ Owing(p, conn[c].gen)
      /\ conn[c] \in ConnType /\ watch[c] \in WatchType /\ conn \in [Conns -> ConnType]
      /\ watch \in [Conns -> WatchType] /\ made \in Nat
      /\ Completed(p, m)
      /\ UNCHANGED <<environment, table, made, tasks, inHand, live, stopped>>
  <2>1. ConnPlaced(c) /\ conn[c] \in ConnType /\ watch[c] \in WatchType /\ conn \in [Conns -> ConnType]
        /\ watch \in [Conns -> WatchType] /\ made \in Nat
    BY Typed DEF IInv, ActorsHold
  <2>. QED BY <1>p, <2>1 DEF AdmitMarker, ConnPlaced, Handshaking
<1>1. m \in Records("marker") /\ m.obj = p /\ m.gen = conn[c].gen /\ m.ctx = watch[c].ctx
  BY <1>0, <1>p DEF ConnMarker, Marker, Records, ConnType, WatchType
<1>2. /\ Ends(p) /\ \A q \in Objects : \A x : Queued(q, x) => Queued(q, x)'
      /\ stopped \/ \A x : x = m.ctx => Queued(p, x)'
  BY <1>0, <1>1, CompletedHolds
<1>3. PICK next : /\ next = Off \/ next = [conn[c] EXCEPT !.pc = "loop"]
                  /\ conn' = [conn EXCEPT ![c] = next]
  <2>1. CASE out' = out
    BY <2>1 DEF AdmitMarker
  <2>2. CASE out' # out
    BY <2>2 DEF AdmitMarker
  <2>. QED BY <2>1, <2>2
<1>4. next \in ConnType /\ next.obj <= made /\ (next.pc = "off" \/ (next.pc = "loop" /\ next.obj = p))
  <2>1. Off.pc = "off" /\ Off.obj = 0
    BY DEF Off
  <2>2. conn[c].obj <= made
    BY DEF IInv, AdmissionTypeOK
  <2>3. CASE next = Off
    <3>1. next \in ConnType /\ next.pc = "off" /\ next.obj = 0
      BY <2>1, <2>3, RestTypes
    <3>2. 0 <= made /\ 0 \in Nat /\ made \in Nat
      BY <1>0
    <3>3. next.obj <= made
      BY <3>1, <3>2
    <3>. QED BY <3>1, <3>3
  <2>4. CASE next = [conn[c] EXCEPT !.pc = "loop"]
    BY <1>0, <1>p, <2>2, <2>4 DEF ConnType
  <2>. QED BY <1>3, <2>3, <2>4
<1>5. /\ conn' \in [Conns -> ConnType] /\ conn'[c] = next /\ \A d \in Conns \ {c} : conn'[d] = conn[d]
      /\ watch' \in [Conns -> WatchType] /\ watch'[c] = NoWatch /\ \A d \in Conns \ {c} : watch'[d] = watch[d]
  BY <1>0, <1>3, <1>4, RestTypes DEF AdmitMarker
<1>6. NoWatch.pc = "off" /\ NoWatch.obj = 0
  BY DEF NoWatch
<1>7. /\ \A d \in Conns : ConnOwes(d, p) => d = c
      /\ \A d \in Conns : ~WatchOwes(d, p)
      /\ \A t \in tasks : ~TaskOwes(t, p)
  BY <1>0, <1>p DEF IInv, OneOwner, ConnOwes
<1>8. ActorsHold'
  <2>1. ASSUME NEW d \in Conns, d # c PROVE ConnPlaced(d)' /\ WatchPlaced(d)'
    <3>1. SameConn(d)
      BY <1>5, <2>1 DEF SameConn
    <3>. QED BY <1>0, <1>2, <1>5, <1>7, <2>1, <3>1, Bystanders DEF Moves
  <2>2. ConnPlaced(c)' /\ WatchPlaced(c)'
    BY <1>0, <1>4, <1>5, <1>6 DEF ConnPlaced, WatchPlaced
  <2>3. \A t \in tasks' : TaskPlaced(t)'
    BY <1>0, <1>2, <1>7, Bystanders DEF Moves
  <2>. QED BY <2>1, <2>2, <2>3 DEF ActorsHold
<1>9. /\ \A d \in Conns, q \in Objects : ConnOwes(d, q)' <=> (ConnOwes(d, q) /\ d # c)
      /\ \A d \in Conns, q \in Objects : WatchOwes(d, q)' <=> WatchOwes(d, q)
      /\ tasks' = tasks
  BY <1>0, <1>4, <1>5, <1>6 DEF ConnOwes, WatchOwes
<1>10. OneOwner'
  BY <1>9 DEF IInv, OneOwner, TaskOwes
<1>11. \A q \in Objects : \A x : Purging(q, x) => Purging(q, x)' \/ stopped
  <2> SUFFICES ASSUME NEW q \in Objects, NEW x, Purging(q, x), ~stopped PROVE Purging(q, x)'
    OBVIOUS
  <2>1. CASE Queued(q, x)
    BY <1>2, <2>1 DEF Purging
  <2>2. CASE \E t \in tasks : TaskOwes(t, q) /\ t.prev = x
    BY <1>9, <2>2 DEF Purging, TaskOwes
  <2>3. CASE \E d \in Conns : (ConnOwes(d, q) \/ WatchOwes(d, q)) /\ watch[d].ctx = x
    <3>1. PICK d \in Conns : (ConnOwes(d, q) \/ WatchOwes(d, q)) /\ watch[d].ctx = x
      BY <2>3
    <3>2. CASE d # c
      BY <1>5, <1>9, <3>1, <3>2 DEF Purging
    <3>3. CASE d = c
      <4>1. q = p /\ x = m.ctx
        BY <1>0, <1>1, <1>p, <3>1, <3>3 DEF ConnOwes, WatchOwes
      <4>. QED BY <1>2, <4>1 DEF Purging
    <3>. QED BY <3>2, <3>3
  <2>. QED BY <2>1, <2>2, <2>3 DEF Purging
<1>12. \A d \in Conns : conn'[d].obj <= made /\ watch'[d].obj <= made
  <2>1. \A d \in Conns : conn[d].obj <= made /\ watch[d].obj <= made
    BY DEF IInv, AdmissionTypeOK
  <2>2. conn'[c].obj <= made /\ watch'[c].obj <= made
    <3>1. watch'[c].obj = 0
      BY <1>5, <1>6
    <3>. QED BY <1>0, <1>4, <1>5, <3>1
  <2>3. \A d \in Conns \ {c} : conn'[d].obj <= made /\ watch'[d].obj <= made
    BY <1>5, <2>1
  <2>. QED BY <2>2, <2>3
<1>13. tasks' \subseteq TaskType
  BY <1>0, Typed DEF IInv
<1>. QED BY <1>0, <1>1, <1>5, <1>8, <1>10, <1>11, <1>12, <1>13, EndingHolds

\* The watcher that began it sends its marker and is done.
LEMMA WatchMarkerHolds ==
    ASSUME IInv, NEW c \in Conns, WatchMarker(c)
    PROVE  IInv'
<1>p. PICK p, m : p = watch[c].obj /\ m = WatcherMarker(c)
  OBVIOUS
<1>0. /\ watch[c].pc = "marker" /\ p \in Objects /\ conn[c].pc \notin Handshaking /\ Owing(p, watch[c].gen)
      /\ watch[c] \in WatchType /\ conn \in [Conns -> ConnType]
      /\ watch \in [Conns -> WatchType] /\ made \in Nat
      /\ Completed(p, m) /\ conn' = conn
      /\ UNCHANGED <<environment, table, made, tasks, inHand, live, stopped>>
  <2>1. WatchPlaced(c) /\ ConnPlaced(c) /\ watch[c] \in WatchType /\ conn \in [Conns -> ConnType]
        /\ watch \in [Conns -> WatchType] /\ made \in Nat
    BY Typed DEF IInv, ActorsHold
  <2>. QED BY <1>p, <2>1 DEF WatchMarker, WatchPlaced, ConnPlaced
<1>1. m \in Records("marker") /\ m.obj = p /\ m.gen = watch[c].gen /\ m.ctx = watch[c].ctx
  BY <1>0, <1>p DEF WatcherMarker, Marker, Records, WatchType
<1>2. /\ Ends(p) /\ \A q \in Objects : \A x : Queued(q, x) => Queued(q, x)'
      /\ stopped \/ \A x : x = m.ctx => Queued(p, x)'
  BY <1>0, <1>1, CompletedHolds
<1>5. watch' \in [Conns -> WatchType] /\ watch'[c] = NoWatch /\ \A d \in Conns \ {c} : watch'[d] = watch[d]
  BY <1>0, RestTypes DEF WatchMarker
<1>6. NoWatch.pc = "off" /\ NoWatch.obj = 0
  BY DEF NoWatch
<1>7. /\ \A d \in Conns : WatchOwes(d, p) => d = c
      /\ \A d \in Conns : ~ConnOwes(d, p)
      /\ \A t \in tasks : ~TaskOwes(t, p)
  BY <1>0, <1>p DEF IInv, OneOwner, WatchOwes
<1>8. ActorsHold'
  <2>1. ASSUME NEW d \in Conns PROVE ConnPlaced(d)'
    <3>1. SameConn(d) /\ (conn[d].pc \in Handshaking => watch'[d].pc = watch[d].pc)
      BY <1>0, <1>5 DEF SameConn
    <3>. QED BY <1>0, <1>2, <1>7, <3>1, Bystanders DEF Moves
  <2>2. ASSUME NEW d \in Conns, d # c PROVE WatchPlaced(d)'
    BY <1>0, <1>2, <1>5, <1>7, <2>2, Bystanders DEF Moves
  <2>3. WatchPlaced(c)'
    BY <1>5, <1>6 DEF WatchPlaced
  <2>4. \A t \in tasks' : TaskPlaced(t)'
    BY <1>0, <1>2, <1>7, Bystanders DEF Moves
  <2>. QED BY <2>1, <2>2, <2>3, <2>4 DEF ActorsHold
<1>9. /\ \A d \in Conns, q \in Objects : WatchOwes(d, q)' <=> (WatchOwes(d, q) /\ d # c)
      /\ \A d \in Conns, q \in Objects : ConnOwes(d, q)' <=> ConnOwes(d, q)
      /\ tasks' = tasks
  BY <1>0, <1>5, <1>6 DEF ConnOwes, WatchOwes
<1>10. OneOwner'
  BY <1>9 DEF IInv, OneOwner, TaskOwes
<1>11. \A q \in Objects : \A x : Purging(q, x) => Purging(q, x)' \/ stopped
  <2> SUFFICES ASSUME NEW q \in Objects, NEW x, Purging(q, x), ~stopped PROVE Purging(q, x)'
    OBVIOUS
  <2>1. CASE Queued(q, x)
    BY <1>2, <2>1 DEF Purging
  <2>2. CASE \E t \in tasks : TaskOwes(t, q) /\ t.prev = x
    BY <1>9, <2>2 DEF Purging, TaskOwes
  <2>3. CASE \E d \in Conns : (ConnOwes(d, q) \/ WatchOwes(d, q)) /\ watch[d].ctx = x
    <3>1. PICK d \in Conns : (ConnOwes(d, q) \/ WatchOwes(d, q)) /\ watch[d].ctx = x
      BY <2>3
    <3>2. CASE d # c
      BY <1>5, <1>9, <3>1, <3>2 DEF Purging
    <3>3. CASE d = c
      <4>1. q = p /\ x = m.ctx
        BY <1>0, <1>1, <1>p, <3>1, <3>3 DEF ConnOwes, WatchOwes, Handshaking
      <4>. QED BY <1>2, <4>1 DEF Purging
    <3>. QED BY <3>2, <3>3
  <2>. QED BY <2>1, <2>2, <2>3 DEF Purging
<1>12. \A d \in Conns : conn'[d].obj <= made /\ watch'[d].obj <= made
  BY <1>0, <1>5, <1>6 DEF IInv, AdmissionTypeOK
<1>13. tasks' \subseteq TaskType
  BY <1>0, Typed DEF IInv
<1>. QED BY <1>0, <1>1, <1>5, <1>8, <1>10, <1>11, <1>12, <1>13, EndingHolds

\* The sweep sends the marker of a withdrawal.
LEMMA WithdrawMarkerHolds ==
    ASSUME IInv, NEW t \in tasks, WithdrawMarker(t)
    PROVE  IInv'
<1>p. PICK p, m : p = t.obj /\ m = TaskMarker(t)
  OBVIOUS
<1>0. /\ t.verdict = "marker" /\ p \in Objects /\ Owing(p, t.gen) /\ t \in TaskType
      /\ Completed(p, m) /\ conn' = conn /\ watch' = watch /\ tasks' = tasks \ {t}
      /\ UNCHANGED <<environment, table, made, inHand, live, stopped>>
  <2>1. TaskPlaced(t) /\ t \in TaskType
    BY Typed DEF IInv, ActorsHold
  <2>. QED BY <1>p, <2>1 DEF WithdrawMarker, TaskPlaced, TaskType
<1>1. m \in Records("marker") /\ m.obj = p /\ m.gen = t.gen /\ m.ctx = t.prev
  BY <1>0, <1>p DEF TaskMarker, Marker, Records, TaskType
<1>2. /\ Ends(p) /\ \A q \in Objects : \A x : Queued(q, x) => Queued(q, x)'
      /\ stopped \/ \A x : x = m.ctx => Queued(p, x)'
  BY <1>0, <1>1, CompletedHolds
<1>7. /\ \A d \in Conns : ~ConnOwes(d, p) /\ ~WatchOwes(d, p)
      /\ \A u \in tasks \ {t} : ~TaskOwes(u, p)
  BY <1>0, <1>p DEF IInv, OneOwner, TaskOwes
<1>8. ActorsHold'
  <2>1. ASSUME NEW d \in Conns PROVE ConnPlaced(d)' /\ WatchPlaced(d)'
    <3>1. SameConn(d)
      BY <1>0 DEF SameConn
    <3>. QED BY <1>0, <1>2, <1>7, <3>1, Bystanders DEF Moves
  <2>2. \A u \in tasks' : TaskPlaced(u)'
    BY <1>0, <1>2, <1>7, Bystanders DEF Moves
  <2>. QED BY <2>1, <2>2 DEF ActorsHold
<1>10. OneOwner'
  BY <1>0 DEF IInv, OneOwner, TaskOwes, ConnOwes, WatchOwes
<1>11. \A q \in Objects : \A x : Purging(q, x) => Purging(q, x)' \/ stopped
  <2> SUFFICES ASSUME NEW q \in Objects, NEW x, Purging(q, x), ~stopped PROVE Purging(q, x)'
    OBVIOUS
  <2>1. CASE Queued(q, x)
    BY <1>2, <2>1 DEF Purging
  <2>2. CASE \E u \in tasks : TaskOwes(u, q) /\ u.prev = x
    <3>1. PICK u \in tasks : TaskOwes(u, q) /\ u.prev = x
      BY <2>2
    <3>2. CASE u # t
      BY <1>0, <3>1, <3>2 DEF Purging, TaskOwes
    <3>3. CASE u = t
      <4>1. q = p /\ x = m.ctx
        BY <1>1, <1>p, <3>1, <3>3 DEF TaskOwes
      <4>. QED BY <1>2, <4>1 DEF Purging
    <3>. QED BY <3>2, <3>3
  <2>3. CASE \E d \in Conns : (ConnOwes(d, q) \/ WatchOwes(d, q)) /\ watch[d].ctx = x
    BY <1>0, <2>3 DEF Purging, ConnOwes, WatchOwes
  <2>. QED BY <2>1, <2>2, <2>3 DEF Purging
<1>12. /\ \A d \in Conns : conn'[d].obj <= made /\ watch'[d].obj <= made
       /\ conn' \in [Conns -> ConnType] /\ watch' \in [Conns -> WatchType] /\ tasks' \subseteq TaskType
  BY <1>0, Typed DEF IInv, AdmissionTypeOK
<1>. QED BY <1>0, <1>1, <1>8, <1>10, <1>11, <1>12, EndingHolds

-----------------------------------------------------------------------------
(* The steps that neither begin nor end a transition.                      *)

\* Their parts make the whole.
LEMMA QuietHolds ==
    ASSUME IInv, NEW p \in Objects, Stays(p), UNCHANGED <<out, inHand, live>>, stopped => stopped',
           AdmissionTypeOK', TableHolds', PoliciesHold', ActorsHold', OneOwner',
           \A q \in Objects : \A x : Purging(q, x) => Purging(q, x)'
    PROVE  IInv'
<1>1. RecordsHold' /\ Ordered'
  BY RecordsKept DEF Moves
<1>2. Purged'
  BY PurgedKept
<1>. QED BY <1>1, <1>2 DEF IInv

\* The handshake ends: a session of the policy's generation, or one too many.
LEMMA AdmitOpenHolds ==
    ASSUME IInv, NEW c \in Conns, AdmitOpen(c)
    PROVE  IInv'
<1>p. PICK p, g, x : p = conn[c].obj /\ x = conn[c].ctx /\ g = IF policy[p].gen = 0 THEN 1 ELSE policy[p].gen
  OBVIOUS
<1>0. /\ conn[c].pc = "loop" /\ p \in Objects /\ watch[c].pc = "off" /\ policy[p].pending = FALSE
      /\ conn[c] \in ConnType /\ conn \in [Conns -> ConnType] /\ watch \in [Conns -> WatchType]
      /\ policy \in [Objects -> PolicyType] /\ made \in Nat /\ made <= MaxObjects
      /\ UNCHANGED <<environment, table, made, tasks, pipeline, stopped>>
      /\ policy[p].gen = 0 \/ policy[p].current = x
  <2>1. ConnPlaced(c) /\ conn[c] \in ConnType /\ conn \in [Conns -> ConnType] /\ watch \in [Conns -> WatchType]
        /\ policy \in [Objects -> PolicyType] /\ made \in Nat /\ made <= MaxObjects
    BY Typed, Constants DEF IInv, ActorsHold
  <2>2. conn[c].pc = "loop" /\ ~policy[p].pending /\ (policy[p].gen = 0 \/ policy[p].current = x)
        /\ UNCHANGED <<environment, table, made, tasks, pipeline, stopped>>
    BY <1>p DEF AdmitOpen, Pending
  <2>3. p \in Objects /\ watch[c].pc = "off"
    BY <1>p, <2>1, <2>2 DEF ConnPlaced, Handshaking
  <2>. QED BY <2>1, <2>2, <2>3, Fields
<1>1. policy[p].gen \in Nat /\ g \in Nat /\ g >= 1 /\ x \in Contexts \cup {NoContext} /\ policy[p] \in PolicyType
  BY <1>0, <1>p, Fields DEF ConnType
<1>2. CASE Crowded(c)
  <2>1. conn' = [conn EXCEPT ![c] = Off] /\ UNCHANGED <<policy, watch>>
    BY <1>2 DEF AdmitOpen
  <2>2. Off \in ConnType /\ Off.pc = "off" /\ Off.obj = 0
    BY RestTypes DEF Off
  <2>3. PICK next : next = Off
    OBVIOUS
  <2>4. /\ next \in ConnType /\ next.pc = "off" /\ conn' = [conn EXCEPT ![c] = next]
        /\ next.obj <= made' /\ made' \in Nat /\ made <= made' /\ made' <= MaxObjects
        /\ table' \in [Observers -> 0..MaxObjects]
    BY <1>0, <2>1, <2>2, <2>3, Typed DEF IInv
  <2>5. TableHolds'
    BY <1>0 DEF IInv, TableHolds
  <2>. QED BY <1>0, <2>1, <2>4, <2>5, ConnSteps DEF Handshaking
<1>3. CASE ~Crowded(c)
  <2>1. PICK np : np = [policy[p] EXCEPT !.gen = g, !.current = x, !.sessions = @ \cup {c},
                                         !.known = TRUE, !.aged = FALSE]
    OBVIOUS
  <2>2. /\ np \in PolicyType /\ np.gen = g /\ np.current = x /\ np.sessions = policy[p].sessions \cup {c}
        /\ np.pending = FALSE
    BY <1>0, <1>1, <2>1 DEF PolicyType
  <2>3. policy' = [policy EXCEPT ![p] = np]
    BY <1>3, <1>p, <2>1, Zenon DEF AdmitOpen
  <2>4. /\ policy' \in [Objects -> PolicyType] /\ policy'[p] = np
        /\ \A q \in Objects \ {p} : policy'[q] = policy[q]
    BY <1>0, <2>2, <2>3
  <2>5. Stays(p)
    BY <1>0, <1>1, <1>p, <2>2, <2>4 DEF Stays, Touches
  <2>6. IsFiniteSet(policy[p].sessions) /\ Cardinality(policy[p].sessions) < MaxSessions
    <3>1. IsFiniteSet(policy[p].sessions) /\ Cardinality(policy[p].sessions) \in Nat
      BY <1>0, FS_CardinalityType DEF IInv, PoliciesHold
    <3>. QED BY <1>3, <1>p, <3>1, Constants DEF Crowded
  <2>7. IsFiniteSet(np.sessions) /\ Cardinality(np.sessions) <= MaxSessions
    <3>1. /\ IsFiniteSet(policy[p].sessions \cup {c})
          /\ \/ Cardinality(policy[p].sessions \cup {c}) = Cardinality(policy[p].sessions)
             \/ Cardinality(policy[p].sessions \cup {c}) = Cardinality(policy[p].sessions) + 1
      BY <2>6, FS_AddElement
    <3>2. Cardinality(policy[p].sessions) \in Nat
      BY <2>6, FS_CardinalityType
    <3>. QED BY <2>2, <2>6, <3>1, <3>2, Constants
  <2>8. /\ \A q \in Objects : Cardinality(policy'[q].sessions) <= MaxSessions
        /\ PoliciesHold'
    <3>1. /\ \A q \in Objects : Cardinality(policy[q].sessions) <= MaxSessions
          /\ \A q \in Objects : IsFiniteSet(policy[q].sessions) /\ (policy[q].known => ~policy[q].pending)
      BY DEF IInv, AdmissionTypeOK, PoliciesHold
    <3>2. ASSUME NEW q \in Objects
          PROVE  /\ Cardinality(policy'[q].sessions) <= MaxSessions
                 /\ IsFiniteSet(policy'[q].sessions) /\ (policy'[q].known => ~policy'[q].pending)
      BY <2>2, <2>4, <2>7, <3>1
    <3>. QED BY <3>2 DEF PoliciesHold
  <2>9. PICK nc : nc = [conn[c] EXCEPT !.pc = "open", !.gen = g]
    OBVIOUS
  <2>10. nc \in ConnType /\ nc.pc = "open" /\ nc.gen = g /\ nc.obj = p /\ nc.ctx = x
    BY <1>0, <1>1, <1>p, <2>9 DEF ConnType
  <2>11. conn' = [d \in Conns |->
            IF d = c THEN nc
            ELSE [conn[d] EXCEPT !.fresh = @ /\ ~(policy[p].gen = 0 /\ conn[d].obs = conn[c].obs)]]
    BY <1>3, <1>p, <2>9 DEF AdmitOpen
  <2>12. ASSUME NEW d \in Conns, d # c PROVE SameConn(d) /\ conn'[d] \in ConnType
    <3>1. conn[d] \in ConnType
      BY <1>0
    <3>2. conn'[d] = [conn[d] EXCEPT !.fresh = @ /\ ~(policy[p].gen = 0 /\ conn[d].obs = conn[c].obs)]
      BY <2>11, <2>12
    <3>. QED BY <3>1, <3>2 DEF SameConn, ConnType
  <2>13. conn'[c] = nc /\ conn' \in [Conns -> ConnType]
    <3>1. conn'[c] = nc
      BY <2>11
    <3>2. \A d \in Conns : conn'[d] \in ConnType
      BY <2>10, <2>12, <3>1
    <3>3. conn' = [d \in Conns |-> conn'[d]]
      BY <2>11
    <3>. QED BY <3>1, <3>2, <3>3
  <2>14. PICK nw : nw = [pc |-> "idle", obs |-> conn[c].obs, obj |-> p, gen |-> g, ctx |-> NoContext]
    OBVIOUS
  <2>15. nw \in WatchType /\ nw.pc = "idle" /\ nw.obj = p /\ nw.gen = g
    BY <1>0, <1>1, <1>p, <2>14 DEF WatchType, ConnType
  <2>16. watch' = [watch EXCEPT ![c] = nw]
    BY <1>3, <1>p, <2>14 DEF AdmitOpen
  <2>17. watch' \in [Conns -> WatchType] /\ watch'[c] = nw /\ \A d \in Conns \ {c} : watch'[d] = watch[d]
    BY <1>0, <2>15, <2>16
  <2>18. AdmissionTypeOK'
    <3>1. \A d \in Conns : conn[d].obj <= made /\ watch[d].obj <= made
      BY DEF IInv, AdmissionTypeOK
    <3>2. ASSUME NEW d \in Conns PROVE conn'[d].obj <= made' /\ watch'[d].obj <= made'
      <4>1. CASE d = c
        BY <1>0, <1>p, <2>10, <2>13, <2>15, <2>17, <3>1, <4>1
      <4>2. CASE d # c
        BY <1>0, <2>12, <2>17, <3>1, <4>2 DEF SameConn
      <4>. QED BY <4>1, <4>2
    <3>3. UNCHANGED <<authority, changes, outages, table, made, tasks, out, inHand, live, stopped>>
      BY <1>0 DEF environment, pipeline
    <3>. QED BY <2>4, <2>8, <2>13, <2>17, <3>2, <3>3 DEF IInv, AdmissionTypeOK
  <2>19. TableHolds'
    BY <1>0 DEF IInv, TableHolds
  <2>20. ActorsHold'
    <3>1. ASSUME NEW d \in Conns, d # c PROVE ConnPlaced(d)' /\ WatchPlaced(d)'
      <4>1. Ends(p) => ~ConnOwes(d, p) /\ ~WatchOwes(d, p)
        BY <1>0, NobodyOwes
      <4>. QED BY <1>0, <2>5, <2>12, <2>17, <3>1, <4>1, Bystanders DEF Moves
    <3>2. Seen(p, g)' /\ Under(p, g, x)'
      BY <1>1, <2>2, <2>4 DEF Seen, Under
    <3>3. ConnPlaced(c)' /\ WatchPlaced(c)'
      BY <1>0, <1>1, <2>10, <2>13, <2>15, <2>17, <3>2 DEF ConnPlaced, WatchPlaced, Handshaking, Seen, Under
    <3>4. \A t \in tasks' : TaskPlaced(t)'
      BY <1>0, <2>5, Bystanders, NobodyOwes DEF Moves
    <3>. QED BY <3>1, <3>3, <3>4 DEF ActorsHold
  <2>21. /\ \A d \in Conns, q \in Objects : ConnOwes(d, q)' <=> ConnOwes(d, q)
         /\ \A d \in Conns, q \in Objects : WatchOwes(d, q)' <=> WatchOwes(d, q)
         /\ tasks' = tasks /\ out' = out
         /\ \A d \in Conns, q \in Objects : ConnOwes(d, q) \/ WatchOwes(d, q) => watch'[d].ctx = watch[d].ctx
    BY <1>0, <2>10, <2>12, <2>13, <2>15, <2>17 DEF ConnOwes, WatchOwes, SameConn, pipeline
  <2>22. OneOwner'
    BY <2>21 DEF IInv, OneOwner, TaskOwes
  <2>23. \A q \in Objects : \A y : Purging(q, y) => Purging(q, y)'
    BY <2>21 DEF Purging, Queued, TaskOwes
  <2>. QED BY <1>0, <2>5, <2>8, <2>18, <2>19, <2>20, <2>22, <2>23, QuietHolds DEF pipeline
<1>. QED BY <1>2, <1>3

\* The session ends and gives its place back.
LEMMA EndSessionHolds ==
    ASSUME IInv, NEW c \in Conns, EndSession(c)
    PROVE  IInv'
<1>p. PICK p : p = conn[c].obj
  OBVIOUS
<1>0. /\ conn[c].pc = "open" /\ p \in Objects
      /\ conn \in [Conns -> ConnType] /\ watch \in [Conns -> WatchType]
      /\ policy \in [Objects -> PolicyType] /\ policy[p] \in PolicyType /\ made \in Nat
      /\ UNCHANGED <<environment, table, made, tasks, pipeline, stopped>>
  <2>1. ConnPlaced(c) /\ conn \in [Conns -> ConnType] /\ watch \in [Conns -> WatchType]
        /\ policy \in [Objects -> PolicyType] /\ made \in Nat
    BY Typed DEF IInv, ActorsHold
  <2>. QED BY <1>p, <2>1 DEF EndSession, ConnPlaced
<1>1. PICK np : np = [policy[p] EXCEPT !.sessions = @ \ {c}]
  OBVIOUS
<1>2. /\ np \in PolicyType /\ np.gen = policy[p].gen /\ np.current = policy[p].current
      /\ np.sessions = policy[p].sessions \ {c} /\ np.pending = policy[p].pending /\ np.known = policy[p].known
  BY <1>0, <1>1 DEF PolicyType
<1>3. policy' = [policy EXCEPT ![p] = np]
  BY <1>p, <1>1 DEF EndSession
<1>4. /\ policy' \in [Objects -> PolicyType] /\ policy'[p] = np
      /\ \A q \in Objects \ {p} : policy'[q] = policy[q]
  BY <1>0, <1>2, <1>3
<1>5. Stays(p) /\ Moves(p)
  BY <1>2, <1>4 DEF Stays, Touches, Moves
<1>6. /\ \A q \in Objects : Cardinality(policy'[q].sessions) <= MaxSessions
      /\ PoliciesHold'
  <2>1. /\ \A q \in Objects : Cardinality(policy[q].sessions) <= MaxSessions
        /\ \A q \in Objects : IsFiniteSet(policy[q].sessions) /\ (policy[q].known => ~policy[q].pending)
    BY DEF IInv, AdmissionTypeOK, PoliciesHold
  <2>2. /\ IsFiniteSet(policy[p].sessions \ {c})
        /\ Cardinality(policy[p].sessions \ {c}) <= Cardinality(policy[p].sessions)
    <3>1. IsFiniteSet(policy[p].sessions) /\ policy[p].sessions \ {c} \subseteq policy[p].sessions
      BY <1>0, <2>1
    <3>. QED BY <3>1, FS_Subset
  <2>3. Cardinality(policy[p].sessions) \in Nat /\ Cardinality(policy[p].sessions \ {c}) \in Nat
    BY <1>0, <2>1, <2>2, FS_CardinalityType
  <2>4. Cardinality(np.sessions) <= MaxSessions /\ IsFiniteSet(np.sessions)
    <3>1. Cardinality(policy[p].sessions) <= MaxSessions
      BY <1>0, <2>1
    <3>. QED BY <1>2, <2>2, <2>3, <3>1, Constants
  <2>5. ASSUME NEW q \in Objects
        PROVE  /\ Cardinality(policy'[q].sessions) <= MaxSessions
               /\ IsFiniteSet(policy'[q].sessions) /\ (policy'[q].known => ~policy'[q].pending)
    BY <1>0, <1>2, <1>4, <2>1, <2>4
  <2>. QED BY <2>5 DEF PoliciesHold
<1>7. conn'[c] = Off /\ conn' \in [Conns -> ConnType] /\ \A d \in Conns \ {c} : conn'[d] = conn[d]
  BY <1>0, RestTypes DEF EndSession
<1>8. /\ watch' \in [Conns -> WatchType] /\ \A d \in Conns \ {c} : watch'[d] = watch[d]
      /\ watch'[c] = watch[c] \/ (watch[c].pc = "idle" /\ watch'[c] = NoWatch)
  BY <1>0, RestTypes DEF EndSession
<1>9. Off.pc = "off" /\ Off.obj = 0 /\ NoWatch.pc = "off" /\ NoWatch.obj = 0
  BY DEF Off, NoWatch
<1>10. AdmissionTypeOK'
  <2>1. \A d \in Conns : conn[d].obj <= made /\ watch[d].obj <= made
    BY DEF IInv, AdmissionTypeOK
  <2>2. ASSUME NEW d \in Conns PROVE conn'[d].obj <= made' /\ watch'[d].obj <= made'
    <3>1. conn'[d].obj = 0 \/ conn'[d].obj = conn[d].obj
      BY <1>7, <1>9
    <3>2. watch'[d].obj = 0 \/ watch'[d].obj = watch[d].obj
      BY <1>8, <1>9
    <3>3. 0 <= made /\ made' = made
      BY <1>0
    <3>. QED BY <2>1, <3>1, <3>2, <3>3
  <2>3. UNCHANGED <<authority, changes, outages, table, made, tasks, out, inHand, live, stopped>>
    BY <1>0 DEF environment, pipeline
  <2>. QED BY <1>4, <1>6, <1>7, <1>8, <2>2, <2>3 DEF IInv, AdmissionTypeOK
<1>11. TableHolds'
  BY <1>0 DEF IInv, TableHolds
<1>12. ASSUME Ends(p) PROVE policy[p].pending = FALSE
  BY <1>0, <1>2, <1>4, <1>12, Fields DEF Ends
<1>13. ActorsHold'
  <2>1. /\ \A d \in Conns : Ends(p) => ~ConnOwes(d, p) /\ ~WatchOwes(d, p)
        /\ \A t \in tasks : Ends(p) => ~TaskOwes(t, p)
    BY <1>0, <1>12, NobodyOwes
  <2>2. ASSUME NEW d \in Conns, d # c PROVE ConnPlaced(d)' /\ WatchPlaced(d)'
    <3>1. SameConn(d)
      BY <1>7, <2>2 DEF SameConn
    <3>. QED BY <1>0, <1>5, <1>8, <2>1, <2>2, <3>1, Bystanders
  <2>3. ConnPlaced(c)'
    BY <1>7, <1>9 DEF ConnPlaced, Handshaking
  <2>4. WatchPlaced(c)'
    <3>1. CASE watch'[c] = watch[c]
      BY <1>0, <1>5, <2>1, <3>1, Bystanders
    <3>2. CASE watch'[c] = NoWatch
      BY <1>9, <3>2 DEF WatchPlaced
    <3>. QED BY <1>8, <3>1, <3>2
  <2>5. \A t \in tasks' : TaskPlaced(t)'
    BY <1>0, <1>5, <2>1, Bystanders
  <2>. QED BY <2>2, <2>3, <2>4, <2>5 DEF ActorsHold
<1>14. /\ \A d \in Conns, q \in Objects : ConnOwes(d, q)' <=> ConnOwes(d, q)
       /\ \A d \in Conns, q \in Objects : WatchOwes(d, q)' <=> WatchOwes(d, q)
       /\ tasks' = tasks /\ out' = out
       /\ \A d \in Conns, q \in Objects : ConnOwes(d, q) \/ WatchOwes(d, q) => watch'[d].ctx = watch[d].ctx
  BY <1>0, <1>7, <1>8, <1>9 DEF ConnOwes, WatchOwes, pipeline
<1>15. OneOwner'
  BY <1>14 DEF IInv, OneOwner, TaskOwes
<1>16. \A q \in Objects : \A y : Purging(q, y) => Purging(q, y)'
  BY <1>14 DEF Purging, Queued, TaskOwes
<1>. QED BY <1>0, <1>5, <1>6, <1>10, <1>11, <1>13, <1>15, <1>16, QuietHolds DEF pipeline

\* A policy ages: its window has passed.
LEMMA PolicyAgesHolds ==
    ASSUME IInv, NEW p \in Objects, PolicyAges(p)
    PROVE  IInv'
<1>0. /\ policy \in [Objects -> PolicyType] /\ policy[p] \in PolicyType
      /\ UNCHANGED <<authority, outages, table, made, conn, watch, tasks, out, inHand, live, stopped>>
      /\ changes' \in 0..MaxChanges
  BY Typed, Constants DEF IInv, PolicyAges, actors, pipeline, AdmissionTypeOK
<1>1. PICK np : np = [policy[p] EXCEPT !.aged = TRUE]
  OBVIOUS
<1>2. /\ np \in PolicyType /\ np.gen = policy[p].gen /\ np.current = policy[p].current
      /\ np.sessions = policy[p].sessions /\ np.pending = policy[p].pending /\ np.known = policy[p].known
  BY <1>0, <1>1 DEF PolicyType
<1>3. policy' = [policy EXCEPT ![p] = np]
  BY <1>1 DEF PolicyAges
<1>4. /\ policy' \in [Objects -> PolicyType] /\ policy'[p] = np
      /\ \A q \in Objects \ {p} : policy'[q] = policy[q]
  BY <1>0, <1>2, <1>3
<1>5. \A q \in Objects : /\ policy'[q].gen = policy[q].gen /\ policy'[q].current = policy[q].current
                         /\ policy'[q].sessions = policy[q].sessions /\ policy'[q].pending = policy[q].pending
                         /\ policy'[q].known = policy[q].known
  BY <1>2, <1>4
<1>6. Stays(p)
  BY <1>4, <1>5 DEF Stays, Touches
<1>7. AdmissionTypeOK'
  <2>1. \A q \in Objects : Cardinality(policy'[q].sessions) <= MaxSessions
    BY <1>5 DEF IInv, AdmissionTypeOK
  <2>. QED BY <1>0, <1>4, <2>1 DEF IInv, AdmissionTypeOK
<1>8. TableHolds' /\ PoliciesHold'
  BY <1>0, <1>5 DEF IInv, TableHolds, PoliciesHold
<1>9. ActorsHold'
  <2>1. ASSUME NEW d \in Conns PROVE ConnPlaced(d)' /\ WatchPlaced(d)'
    <3>1. ConnPlaced(d) /\ WatchPlaced(d)
      BY DEF IInv, ActorsHold
    <3>. QED BY <1>0, <1>5, <3>1 DEF ConnPlaced, WatchPlaced, Seen, Under, Owing
  <2>2. ASSUME NEW t \in tasks' PROVE TaskPlaced(t)'
    <3>1. TaskPlaced(t) /\ t.obj \in Objects
      BY <1>0, Typed DEF IInv, ActorsHold, TaskType
    <3>. QED BY <1>5, <3>1 DEF TaskPlaced, Seen, Under, Owing
  <2>. QED BY <2>1, <2>2 DEF ActorsHold
<1>10. OneOwner' /\ \A q \in Objects : \A x : Purging(q, x) => Purging(q, x)'
  BY <1>0, OwnersKept
<1>. QED BY <1>0, <1>6, <1>7, <1>8, <1>9, <1>10, QuietHolds

\* Only the authority, the counters or the stop change, or nothing does.
LEMMA OutsideHolds ==
    ASSUME IInv, UNCHANGED <<policies, actors, pipeline>>, stopped' \in BOOLEAN, stopped => stopped',
           authority' \in [Observers -> Contexts \cup {NoContext}],
           changes' \in 0..MaxChanges, outages' \in 0..MaxOutages
    PROVE  IInv'
<1>0. UNCHANGED <<table, made, policy, conn, watch, tasks, out, inHand, live>>
  BY DEF policies, actors, pipeline
<1>1. 1 \in Objects /\ Stays(1)
  BY <1>0, NoMove DEF IInv
<1>2. AdmissionTypeOK'
  BY <1>0 DEF IInv, AdmissionTypeOK
<1>3. TableHolds' /\ PoliciesHold'
  BY <1>0 DEF IInv, TableHolds, PoliciesHold
<1>4. ActorsHold'
  BY <1>0 DEF IInv, ActorsHold, ConnPlaced, WatchPlaced, TaskPlaced, Seen, Under, Owing
<1>5. OneOwner' /\ \A q \in Objects : \A x : Purging(q, x) => Purging(q, x)'
  BY <1>0, OwnersKept
<1>. QED BY <1>0, <1>1, <1>2, <1>3, <1>4, <1>5, QuietHolds

-----------------------------------------------------------------------------
(* Watchers and the sweep, before they change a policy.                    *)

\* A watcher decides, or finds that it came too late.
LEMMA WatcherHolds ==
    ASSUME IInv, NEW c \in Conns,
           \/ Recheck(c)
           \/ WatchChange(c) /\ ~Current(watch[c].obj, watch[c].gen)
    PROVE  IInv'
<1>0. /\ watch \in [Conns -> WatchType] /\ watch[c] \in WatchType /\ conn \in [Conns -> ConnType]
      /\ authority \in [Observers -> Contexts \cup {NoContext}] /\ conn[c].obs \in Observers
      /\ ConnPlaced(c) /\ WatchPlaced(c) /\ made \in Nat
  BY Typed DEF IInv, ActorsHold, ConnType
<1>1. /\ UNCHANGED <<authority, changes, table, made, policy, conn, tasks, out, inHand, live, stopped>>
      /\ outages' \in 0..MaxOutages
  <2>1. outages \in 0..MaxOutages
    BY DEF IInv, AdmissionTypeOK
  <2>2. CASE Recheck(c)
    BY <2>1, <2>2, Constants DEF Recheck, policies, pipeline
  <2>3. CASE WatchChange(c) /\ ~Current(watch[c].obj, watch[c].gen)
    BY <2>1, <2>3 DEF WatchChange, environment, pipeline
  <2>. QED BY <2>2, <2>3
<1>2. PICK next \in WatchType :
         /\ watch' = [watch EXCEPT ![c] = next] /\ watch[c].pc \in {"idle", "decided"}
         /\ \/ next.pc = "decided" /\ next.obj = watch[c].obj /\ next.gen = watch[c].gen
            \/ next.pc = "off" /\ next.obj = 0
  <2>1. CASE Recheck(c)
    <3>1. PICK x \in Contexts \cup {NoContext} : watch' = [watch EXCEPT ![c].pc = "decided", ![c].ctx = x]
      BY <1>0, <2>1 DEF Recheck
    <3>2. PICK next : next = [watch[c] EXCEPT !.pc = "decided", !.ctx = x]
      OBVIOUS
    <3>3. next \in WatchType /\ next.pc = "decided" /\ next.obj = watch[c].obj /\ next.gen = watch[c].gen
      BY <1>0, <3>2 DEF WatchType
    <3>4. watch' = [watch EXCEPT ![c] = next]
      BY <1>0, <3>1, <3>2 DEF WatchType
    <3>. QED BY <2>1, <3>3, <3>4 DEF Recheck
  <2>2. CASE WatchChange(c) /\ ~Current(watch[c].obj, watch[c].gen)
    <3>1. watch' = [watch EXCEPT ![c] = NoWatch] /\ watch[c].pc = "decided"
      BY <2>2 DEF WatchChange
    <3>2. NoWatch \in WatchType /\ NoWatch.pc = "off" /\ NoWatch.obj = 0
      BY RestTypes DEF NoWatch
    <3>. QED BY <3>1, <3>2
  <2>. QED BY <2>1, <2>2
<1>3. /\ watch' \in [Conns -> WatchType] /\ watch'[c] = next /\ \A d \in Conns \ {c} : watch'[d] = watch[d]
      /\ conn[c].pc \notin Handshaking
  BY <1>0, <1>2 DEF ConnPlaced
<1>4. 1 \in Objects /\ Stays(1) /\ ~Begins(1)
  BY <1>1, NoMove DEF IInv
<1>5. AdmissionTypeOK'
  <2>1. \A d \in Conns : conn[d].obj <= made /\ watch[d].obj <= made
    BY DEF IInv, AdmissionTypeOK
  <2>2. ASSUME NEW d \in Conns PROVE conn'[d].obj <= made' /\ watch'[d].obj <= made'
    <3>1. watch'[d].obj = 0 \/ watch'[d].obj = watch[d].obj
      BY <1>2, <1>3
    <3>2. 0 <= made /\ made' = made /\ conn' = conn
      BY <1>0, <1>1
    <3>. QED BY <2>1, <3>1, <3>2
  <2>. QED BY <1>1, <1>3, <2>2 DEF IInv, AdmissionTypeOK
<1>6. TableHolds' /\ PoliciesHold'
  BY <1>1 DEF IInv, TableHolds, PoliciesHold
<1>7. ActorsHold'
  <2>1. ASSUME NEW d \in Conns PROVE ConnPlaced(d)'
    <3>1. ConnPlaced(d)
      BY DEF IInv, ActorsHold
    <3>2. conn[d].pc \in Handshaking => watch'[d] = watch[d]
      BY <1>3
    <3>. QED BY <1>1, <3>1, <3>2 DEF ConnPlaced, Seen, Under, Owing
  <2>2. ASSUME NEW d \in Conns PROVE WatchPlaced(d)'
    <3>1. WatchPlaced(d)
      BY DEF IInv, ActorsHold
    <3>. QED BY <1>1, <1>2, <1>3, <3>1 DEF WatchPlaced, Seen, Owing
  <2>3. \A t \in tasks' : TaskPlaced(t)'
    BY <1>1 DEF IInv, ActorsHold, TaskPlaced, Seen, Under, Owing
  <2>. QED BY <2>1, <2>2, <2>3 DEF ActorsHold
<1>8. /\ \A d \in Conns, q \in Objects : ConnOwes(d, q)' <=> ConnOwes(d, q)
      /\ \A d \in Conns, q \in Objects : WatchOwes(d, q)' <=> WatchOwes(d, q)
      /\ tasks' = tasks /\ out' = out
      /\ \A d \in Conns, q \in Objects : ConnOwes(d, q) \/ WatchOwes(d, q) => watch'[d].ctx = watch[d].ctx
  BY <1>1, <1>2, <1>3 DEF ConnOwes, WatchOwes, Handshaking
<1>9. OneOwner'
  BY <1>8 DEF IInv, OneOwner, TaskOwes
<1>10. \A q \in Objects : \A y : Purging(q, y) => Purging(q, y)'
  BY <1>8 DEF Purging, Queued, TaskOwes
<1>. QED BY <1>1, <1>4, <1>5, <1>6, <1>7, <1>9, <1>10, QuietHolds

\* A step of the sweep that changes no policy keeps the markers it owes.
LEMMA SweepSteps ==
    ASSUME IInv, UNCHANGED <<authority, changes, policies, conn, watch, pipeline, stopped>>,
           outages' \in 0..MaxOutages, tasks' \subseteq TaskType,
           \A t \in tasks' : TaskPlaced(t) /\ (t.verdict = "marker" => t \in tasks),
           \A t \in tasks : t.verdict = "marker" => t \in tasks',
           \A t, u \in tasks' : t.obj = u.obj => t = u
    PROVE  IInv'
<1>0. UNCHANGED <<table, made, policy, conn, watch, out, inHand, live, stopped>>
  BY DEF policies, pipeline
<1>1. 1 \in Objects /\ Stays(1)
  BY <1>0, NoMove DEF IInv
<1>2. AdmissionTypeOK'
  BY <1>0 DEF IInv, AdmissionTypeOK
<1>3. TableHolds' /\ PoliciesHold'
  BY <1>0 DEF IInv, TableHolds, PoliciesHold
<1>4. ActorsHold'
  BY <1>0 DEF IInv, ActorsHold, ConnPlaced, WatchPlaced, TaskPlaced, Seen, Under, Owing
<1>5. /\ \A d \in Conns, q \in Objects : ConnOwes(d, q)' <=> ConnOwes(d, q)
      /\ \A d \in Conns, q \in Objects : WatchOwes(d, q)' <=> WatchOwes(d, q)
  BY <1>0 DEF ConnOwes, WatchOwes
<1>6. OneOwner'
  BY <1>5 DEF IInv, OneOwner, TaskOwes
<1>7. \A q \in Objects : \A y : Purging(q, y) => Purging(q, y)'
  BY <1>0, <1>5 DEF Purging, Queued, TaskOwes
<1>. QED BY <1>0, <1>1, <1>2, <1>3, <1>4, <1>6, <1>7, QuietHolds

\* The sweep takes its snapshot: policies of different observers differ.
LEMMA SweepHolds ==
    ASSUME IInv, Sweep
    PROVE  IInv'
<1>0. /\ UNCHANGED <<environment, policies, conn, watch, pipeline, stopped>> /\ tasks = {}
      /\ tasks' \subseteq Retained
      /\ table \in [Observers -> 0..MaxObjects] /\ policy \in [Objects -> PolicyType]
  BY Typed DEF Sweep, IInv
<1>1. ASSUME NEW t \in tasks'
      PROVE  /\ t \in TaskType /\ TaskPlaced(t) /\ t.verdict = "asked"
             /\ t.obs \in Observers /\ t.obj = table[t.obs] /\ t.obj # 0
             /\ t.gen = policy[t.obj].gen /\ t.prev = policy[t.obj].current
  <2>1. PICK o \in Observers :
           /\ table[o] # 0 /\ policy[table[o]].known
           /\ t = [obs |-> o, obj |-> table[o], gen |-> policy[table[o]].gen,
                   prev |-> policy[table[o]].current, verdict |-> "asked"]
    BY <1>0, <1>1 DEF Retained
  <2>2. table[o] \in Objects
    BY <1>0, <2>1 DEF Objects
  <2>3. /\ policy[table[o]].gen \in Nat /\ policy[table[o]].current \in Contexts \cup {NoContext}
        /\ ~policy[table[o]].pending
    BY <1>0, <2>1, <2>2, Fields DEF IInv, PoliciesHold
  <2>. QED BY <2>1, <2>2, <2>3 DEF TaskType, TaskPlaced, Deciding, Seen, Under
<1>2. ASSUME NEW t \in tasks', NEW u \in tasks', t.obj = u.obj PROVE t = u
  <2>1. /\ t \in TaskType /\ u \in TaskType /\ t.obs \in Observers /\ u.obs \in Observers
        /\ t.obj = table[t.obs] /\ u.obj = table[u.obs] /\ t.obj # 0
        /\ t.gen = u.gen /\ t.prev = u.prev /\ t.verdict = u.verdict
    BY <1>1, <1>2
  <2>2. t.obs = u.obs
    BY <1>2, <2>1 DEF IInv, TableHolds
  <2>. QED BY <1>2, <2>1, <2>2 DEF TaskType
<1>3. UNCHANGED <<authority, changes, policies, conn, watch, pipeline, stopped>> /\ outages' \in 0..MaxOutages
  BY <1>0 DEF environment, IInv, AdmissionTypeOK
<1>4. /\ tasks' \subseteq TaskType
      /\ \A t \in tasks' : TaskPlaced(t) /\ (t.verdict = "marker" => t \in tasks)
      /\ \A t \in tasks : t.verdict = "marker" => t \in tasks'
  BY <1>0, <1>1
<1>. QED BY <1>2, <1>3, <1>4, SweepSteps

\* The sweep asks, and drops what it may not withdraw.
LEMMA AskHolds ==
    ASSUME IInv, NEW t \in tasks,
           \/ Ask(t)
           \/ Withdraw(t) /\ (stopped \/ ~Current(t.obj, t.gen))
    PROVE  IInv'
<1>0. /\ t \in TaskType /\ TaskPlaced(t) /\ tasks \subseteq TaskType /\ outages \in 0..MaxOutages
      /\ \A v, w \in tasks : v.obj = w.obj => v = w
      /\ \A v \in tasks : TaskPlaced(v)
  <2>1. t \in TaskType /\ tasks \subseteq TaskType
    BY Typed DEF IInv
  <2>2. outages \in 0..MaxOutages
    BY DEF IInv, AdmissionTypeOK
  <2>. QED BY <2>1, <2>2 DEF IInv, ActorsHold, OneOwner
<1>1. UNCHANGED <<authority, changes, policies, conn, watch, pipeline, stopped>> /\ outages' \in 0..MaxOutages
  <2>1. CASE Ask(t)
    BY <1>0, <2>1, Constants DEF Ask
  <2>2. CASE Withdraw(t) /\ (stopped \/ ~Current(t.obj, t.gen))
    BY <1>0, <2>2 DEF Withdraw, environment, policies
  <2>. QED BY <2>1, <2>2
<1>2. PICK u : u = [t EXCEPT !.verdict = "withdraw"]
  OBVIOUS
<1>3. ASSUME t.verdict = "asked"
      PROVE  u \in TaskType /\ u.obj = t.obj /\ u.verdict = "withdraw" /\ TaskPlaced(u)
  <2>1. u \in TaskType /\ u.obj = t.obj /\ u.verdict = "withdraw" /\ u.gen = t.gen /\ u.prev = t.prev
    BY <1>0, <1>2 DEF TaskType
  <2>. QED BY <1>0, <1>3, <2>1 DEF TaskPlaced, Deciding
<1>4. CASE tasks' = tasks \ {t} /\ t.verdict # "marker"
  BY <1>0, <1>1, <1>4, SweepSteps
<1>5. CASE tasks' = (tasks \ {t}) \cup {u} /\ t.verdict = "asked"
  <2>1. /\ tasks' \subseteq TaskType
        /\ \A v \in tasks' : TaskPlaced(v) /\ (v.verdict = "marker" => v \in tasks)
        /\ \A v \in tasks : v.verdict = "marker" => v \in tasks'
    BY <1>0, <1>3, <1>5
  <2>2. \A v, w \in tasks' : v.obj = w.obj => v = w
    BY <1>0, <1>3, <1>5
  <2>. QED BY <1>1, <2>1, <2>2, SweepSteps
<1>6. CASE tasks' = {} /\ \A v \in tasks : v.verdict = "withdraw"
  BY <1>0, <1>1, <1>6, SweepSteps
<1>7. CASE Ask(t)
  <2>1. t.verdict = "asked" /\ (tasks' = tasks \ {t} \/ tasks' = (tasks \ {t}) \cup {u})
    BY <1>2, <1>7 DEF Ask
  <2>. QED BY <1>4, <1>5, <2>1
<1>8. CASE Withdraw(t) /\ (stopped \/ ~Current(t.obj, t.gen))
  <2>1. /\ t.verdict = "withdraw" /\ \A v \in tasks : v.verdict = "withdraw"
        /\ tasks' = {} \/ tasks' = tasks \ {t}
    BY <1>8 DEF Withdraw
  <2>. QED BY <1>4, <1>6, <2>1
<1>. QED BY <1>7, <1>8

-----------------------------------------------------------------------------
(* The channel and the decode loop.                                        *)

\* A step that moves records, and leaves policies and markers owed alone.
LEMMA PipelineHolds ==
    ASSUME IInv, UNCHANGED <<environment, policies, watch, tasks, stopped>>,
           conn' \in [Conns -> ConnType], \A d \in Conns : SameConn(d),
           out' \in Seq(Records("data") \cup Records("marker")), Len(out') <= OutMax,
           inHand' \in Records("data") \cup {NoRecord}, live' \subseteq Records("data"),
           RecordsHold', Ordered', Purged'
    PROVE  IInv'
<1>0. UNCHANGED <<authority, changes, outages, table, made, policy, watch, tasks, stopped>>
  BY DEF environment, policies
<1>1. 1 \in Objects /\ Stays(1) /\ policy \in [Objects -> PolicyType]
  BY <1>0, NoMove, Typed DEF IInv
<1>2. AdmissionTypeOK'
  <2>1. \A d \in Conns : conn'[d].obj <= made' /\ watch'[d].obj <= made'
    BY <1>0 DEF IInv, AdmissionTypeOK, SameConn
  <2>. QED BY <1>0, <2>1 DEF IInv, AdmissionTypeOK
<1>3. TableHolds' /\ PoliciesHold'
  BY <1>0 DEF IInv, TableHolds, PoliciesHold
<1>4. ActorsHold'
  <2>1. ASSUME NEW d \in Conns PROVE ConnPlaced(d)' /\ WatchPlaced(d)'
    <3>1. ConnPlaced(d) /\ WatchPlaced(d)
      BY DEF IInv, ActorsHold
    <3>2. SameConn(d)
      OBVIOUS
    <3>. QED BY <1>0, <3>1, <3>2 DEF ConnPlaced, WatchPlaced, Seen, Under, Owing, SameConn
  <2>2. \A t \in tasks' : TaskPlaced(t)'
    BY <1>0 DEF IInv, ActorsHold, TaskPlaced, Seen, Under, Owing
  <2>. QED BY <2>1, <2>2 DEF ActorsHold
<1>5. OneOwner'
  BY <1>0, OwnersKept DEF SameConn
<1>. QED BY <1>2, <1>3, <1>4, <1>5 DEF IInv

\* A session forwards what it read: a record of a generation it has seen.
LEMMA ForwardHolds ==
    ASSUME IInv, NEW c \in Conns, Forward(c)
    PROVE  IInv'
<1>p. PICK r : r = Data(conn[c].obs, conn[c].obj, conn[c].gen, conn[c].ctx)
  OBVIOUS
<1>0. /\ conn[c].pc = "open" /\ conn[c] \in ConnType /\ conn \in [Conns -> ConnType] /\ ConnPlaced(c)
      /\ Len(out) < OutMax /\ out' = Append(out, r) /\ AdmissionTypeOK
      /\ UNCHANGED <<environment, policies, watch, tasks, inHand, live, stopped>>
      /\ conn' = [conn EXCEPT ![c].hold = FALSE]
  <2>1. conn[c] \in ConnType /\ conn \in [Conns -> ConnType] /\ ConnPlaced(c) /\ AdmissionTypeOK
    BY Typed DEF IInv, ActorsHold
  <2>. QED BY <1>p, <2>1 DEF Forward
<1>1. r \in Records("data") /\ r.kind = "data" /\ Made(r) /\ Seen(r.obj, r.gen)
  BY <1>0, <1>p DEF Data, Records, ConnType, ConnPlaced, Made
<1>2. /\ out' \in Seq(Records("data") \cup Records("marker")) /\ Len(out') <= OutMax
      /\ Len(out') = Len(out) + 1 /\ Len(out) \in Nat
      /\ out'[Len(out) + 1] = r /\ \A i \in 1..Len(out) : out'[i] = out[i]
  BY <1>0, <1>1, Appended
<1>3. policy' = policy /\ Contributions' = Contributions
  BY <1>0 DEF policies, Contributions
<1>4. RecordsHold'
  <2>1. ASSUME NEW i \in 1..Len(out'), out'[i].kind = "data" PROVE Made(out'[i]) /\ Seen(out'[i].obj, out'[i].gen)
    <3>1. CASE i = Len(out) + 1
      BY <1>1, <1>2, <3>1
    <3>2. CASE i # Len(out) + 1
      <4>1. i \in 1..Len(out) /\ out'[i] = out[i]
        BY <1>2, <3>2
      <4>. QED BY <2>1, <4>1 DEF IInv, RecordsHold
    <3>. QED BY <3>1, <3>2
  <2>2. \A x \in Contributions' : Made(x)
    BY <1>3 DEF IInv, RecordsHold
  <2>. QED BY <1>3, <2>1, <2>2 DEF RecordsHold, Made, Seen, Under
<1>5. Ordered'
  <2> SUFFICES ASSUME NEW i \in 1..Len(out'), NEW j \in 1..Len(out'), i < j, out'[i].kind = "data",
                      out'[j].kind = "marker", out'[j].obj = out'[i].obj
               PROVE  out'[j].gen > out'[i].gen
    BY DEF Ordered
  <2>1. j # Len(out) + 1
    BY <1>1, <1>2
  <2>2. i \in 1..Len(out) /\ j \in 1..Len(out) /\ out'[i] = out[i] /\ out'[j] = out[j]
    BY <1>2, <2>1
  <2>. QED BY <2>2 DEF IInv, Ordered
<1>6. conn' \in [Conns -> ConnType] /\ \A d \in Conns : SameConn(d)
  BY <1>0 DEF ConnType, SameConn
<1>7. Purged'
  <2>1. 1 \in Objects /\ Stays(1)
    BY <1>0, <1>3, NoMove
  <2>2. ASSUME NEW q \in Objects, NEW x, Purging(q, x) PROVE Purging(q, x)'
    <3>1. \A d \in Conns : (ConnOwes(d, q)' <=> ConnOwes(d, q)) /\ (WatchOwes(d, q)' <=> WatchOwes(d, q))
      BY <1>0, <1>6 DEF ConnOwes, WatchOwes, SameConn
    <3>2. Queued(q, x) => Queued(q, x)'
      BY <1>2 DEF Queued
    <3>. QED BY <1>0, <2>2, <3>1, <3>2 DEF Purging, TaskOwes
  <2>. QED BY <1>0, <2>1, <2>2, PurgedKept
<1>8. inHand' \in Records("data") \cup {NoRecord} /\ live' \subseteq Records("data")
  BY <1>0, Typed
<1>. QED BY <1>0, <1>2, <1>4, <1>5, <1>6, <1>7, <1>8, PipelineHolds

\* What is left of the channel once its first record is taken.
LEMMA Taken ==
    ASSUME AdmissionTypeOK, out # <<>>, out' = Tail(out)
    PROVE  /\ out' \in Seq(Records("data") \cup Records("marker")) /\ Len(out') <= OutMax
           /\ Head(out) = out[1] /\ 1 \in 1..Len(out)
           /\ \A i \in 1..Len(out') : i + 1 \in 1..Len(out) /\ out'[i] = out[i + 1]
           /\ \A i \in 1..Len(out) : i # 1 => i - 1 \in 1..Len(out') /\ out'[i - 1] = out[i]
<1>1. out \in Seq(Records("data") \cup Records("marker")) /\ Len(out) \in Nat /\ Len(out) <= OutMax
  BY Typed
<1>2. Len(out) # 0
  BY <1>1, EmptySeq
<1>3. /\ Tail(out) \in Seq(Records("data") \cup Records("marker")) /\ Len(Tail(out)) = Len(out) - 1
      /\ \A i \in 1..Len(Tail(out)) : Tail(out)[i] = out[i + 1]
  BY <1>1, HeadTailProperties
<1>. QED BY <1>1, <1>2, <1>3, Constants

\* The decode loop takes a marker, which resets what it covers, or a record,
\* which it keeps if its generation is current.
LEMMA DecodeHolds ==
    ASSUME IInv, Decode
    PROVE  IInv'
<1>p. PICK f : f = Head(out)
  OBVIOUS
<1>0. /\ inHand = NoRecord /\ out # <<>> /\ out' = Tail(out) /\ AdmissionTypeOK
      /\ UNCHANGED <<environment, policies, conn, watch, tasks, policy, stopped>>
      /\ \/ f.kind = "marker" /\ live' = {x \in live : x.ctx # f.ctx} /\ UNCHANGED inHand
         \/ f.kind = "data" /\ inHand' = (IF Current(f.obj, f.gen) THEN f ELSE inHand) /\ UNCHANGED live
  BY <1>p DEF Decode, actors, policies, IInv
<1>1. /\ out' \in Seq(Records("data") \cup Records("marker")) /\ Len(out') <= OutMax
      /\ f = out[1] /\ 1 \in 1..Len(out)
      /\ \A i \in 1..Len(out') : i + 1 \in 1..Len(out) /\ out'[i] = out[i + 1]
      /\ \A i \in 1..Len(out) : i # 1 => i - 1 \in 1..Len(out') /\ out'[i - 1] = out[i]
  BY <1>0, <1>p, Taken
<1>2. f.kind = "data" => f \in Records("data") /\ Made(f)
  BY <1>0, <1>1, ContributionTypes DEF IInv, RecordsHold
<1>3. /\ inHand' \in Records("data") \cup {NoRecord} /\ live' \subseteq live /\ live \subseteq Records("data")
      /\ \A x \in Contributions' :
            \/ x \in live /\ (f.kind = "marker" => x.ctx # f.ctx)
            \/ f.kind = "data" /\ x = f /\ Current(x.obj, x.gen)
  <2>1. live \subseteq Records("data")
    BY Typed DEF IInv
  <2>2. CASE f.kind = "marker" /\ live' = {x \in live : x.ctx # f.ctx} /\ UNCHANGED inHand
    BY <1>0, <2>1, <2>2 DEF Contributions
  <2>3. CASE f.kind = "data" /\ inHand' = (IF Current(f.obj, f.gen) THEN f ELSE inHand) /\ UNCHANGED live
    BY <1>0, <1>2, <2>1, <2>3 DEF Contributions
  <2>. QED BY <1>0, <2>2, <2>3, <2>1
<1>4. RecordsHold'
  <2>1. \A x \in Contributions' : Made(x)
    BY <1>2, <1>3 DEF IInv, RecordsHold, Contributions
  <2>2. \A i \in 1..Len(out') : out'[i].kind = "data" => Made(out'[i]) /\ Seen(out'[i].obj, out'[i].gen)
    BY <1>1 DEF IInv, RecordsHold
  <2>. QED BY <1>0, <2>1, <2>2 DEF RecordsHold, Made, Seen, Under
<1>5. Ordered'
  <2> SUFFICES ASSUME NEW i \in 1..Len(out'), NEW j \in 1..Len(out'), i < j, out'[i].kind = "data",
                      out'[j].kind = "marker", out'[j].obj = out'[i].obj
               PROVE  out'[j].gen > out'[i].gen
    BY DEF Ordered
  <2>1. i + 1 < j + 1 /\ i + 1 \in 1..Len(out) /\ j + 1 \in 1..Len(out)
    BY <1>1
  <2>2. out'[i] = out[i + 1] /\ out'[j] = out[j + 1]
    BY <1>1
  <2>. QED BY <2>1, <2>2 DEF IInv, Ordered
<1>6. Purged'
  <2> SUFFICES ASSUME NEW x \in Contributions', ~stopped PROVE Current(x.obj, x.gen) \/ Purging(x.obj, x.ctx)'
    BY <1>0 DEF Purged, Current
  <2>1. CASE x \in live /\ (f.kind = "marker" => x.ctx # f.ctx) /\ ~Current(x.obj, x.gen)
    <3>1. PICK p, y : p = x.obj /\ y = x.ctx
      OBVIOUS
    <3>2. Purging(p, y)
      BY <2>1, <3>1 DEF IInv, Purged, Contributions
    <3>3. Queued(p, y) => Queued(p, y)'
      <4> SUFFICES ASSUME Queued(p, y) PROVE Queued(p, y)'
        OBVIOUS
      <4>1. PICK i \in 1..Len(out) : out[i].kind = "marker" /\ out[i].obj = p /\ out[i].ctx = y
        BY DEF Queued
      <4>2. i # 1
        BY <1>1, <2>1, <3>1, <4>1
      <4>. QED BY <1>1, <4>1, <4>2, SMTT(20) DEF Queued
    <3>4. Purging(p, y)'
      BY <1>0, <3>2, <3>3 DEF Purging, ConnOwes, WatchOwes, TaskOwes
    <3>. QED BY <3>1, <3>4
  <2>. QED BY <1>3, <2>1
<1>7. conn' \in [Conns -> ConnType] /\ \A d \in Conns : SameConn(d)
  BY <1>0, Typed DEF SameConn
<1>8. live' \subseteq Records("data")
  BY <1>3
<1>. QED BY <1>0, <1>1, <1>3, <1>4, <1>5, <1>6, <1>7, <1>8, PipelineHolds

\* The record in hand reaches the live picture.
LEMMA ProjectHolds ==
    ASSUME IInv, Project
    PROVE  IInv'
<1>0. /\ UNCHANGED <<environment, policies, conn, watch, tasks, policy, out, stopped>>
      /\ Contributions' = Contributions /\ inHand' = NoRecord /\ live' = live \cup {inHand} /\ inHand # NoRecord
  BY DEF Project, actors, policies, Contributions
<1>1. live' \subseteq Records("data") /\ inHand' \in Records("data") \cup {NoRecord}
  BY <1>0, Typed DEF IInv
<1>2. RecordsHold' /\ Ordered'
  BY <1>0 DEF IInv, RecordsHold, Ordered, Made, Seen, Under
<1>3. Purged'
  BY <1>0 DEF IInv, Purged, Current, Purging, Queued, ConnOwes, WatchOwes, TaskOwes
<1>4. conn' \in [Conns -> ConnType] /\ \A d \in Conns : SameConn(d)
  BY <1>0, Typed DEF IInv, SameConn
<1>5. out' \in Seq(Records("data") \cup Records("marker")) /\ Len(out') <= OutMax
  BY <1>0, Typed DEF IInv
<1>. QED BY <1>0, <1>1, <1>2, <1>3, <1>4, <1>5, PipelineHolds

-----------------------------------------------------------------------------
(* Every step.                                                             *)

\* The invariant is inductive.
LEMMA NextHolds == IInv /\ [AdmissionNext]_admissionVars => IInv'
<1> SUFFICES ASSUME IInv, [AdmissionNext]_admissionVars PROVE IInv'
  OBVIOUS
<1>0. /\ authority \in [Observers -> Contexts \cup {NoContext}] /\ stopped \in BOOLEAN
      /\ changes \in 0..MaxChanges /\ outages \in 0..MaxOutages /\ MaxChanges \in Nat
  BY Constants DEF IInv, AdmissionTypeOK
<1>1. ASSUME NEW c \in Conns,
             \/ \E o \in Observers : Hello(c, o)
             \/ Handler(c) \/ Watcher(c) \/ ReadRecord(c) \/ Forward(c) \/ EndSession(c)
      PROVE  IInv'
  <2>1. CASE Handler(c)
    BY <2>1, HandshakeHolds, FindingHolds, AdmitTransitionHolds, AdmitMarkerHolds, AdmitOpenHolds DEF Handler
  <2>2. CASE Watcher(c)
    BY <2>2, WatcherHolds, WatchChangeHolds, WatchMarkerHolds DEF Watcher
  <2>. QED BY <1>1, <2>1, <2>2, HandshakeHolds, ForwardHolds, EndSessionHolds
<1>2. CASE Reconciler
  <2>1. ASSUME NEW t \in tasks, Ask(t) \/ Withdraw(t) \/ WithdrawMarker(t) PROVE IInv'
    BY <2>1, AskHolds, WithdrawHolds, WithdrawMarkerHolds
  <2>. QED BY <1>2, <2>1, SweepHolds DEF Reconciler
<1>3. ASSUME NEW o \in Observers, AuthorityChanges(o) PROVE IInv'
  <2>1. /\ UNCHANGED <<policies, actors, pipeline, stopped, outages>>
        /\ changes < MaxChanges /\ changes' = changes + 1
    BY <1>3 DEF AuthorityChanges
  <2>2. authority' \in [Observers -> Contexts \cup {NoContext}]
    BY <1>0, <1>3 DEF AuthorityChanges
  <2>. QED BY <1>0, <2>1, <2>2, OutsideHolds
<1>4. CASE StopAdmissions
  BY <1>0, <1>4, OutsideHolds DEF StopAdmissions, environment
<1>5. CASE UNCHANGED admissionVars
  BY <1>0, <1>5, OutsideHolds DEF admissionVars, environment
<1>. QED BY <1>1, <1>2, <1>3, <1>4, <1>5, DecodeHolds, ProjectHolds, PolicyAgesHolds DEF AdmissionNext

\* A change of policy is enforced by exactly one marker, which no record of the
\* new generation precedes and which purges what is withdrawn, with any number
\* of observers, connections, policy objects and changes: handshakes, watchers
\* and the sweep may race for it in every order (admission.go, reconcile.go).
THEOREM PolicyChangesAreEnforced == AdmissionSpec => []MarkersInOrder
<1>1. AdmissionInit => IInv
  BY InitHolds
<1>2. IInv /\ [AdmissionNext]_admissionVars => IInv'
  BY NextHolds
<1>3. IInv => MarkersInOrder
  BY Implied
<1>. QED BY <1>1, <1>2, <1>3, PTL DEF AdmissionSpec

\* What an observer contributed under a policy that is no longer its own leaves
\* the live picture, or the marker that resets it is under way.
COROLLARY WithdrawnContributionsLeave == AdmissionSpec => []WithdrawnIsPurged
<1>1. MarkersInOrder => WithdrawnIsPurged
  BY DEF MarkersInOrder
<1>. QED BY <1>1, PolicyChangesAreEnforced, PTL

-----------------------------------------------------------------------------
(***************************************************************************)
(* Authorities and their keys.                                             *)
(***************************************************************************)

KeysTypeOK ==
    /\ keyRows \in [Issuers -> Operationals \cup {Unowned}]
    /\ control \in [ControlProcesses -> AuthorityFiles \cup {NotRunning}]
    /\ validated \subseteq Certificates /\ certified \subseteq Certificates

\* The tables hold what the file published last says.
FilePublished == authorityRows = lastFile.enabled /\ pairingRows = lastFile.paired

\* A process runs with a file whose owners are the registered ones, however old.
ProcessesAgree ==
    \A p \in ControlProcesses : \A k \in Issuers :
        control[p].owner[k] # Unowned => keyRows[k] = control[p].owner[k]

\* An enrollment that is validated, stored or not, names the owner of its key.
Attributed(e) == e.issuer # Unowned => keyRows[e.issuer] = e.authority

KeysInv ==
    /\ KeysTypeOK /\ FilePublished /\ ProcessesAgree
    /\ \A e \in validated \cup certified : Attributed(e)

\* A configuration's owners are typed, of a process that runs or does not.
LEMMA OwnersTyped ==
    ASSUME NEW f \in AuthorityFiles \cup {NotRunning}, NEW k \in Issuers
    PROVE  f.owner[k] \in Operationals \cup {Unowned}
<1>1. ASSUME f \in AuthorityFiles PROVE f.owner \in [Issuers -> Operationals \cup {Unowned}]
  BY <1>1 DEF AuthorityFiles
<1>2. ASSUME f = NotRunning PROVE f.owner = [x \in Issuers |-> Unowned]
  BY <1>2 DEF NotRunning
<1>. QED BY <1>1, <1>2

\* No start takes a key from its owner (the key step of Initialize).
LEMMA OwnersStay ==
    ASSUME KeysTypeOK, NEW p \in ControlProcesses, NEW f \in AuthorityFiles, Initialize(p, f), NEW k \in Issuers
    PROVE  /\ keyRows'[k] \in Operationals \cup {Unowned}
           /\ keyRows[k] # Unowned => keyRows'[k] = keyRows[k]
           /\ f.owner[k] # Unowned => keyRows'[k] = f.owner[k]
<1>1. f.owner[k] \in Operationals \cup {Unowned} /\ keyRows[k] \in Operationals \cup {Unowned}
  BY OwnersTyped DEF KeysTypeOK
<1>2. KeyMayServe(f, k) /\ keyRows'[k] = IF f.owner[k] = Unowned THEN keyRows[k] ELSE f.owner[k]
  BY DEF Initialize, Registered
<1>. QED BY <1>1, <1>2 DEF KeyMayServe

\* A start keeps the invariant.
LEMMA InitializeKeeps ==
    ASSUME KeysInv, NEW p \in ControlProcesses, NEW f \in AuthorityFiles, Initialize(p, f)
    PROVE  KeysInv'
<1>1. KeysTypeOK
  BY DEF KeysInv
<1>2. keyRows' = [k \in Issuers |-> keyRows'[k]]
  BY DEF Initialize, Registered
<1>3. \A k \in Issuers : /\ keyRows'[k] \in Operationals \cup {Unowned}
                         /\ keyRows[k] # Unowned => keyRows'[k] = keyRows[k]
                         /\ f.owner[k] # Unowned => keyRows'[k] = f.owner[k]
  BY <1>1, OwnersStay
<1>4. KeysTypeOK'
  BY <1>1, <1>2, <1>3 DEF KeysTypeOK, Initialize
<1>5. FilePublished'
  BY DEF FilePublished, Initialize, EnabledAfter
<1>6. ProcessesAgree'
  <2>1. ASSUME NEW q \in ControlProcesses, NEW k \in Issuers, control'[q].owner[k] # Unowned
        PROVE  keyRows'[k] = control'[q].owner[k]
    <3>1. CASE q = p
      BY <1>1, <1>3, <2>1, <3>1 DEF Initialize, KeysTypeOK
    <3>2. CASE q # p
      BY <1>3, <2>1, <3>2 DEF Initialize, KeysInv, ProcessesAgree
    <3>. QED BY <3>1, <3>2
  <2>. QED BY <2>1 DEF ProcessesAgree
<1>7. ASSUME NEW e \in validated' \cup certified', e.issuer # Unowned
      PROVE  keyRows'[e.issuer] = e.authority
  <2>1. e \in validated \cup certified /\ e \in Certificates
    BY <1>1, <1>7 DEF Initialize, KeysTypeOK
  <2>2. e.issuer \in Issuers /\ e.authority \in Operationals
    BY <1>7, <2>1 DEF Certificates
  <2>3. keyRows[e.issuer] = e.authority
    BY <1>7, <2>1 DEF KeysInv, Attributed
  <2>. QED BY <1>3, <2>2, <2>3, AuthorityKeysAssumption
<1>. QED BY <1>4, <1>5, <1>6, <1>7 DEF KeysInv, Attributed

\* What the authorities' tables hold stays attributable under every step.
LEMMA KeysStep == KeysInv /\ [AuthorityKeysNext]_authorityVars => KeysInv'
<1>. SUFFICES ASSUME KeysInv, [AuthorityKeysNext]_authorityVars PROVE KeysInv'
  OBVIOUS
<1>1. ASSUME NEW p \in ControlProcesses, NEW f \in AuthorityFiles, Initialize(p, f) PROVE KeysInv'
  BY <1>1, InitializeKeeps
<1>2. ASSUME NEW p \in ControlProcesses, NEW e \in Certificates, ValidateCertificate(p, e) PROVE KeysInv'
  <2>1. Attributed(e)
    <3>1. e.issuer # Unowned => e.issuer \in Issuers /\ e.authority \in Operationals
      BY DEF Certificates
    <3>2. e.issuer # Unowned => control[p].owner[e.issuer] = e.authority
      BY <1>2 DEF ValidateCertificate, Enrollable, MatchIssuer
    <3>. QED BY <3>1, <3>2, AuthorityKeysAssumption DEF Attributed, KeysInv, ProcessesAgree
  <2>2. validated' = validated \cup {e}
    BY <1>2 DEF ValidateCertificate
  <2>. QED BY <1>2, <2>1, <2>2
       DEF ValidateCertificate, KeysInv, KeysTypeOK, FilePublished, ProcessesAgree, Attributed
<1>3. ASSUME NEW e \in Certificates, StoreEnrollment(e) PROVE KeysInv'
  BY <1>3 DEF StoreEnrollment, KeysInv, KeysTypeOK, FilePublished, ProcessesAgree, Attributed
<1>4. ASSUME NEW d \in ReadDigests, CreateReadCredential(d) \/ DisableReadCredential(d) PROVE KeysInv'
  BY <1>4 DEF CreateReadCredential, DisableReadCredential, KeysInv, KeysTypeOK, FilePublished, ProcessesAgree, Attributed
<1>5. CASE UNCHANGED authorityVars
  BY <1>5 DEF authorityVars, KeysInv, KeysTypeOK, FilePublished, ProcessesAgree, Attributed
<1>. QED BY <1>1, <1>2, <1>3, <1>4, <1>5 DEF AuthorityKeysNext

\* No step enables a read credential that was disabled.
LEMMA ReadsStep ==
    ASSUME [AuthorityKeysNext]_authorityVars, readRows \in [ReadDigests -> {"absent", "enabled", "disabled"}]
    PROVE  /\ readRows' \in [ReadDigests -> {"absent", "enabled", "disabled"}]
           /\ \A d \in ReadDigests : readRows[d] = "disabled" => readRows'[d] = "disabled"
<1>1. CASE readRows' = readRows
  BY <1>1
<1>2. ASSUME NEW d \in ReadDigests, CreateReadCredential(d) \/ DisableReadCredential(d)
      PROVE  /\ readRows' \in [ReadDigests -> {"absent", "enabled", "disabled"}]
             /\ \A x \in ReadDigests : readRows[x] = "disabled" => readRows'[x] = "disabled"
  BY <1>2 DEF CreateReadCredential, DisableReadCredential, MayIssue
<1>. QED
  BY <1>1, <1>2 DEF AuthorityKeysNext, Initialize, ValidateCertificate, StoreEnrollment, authorityVars

\* The issuing key of a stored enrollment belongs to the authority it was
\* enrolled under, the collector's view follows the file published last, and a
\* disabled read credential stays disabled (Initialize, MatchIssuer), for any
\* number of processes that still run with older files.
THEOREM KeysStayAttributable == AuthorityKeysSpec => KeysAreSound
<1>. DEFINE Reads == readRows \in [ReadDigests -> {"absent", "enabled", "disabled"}]
            Stay == \A d \in ReadDigests : readRows[d] = "disabled" => readRows'[d] = "disabled"
<1>1. AuthorityKeysInit => KeysInv /\ Reads
  BY DEF AuthorityKeysInit, KeysInv, KeysTypeOK, FilePublished, ProcessesAgree, NotRunning
<1>2. KeysInv /\ Reads /\ [AuthorityKeysNext]_authorityVars => KeysInv' /\ Reads' /\ [Stay]_authorityVars
  <2>1. KeysInv /\ [AuthorityKeysNext]_authorityVars => KeysInv'
    BY KeysStep
  <2>2. Reads /\ [AuthorityKeysNext]_authorityVars => Reads' /\ Stay
    BY ReadsStep
  <2>. QED BY <2>1, <2>2
<1>3. KeysInv => IssuersStayAttributable /\ ViewFollowsTheFile
  BY DEF KeysInv, IssuersStayAttributable, ViewFollowsTheFile, AuthorizationView, Allows, FilePublished, Attributed
<1>. QED BY <1>1, <1>2, <1>3, PTL DEF AuthorityKeysSpec, KeysAreSound, DisabledReadsStayDisabled

-----------------------------------------------------------------------------
(***************************************************************************)
(* Enrollments.                                                            *)
(***************************************************************************)

Serial == Serials \cup {NoSerial}
Device == [current : Nat, serial : Serial, generation : Nat]
Enrollment ==
    [station : Stations, active : BOOLEAN, serial : Serial, generation : Nat, edition : Nat,
     revisions : Seq(Revisions), previous : Nat]
Snapshot == [live : Nat, carried : Seq(Revisions), device : Device, floor : Nat, floorVersion : Nat]
EnrollTxn ==
    [kind : {"enroll"}, at : {"validated", "open"}, request : EnrollRequests, replaces : Nat,
     edition : Nat, seen : Snapshot]
PolicyTxn ==
    [kind : {"policy"}, at : {"open"}, id : Nat, revision : Revisions,
     seen : [live : Nat, carried : Seq(Revisions)]]

ControlTypeOK ==
    /\ devices \in [Stations -> Device]
    /\ enrollments \in Seq(Enrollment)
    /\ floorRow \in Nat /\ registryCopy \in Nat \ {0}
    /\ txn \in [Operators -> {NoTxn} \cup EnrollTxn \cup PolicyTxn]

\* A device names the last enrollment of its station, and a station with a
\* secure element is a board's.
DevicesHold ==
    \A s \in Stations :
        /\ devices[s].current <= Len(enrollments)
        /\ \A i \in 1..Len(enrollments) : enrollments[i].station = s => i <= devices[s].current
        /\ devices[s].serial # NoSerial => s \in BoardStations

\* An enrollment replaced an earlier one and rests on no edition above the floor.
RowsHold ==
    \A i \in 1..Len(enrollments) : enrollments[i].previous < i /\ enrollments[i].edition <= floorRow

\* A snapshot of the floor is right unless a hardware enrollment has come since.
FloorSeen(t) ==
    /\ t.seen.floorVersion <= FloorVersion
    /\ t.seen.floorVersion = FloorVersion => t.seen.floor = floorRow

\* A request keeps what it was validated for.
TxnHolds(t) ==
    /\ t.kind = "enroll" => /\ t.edition > 0 => ~WithdrawnBy(t.edition, t.request.generation)
                            /\ t.at = "open" => FloorSeen(t)
    /\ t.kind = "policy" => t.id \in 1..Len(enrollments)

ControlInv ==
    /\ ControlTypeOK /\ OneLiveCredential /\ HistoryIsAChain /\ RevisionNamesOneInterval
    /\ RegistryNeverGoesBack /\ DevicesHold /\ RowsHold
    /\ \A o \in Operators : TxnHolds(txn[o])

\* The rows that are not active stay as they are.
FinalStep == \A i \in 1..Len(enrollments) : ~enrollments[i].active => enrollments'[i] = enrollments[i]

-----------------------------------------------------------------------------
(* What the operators of the model give.                                   *)

\* A request is of one of three kinds.
LEMMA Kinds ==
    ASSUME NEW t \in {NoTxn} \cup EnrollTxn \cup PolicyTxn
    PROVE  /\ t.kind = "enroll" => t \in EnrollTxn
           /\ t.kind = "policy" => t \in PolicyTxn
           /\ t = NoTxn => t.kind = "none"
<1>1. NoTxn.kind = "none"
  BY DEF NoTxn
<1>2. t \in EnrollTxn => t.kind = "enroll"
  BY DEF EnrollTxn
<1>3. t \in PolicyTxn => t.kind = "policy"
  BY DEF PolicyTxn
<1>. QED BY <1>1, <1>2, <1>3

\* A set of positions that is not empty has a least one.
LEMMA LeastPosition ==
    ASSUME NEW I \in SUBSET Nat, I # {}
    PROVE  Min(I) \in I
<1>. DEFINE Before == {ij \in Nat \X Nat : ij[1] < ij[2]}
<1>1. IsWellFoundedOn(Before, Nat)
  BY NatLessThanWellFounded, Zenon DEF OpToRel
<1>2. PICK i \in I : \A j \in I : ~(<<j, i>> \in Before)
  <2>. HIDE DEF Before
  <2>. QED BY <1>1, WFMin
<1>3. ASSUME NEW j \in I PROVE i <= j
  <2>1. i \in Nat /\ j \in Nat
    OBVIOUS
  <2>2. <<j, i>> \in Before <=> j < i
    BY <2>1
  <2>. QED BY <1>2, <2>1, <2>2
<1>. QED BY <1>3 DEF Min

\* Live finds an active enrollment of the station if there is one.
LEMMA LiveIs ==
    ASSUME NEW s
    PROVE  \/ /\ Live(s) = 0
              /\ \A i \in 1..Len(enrollments) : ~(enrollments[i].station = s /\ enrollments[i].active)
           \/ /\ Live(s) \in 1..Len(enrollments)
              /\ enrollments[Live(s)].station = s /\ enrollments[Live(s)].active
<1>. DEFINE I == {i \in 1..Len(enrollments) : enrollments[i].station = s /\ enrollments[i].active}
<1>1. Live(s) = IF I # {} THEN Min(I) ELSE 0
  BY DEF Live, SelectInSeq
<1>2. I # {} => Min(I) \in I
  <2>1. I \in SUBSET Nat
    OBVIOUS
  <2>. HIDE DEF I
  <2>. QED BY <2>1, LeastPosition
<1>3. CASE I = {}
  BY <1>1, <1>3
<1>4. CASE I # {}
  BY <1>1, <1>2, <1>4
<1>. QED BY <1>3, <1>4

\* What a transaction reads of a station's enrollments is typed.
LEMMA RowTyped ==
    ASSUME enrollments \in Seq(Enrollment), NEW s
    PROVE  /\ LiveRow(s).live = Live(s) /\ LiveRow(s).carried \in Seq(Revisions)
           /\ Live(s) # 0 => LiveRow(s).carried = enrollments[Live(s)].revisions
           /\ Live(s) \in Nat
<1>1. LiveRow(s).live = Live(s) /\ LiveRow(s).carried = IF Live(s) = 0 THEN <<>> ELSE enrollments[Live(s)].revisions
  BY DEF LiveRow
<1>2. Live(s) # 0 => Live(s) \in 1..Len(enrollments)
  BY LiveIs
<1>3. Live(s) # 0 => enrollments[Live(s)] \in Enrollment
  BY <1>2
<1>4. Live(s) # 0 => enrollments[Live(s)].revisions \in Seq(Revisions)
  BY <1>3 DEF Enrollment
<1>5. Live(s) \in Nat
  BY <1>2
<1>. QED BY <1>1, <1>4, <1>5

\* The positions the floor's version counts.
Hardware(es) == {i \in 1..Len(es) : es[i].edition > 0}

\* They are finitely many.
LEMMA HardwareFinite ==
    ASSUME NEW es \in Seq(Enrollment)
    PROVE  IsFiniteSet(Hardware(es)) /\ Cardinality(Hardware(es)) \in Nat
<1>1. IsFiniteSet(1..Len(es))
  BY FS_Interval
<1>2. Hardware(es) \in SUBSET (1..Len(es))
  BY DEF Hardware
<1>3. IsFiniteSet(Hardware(es))
  BY <1>1, <1>2, FS_Subset
<1>. QED BY <1>3, FS_CardinalityType

\* A hardware enrollment moves the floor's version on, nothing else does.
LEMMA VersionAppended ==
    ASSUME NEW es \in Seq(Enrollment), NEW fs \in Seq(Enrollment), Len(fs) = Len(es) + 1,
           \A i \in 1..Len(es) : fs[i].edition = es[i].edition
    PROVE  /\ fs[Len(fs)].edition > 0 => Cardinality(Hardware(fs)) = Cardinality(Hardware(es)) + 1
           /\ fs[Len(fs)].edition = 0 => Cardinality(Hardware(fs)) = Cardinality(Hardware(es))
<1>1. PICK n \in Nat : n = Len(es)
  OBVIOUS
<1>2. 1..Len(fs) = 1..n \cup {n + 1} /\ n + 1 \notin 1..n
  BY <1>1
<1>3. CASE fs[Len(fs)].edition > 0
  <2>1. Hardware(fs) = Hardware(es) \cup {n + 1} /\ n + 1 \notin Hardware(es)
    BY <1>1, <1>2, <1>3 DEF Hardware
  <2>2. PICK H : H = Hardware(es)
    OBVIOUS
  <2>3. IsFiniteSet(H) /\ n + 1 \notin H
    BY <2>1, <2>2, HardwareFinite
  <2>4. Cardinality(H \cup {n + 1}) = Cardinality(H) + 1
    BY <2>3, FS_AddElement
  <2>. QED BY <1>3, <2>1, <2>2, <2>4
<1>4. CASE fs[Len(fs)].edition = 0
  <2>1. Hardware(fs) = Hardware(es)
    BY <1>1, <1>2, <1>4 DEF Hardware
  <2>. QED BY <1>4, <2>1
<1>. QED BY <1>3, <1>4

\* The version of the floor's row counts the hardware enrollments.
LEMMA VersionIs == FloorVersion = Cardinality(Hardware(enrollments))
BY DEF FloorVersion, Hardware

-----------------------------------------------------------------------------
(* Steps that write no row: requests, snapshots and failures.              *)

\* No request is under way after an answer.
LEMMA NothingOwed == TxnHolds(NoTxn)
BY DEF TxnHolds, NoTxn

\* A step that writes no row keeps the invariant.
LEMMA RequestKeeps ==
    ASSUME ControlInv, UNCHANGED <<devices, enrollments, floorRow, registryCopy>>,
           NEW o \in Operators, NEW t \in {NoTxn} \cup EnrollTxn \cup PolicyTxn, TxnHolds(t),
           txn' = [txn EXCEPT ![o] = t]
    PROVE  ControlInv' /\ FinalStep /\ ProvenanceStep
<1>1. ControlTypeOK'
  BY DEF ControlInv, ControlTypeOK
<1>2. \A p \in Operators : TxnHolds(txn'[p])
  BY DEF ControlInv, ControlTypeOK
<1>3. (\A p \in Operators : TxnHolds(txn[p]))'
  BY <1>2 DEF TxnHolds, FloorSeen, FloorVersion
<1>4. FinalStep /\ ProvenanceStep
  <2>1. \A s \in Stations : devices[s].generation \in Nat
    BY DEF ControlInv, ControlTypeOK, Device
  <2>. QED BY <2>1 DEF FinalStep, ProvenanceStep
<1>5. (/\ OneLiveCredential /\ HistoryIsAChain /\ RevisionNamesOneInterval
       /\ RegistryNeverGoesBack /\ DevicesHold /\ RowsHold)'
  BY DEF ControlInv, OneLiveCredential, HistoryIsAChain, RevisionNamesOneInterval, RegistryNeverGoesBack,
         DevicesHold, RowsHold
<1>. QED BY <1>1, <1>3, <1>4, <1>5 DEF ControlInv

\* A request to enroll writes no row.
LEMMA RequestEnrollKeeps ==
    ASSUME ControlInv, NEW o \in Operators, NEW r \in EnrollRequests, RequestEnroll(o, r)
    PROVE  ControlInv' /\ FinalStep /\ ProvenanceStep
<1>1. r.station \in Stations /\ r.generation \in Nat
  BY DEF EnrollRequests
<1>2. devices[r.station] \in Device /\ registryCopy \in Nat \ {0}
  BY <1>1 DEF ControlInv, ControlTypeOK
<1>3. CurrentEnrollment(r.station) \in Nat
  BY <1>2 DEF CurrentEnrollment, Device
<1>4. NoDevice \in Device
  BY DEF NoDevice, Device, Serial
<1>5. Unread \in Snapshot
  BY <1>4 DEF Unread, Snapshot
<1>6. PICK n : n = IF r.serial = NoSerial THEN 0 ELSE registryCopy
  OBVIOUS
<1>7. PICK t : t = [kind |-> "enroll", at |-> "validated", request |-> r,
                    replaces |-> CurrentEnrollment(r.station), edition |-> n, seen |-> Unread]
  OBVIOUS
<1>8. n \in Nat /\ (n > 0 => r.serial # NoSerial /\ n = registryCopy)
  BY <1>2, <1>6
<1>9. t \in EnrollTxn
  BY <1>3, <1>5, <1>7, <1>8 DEF EnrollTxn
<1>10. TxnHolds(t)
  BY <1>7, <1>8 DEF TxnHolds, RequestEnroll, RegistryPermits
<1>11. txn' = [txn EXCEPT ![o] = t] /\ UNCHANGED <<devices, enrollments, floorRow, registryCopy>>
  BY <1>6, <1>7 DEF RequestEnroll
<1>. QED BY <1>9, <1>10, <1>11, RequestKeeps

\* A request to change a policy names an enrollment there is.
LEMMA RequestPolicyKeeps ==
    ASSUME ControlInv, NEW o \in Operators, NEW id \in 1..Len(enrollments), NEW v \in Revisions,
           RequestPolicy(o, id, v)
    PROVE  ControlInv' /\ FinalStep /\ ProvenanceStep
<1>1. enrollments \in Seq(Enrollment)
  BY DEF ControlInv, ControlTypeOK
<1>2. PICK row : row = LiveRow(enrollments[id].station)
  OBVIOUS
<1>3. row \in [live : Nat, carried : Seq(Revisions)]
  <2>1. row.live \in Nat /\ row.carried \in Seq(Revisions)
    BY <1>1, <1>2, RowTyped
  <2>2. row = [live |-> row.live, carried |-> row.carried]
    BY <1>2 DEF LiveRow
  <2>. QED BY <2>1, <2>2
<1>4. PICK t : t = [kind |-> "policy", at |-> "open", id |-> id, revision |-> v, seen |-> row]
  OBVIOUS
<1>5. id \in Nat
  BY <1>1
<1>6. t \in PolicyTxn
  BY <1>3, <1>4, <1>5 DEF PolicyTxn
<1>7. TxnHolds(t)
  BY <1>4 DEF TxnHolds
<1>8. txn' = [txn EXCEPT ![o] = t] /\ UNCHANGED <<devices, enrollments, floorRow, registryCopy>>
  BY <1>2, <1>4 DEF RequestPolicy
<1>. QED BY <1>6, <1>7, <1>8, RequestKeeps

\* The snapshot a transaction begins with is right when it is taken.
LEMMA BeginTxKeeps ==
    ASSUME ControlInv, NEW o \in Operators, BeginTx(o)
    PROVE  ControlInv' /\ FinalStep /\ ProvenanceStep
<1>1. enrollments \in Seq(Enrollment) /\ floorRow \in Nat /\ txn[o] \in {NoTxn} \cup EnrollTxn \cup PolicyTxn
  BY DEF ControlInv, ControlTypeOK
<1>2. txn[o] \in EnrollTxn
  <2>1. txn[o] \in PolicyTxn => txn[o].at = "open"
    BY DEF PolicyTxn
  <2>. QED BY <1>1, <2>1 DEF BeginTx
<1>3. PICK s : s = StationOf(txn[o])
  OBVIOUS
<1>4. s \in Stations
  <2>1. txn[o].kind = "enroll" /\ txn[o].request \in EnrollRequests
    BY <1>2 DEF EnrollTxn
  <2>2. txn[o].request.station \in Stations
    BY <2>1 DEF EnrollRequests
  <2>. QED BY <1>3, <2>1, <2>2 DEF StationOf
<1>5. PICK v : v = FloorVersion
  OBVIOUS
<1>6. v \in Nat
  BY <1>1, <1>5, VersionIs, HardwareFinite
<1>7. PICK seen : seen = [live |-> LiveRow(s).live, carried |-> LiveRow(s).carried, device |-> devices[s],
                          floor |-> floorRow, floorVersion |-> v]
  OBVIOUS
<1>8. seen = SnapshotOf(s)
  BY <1>5, <1>7 DEF SnapshotOf
<1>9. devices[s] \in Device
  BY <1>4 DEF ControlInv, ControlTypeOK
<1>10. LiveRow(s).live \in Nat /\ LiveRow(s).carried \in Seq(Revisions)
  BY <1>1, RowTyped
<1>11. seen \in Snapshot
  BY <1>1, <1>6, <1>7, <1>9, <1>10 DEF Snapshot
<1>12. PICK t : t = [txn[o] EXCEPT !.at = "open", !.seen = seen]
  OBVIOUS
<1>13. t \in EnrollTxn
  BY <1>2, <1>11, <1>12 DEF EnrollTxn
<1>14. TxnHolds(t)
  <2>1. t.kind = "enroll" /\ t.seen = seen /\ t.edition = txn[o].edition /\ t.request = txn[o].request
    BY <1>2, <1>12 DEF EnrollTxn
  <2>2. seen.floorVersion = v /\ seen.floor = floorRow
    BY <1>7
  <2>3. FloorSeen(t)
    BY <1>5, <1>6, <2>1, <2>2 DEF FloorSeen
  <2>4. txn[o].kind = "enroll"
    BY <1>2 DEF EnrollTxn
  <2>5. t.edition > 0 => ~WithdrawnBy(t.edition, t.request.generation)
    BY <2>1, <2>4 DEF ControlInv, TxnHolds
  <2>. QED BY <2>1, <2>3, <2>5 DEF TxnHolds
<1>15. txn' = [txn EXCEPT ![o] = t] /\ UNCHANGED <<devices, enrollments, floorRow, registryCopy>>
  BY <1>3, <1>8, <1>12 DEF BeginTx
<1>. QED BY <1>13, <1>14, <1>15, RequestKeeps

\* A failure, and a refused request, leave the tables alone.
LEMMA RefusalKeeps ==
    ASSUME ControlInv, NEW o \in Operators, txn' = [txn EXCEPT ![o] = NoTxn],
           UNCHANGED <<devices, enrollments, floorRow, registryCopy>>
    PROVE  ControlInv' /\ FinalStep /\ ProvenanceStep
BY NothingOwed, RequestKeeps

\* Another copy of the registry concerns the requests to come.
LEMMA RegistryKeeps ==
    ASSUME ControlInv, RegistryReplaced
    PROVE  ControlInv' /\ FinalStep /\ ProvenanceStep
<1>1. registryCopy' \in Nat \ {0}
  BY ControlPlaneAssumption DEF RegistryReplaced, ControlPlaneAssumption
<1>2. UNCHANGED <<devices, enrollments, floorRow, txn>>
  BY DEF RegistryReplaced
<1>3. ControlTypeOK'
  BY <1>1, <1>2 DEF ControlInv, ControlTypeOK
<1>4. \A s \in Stations : devices[s].generation \in Nat
  BY DEF ControlInv, ControlTypeOK, Device
<1>5. FinalStep /\ ProvenanceStep
  BY <1>2, <1>4 DEF FinalStep, ProvenanceStep
<1>6. (OneLiveCredential /\ HistoryIsAChain /\ RevisionNamesOneInterval)'
  BY <1>2 DEF ControlInv, OneLiveCredential, HistoryIsAChain, RevisionNamesOneInterval
<1>7. (RegistryNeverGoesBack /\ DevicesHold /\ RowsHold)'
  BY <1>2 DEF ControlInv, RegistryNeverGoesBack, DevicesHold, RowsHold, FloorVersion
<1>8. (\A o \in Operators : TxnHolds(txn[o]))'
  BY <1>2 DEF ControlInv, TxnHolds, FloorSeen, FloorVersion
<1>. QED BY <1>3, <1>5, <1>6, <1>7, <1>8 DEF ControlInv

-----------------------------------------------------------------------------
(* Steps that write one row: policy changes and revocations.               *)

\* Two rows that differ at most in being active and in their revisions.
SameRow(e, f) ==
    /\ e.station = f.station /\ e.serial = f.serial /\ e.generation = f.generation
    /\ e.edition = f.edition /\ e.previous = f.previous

\* A step that changes one row, and not what it says of its station, keeps the
\* invariant if the row's own facts stay true.
LEMMA RowChangeKeeps ==
    ASSUME ControlInv, NEW id \in 1..Len(enrollments), enrollments[id].active,
           NEW e \in Enrollment, SameRow(e, enrollments[id]), IsInjective(e.revisions),
           enrollments' = [enrollments EXCEPT ![id] = e], UNCHANGED <<devices, floorRow, registryCopy>>,
           txn' \in [Operators -> {NoTxn} \cup EnrollTxn \cup PolicyTxn],
           \A o \in Operators : txn'[o] = txn[o] \/ txn'[o] = NoTxn
    PROVE  ControlInv' /\ FinalStep /\ ProvenanceStep
<1>1. enrollments \in Seq(Enrollment)
  BY DEF ControlInv, ControlTypeOK
<1>2. PICK es : es = enrollments'
  OBVIOUS
<1>3. es \in Seq(Enrollment) /\ Len(es) = Len(enrollments)
  BY <1>1, <1>2
<1>4. ASSUME NEW i \in 1..Len(enrollments)
      PROVE  /\ SameRow(es[i], enrollments[i]) /\ (es[i].active => enrollments[i].active)
             /\ IsInjective(es[i].revisions) /\ (~enrollments[i].active => es[i] = enrollments[i])
  <2>1. CASE i = id
    BY <1>1, <1>2, <2>1
  <2>2. CASE i # id
    BY <1>1, <1>2, <2>2 DEF SameRow, ControlInv, RevisionNamesOneInterval
  <2>. QED BY <2>1, <2>2
<1>5. Hardware(es) = Hardware(enrollments)
  BY <1>3, <1>4 DEF Hardware, SameRow
<1>6. FloorVersion' = FloorVersion
  BY <1>2, <1>5 DEF FloorVersion, Hardware
<1>7. ControlTypeOK'
  BY <1>2, <1>3 DEF ControlInv, ControlTypeOK
<1>8. OneLiveCredential'
  BY <1>2, <1>3, <1>4 DEF ControlInv, OneLiveCredential, SameRow
<1>9. HistoryIsAChain'
  BY <1>2, <1>3, <1>4 DEF ControlInv, HistoryIsAChain, SameRow
<1>10. RevisionNamesOneInterval'
  BY <1>2, <1>3, <1>4 DEF RevisionNamesOneInterval
<1>11. RegistryNeverGoesBack'
  BY <1>2, <1>3, <1>4 DEF ControlInv, RegistryNeverGoesBack, SameRow
<1>12. DevicesHold' /\ RowsHold'
  BY <1>2, <1>3, <1>4 DEF ControlInv, DevicesHold, RowsHold, SameRow
<1>13. (\A o \in Operators : TxnHolds(txn[o]))'
  <2>1. ASSUME NEW o \in Operators PROVE TxnHolds(txn[o])'
    <3>1. CASE txn'[o] = txn[o]
      <4>1. TxnHolds(txn[o])
        BY DEF ControlInv
      <4>. QED BY <1>2, <1>3, <1>6, <3>1, <4>1 DEF TxnHolds, FloorSeen
    <3>2. CASE txn'[o] = NoTxn
      BY <3>2 DEF TxnHolds, NoTxn
    <3>. QED BY <3>1, <3>2
  <2>. QED BY <2>1
<1>14. FinalStep
  BY <1>2, <1>4 DEF FinalStep
<1>15. ProvenanceStep
  <2>1. \A s \in Stations : devices[s].generation \in Nat
    BY DEF ControlInv, ControlTypeOK, Device
  <2>. QED BY <2>1 DEF ProvenanceStep
<1>. QED BY <1>7, <1>8, <1>9, <1>10, <1>11, <1>12, <1>13, <1>14, <1>15 DEF ControlInv

\* A new revision at the end of a list that does not hold it keeps its
\* revisions apart.
LEMMA RevisionsStayApart ==
    ASSUME NEW q \in Seq(Revisions), IsInjective(q), NEW v \in Revisions, v \notin ToSet(q),
           NEW r, r = Append(q, v)
    PROVE  IsInjective(r)
<1>1. \A i \in 1..Len(q) : q[i] # v
  BY DEF ToSet
<1>2. PICK n \in Nat : n = Len(q)
  OBVIOUS
<1>3. DOMAIN r = 1..(n + 1) /\ DOMAIN q = 1..n
  BY <1>2
<1>4. r[n + 1] = v /\ \A i \in 1..n : r[i] = q[i]
  BY <1>2
<1>5. \A i, j \in 1..n : q[i] = q[j] => i = j
  BY <1>3 DEF IsInjective
<1>6. \A i \in 1..(n + 1) : i \in 1..n \/ i = n + 1
  BY <1>2
<1>7. \A i, j \in 1..(n + 1) : r[i] = r[j] => i = j
  BY <1>1, <1>2, <1>4, <1>5, <1>6
<1>. QED BY <1>3, <1>7 DEF IsInjective

\* A transaction that commits has read the rows as they are.
LEMMA ReadsAreCurrent ==
    ASSUME enrollments \in Seq(Enrollment), NEW t \in EnrollTxn \cup PolicyTxn, ~Changed(t)
    PROVE  /\ t.seen.live = Live(StationOf(t)) /\ t.seen.carried = LiveRow(StationOf(t)).carried
           /\ t.kind = "enroll" => t.seen.device = devices[StationOf(t)]
           /\ t.kind = "enroll" /\ t.edition > 0 => t.seen.floorVersion = FloorVersion
<1>1. PICK row : row = LiveRow(StationOf(t))
  OBVIOUS
<1>2. row.live = Live(StationOf(t))
  BY <1>1, RowTyped
<1>3. [live |-> t.seen.live, carried |-> t.seen.carried] = row
  BY <1>1 DEF Changed
<1>4. row.live = t.seen.live /\ row.carried = t.seen.carried
  BY <1>3
<1>5. t.kind = "enroll" => t.seen.device = devices[StationOf(t)]
  BY DEF Changed
<1>6. t.kind = "enroll" /\ t.edition > 0 => t.seen.floorVersion = FloorVersion
  BY DEF Changed
<1>. QED BY <1>1, <1>2, <1>4, <1>5, <1>6

\* A policy change that commits adds a revision the station never had.
LEMMA ChangePolicyKeeps ==
    ASSUME ControlInv, NEW o \in Operators, ChangePolicy(o)
    PROVE  ControlInv' /\ FinalStep /\ ProvenanceStep
<1>1. enrollments \in Seq(Enrollment) /\ txn \in [Operators -> {NoTxn} \cup EnrollTxn \cup PolicyTxn]
  BY DEF ControlInv, ControlTypeOK
<1>2. PICK t : t = txn[o]
  OBVIOUS
<1>3. t \in PolicyTxn /\ t.kind = "policy"
  BY <1>1, <1>2, Kinds DEF ChangePolicy
<1>4. PICK id : id = t.id
  OBVIOUS
<1>5. id \in 1..Len(enrollments)
  BY <1>2, <1>3, <1>4 DEF ControlInv, TxnHolds
<1>6. UNCHANGED <<devices, floorRow, registryCopy>> /\ txn' = [txn EXCEPT ![o] = NoTxn]
  BY DEF ChangePolicy
<1>7. CASE ~Changed(t) /\ t.seen.live = t.id /\ RevisionUnused(t)
  <2>1. PICK q : q = enrollments[id].revisions
    OBVIOUS
  <2>2. enrollments' = [enrollments EXCEPT ![id] = [enrollments[id] EXCEPT !.revisions = Append(q, t.revision)]]
    BY <1>1, <1>2, <1>4, <1>5, <1>7, <2>1 DEF ChangePolicy
  <2>3. enrollments[id] \in Enrollment /\ q \in Seq(Revisions) /\ t.revision \in Revisions
    <3>1. enrollments[id] \in Enrollment
      BY <1>1, <1>5
    <3>2. q \in Seq(Revisions)
      BY <2>1, <3>1 DEF Enrollment
    <3>3. t.revision \in Revisions
      BY <1>3 DEF PolicyTxn
    <3>. QED BY <3>1, <3>2, <3>3
  <2>4. PICK e : e = [enrollments[id] EXCEPT !.revisions = Append(q, t.revision)]
    OBVIOUS
  <2>5. Append(q, t.revision) \in Seq(Revisions)
    BY <2>3
  <2>6. e \in Enrollment /\ SameRow(e, enrollments[id]) /\ e.revisions = Append(q, t.revision)
    BY <2>3, <2>4, <2>5 DEF Enrollment, SameRow
  <2>7. StationOf(t) = enrollments[id].station
    BY <1>3, <1>4 DEF StationOf
  <2>8. t.seen.live = Live(StationOf(t)) /\ t.seen.carried = LiveRow(StationOf(t)).carried
    BY <1>1, <1>3, <1>7, ReadsAreCurrent
  <2>9. Live(StationOf(t)) = id /\ id # 0
    BY <1>4, <1>5, <1>7, <2>8
  <2>10. enrollments[id].active
    BY <2>9, LiveIs
  <2>11. t.seen.carried = q
    BY <1>1, <2>1, <2>8, <2>9, RowTyped
  <2>12. t.revision \notin ToSet(q)
    BY <1>7, <2>11 DEF RevisionUnused
  <2>13. IsInjective(q)
    BY <1>5, <2>1 DEF ControlInv, RevisionNamesOneInterval
  <2>14. IsInjective(e.revisions)
    <3>1. PICK v \in Revisions : v = t.revision
      BY <2>3
    <3>2. PICK r : r = e.revisions
      OBVIOUS
    <3>3. r = Append(q, v)
      BY <2>6, <3>1, <3>2
    <3>4. IsInjective(r)
      BY <2>3, <2>12, <2>13, <3>1, <3>3, RevisionsStayApart
    <3>. QED BY <3>2, <3>4
  <2>15. txn' \in [Operators -> {NoTxn} \cup EnrollTxn \cup PolicyTxn]
    BY <1>1, <1>6
  <2>16. \A p \in Operators : txn'[p] = txn[p] \/ txn'[p] = NoTxn
    BY <1>1, <1>6
  <2>17. enrollments' = [enrollments EXCEPT ![id] = e]
    BY <2>2, <2>4
  <2>. QED BY <1>5, <1>6, <2>6, <2>10, <2>14, <2>15, <2>16, <2>17, RowChangeKeeps
<1>8. CASE ~(~Changed(t) /\ t.seen.live = t.id /\ RevisionUnused(t))
  <2>1. UNCHANGED enrollments
    BY <1>2, <1>8 DEF ChangePolicy
  <2>. QED BY <1>6, <2>1, RefusalKeeps
<1>. QED BY <1>7, <1>8

\* A revocation ends the active row of a station for good.
LEMMA RevokeKeeps ==
    ASSUME ControlInv, NEW id \in 1..Len(enrollments), Revoke(id)
    PROVE  ControlInv' /\ FinalStep /\ ProvenanceStep
<1>1. enrollments \in Seq(Enrollment) /\ txn \in [Operators -> {NoTxn} \cup EnrollTxn \cup PolicyTxn]
  BY DEF ControlInv, ControlTypeOK
<1>2. PICK e : e = [enrollments[id] EXCEPT !.active = FALSE]
  OBVIOUS
<1>3. enrollments[id] \in Enrollment
  BY <1>1
<1>4. e \in Enrollment /\ SameRow(e, enrollments[id]) /\ e.revisions = enrollments[id].revisions
  BY <1>2, <1>3 DEF Enrollment, SameRow
<1>5. IsInjective(e.revisions)
  BY <1>4 DEF ControlInv, RevisionNamesOneInterval
<1>6. enrollments' = [enrollments EXCEPT ![id] = e] /\ enrollments[id].active
      /\ UNCHANGED <<devices, floorRow, registryCopy, txn>>
  BY <1>1, <1>2 DEF Revoke
<1>7. txn' \in [Operators -> {NoTxn} \cup EnrollTxn \cup PolicyTxn] /\ \A o \in Operators : txn'[o] = txn[o]
  BY <1>1, <1>6
<1>. QED BY <1>4, <1>5, <1>6, <1>7, RowChangeKeeps

-----------------------------------------------------------------------------
(* The step that adds a row: an enrollment that commits.                   *)

\* What a request that passed Validate says of its station.
LEMMA RequestTyped ==
    ASSUME NEW r \in EnrollRequests
    PROVE  /\ r.station \in Stations /\ r.serial \in Serial /\ r.generation \in Nat /\ r.revision \in Revisions
           /\ r.serial # NoSerial => r.station \in BoardStations
           /\ r.station \in BoardStations => r.serial # NoSerial
<1>1. r \in [station : Stations, serial : Serials \cup {NoSerial}, generation : 0..MaxGeneration,
             service : BOOLEAN, revision : Revisions] /\ (SoftwareValid(r) \/ HardwareValid(r))
  BY DEF EnrollRequests
<1>2. BoardStations \cap SoftStations = {} /\ 0..MaxGeneration \subseteq Nat
  BY ControlPlaneAssumption DEF ControlPlaneAssumption
<1>. QED BY <1>1, <1>2 DEF SoftwareValid, HardwareValid, Serial

\* An enrollment that commits, with the tables before and after: the active row
\* of the station is withdrawn, everything else of the old rows stays.
LEMMA Committed ==
    ASSUME ControlInv, NEW t \in EnrollTxn, ~Changed(t), TxnHolds(t), t.at = "open", FloorAllows(t)
    PROVE  /\ t.request \in EnrollRequests /\ t.edition \in Nat
           /\ t.seen.live = Live(t.request.station) /\ t.seen.device = devices[t.request.station]
           /\ t.edition > 0 => t.edition >= floorRow
           /\ t.edition > 0 => ~WithdrawnBy(t.edition, t.request.generation)
           /\ Deactivated(t) \in Seq(Enrollment) /\ Len(Deactivated(t)) = Len(enrollments)
           /\ NewEnrollment(t) \in Enrollment
           /\ \A i \in 1..Len(enrollments) :
                 /\ SameRow(Deactivated(t)[i], enrollments[i])
                 /\ Deactivated(t)[i].revisions = enrollments[i].revisions
                 /\ Deactivated(t)[i].active => enrollments[i].active /\ i # Live(t.request.station)
                 /\ ~enrollments[i].active => Deactivated(t)[i] = enrollments[i]
<1>1. enrollments \in Seq(Enrollment) /\ floorRow \in Nat
  BY DEF ControlInv, ControlTypeOK
<1>2. t.kind = "enroll" /\ t.request \in EnrollRequests /\ t.edition \in Nat /\ t.seen \in Snapshot
  BY DEF EnrollTxn
<1>3. StationOf(t) = t.request.station
  BY <1>2 DEF StationOf
<1>4. PICK s : s = t.request.station
  OBVIOUS
<1>5. s \in Stations
  BY <1>2, <1>4, RequestTyped
<1>6. /\ t.seen.live = Live(s) /\ t.seen.device = devices[s]
      /\ t.edition > 0 => t.seen.floorVersion = FloorVersion
  BY <1>1, <1>2, <1>3, <1>4, ReadsAreCurrent
<1>7. t.edition > 0 => t.edition >= floorRow
  BY <1>2, <1>6 DEF TxnHolds, FloorSeen, FloorAllows
<1>8. t.edition > 0 => ~WithdrawnBy(t.edition, t.request.generation)
  BY <1>2 DEF TxnHolds
<1>9. PICK n \in Nat : n = Len(enrollments)
  BY <1>1
<1>10. PICK d : d = Deactivated(t)
  OBVIOUS
<1>11. d = [i \in 1..n |-> IF i = Live(s) THEN [enrollments[i] EXCEPT !.active = FALSE] ELSE enrollments[i]]
  BY <1>6, <1>9, <1>10 DEF Deactivated
<1>12. ASSUME NEW i \in 1..n
       PROVE  /\ d[i] \in Enrollment /\ SameRow(d[i], enrollments[i]) /\ d[i].revisions = enrollments[i].revisions
              /\ d[i].active => enrollments[i].active /\ i # Live(s)
              /\ ~enrollments[i].active => d[i] = enrollments[i]
  <2>1. enrollments[i] \in Enrollment
    BY <1>1, <1>9
  <2>2. CASE i = Live(s)
    <3>1. PICK e : e = [enrollments[i] EXCEPT !.active = FALSE]
      OBVIOUS
    <3>2. d[i] = e
      BY <1>11, <2>2, <3>1
    <3>3. e \in Enrollment /\ ~e.active /\ SameRow(e, enrollments[i]) /\ e.revisions = enrollments[i].revisions
      BY <2>1, <3>1 DEF Enrollment, SameRow
    <3>4. enrollments[i].active
      BY <1>9, <2>2, LiveIs
    <3>. QED BY <3>2, <3>3, <3>4
  <2>3. CASE i # Live(s)
    <3>1. d[i] = enrollments[i]
      BY <1>11, <2>3
    <3>. QED BY <2>1, <2>3, <3>1 DEF SameRow
  <2>. QED BY <2>2, <2>3
<1>13. d \in Seq(Enrollment) /\ Len(d) = n
  <2>1. d \in [1..n -> Enrollment]
    BY <1>11, <1>12
  <2>. QED BY <1>9, <2>1
<1>14. NewEnrollment(t) \in Enrollment
  <2>1. /\ t.request.station \in Stations /\ t.request.serial \in Serial
        /\ t.request.generation \in Nat /\ t.request.revision \in Revisions
    BY <1>2, RequestTyped
  <2>2. t.seen.device.current \in Nat
    BY <1>2 DEF Snapshot, Device
  <2>3. <<t.request.revision>> \in Seq(Revisions)
    BY <2>1
  <2>. QED BY <1>2, <2>1, <2>2, <2>3 DEF NewEnrollment, Enrollment
<1>. QED BY <1>2, <1>4, <1>6, <1>7, <1>8, <1>9, <1>10, <1>12, <1>13, <1>14

\* An enrollment that is accepted.
Accepted(t) == ~Changed(t) /\ Transition(t) /\ FloorAllows(t) /\ IndexesAllow(t)

\* Two enrollments of a station are never active together: what Live finds is
\* the only one.
LEMMA OnlyLive ==
    ASSUME ControlInv, NEW i \in 1..Len(enrollments), enrollments[i].active
    PROVE  Live(enrollments[i].station) = i
<1>1. PICK s : s = enrollments[i].station
  OBVIOUS
<1>2. \A k \in 1..Len(enrollments) :
        enrollments[k].active
          => devices[enrollments[k].station] =
               [current |-> k, serial |-> enrollments[k].serial, generation |-> enrollments[k].generation]
  BY DEF ControlInv, OneLiveCredential
<1>3. PICK k : k = Live(s)
  OBVIOUS
<1>4. k \in 1..Len(enrollments) /\ enrollments[k].station = s /\ enrollments[k].active
  BY <1>1, <1>3, LiveIs
<1>5. devices[s] = [current |-> i, serial |-> enrollments[i].serial, generation |-> enrollments[i].generation]
  BY <1>1, <1>2
<1>6. devices[s] = [current |-> k, serial |-> enrollments[k].serial, generation |-> enrollments[k].generation]
  BY <1>2, <1>4
<1>. QED BY <1>1, <1>3, <1>5, <1>6

\* A station that is enrolled again keeps its provenance.
LEMMA ProvenanceKeeps ==
    ASSUME ControlInv, NEW t \in EnrollTxn, t.seen.device = devices[t.request.station], Transition(t),
           IndexesAllow(t), NEW n \in Nat,
           devices' = [devices EXCEPT ![t.request.station] =
                         [current |-> n, serial |-> t.request.serial, generation |-> t.request.generation]]
    PROVE  ProvenanceStep
<1>1. PICK r : r = t.request
  OBVIOUS
<1>2. r \in EnrollRequests
  BY <1>1 DEF EnrollTxn
<1>3. r.station \in Stations /\ r.serial \in Serial /\ r.generation \in Nat
      /\ (r.station \in BoardStations => r.serial # NoSerial)
  BY <1>2, RequestTyped
<1>4. devices \in [Stations -> Device]
  BY DEF ControlInv, ControlTypeOK
<1>5. ASSUME NEW s \in Stations PROVE devices[s].generation \in Nat
  BY <1>4 DEF Device
<1>6. /\ devices'[r.station].serial = r.serial /\ devices'[r.station].generation = r.generation
      /\ \A s \in Stations \ {r.station} : devices'[s] = devices[s]
  BY <1>1, <1>3, <1>4
<1>7. PICK old : old = devices[r.station]
  OBVIOUS
<1>8. ASSUME old.current # 0
      PROVE  /\ old.serial # r.serial => old.serial # NoSerial
             /\ (old.serial # r.serial \/ old.generation # r.generation) => r.generation > old.generation
  <2>1. ProvenanceKept(t)
    BY <1>1, <1>7, <1>8 DEF Transition
  <2>. QED BY <1>1, <1>7, <2>1 DEF ProvenanceKept
<1>9. old.serial # NoSerial => r.station \in BoardStations
  BY <1>3, <1>7 DEF ControlInv, DevicesHold
<1>10. r.serial # NoSerial => \A s \in Stations \ {r.station} : devices[s].serial # r.serial
  BY <1>1 DEF IndexesAllow
<1>11. old.generation \in Nat
  BY <1>3, <1>5, <1>7
<1>12. ASSUME NEW s \in Stations, devices[s].current # 0
       PROVE  /\ devices'[s].generation >= devices[s].generation
              /\ devices[s].serial = NoSerial => devices'[s].serial = NoSerial
              /\ devices'[s].serial # devices[s].serial
                    => /\ devices'[s].generation > devices[s].generation
                       /\ \A o \in Stations \ {s} : devices'[o].serial # devices'[s].serial
  <2>1. CASE s = r.station
    <3>1. devices[s] = old /\ devices'[s].serial = r.serial /\ devices'[s].generation = r.generation
      BY <1>6, <1>7, <2>1
    <3>2. r.generation >= old.generation
      BY <1>3, <1>8, <1>11, <1>12, <3>1
    <3>3. old.serial = NoSerial => r.serial = NoSerial
      BY <1>8, <1>12, <3>1
    <3>4. ASSUME r.serial # old.serial
          PROVE  r.generation > old.generation /\ \A o \in Stations \ {s} : devices'[o].serial # r.serial
      <4>1. r.generation > old.generation /\ old.serial # NoSerial
        BY <1>8, <1>12, <3>1, <3>4
      <4>2. r.serial # NoSerial
        BY <1>3, <1>9, <4>1
      <4>. QED BY <1>6, <1>10, <2>1, <4>1, <4>2
    <3>. QED BY <3>1, <3>2, <3>3, <3>4
  <2>2. CASE s # r.station
    BY <1>5, <1>6, <2>2
  <2>. QED BY <2>1, <2>2
<1>. QED BY <1>12 DEF ProvenanceStep

\* An enrollment that commits ends the row it replaces, adds one, and moves the
\* registry's floor on; one that does not commit changes nothing.
LEMMA EnrollKeeps ==
    ASSUME ControlInv, NEW o \in Operators, Enroll(o)
    PROVE  ControlInv' /\ FinalStep /\ ProvenanceStep
<1>1. /\ enrollments \in Seq(Enrollment) /\ txn \in [Operators -> {NoTxn} \cup EnrollTxn \cup PolicyTxn]
      /\ devices \in [Stations -> Device] /\ floorRow \in Nat
  BY DEF ControlInv, ControlTypeOK
<1>2. PICK t : t = txn[o]
  OBVIOUS
<1>3. t \in EnrollTxn /\ t.at = "open" /\ TxnHolds(t)
  BY <1>1, <1>2, Kinds DEF Enroll, ControlInv
<1>4. UNCHANGED registryCopy /\ txn' = [txn EXCEPT ![o] = NoTxn]
  BY DEF Enroll
<1>5. CASE ~Accepted(t)
  <2>1. UNCHANGED <<devices, enrollments, floorRow>>
    BY <1>2, <1>5 DEF Enroll, Accepted
  <2>. QED BY <1>4, <2>1, RefusalKeeps
<1>6. CASE Accepted(t)
  <2>1. PICK n \in Nat : n = Len(enrollments)
    BY <1>1
  <2>2. PICK r : r = t.request
    OBVIOUS
  <2>3. PICK d : d = Deactivated(t)
    OBVIOUS
  <2>4. PICK e : e = NewEnrollment(t)
    OBVIOUS
  <2>5. PICK D : D = [current |-> n + 1, serial |-> r.serial, generation |-> r.generation]
    OBVIOUS
  <2>6. /\ enrollments' = Append(d, e) /\ devices' = [devices EXCEPT ![r.station] = D]
        /\ floorRow' = IF t.edition > floorRow THEN t.edition ELSE floorRow
    BY <1>2, <1>6, <2>1, <2>2, <2>3, <2>4, <2>5 DEF Enroll, Accepted
  <2>7. /\ r \in EnrollRequests /\ t.edition \in Nat
        /\ t.seen.live = Live(r.station) /\ t.seen.device = devices[r.station]
        /\ t.edition > 0 => t.edition >= floorRow
        /\ t.edition > 0 => ~WithdrawnBy(t.edition, r.generation)
        /\ d \in Seq(Enrollment) /\ Len(d) = n /\ e \in Enrollment
        /\ \A i \in 1..n : /\ SameRow(d[i], enrollments[i]) /\ d[i].revisions = enrollments[i].revisions
                           /\ d[i].active => enrollments[i].active /\ i # Live(r.station)
                           /\ ~enrollments[i].active => d[i] = enrollments[i]
    BY <1>3, <1>6, <2>1, <2>2, <2>3, <2>4, Committed DEF Accepted
  <2>8. PICK s : s = r.station
    OBVIOUS
  <2>9. /\ s \in Stations /\ r.serial \in Serial /\ r.generation \in Nat /\ r.revision \in Revisions
        /\ r.serial # NoSerial => s \in BoardStations
    BY <2>7, <2>8, RequestTyped
  <2>10. D \in Device /\ D.current = n + 1 /\ D.serial = r.serial
    BY <2>5, <2>9 DEF Device
  <2>11. devices[s] \in Device /\ devices[s].current \in Nat
    BY <1>1, <2>9 DEF Device
  <2>12. /\ e.station = s /\ e.active /\ e.serial = r.serial /\ e.generation = r.generation
         /\ e.edition = t.edition /\ e.revisions = <<r.revision>> /\ e.previous = devices[s].current
    BY <2>2, <2>4, <2>7, <2>8 DEF NewEnrollment
  <2>13. PICK fs : fs = enrollments'
    OBVIOUS
  <2>14. /\ fs \in Seq(Enrollment) /\ Len(fs) = n + 1 /\ fs[n + 1] = e
         /\ \A i \in 1..n : fs[i] = d[i]
    BY <2>1, <2>6, <2>7, <2>13
  <2>15. PICK ds : ds = devices'
    OBVIOUS
  <2>16. ds[s] = D /\ \A x \in Stations \ {s} : ds[x] = devices[x]
    BY <1>1, <2>6, <2>8, <2>9, <2>15
  <2>17. PICK floor : floor = floorRow'
    OBVIOUS
  <2>18. floor \in Nat /\ floor >= floorRow /\ floor >= t.edition /\ (t.edition = 0 => floor = floorRow)
    BY <1>1, <2>6, <2>7, <2>17
  <2>19. \A i \in 1..(n + 1) : i \in 1..n \/ i = n + 1
    BY <2>1
  <2>20. ControlTypeOK'
    <3>1. devices' \in [Stations -> Device]
      BY <1>1, <2>6, <2>10
    <3>2. registryCopy' \in Nat \ {0}
      BY <1>4 DEF ControlInv, ControlTypeOK
    <3>. QED BY <1>1, <1>4, <2>13, <2>14, <2>17, <2>18, <3>1, <3>2 DEF ControlTypeOK
  <2>21. \A i \in 1..n : d[i].active => enrollments[i].station # s
    BY <2>1, <2>7, <2>8, OnlyLive
  <2>22. OneLiveCredential'
    <3>1. ASSUME NEW i \in 1..(n + 1), fs[i].active
          PROVE  ds[fs[i].station] = [current |-> i, serial |-> fs[i].serial, generation |-> fs[i].generation]
      <4>1. CASE i = n + 1
        BY <2>5, <2>12, <2>14, <2>16, <4>1
      <4>2. CASE i \in 1..n
        <5>1. fs[i] = d[i] /\ SameRow(d[i], enrollments[i]) /\ enrollments[i].active /\ enrollments[i].station # s
          BY <2>7, <2>14, <2>21, <3>1, <4>2
        <5>2. enrollments[i].station \in Stations
          <6>1. enrollments[i] \in Enrollment
            BY <1>1, <2>1, <4>2
          <6>. QED BY <6>1 DEF Enrollment
        <5>3. ds[enrollments[i].station] = devices[enrollments[i].station]
          BY <2>16, <5>1, <5>2
        <5>4. devices[enrollments[i].station] =
                [current |-> i, serial |-> enrollments[i].serial, generation |-> enrollments[i].generation]
          BY <2>1, <4>2, <5>1 DEF ControlInv, OneLiveCredential
        <5>. QED BY <5>1, <5>3, <5>4 DEF SameRow
      <4>. QED BY <2>19, <4>1, <4>2
    <3>. QED BY <2>13, <2>14, <2>15, <3>1 DEF OneLiveCredential
  <2>23. \A i \in 1..n : /\ enrollments[i].previous < i /\ enrollments[i].edition <= floorRow
                         /\ enrollments[i].previous \in Nat /\ enrollments[i].edition \in Nat
                         /\ enrollments[i].station = s => i <= devices[s].current
    <3>1. ASSUME NEW i \in 1..n
          PROVE  enrollments[i].previous \in Nat /\ enrollments[i].edition \in Nat
      <4>1. enrollments[i] \in Enrollment
        BY <1>1, <2>1
      <4>. QED BY <4>1 DEF Enrollment
    <3>2. \A i \in 1..n : enrollments[i].previous < i /\ enrollments[i].edition <= floorRow
      BY <2>1 DEF ControlInv, RowsHold
    <3>3. \A i \in 1..n : enrollments[i].station = s => i <= devices[s].current
      BY <2>1, <2>9 DEF ControlInv, DevicesHold
    <3>. QED BY <3>1, <3>2, <3>3
  <2>24. HistoryIsAChain'
    <3>1. ASSUME NEW i \in 1..(n + 1), NEW j \in 1..(n + 1), i < j, fs[i].station = fs[j].station
          PROVE  fs[i].previous # fs[j].previous /\ fs[j].previous >= i
      <4>1. i \in 1..n
        BY <2>1, <3>1
      <4>2. fs[i] = d[i] /\ SameRow(d[i], enrollments[i])
        BY <2>7, <2>14, <4>1
      <4>3. CASE j = n + 1
        <5>1. fs[j].previous = devices[s].current /\ enrollments[i].station = s
          BY <2>12, <2>14, <3>1, <4>2, <4>3 DEF SameRow
        <5>2. enrollments[i].previous < i /\ i <= devices[s].current /\ enrollments[i].previous \in Nat
          BY <2>23, <4>1, <5>1
        <5>. QED BY <2>11, <4>1, <4>2, <5>1, <5>2 DEF SameRow
      <4>4. CASE j \in 1..n
        <5>1. fs[j] = d[j] /\ SameRow(d[j], enrollments[j])
          BY <2>7, <2>14, <4>4
        <5>. QED BY <2>1, <3>1, <4>1, <4>2, <4>4, <5>1 DEF SameRow, ControlInv, HistoryIsAChain
      <4>. QED BY <2>19, <4>3, <4>4
    <3>. QED BY <2>13, <2>14, <3>1 DEF HistoryIsAChain
  <2>25. RevisionNamesOneInterval'
    <3>1. ASSUME NEW i \in 1..(n + 1) PROVE IsInjective(fs[i].revisions)
      <4>1. CASE i = n + 1
        BY <2>12, <2>14, <4>1 DEF IsInjective
      <4>2. CASE i \in 1..n
        BY <2>1, <2>7, <2>14, <4>2 DEF ControlInv, RevisionNamesOneInterval
      <4>. QED BY <2>19, <4>1, <4>2
    <3>. QED BY <2>13, <2>14, <3>1 DEF RevisionNamesOneInterval
  <2>26. RegistryNeverGoesBack'
    <3>1. ASSUME NEW i \in 1..(n + 1), NEW j \in 1..(n + 1), i < j, fs[i].edition > 0, fs[j].edition > 0
          PROVE  fs[i].edition <= fs[j].edition /\ ~WithdrawnBy(fs[i].edition, fs[j].generation)
      <4>1. i \in 1..n
        BY <2>1, <3>1
      <4>2. fs[i] = d[i] /\ SameRow(d[i], enrollments[i])
        BY <2>7, <2>14, <4>1
      <4>3. CASE j = n + 1
        <5>1. fs[j].edition = t.edition /\ fs[j].generation = r.generation
          BY <2>12, <2>14, <4>3
        <5>2. fs[i].edition \in Nat /\ fs[i].edition <= t.edition
          BY <1>1, <2>7, <2>23, <3>1, <4>1, <4>2, <5>1 DEF SameRow
        <5>3. ~WithdrawnBy(t.edition, r.generation)
          BY <2>7, <3>1, <5>1
        <5>4. WithdrawnFrom \in Nat
          BY ControlPlaneAssumption DEF ControlPlaneAssumption
        <5>. QED BY <2>7, <5>1, <5>2, <5>3, <5>4 DEF WithdrawnBy
      <4>4. CASE j \in 1..n
        <5>1. fs[j] = d[j] /\ SameRow(d[j], enrollments[j])
          BY <2>7, <2>14, <4>4
        <5>. QED BY <2>1, <3>1, <4>1, <4>2, <4>4, <5>1 DEF SameRow, ControlInv, RegistryNeverGoesBack
      <4>. QED BY <2>19, <4>3, <4>4
    <3>. QED BY <2>13, <2>14, <3>1 DEF RegistryNeverGoesBack
  <2>27. DevicesHold'
    <3>1. ASSUME NEW x \in Stations
          PROVE  /\ ds[x].current <= n + 1
                 /\ \A i \in 1..(n + 1) : fs[i].station = x => i <= ds[x].current
                 /\ ds[x].serial # NoSerial => x \in BoardStations
      <4>1. CASE x = s
        BY <2>1, <2>9, <2>10, <2>16, <4>1
      <4>2. CASE x # s
        <5>1. /\ ds[x] = devices[x] /\ devices[x].current <= n
              /\ \A i \in 1..n : enrollments[i].station = x => i <= devices[x].current
              /\ devices[x].serial # NoSerial => x \in BoardStations
          BY <2>1, <2>16, <4>2 DEF ControlInv, DevicesHold
        <5>2. devices[x].current \in Nat
          BY <1>1 DEF Device
        <5>3. ASSUME NEW i \in 1..(n + 1), fs[i].station = x PROVE i <= devices[x].current
          <6>1. i \in 1..n
            BY <2>12, <2>14, <2>19, <4>2, <5>3
          <6>. QED BY <2>7, <2>14, <5>1, <5>3, <6>1 DEF SameRow
        <5>. QED BY <2>1, <5>1, <5>2, <5>3
      <4>. QED BY <4>1, <4>2
    <3>. QED BY <2>13, <2>14, <2>15, <3>1 DEF DevicesHold
  <2>28. RowsHold'
    <3>1. ASSUME NEW i \in 1..(n + 1) PROVE fs[i].previous < i /\ fs[i].edition <= floor
      <4>1. CASE i = n + 1
        <5>1. devices[s].current <= n
          BY <2>1, <2>9 DEF ControlInv, DevicesHold
        <5>. QED BY <2>1, <2>11, <2>12, <2>14, <2>18, <4>1, <5>1
      <4>2. CASE i \in 1..n
        <5>1. fs[i].previous = enrollments[i].previous /\ fs[i].edition = enrollments[i].edition
          BY <2>7, <2>14, <4>2 DEF SameRow
        <5>. QED BY <1>1, <2>18, <2>23, <4>2, <5>1
      <4>. QED BY <2>19, <4>1, <4>2
    <3>. QED BY <2>13, <2>14, <2>17, <3>1 DEF RowsHold
  <2>29. (\A p \in Operators : TxnHolds(txn[p]))'
    <3>1. PICK v : v = FloorVersion
      OBVIOUS
    <3>2. PICK w : w = FloorVersion'
      OBVIOUS
    <3>3. v = Cardinality(Hardware(enrollments)) /\ w = Cardinality(Hardware(fs))
      BY <2>13, <3>1, <3>2 DEF FloorVersion, Hardware
    <3>4. v \in Nat /\ w \in Nat
      BY <1>1, <2>14, <3>3, HardwareFinite
    <3>5. (t.edition > 0 => w = v + 1) /\ (t.edition = 0 => w = v)
      <4>1. \A i \in 1..Len(enrollments) : fs[i].edition = enrollments[i].edition
        BY <2>1, <2>7, <2>14 DEF SameRow
      <4>2. Len(fs) = Len(enrollments) + 1 /\ fs[Len(fs)].edition = t.edition
        BY <2>1, <2>12, <2>14
      <4>. QED BY <1>1, <2>14, <3>3, <4>1, <4>2, VersionAppended
    <3>6. ASSUME NEW p \in Operators PROVE TxnHolds(txn[p])'
      <4>1. CASE p = o
        BY <1>1, <1>4, <4>1 DEF TxnHolds, NoTxn
      <4>2. CASE p # o
        <5>1. PICK u : u = txn[p]
          OBVIOUS
        <5>2. txn'[p] = u /\ TxnHolds(u) /\ u \in {NoTxn} \cup EnrollTxn \cup PolicyTxn
          BY <1>1, <1>4, <4>2, <5>1 DEF ControlInv
        <5>3. ASSUME u.kind = "enroll", u.at = "open"
              PROVE  u.seen.floorVersion <= w /\ (u.seen.floorVersion = w => u.seen.floor = floor)
          <6>1. u \in EnrollTxn
            BY <5>2, <5>3, Kinds
          <6>2. u.seen.floorVersion \in Nat
            BY <6>1 DEF EnrollTxn, Snapshot
          <6>3. u.seen.floorVersion <= v /\ (u.seen.floorVersion = v => u.seen.floor = floorRow)
            BY <3>1, <5>2, <5>3 DEF TxnHolds, FloorSeen
          <6>. QED BY <2>7, <2>18, <3>4, <3>5, <6>2, <6>3
        <5>4. u.kind = "policy" => u.id \in 1..(n + 1)
          BY <2>1, <5>2 DEF TxnHolds
        <5>5. u.kind = "enroll" => (u.edition > 0 => ~WithdrawnBy(u.edition, u.request.generation))
          BY <5>2 DEF TxnHolds
        <5>. QED BY <2>13, <2>14, <2>17, <3>2, <5>2, <5>3, <5>4, <5>5 DEF TxnHolds, FloorSeen
      <4>. QED BY <4>1, <4>2
    <3>. QED BY <3>6
  <2>30. FinalStep
    BY <2>1, <2>7, <2>13, <2>14 DEF FinalStep
  <2>31. ProvenanceStep
    <3>1. PICK m \in Nat : m = n + 1
      BY <2>1
    <3>2. t.seen.device = devices[t.request.station]
      BY <2>2, <2>7
    <3>3. devices' = [devices EXCEPT ![t.request.station] =
                        [current |-> m, serial |-> t.request.serial, generation |-> t.request.generation]]
      BY <2>2, <2>5, <2>6, <3>1
    <3>4. Transition(t) /\ IndexesAllow(t)
      BY <1>6 DEF Accepted
    <3>. QED BY <1>3, <3>2, <3>3, <3>4, ProvenanceKeeps
  <2>. QED BY <2>20, <2>22, <2>24, <2>25, <2>26, <2>27, <2>28, <2>29, <2>30, <2>31 DEF ControlInv
<1>. QED BY <1>5, <1>6

-----------------------------------------------------------------------------

\* The empty tables.
LEMMA ControlStarts == ControlPlaneInit => ControlInv
<1>. SUFFICES ASSUME ControlPlaneInit PROVE ControlInv
  OBVIOUS
<1>1. NoDevice \in Device /\ NoDevice.current = 0 /\ NoDevice.serial = NoSerial
  BY DEF NoDevice, Device, Serial
<1>2. enrollments = <<>> /\ Len(enrollments) = 0 /\ 1..Len(enrollments) = {}
  BY DEF ControlPlaneInit
<1>3. ControlTypeOK
  BY <1>1, <1>2 DEF ControlPlaneInit, ControlTypeOK
<1>4. DevicesHold
  BY <1>1, <1>2 DEF ControlPlaneInit, DevicesHold
<1>5. \A o \in Operators : TxnHolds(txn[o])
  BY NothingOwed DEF ControlPlaneInit
<1>. QED BY <1>2, <1>3, <1>4, <1>5
     DEF ControlInv, OneLiveCredential, HistoryIsAChain, RevisionNamesOneInterval, RegistryNeverGoesBack, RowsHold

\* Every step of the service keeps the invariant, and takes nothing back.
LEMMA ControlStep ==
    ControlInv /\ [ControlPlaneNext]_controlVars => ControlInv' /\ [FinalStep /\ ProvenanceStep]_controlVars
<1>. SUFFICES ASSUME ControlInv, [ControlPlaneNext]_controlVars
              PROVE  ControlInv' /\ [FinalStep /\ ProvenanceStep]_controlVars
  OBVIOUS
<1>1. CASE RegistryReplaced
  BY <1>1, RegistryKeeps
<1>2. ASSUME NEW o \in Operators, NEW r \in EnrollRequests, RequestEnroll(o, r)
      PROVE  ControlInv' /\ FinalStep /\ ProvenanceStep
  BY <1>2, RequestEnrollKeeps
<1>3. ASSUME NEW o \in Operators, NEW id \in 1..Len(enrollments), NEW v \in Revisions, RequestPolicy(o, id, v)
      PROVE  ControlInv' /\ FinalStep /\ ProvenanceStep
  BY <1>3, RequestPolicyKeeps
<1>4. ASSUME NEW o \in Operators, BeginTx(o) PROVE ControlInv' /\ FinalStep /\ ProvenanceStep
  BY <1>4, BeginTxKeeps
<1>5. ASSUME NEW o \in Operators, Enroll(o) PROVE ControlInv' /\ FinalStep /\ ProvenanceStep
  BY <1>5, EnrollKeeps
<1>6. ASSUME NEW o \in Operators, ChangePolicy(o) PROVE ControlInv' /\ FinalStep /\ ProvenanceStep
  BY <1>6, ChangePolicyKeeps
<1>7. ASSUME NEW o \in Operators, TransactionFails(o) PROVE ControlInv' /\ FinalStep /\ ProvenanceStep
  BY <1>7, RefusalKeeps DEF TransactionFails
<1>8. ASSUME NEW id \in 1..Len(enrollments), Revoke(id) PROVE ControlInv' /\ FinalStep /\ ProvenanceStep
  BY <1>8, RevokeKeeps
<1>9. CASE UNCHANGED controlVars
  <2> SUFFICES ControlInv'
    BY <1>9
  <2>1. ControlTypeOK'
    BY <1>9 DEF controlVars, ControlInv, ControlTypeOK
  <2>2. OneLiveCredential' /\ HistoryIsAChain' /\ RevisionNamesOneInterval'
    BY <1>9 DEF controlVars, ControlInv, OneLiveCredential, HistoryIsAChain, RevisionNamesOneInterval
  <2>3. RegistryNeverGoesBack' /\ DevicesHold' /\ RowsHold'
    BY <1>9 DEF controlVars, ControlInv, RegistryNeverGoesBack, DevicesHold, RowsHold, FloorSeen, FloorVersion
  <2>4. (\A o \in Operators : TxnHolds(txn[o]))'
    BY <1>9 DEF controlVars, ControlInv, TxnHolds, FloorSeen, FloorVersion
  <2>. QED BY <2>1, <2>2, <2>3, <2>4 DEF ControlInv
<1>10. CASE ControlPlaneNext
  BY <1>1, <1>2, <1>3, <1>4, <1>5, <1>6, <1>7, <1>8, <1>10 DEF ControlPlaneNext
<1>. QED BY <1>9, <1>10

\* However operators' transactions overlap, fail and are retried, a station has
\* one live credential and one chain of enrollments, keeps its provenance and
\* its withdrawn rows, and rests on a registry that only moves on (Enroll,
\* ChangePolicy, Revoke).
THEOREM EnrollmentsStaySound == ControlPlaneSpec => EnrollmentsAreSound
<1>1. ControlPlaneInit => ControlInv
  BY ControlStarts
<1>2. ControlInv /\ [ControlPlaneNext]_controlVars => ControlInv' /\ [FinalStep /\ ProvenanceStep]_controlVars
  BY ControlStep
<1>3. ControlInv => /\ OneLiveCredential /\ HistoryIsAChain
                    /\ RevisionNamesOneInterval /\ RegistryNeverGoesBack
  BY DEF ControlInv
<1>4. [FinalStep /\ ProvenanceStep]_controlVars
        => [\A i \in 1..Len(enrollments) : ~enrollments[i].active => enrollments'[i] = enrollments[i]]_controlVars
  BY DEF FinalStep
<1>5. [FinalStep /\ ProvenanceStep]_controlVars => [ProvenanceStep]_controlVars
  OBVIOUS
<1>. QED BY <1>1, <1>2, <1>3, <1>4, <1>5, PTL
     DEF ControlPlaneSpec, EnrollmentsAreSound, ProvenanceHolds, WithdrawnIsFinal

=============================================================================

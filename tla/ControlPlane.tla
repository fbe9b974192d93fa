---------------------------- MODULE ControlPlane -----------------------------
(***************************************************************************)
(* The control plane service (internal/control, cmd/navcontrol): operators *)
(* enroll stations, replace their credentials, change their policy and     *)
(* revoke them, by requests that run as concurrent database transactions.  *)
(*                                                                         *)
(* A serializable transaction reads from the snapshot its first statement  *)
(* takes, before it waits for the station's advisory lock, and fails if a  *)
(* row it locks or writes has changed since.  A core record stands for the *)
(* secure element it names, a commissioning record for that core and its   *)
(* generation; tokens and enrollment ids are the enrollment's number.  The *)
(* authorities and their keys are the second half of this module.          *)
(***************************************************************************)
EXTENDS Integers, Sequences, FiniteSets, SequencesExt

CONSTANTS
    Operators,          \* concurrent requests
    BoardStations,      \* stations named after a board
    SoftStations,       \* software stations
    Serials,            \* secure elements
    Revisions,          \* policy revisions
    MaxGeneration,      \* bound: commissioning generations
    MaxRegistry,        \* bound: registry editions
    WithdrawnFrom,      \* the edition from which records of generation 1 are withdrawn
    MaxEnrollments      \* bound: enrollments

ASSUME ControlPlaneAssumption ==
    /\ {MaxGeneration, MaxRegistry, WithdrawnFrom, MaxEnrollments} \subseteq Nat
    /\ BoardStations \cap SoftStations = {} /\ MaxRegistry > 0

VARIABLES
    devices,        \* navl_devices
    enrollments,    \* navl_enrollments with their service events, in commit order
    floorRow,       \* navl_registry_floors, 0 when there is no row
    registryCopy,   \* the edition in the registry file
    txn             \* the request of each operator

controlVars == <<devices, enrollments, floorRow, registryCopy, txn>>

Stations == BoardStations \cup SoftStations
NoSerial == "none"
NoTxn == [kind |-> "none"]
NoDevice == [current |-> 0, serial |-> NoSerial, generation |-> 0]

ControlPlaneInit ==
    /\ devices = [s \in Stations |-> NoDevice] /\ enrollments = <<>> /\ floorRow = 0
    /\ registryCopy = 1
    /\ txn = [o \in Operators |-> NoTxn]

\* The operator's copy of the registry is replaced by any edition.
RegistryReplaced ==
    /\ registryCopy' \in (1..MaxRegistry) \ {registryCopy}
    /\ UNCHANGED <<devices, enrollments, floorRow, txn>>

---------------------------------------------------------------------------
(* What a transaction sees.                                                *)

Live(s) == SelectInSeq(enrollments, LAMBDA e : e.station = s /\ e.active)
StationOf(t) == IF t.kind = "enroll" THEN t.request.station ELSE enrollments[t.id].station

\* The active enrollment of station s and the revisions its service events hold.
LiveRow(s) == [live |-> Live(s), carried |-> IF Live(s) = 0 THEN <<>> ELSE enrollments[Live(s)].revisions]

\* Every hardware enrollment writes the floor's row.
FloorVersion == Cardinality({i \in 1..Len(enrollments) : enrollments[i].edition > 0})

\* What an enrollment of station s reads besides: its device, the floor and its row's version.
SnapshotOf(s) ==
    [live |-> LiveRow(s).live, carried |-> LiveRow(s).carried, device |-> devices[s],
     floor |-> floorRow, floorVersion |-> FloorVersion]

\* Before its first statement a transaction has read nothing.
Unread == [live |-> 0, carried |-> <<>>, device |-> NoDevice, floor |-> 0, floorVersion |-> 0]

---------------------------------------------------------------------------
(* Validating a request, outside any transaction.                          *)

\* A replacement of the secure element names hardware.
ServiceActionValid(r) == r.service => r.serial # NoSerial

\* A software station claims no hardware and no board's name.
SoftwareValid(r) == r.station \in SoftStations /\ r.serial = NoSerial /\ r.generation = 0

\* The core and the commissioning record verify, name this board, and bind each other.
HardwareValid(r) == r.station \in BoardStations /\ r.serial # NoSerial /\ r.generation > 0

\* The requests that pass the checks that depend on nothing but the request.
EnrollRequests ==
    {r \in [station : Stations, serial : Serials \cup {NoSerial}, generation : 0..MaxGeneration,
            service : BOOLEAN, revision : Revisions] : ServiceActionValid(r) /\ (SoftwareValid(r) \/ HardwareValid(r))}

WithdrawnBy(edition, generation) == edition >= WithdrawnFrom /\ generation = 1

\* The registry is the copy present now; its edition goes into the transaction with the request.
RegistryPermits(r) == r.serial # NoSerial => ~WithdrawnBy(registryCopy, r.generation)

\* What an operator is told the station's enrollment is, whether it is active or not.
CurrentEnrollment(s) == devices[s].current

\* Answered without touching the database; a refused request leaves nothing behind.  The enrollment a
\* request replaces is what CurrentEnrollment answers now: any other is refused whatever happens next.
RequestEnroll(o, r) ==
    /\ txn[o] = NoTxn /\ Len(enrollments) < MaxEnrollments
    /\ RegistryPermits(r) /\ (r.service => CurrentEnrollment(r.station) # 0)
    /\ txn' = [txn EXCEPT ![o] = [kind |-> "enroll", at |-> "validated", request |-> r,
                                  replaces |-> CurrentEnrollment(r.station),
                                  edition |-> IF r.serial = NoSerial THEN 0 ELSE registryCopy,
                                  seen |-> Unread]]
    /\ UNCHANGED <<devices, enrollments, floorRow, registryCopy>>

\* A policy change has nothing to validate outside its transaction; it names an active enrollment.
RequestPolicy(o, id, revision) ==
    /\ txn[o] = NoTxn /\ enrollments[id].active
    /\ txn' = [txn EXCEPT ![o] = [kind |-> "policy", at |-> "open", id |-> id, revision |-> revision,
                                  seen |-> LiveRow(enrollments[id].station)]]
    /\ UNCHANGED <<devices, enrollments, floorRow, registryCopy>>

---------------------------------------------------------------------------
(* Transactions.                                                           *)

\* BeginTx and the first statement, which takes the snapshot.
BeginTx(o) ==
    /\ txn[o] # NoTxn /\ txn[o].at = "validated"
    /\ txn' = [txn EXCEPT ![o].at = "open", ![o].seen = SnapshotOf(StationOf(txn[o]))]
    /\ UNCHANGED <<devices, enrollments, floorRow, registryCopy>>

\* A serialization failure, a deadlock, a cancelled request, or the process ending before the commit.
TransactionFails(o) ==
    /\ txn[o] # NoTxn
    /\ txn' = [txn EXCEPT ![o] = NoTxn]
    /\ UNCHANGED <<devices, enrollments, floorRow, registryCopy>>

\* A row the transaction locks or writes has changed since its snapshot.
Changed(t) ==
    LET s == StationOf(t) IN
    \/ [live |-> t.seen.live, carried |-> t.seen.carried] # LiveRow(s)
    \/ t.kind = "enroll" /\ t.seen.device # devices[s]
    \/ t.kind = "enroll" /\ t.edition > 0 /\ t.seen.floorVersion # FloorVersion

ProvenanceKept(t) ==
    LET old == t.seen.device
        r == t.request
        coreChanged == old.serial # r.serial
    IN /\ coreChanged = r.service /\ (coreChanged => old.serial # NoSerial)
       /\ (<<old.serial, old.generation>> # <<r.serial, r.generation>>) => r.generation > old.generation

\* An existing station is enrolled again only by naming the enrollment it has now.
Transition(t) ==
    IF t.seen.device.current # 0
    THEN ProvenanceKept(t) /\ t.replaces = t.seen.device.current
    ELSE t.replaces = 0

FloorAllows(t) == t.edition >= t.seen.floor \/ t.edition = 0

\* The unique indexes: one station per secure element, one active enrollment per station.
IndexesAllow(t) ==
    /\ t.request.serial # NoSerial =>
           \A s \in Stations \ {t.request.station} : devices[s].serial # t.request.serial
    /\ Live(t.request.station) \in {0, t.seen.live}

\* Mutant: the enrollment that is replaced stays active.
DeactivatedNone(t) == enrollments

\* UPDATE ... SET active=false for the enrollment the snapshot shows active.
Deactivated(t) ==
    [i \in 1..Len(enrollments) |-> IF i = t.seen.live THEN [enrollments[i] EXCEPT !.active = FALSE]
                                   ELSE enrollments[i]]

NewEnrollment(t) ==
    [station |-> t.request.station, active |-> TRUE, serial |-> t.request.serial,
     generation |-> t.request.generation, edition |-> t.edition,
     revisions |-> <<t.request.revision>>, previous |-> t.seen.device.current]

Enroll(o) ==
    LET t == txn[o]
        accepted == ~Changed(t) /\ Transition(t) /\ FloorAllows(t) /\ IndexesAllow(t)
    IN /\ t.kind = "enroll" /\ t.at = "open" /\ Len(enrollments) < MaxEnrollments
       /\ txn' = [txn EXCEPT ![o] = NoTxn]
       /\ IF accepted
          THEN /\ enrollments' = Append(Deactivated(t), NewEnrollment(t))
               /\ devices' = [devices EXCEPT ![t.request.station] =
                                [current |-> Len(enrollments) + 1, serial |-> t.request.serial,
                                 generation |-> t.request.generation]]
               /\ floorRow' = IF t.edition > floorRow THEN t.edition ELSE floorRow
          ELSE UNCHANGED <<enrollments, devices, floorRow>>
       /\ UNCHANGED <<registryCopy>>

\* Not the revision in force, nor one the service history of the enrollment holds.
RevisionUnused(t) == t.revision \notin ToSet(t.seen.carried)

ChangePolicy(o) ==
    LET t == txn[o]
        accepted == ~Changed(t) /\ t.seen.live = t.id /\ RevisionUnused(t)
    IN /\ t.kind = "policy" /\ t.at = "open"
       /\ txn' = [txn EXCEPT ![o] = NoTxn]
       /\ enrollments' = IF accepted THEN [enrollments EXCEPT ![t.id].revisions = Append(@, t.revision)]
                         ELSE enrollments
       /\ UNCHANGED <<devices, floorRow, registryCopy>>

\* One read committed statement on the enrollment's row: it needs neither snapshot nor station lock.
Revoke(id) ==
    /\ enrollments[id].active
    /\ enrollments' = [enrollments EXCEPT ![id].active = FALSE]
    /\ UNCHANGED <<devices, floorRow, registryCopy, txn>>

\* The routes of the operator API; a refusal and a lost answer both leave the operator to ask again.
ControlPlaneNext ==
    \/ RegistryReplaced
    \/ \E o \in Operators : \/ \E r \in EnrollRequests : RequestEnroll(o, r)
                            \/ \E id \in 1..Len(enrollments), v \in Revisions : RequestPolicy(o, id, v)
                            \/ BeginTx(o) \/ Enroll(o) \/ ChangePolicy(o) \/ TransactionFails(o)
    \/ \E id \in 1..Len(enrollments) : Revoke(id)

ControlPlaneSpec == ControlPlaneInit /\ [][ControlPlaneNext]_controlVars

---------------------------------------------------------------------------
(* Properties.                                                             *)

\* A station has at most one live credential, the one its device names, and it rests on the
\* secure element and the commissioning the device has now (Enroll, Revoke; navl_current_enrollment).
OneLiveCredential ==
    \A i \in 1..Len(enrollments) :
        LET e == enrollments[i] IN
        e.active => devices[e.station] = [current |-> i, serial |-> e.serial, generation |-> e.generation]

\* The service history of a station is one chain: every enrollment replaced the one before it, so two
\* concurrent requests never replace the same enrollment (Enroll's FOR UPDATE read and lock).
HistoryIsAChain ==
    \A i, j \in 1..Len(enrollments) :
        i < j /\ enrollments[i].station = enrollments[j].station
            => enrollments[i].previous # enrollments[j].previous /\ enrollments[j].previous >= i

\* A policy revision names one interval of an enrollment (ChangePolicy): receipts stamped with it
\* were all received under one policy.
RevisionNamesOneInterval == \A i \in 1..Len(enrollments) : IsInjective(enrollments[i].revisions)

\* Once an edition of the registry has served an enrollment, no later enrollment rests on an older one
\* or on a record that edition withdraws, although requests are validated before their transaction.
RegistryNeverGoesBack ==
    \A i, j \in 1..Len(enrollments) :
        i < j /\ enrollments[i].edition > 0 /\ enrollments[j].edition > 0
            => /\ enrollments[i].edition <= enrollments[j].edition
               /\ ~WithdrawnBy(enrollments[i].edition, enrollments[j].generation)

ProvenanceStep ==
    \A s \in Stations : devices[s].current # 0 =>
        /\ devices'[s].generation >= devices[s].generation
        /\ devices[s].serial = NoSerial => devices'[s].serial = NoSerial
        /\ devices'[s].serial # devices[s].serial
              => /\ devices'[s].generation > devices[s].generation
                 /\ \A o \in Stations \ {s} : devices'[o].serial # devices'[s].serial

\* A station keeps its provenance: its commissioning generation never falls, a
\* software station never becomes hardware, and a secure element is never on
\* two stations (Enroll).
ProvenanceHolds == [][ProvenanceStep]_controlVars

\* The row of an enrollment that was revoked or replaced never changes again: no retry and no policy
\* change that was under way when it was withdrawn writes to it or brings it back.
WithdrawnIsFinal ==
    [][\A i \in 1..Len(enrollments) : ~enrollments[i].active => enrollments'[i] = enrollments[i]]_controlVars

\* Concurrent operators leave each station one live credential, one chain of
\* enrollments, one provenance and a registry that only moves on (Service).
EnrollmentsAreSound ==
    /\ [](/\ OneLiveCredential
          /\ HistoryIsAChain
          /\ RevisionNamesOneInterval
          /\ RegistryNeverGoesBack)
    /\ ProvenanceHolds
    /\ WithdrawnIsFinal

-----------------------------------------------------------------------------
(***************************************************************************)
(* Authorities and their keys (internal/control/database.go,               *)
(* internal/authority, cmd/navcontrol), and the read credentials           *)
(* (internal/control/administration.go).                                   *)
(*                                                                         *)
(* Every start of the control plane reads the authority file of that day   *)
(* and publishes it.  A process of an earlier start may still serve        *)
(* requests, so certificates are validated under one configuration and     *)
(* stored, and authorized by the collector's view, under another.          *)
(***************************************************************************)

CONSTANTS
    ControlProcesses,   \* starts of the control plane
    Operationals,       \* operational authorities
    Issuers,            \* issuing keys
    Manufacturers,      \* manufacturer authorities
    ReadDigests,        \* read credentials
    MaxCertified        \* bound: enrollments

\* The owner of a key that no authority has.
Unowned == "unowned"

ASSUME AuthorityKeysAssumption == MaxCertified \in Nat /\ Unowned \notin Operationals

VARIABLES
    keyRows,        \* navl_authority_keys: the owner of each key
    authorityRows,  \* navl_authorities: the authorities enabled
    pairingRows,    \* navl_authority_pairings
    lastFile,       \* the authority file the last successful start published
    control,        \* the configuration of each process
    validated,      \* enrollments validated by a process and not yet stored
    certified,      \* enrollments stored
    readRows        \* navl_read_credentials

authorityVars == <<keyRows, authorityRows, pairingRows, lastFile, control, validated, certified, readRows>>

NotRunning == [up |-> FALSE, owner |-> [k \in Issuers |-> Unowned], enabled |-> {}, paired |-> {}]

AuthorityKeysInit ==
    /\ keyRows = [k \in Issuers |-> Unowned] /\ authorityRows = {} /\ pairingRows = {}
    /\ lastFile = NotRunning /\ control = [p \in ControlProcesses |-> NotRunning]
    /\ validated = {} /\ certified = {} /\ readRows = [d \in ReadDigests |-> "absent"]

---------------------------------------------------------------------------
(* Configurations.                                                         *)

\* authority.New: a key has one owner in a file; what a file leaves out is as good as disabled.
AuthorityFiles ==
    [up : {TRUE}, owner : [Issuers -> Operationals \cup {Unowned}],
     enabled : SUBSET (Operationals \cup Manufacturers), paired : SUBSET (Operationals \X Manufacturers)]

\* Mutant: a key of an earlier file moves to the authority that lists it now.
KeyMayServeAny(f, k) == TRUE

\* key: a key already registered keeps its owner; a file that moves it does not start.
KeyMayServe(f, k) == f.owner[k] = Unowned \/ keyRows[k] \in {Unowned, f.owner[k]}

Registered(f) == [k \in Issuers |-> IF f.owner[k] = Unowned THEN keyRows[k] ELSE f.owner[k]]

\* Every authority is disabled before the file's are registered.
EnabledAfter(f) == f.enabled

\* navcontrol's start: the file is loaded, then published in one transaction before any request is served.
Initialize(p, f) ==
    /\ ~control[p].up /\ \A k \in Issuers : KeyMayServe(f, k)
    /\ keyRows' = Registered(f) /\ authorityRows' = EnabledAfter(f) /\ pairingRows' = f.paired
    /\ lastFile' = f /\ control' = [control EXCEPT ![p] = f]
    /\ UNCHANGED <<validated, certified, readRows>>

---------------------------------------------------------------------------
(* Enrollments.                                                            *)

Allows(f, authority, maker) ==
    /\ authority \in f.enabled
    /\ maker # Unowned => maker \in f.enabled /\ <<authority, maker>> \in f.paired

\* Only the verified chain counts: its issuing key is the expected authority's.
MatchIssuer(f, key, authority) == f.owner[key] = authority

Enrollable(f, e) == Allows(f, e.authority, e.maker) /\ (e.issuer # Unowned => MatchIssuer(f, e.issuer, e.authority))

Certificates == [authority : Operationals, maker : Manufacturers \cup {Unowned}, issuer : Issuers \cup {Unowned}]

ValidateCertificate(p, e) ==
    /\ control[p].up /\ Enrollable(control[p], e) /\ e \notin validated \cup certified
    /\ Cardinality(validated \cup certified) < MaxCertified
    /\ validated' = validated \cup {e}
    /\ UNCHANGED <<keyRows, authorityRows, pairingRows, lastFile, control, certified, readRows>>

StoreEnrollment(e) ==
    /\ e \in validated /\ validated' = validated \ {e} /\ certified' = certified \cup {e}
    /\ UNCHANGED <<keyRows, authorityRows, pairingRows, lastFile, control, readRows>>

\* navlistener_observer_authorization_v3, without what depends on time and on the enrollment alone.
AuthorizationView ==
    {e \in certified : /\ e.authority \in authorityRows
                       /\ e.maker # Unowned => e.maker \in authorityRows /\ <<e.authority, e.maker>> \in pairingRows}

---------------------------------------------------------------------------
(* Read credentials.                                                       *)

\* A digest is the table's key, and its row is kept when it is disabled.
MayIssue(d) == readRows[d] = "absent"

CreateReadCredential(d) ==
    /\ MayIssue(d) /\ readRows' = [readRows EXCEPT ![d] = "enabled"]
    /\ UNCHANGED <<keyRows, authorityRows, pairingRows, lastFile, control, validated, certified>>

DisableReadCredential(d) ==
    /\ readRows[d] = "enabled" /\ readRows' = [readRows EXCEPT ![d] = "disabled"]
    /\ UNCHANGED <<keyRows, authorityRows, pairingRows, lastFile, control, validated, certified>>

AuthorityKeysNext ==
    \/ \E p \in ControlProcesses : \/ \E f \in AuthorityFiles : Initialize(p, f)
                                   \/ \E e \in Certificates : ValidateCertificate(p, e)
    \/ \E e \in Certificates : StoreEnrollment(e)
    \/ \E d \in ReadDigests : CreateReadCredential(d) \/ DisableReadCredential(d)

AuthorityKeysSpec == AuthorityKeysInit /\ [][AuthorityKeysNext]_authorityVars

---------------------------------------------------------------------------
(* Properties.                                                             *)

\* The issuing key of every stored enrollment belongs to the authority it was enrolled under, whatever
\* files the service has started with since (Initialize's key, MatchIssuer).
IssuersStayAttributable ==
    \A e \in certified : e.issuer # Unowned => keyRows[e.issuer] = e.authority

\* What the collector's view authorizes is permitted by the file published last, even if an older
\* process validated or stored the enrollment under another file (Initialize).
ViewFollowsTheFile == \A e \in AuthorizationView : Allows(lastFile, e.authority, e.maker)

\* A read credential that was disabled is never enabled again (CreateReadCredential, DisableReadCredential).
DisabledReadsStayDisabled ==
    [][\A d \in ReadDigests : readRows[d] = "disabled" => readRows'[d] = "disabled"]_authorityVars

\* Enrollments and read credentials stay attributable to the authorities on
\* file, through restarts with other files (Initialize).
KeysAreSound ==
    /\ [](IssuersStayAttributable /\ ViewFollowsTheFile)
    /\ DisabledReadsStayDisabled

=============================================================================

----------------------------- MODULE HardwareTrust -----------------------------
(***************************************************************************)
(* Hardware evidence and the manufacturer's registry                       *)
(* (internal/commissioning, cmd/navlistener/hardware_trust.go, and the     *)
(* evidence part of internal/ingest/push.go).                              *)
(*                                                                         *)
(* The manufacturer publishes editions of its registry, numbered from 1;   *)
(* the operator's copy of the registry file may be any edition, old ones   *)
(* included, or no registry at all.  The collector watches the file, keeps *)
(* the newest edition in force, records its number in a state file that    *)
(* outlives the process, evaluates the evidence of new sessions and        *)
(* rechecks it while they last.                                            *)
(***************************************************************************)
EXTENDS Integers, FiniteSets, Sequences

CONSTANTS
    Boards,           \* the boards of one manufacturer, each with its observer
    TrustSessions,    \* push sessions
    KeepsState,       \* BOOLEAN: registry_state is configured
    RequireEntry,     \* BOOLEAN: require_registry_entry
    UnverifiedBound,  \* rechecks a session may go unverified (unavailabilityBound)
    MaxEditions,      \* bound: registry editions
    MaxFileChanges,   \* bound: changes of the registry file
    MaxStarts,        \* bound: starts of the collector
    MaxWriteFaults    \* bound: state file writes that fail

ASSUME HardwareTrustAssumption ==
    /\ {KeepsState, RequireEntry} \subseteq BOOLEAN
    /\ {UnverifiedBound, MaxEditions, MaxFileChanges, MaxStarts, MaxWriteFaults} \subseteq Nat
    /\ MaxEditions > 0

VARIABLES
    editions,   \* the registry editions published so far
    file,       \* the registry file: an edition's number, or NoRegistry
    fileChanges,
    collector,  \* the process and its Verifier
    stateFile,  \* the number in the state file, 0 when there is none
    newest,     \* the newest edition any process of this collector put in force
    excused,    \* an edition in force was not recorded: the write failed, or a crash came first
    writeFaults, starts,
    session

registryWorld == <<editions, file, fileChanges>>
trustVars == <<registryWorld, collector, stateFile, newest, excused, writeFaults, starts, session>>

NoRegistry == 0   \* missing, over the size limit, malformed, or not signed by a pinned key
Down == [at |-> "down", inForce |-> 0, floor |-> 0, recorded |-> 0, seen |-> 0, owed |-> FALSE]
NoSession == [live |-> FALSE, trust |-> "none", evidence |-> <<>>, unverified |-> 0, late |-> 0]

Later2(a, b) == IF a > b THEN a ELSE b

HardwareTrustInit ==
    /\ editions \in {<<[b \in Boards |-> [status |-> "active", current |-> 1]]>>,
                     <<[b \in Boards |-> [status |-> "unlisted", current |-> 1]]>>}
    /\ file = 1 /\ fileChanges = 0
    /\ collector = Down /\ stateFile = 0 /\ newest = 0 /\ excused = FALSE
    /\ writeFaults = 0 /\ starts = 0
    /\ session = [s \in TrustSessions |-> NoSession]

---------------------------------------------------------------------------
(* The manufacturer and the operator.                                      *)

\* The next edition lists, revokes, reinstates or commissions one board again.
ManufacturerPublishes(b) ==
    /\ Len(editions) < MaxEditions
    /\ LET last == editions[Len(editions)]
           entry == last[b]
           next == {[entry EXCEPT !.status = "active"], [entry EXCEPT !.status = "revoked"],
                    [status |-> "active", current |-> entry.current + 1]}
       IN \E e \in next \ {entry} : editions' = Append(editions, [last EXCEPT ![b] = e])
    /\ UNCHANGED <<file, fileChanges, collector, stateFile, newest, excused, writeFaults, starts, session>>

OperatorReplacesFile ==
    /\ fileChanges < MaxFileChanges /\ fileChanges' = fileChanges + 1
    /\ file' \in ({NoRegistry} \cup 1..Len(editions)) \ {file}
    /\ UNCHANGED <<editions, collector, stateFile, newest, excused, writeFaults, starts, session>>

---------------------------------------------------------------------------
(* The registry in force.                                                  *)

\* A pinned operations key signed it for this manufacturer and its rows agree with their records.
VerifyRegistry(n) == n # NoRegistry

\* Mutant: the recorded floor does not bind the first registry loaded.
LoadableInProcess(n) == VerifyRegistry(n) /\ n >= collector.inForce

Loadable(n) == VerifyRegistry(n) /\ n >= collector.floor /\ n >= collector.inForce

\* The state file is absent or names this manufacturer's newest recorded edition.
StateFloor == IF KeepsState THEN stateFile ELSE 0

\* startManufacturers, up to the first load: without a registry it accepts, the daemon does not start.
StartHardwareTrust ==
    /\ collector.at = "down" /\ starts < MaxStarts /\ starts' = starts + 1
    /\ collector' = [Down EXCEPT !.at = "reading", !.floor = StateFloor, !.recorded = StateFloor]
    /\ UNCHANGED <<registryWorld, stateFile, newest, excused, writeFaults, session>>

WatchRegistryFirst ==
    /\ collector.at = "reading"
    /\ IF Loadable(file)
       THEN /\ collector' = [collector EXCEPT !.at = "starting", !.inForce = file, !.seen = file, !.owed = TRUE]
            /\ newest' = Later2(newest, file)
       ELSE collector' = Down /\ newest' = newest
    /\ UNCHANGED <<registryWorld, stateFile, excused, writeFaults, starts, session>>

\* A tick that finds other bytes than it last saw; a refusal is remembered by its bytes too.
WatchRegistryTick ==
    /\ collector.at = "up" /\ ~collector.owed /\ file # collector.seen
    /\ IF Loadable(file)
       THEN /\ collector' = [collector EXCEPT !.inForce = file, !.seen = file, !.owed = TRUE]
            /\ newest' = Later2(newest, file)
       ELSE collector' = [collector EXCEPT !.seen = file] /\ newest' = newest
    /\ UNCHANGED <<registryWorld, stateFile, excused, writeFaults, starts, session>>

\* writeRegistryState renames a complete file into place, or fails and leaves the old one.
StateWritten(ok) == stateFile' = IF ok THEN collector.inForce ELSE stateFile

\* At startup a failure ends the process, later it is logged and the registry stays in force.
RecordRegistrySequence ==
    /\ collector.owed
    /\ LET raised == [collector EXCEPT !.floor = Later2(@, collector.inForce), !.owed = FALSE, !.at = "up"]
       IN IF ~KeepsState \/ collector.inForce = collector.recorded
          THEN collector' = raised /\ UNCHANGED <<stateFile, excused, writeFaults>>
          ELSE \/ /\ StateWritten(TRUE)
                  /\ collector' = [raised EXCEPT !.recorded = collector.inForce]
                  /\ excused' = (excused /\ stateFile' < newest) /\ writeFaults' = writeFaults
               \/ /\ writeFaults < MaxWriteFaults /\ writeFaults' = writeFaults + 1
                  /\ collector' = IF collector.at = "starting" THEN Down ELSE raised
                  /\ excused' = TRUE /\ StateWritten(FALSE)
    /\ UNCHANGED <<registryWorld, newest, starts, session>>

CollectorStops ==
    /\ collector.at # "down" /\ collector' = Down
    /\ excused' = (excused \/ (collector.owed /\ collector.inForce # collector.recorded))
    /\ session' = [s \in TrustSessions |-> NoSession]
    /\ UNCHANGED <<registryWorld, stateFile, newest, writeFaults, starts>>

---------------------------------------------------------------------------
(* A commissioning statement, as far as trust goes.  Validate is applied   *)
(* by the signer and by every verifier.                                    *)

Statements == [profile : {"trusted", "open", "test"}, keyNamed : BOOLEAN, locked : {"none", "some", "all"},
               attested : BOOLEAN]

ValidStatement(s) ==
    /\ ~s.keyNamed => s.locked # "all"
    /\ s.profile = "trusted" => s.keyNamed /\ s.locked = "all"
    /\ s.profile = "open" => ~s.keyNamed /\ s.locked = "none"
    /\ s.profile # "test" => s.attested

\* A record: its statement, whether a pinned key signed it, whether its product and revision
\* are served here, its board, and which of the board's records it is.
EntryRecords ==
    [statement : {s \in Statements : ValidStatement(s)}, signed : BOOLEAN, served : BOOLEAN,
     board : Boards, current : 1..MaxEditions]

\* A device presents a record and, with a key, a proof: over this TLS session by the key the
\* statement names, or anything else.
Presented == [record : EntryRecords, proof : {"none", "good", "bad"}]

---------------------------------------------------------------------------
(* Evaluate and its registry checks.                                       *)

Edition == editions[collector.inForce]

RegistryRejects(e) ==
    LET entry == Edition[e.record.board]
    IN \/ entry.status = "unlisted" /\ RequireEntry
       \/ entry.status = "revoked"
       \/ entry.status = "active" /\ entry.current # e.record.current

ProofHolds(e) ==
    /\ e.proof # "none" => e.record.statement.keyNamed /\ e.proof = "good"
    /\ e.proof = "none" => e.record.statement.profile # "trusted"

\* The signature is a pinned manufacturer key's, in the one form a record may have.
RecordVerifies(e) == e.record.signed

\* What the evidence proves for a session of the observer that belongs to the given board.
Evaluate3(board, e) ==
    IF /\ RecordVerifies(e) /\ e.record.served
       /\ e.record.board = board /\ ~RegistryRejects(e) /\ ProofHolds(e)
    THEN e.record.statement.profile ELSE "none"

\* The enrollment names this manufacturer, and the product, revision and core record that were
\* commissioned; without both the evidence proves nothing.
EnrollmentEvaluates(enrolled, e) ==
    IF enrolled.manufacturer /\ enrolled.matches THEN Evaluate3(enrolled.board, e) ELSE "none"

\* The handshake labels the session and admits it whatever the evidence proves.
Handshake(s) ==
    /\ collector.at = "up" /\ ~session[s].live
    /\ \E e \in Presented, m \in BOOLEAN, c \in BOOLEAN, b \in Boards :
         session' = [session EXCEPT ![s] =
            LET trust == EnrollmentEvaluates([manufacturer |-> m, matches |-> c, board |-> b], e)
            IN [NoSession EXCEPT !.live = TRUE, !.trust = trust,
                                 !.evidence = IF trust = "none" THEN <<>> ELSE e]]
    /\ UNCHANGED <<registryWorld, collector, stateFile, newest, excused, writeFaults, starts>>

SessionEnds(s) ==
    /\ session[s].live /\ session' = [session EXCEPT ![s] = NoSession]
    /\ UNCHANGED <<registryWorld, collector, stateFile, newest, excused, writeFaults, starts>>

Withdrawn(s) == session[s].trust # "none" /\ RegistryRejects(session[s].evidence)

(* One tick of watchAuthorization: the credential is confirmed, or refused *)
(* (the session is closed), or cannot be verified (the session is kept     *)
(* within the bound and the registry is not consulted).  A tick happens    *)
(* within the recheck interval.                                            *)
RecheckConfirmed(s) ==
    session' = [session EXCEPT ![s] = IF Withdrawn(s) THEN NoSession
                                      ELSE [@ EXCEPT !.unverified = 0, !.late = 0]]

RecheckUnavailable(s) ==
    LET q == session[s]
    IN  session' = [session EXCEPT ![s] =
            IF q.unverified < UnverifiedBound
            THEN [q EXCEPT !.unverified = q.unverified + 1, !.late = IF Withdrawn(s) THEN q.late + 1 ELSE 0]
            ELSE NoSession]

WatchAuthorizationTick(s) ==
    /\ collector.at = "up" /\ session[s].live
    /\ RecheckConfirmed(s) \/ RecheckUnavailable(s)
    /\ UNCHANGED <<registryWorld, collector, stateFile, newest, excused, writeFaults, starts>>

HardwareTrustNext ==
    \/ \E b \in Boards : ManufacturerPublishes(b)
    \/ OperatorReplacesFile \/ StartHardwareTrust \/ WatchRegistryFirst \/ WatchRegistryTick
    \/ RecordRegistrySequence \/ CollectorStops
    \/ \E s \in TrustSessions : Handshake(s) \/ SessionEnds(s) \/ WatchAuthorizationTick(s)

HardwareTrustSpec == HardwareTrustInit /\ [][HardwareTrustNext]_trustVars

---------------------------------------------------------------------------
(* An older registry never comes back: the edition in force is the newest  *)
(* any process of this collector has had in force, across restarts too     *)
(* when the state is kept and its writes succeed.                          *)
NoRegistryRollback ==
    collector.at \in {"starting", "up"} /\ (starts = 1 \/ (KeepsState /\ ~excused))
      => collector.inForce >= newest

(* A session is labelled trusted only for a locked, attested board that    *)
(* proved possession of its commissioned key on this session, and whose    *)
(* record the registry did not contradict when it was last consulted.      *)
TrustIsEarned ==
    \A s \in TrustSessions : session[s].trust = "trusted" =>
        LET e == session[s].evidence
        IN e.record.signed /\ e.proof = "good" /\ e.record.statement.keyNamed /\ e.record.statement.locked = "all" /\ e.record.statement.attested

(* A board the registry in force withdraws keeps its label for at most the *)
(* rechecks the revocation bound allows, control plane outages included.   *)
WithdrawalWithinBound == \A s \in TrustSessions : session[s].late <= UnverifiedBound

(* The registry only takes trust away: a live session's label never        *)
(* changes, and one it withdrew can come back only through a new handshake *)
(* that a session of a superseded record cannot pass while its edition is  *)
(* in force.                                                               *)
SupersededStaysOut ==
    [][\A s \in TrustSessions :
         ~session[s].live /\ session'[s].live /\ session'[s].trust # "none"
           => LET e == session'[s].evidence
                  entry == Edition[e.record.board]
              IN /\ entry.status = "active" => entry.current = e.record.current
                 /\ entry.status # "revoked"]_trustVars

\* Trust rests on the newest registry ever in force, on a proof of the record
\* it names, and ends within the bound when it is withdrawn (Verifier).
TrustIsSound ==
    /\ [](NoRegistryRollback /\ TrustIsEarned /\ WithdrawalWithinBound)
    /\ SupersededStaysOut

=============================================================================

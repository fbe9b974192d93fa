--------------------------- MODULE FirmwareUpdates ---------------------------
(***************************************************************************)
(* Operator requests for firmware actions and one device's reports of them *)
(* (go/internal/updates/manager.go, http.go).  A request is answered after *)
(* its command is durable: the state file is replaced by write, fsync,     *)
(* rename and directory fsync, with commitMu held and mu released, and the *)
(* record in memory is published last.  A restart reads the file as the    *)
(* kernel shows it and syncs nothing, so a rename that was not synced      *)
(* before it is not synced after it.  The device runs a command when its   *)
(* number exceeds every number it ran before, and reports that number.     *)
(*                                                                         *)
(* The clock's part of a command number only raises it, so a number is one *)
(* more than the floor.  Several devices share nothing but the file.       *)
(***************************************************************************)
EXTENDS Integers, Sequences

CONSTANTS
  RequestIds,      \* request_ids the operators use
  UpdHistory,      \* maxHistory: request audits kept per device
  MaxUpdSessions,  \* bound: sessions of the device
  MaxUpdReports,   \* bound: reports the device sends
  MaxUpdCommands,  \* bound: command numbers
  MaxTroubles      \* bound: failing commits, restarts of the collector
                   \* process and power cuts of its host

ASSUME UpdBounds ==
  /\ UpdHistory \in Nat \ {0}
  /\ {MaxUpdSessions, MaxUpdReports, MaxUpdCommands, MaxTroubles} \subseteq Nat

VARIABLES
  updRecord,   \* m.records[key]: the published record
  updFiles,    \* the records a power cut may leave in the state file, oldest
               \* first; a process that reads the file sees the last one
  updActive,   \* m.active[key]: the session whose reports count
  updFault,    \* m.fault
  updCommit,   \* the writer that holds commitMu
  updCalls,    \* the HTTP request of each request_id
  updDevice,   \* the device: session, reports sent, last command, commands run
  updReports,  \* reports under way, by session
  updExpired,  \* command numbers whose Expires has passed
  updWorld     \* bounds used up, the greatest number an operator was told, and
               \* doubt: what became of a rename no process has synced

updVars == <<updRecord, updFiles, updActive, updFault, updCommit, updCalls,
             updDevice, updReports, updExpired, updWorld>>

Actions == {"install", "cancel"}
NoCommand == [id |-> 0, rid |-> "none", action |-> "none"]
NoStatus == -1
EmptyRecord == [cmd |-> NoCommand, status |-> NoStatus, session |-> 0, seq |-> 0, requests |-> <<>>]
NoCommit == [at |-> "none", rec |-> EmptyRecord, rid |-> "none"]
IdleCall == [at |-> "idle", cmd |-> NoCommand, status |-> NoStatus]
UpdSessions == 1..MaxUpdSessions
LastOf(s) == s[Len(s)]

\* A device that ran a command before, and was or was not heard of since.
UpdInit ==
  /\ updRecord \in {EmptyRecord, [EmptyRecord EXCEPT !.status = 1]}
  /\ updFiles = <<updRecord>>
  /\ updActive = 0
  /\ updFault = FALSE
  /\ updCommit = NoCommit
  /\ updCalls = [r \in RequestIds |-> IdleCall]
  /\ updDevice \in [session : {0}, seq : {0}, last : {1}, ran : {<<>>}]
  /\ updReports = [s \in UpdSessions |-> <<>>]
  /\ updExpired = {}
  /\ updWorld = [sent |-> 0, troubles |-> 0, told |-> 0, doubt |-> "none"]
-----------------------------------------------------------------------------
(* The push connection.                                                    *)

BeginUpdSession ==
  /\ updDevice.session < MaxUpdSessions
  /\ updDevice' = [updDevice EXCEPT !.session = @ + 1, !.seq = 0]
  /\ updActive' = updDevice'.session
  /\ UNCHANGED <<updRecord, updFiles, updFault, updCommit, updCalls, updReports, updExpired, updWorld>>

\* The device reports the greatest command number it has run.
SendUpdReport ==
  LET s == updDevice.session IN
  /\ s > 0 /\ updReports[s] = <<>>
  /\ updWorld.sent < MaxUpdReports
  /\ updWorld' = [updWorld EXCEPT !.sent = @ + 1]
  /\ updDevice' = [updDevice EXCEPT !.seq = @ + 1]
  /\ updReports' = [updReports EXCEPT ![s] = Append(@, [seq |-> updDevice'.seq, last |-> updDevice.last])]
  /\ UNCHANGED <<updRecord, updFiles, updActive, updFault, updCommit, updCalls, updExpired>>

\* Pending: the command the connection's control writer sends, and the device runs.
UpdPending ==
  /\ ~updFault
  /\ updRecord.cmd.id # 0
  /\ updRecord.cmd.id \notin updExpired
  /\ updRecord.status < updRecord.cmd.id

DeliverCommand ==
  /\ UpdPending
  /\ updDevice.session > 0
  /\ updRecord.cmd.id > updDevice.last
  /\ updDevice' = [updDevice EXCEPT !.last = updRecord.cmd.id, !.ran = Append(@, updRecord.cmd)]
  /\ UNCHANGED <<updRecord, updFiles, updActive, updFault, updCommit, updCalls, updReports, updExpired, updWorld>>
-----------------------------------------------------------------------------
(* Writers: serialised by commitMu.                                        *)

Counts(s, r) == updActive = s /\ ~(updRecord.session = s /\ r.seq <= updRecord.seq)

Reported(s, r) == [updRecord EXCEPT !.session = s, !.seq = r.seq, !.status = r.last]

\* Report: an unchanged status refreshes the record in memory only.
UpdReport(s) ==
  /\ updCommit = NoCommit
  /\ updReports[s] # <<>>
  /\ updReports' = [updReports EXCEPT ![s] = Tail(@)]
  /\ LET r == Head(updReports[s]) IN
       IF ~Counts(s, r) THEN UNCHANGED <<updRecord, updCommit>>
       ELSE IF r.last = updRecord.status
       THEN updRecord' = Reported(s, r) /\ UNCHANGED updCommit
       ELSE /\ updCommit' = IF updFault THEN NoCommit
                            ELSE [at |-> "write", rec |-> Reported(s, r), rid |-> "none"]
            /\ UNCHANGED updRecord
  /\ UNCHANGED <<updFiles, updActive, updFault, updCalls, updDevice, updExpired, updWorld>>

Audit(rid) == {i \in 1..Len(updRecord.requests) : updRecord.requests[i].rid = rid}
StillRunning(cmd) == cmd.id # 0 /\ updRecord.status < cmd.id /\ cmd.id \notin updExpired
NextNumber == 1 + IF updRecord.status > updRecord.cmd.id THEN updRecord.status ELSE updRecord.cmd.id

Kept(q) == IF Len(q) > UpdHistory THEN SubSeq(q, Len(q) - UpdHistory + 1, Len(q)) ELSE q
\* Mutant: a request is not entered into the audit.
RequestedUnaudited(c) == [updRecord EXCEPT !.cmd = c]
Requested(c) == [updRecord EXCEPT !.cmd = c, !.requests = Kept(Append(@, c))]

Refuses(rid, a) ==
  IF Audit(rid) # {} THEN \A i \in Audit(rid) : updRecord.requests[i].action # a
  ELSE \/ updRecord.status = NoStatus
       \/ StillRunning(updRecord.cmd) /\ a # "cancel"
       \/ updFault

\* request: an answered request may be sent again, as when its answer was
\* lost.  A request_id already in the audit is answered with its command;
\* a new one gets a number and is committed.
PostRequest(rid, a) ==
  /\ updCommit = NoCommit
  /\ updCalls[rid].at = "idle"
  /\ ~Refuses(rid, a)
  /\ IF Audit(rid) # {}
       THEN /\ \E i \in Audit(rid) :
                 updCalls' = [updCalls EXCEPT ![rid] = [IdleCall EXCEPT !.at = "returned",
                                !.cmd = updRecord.requests[i], !.status = updRecord.status]]
            /\ UNCHANGED updCommit
       ELSE LET c == [id |-> NextNumber, rid |-> rid, action |-> a] IN
            /\ c.id <= MaxUpdCommands
            /\ updCommit' = [at |-> "write", rec |-> Requested(c), rid |-> rid]
            /\ updCalls' = [updCalls EXCEPT ![rid] = [IdleCall EXCEPT !.at = "commit"]]
  /\ UNCHANGED <<updRecord, updFiles, updActive, updFault, updDevice, updReports, updExpired, updWorld>>

Writing == updCommit # NoCommit
Returned(rid, rec, ok) ==
  IF rid = "none" THEN updCalls
  ELSE [updCalls EXCEPT ![rid] = IF ok THEN [IdleCall EXCEPT !.at = "returned", !.cmd = rec.cmd, !.status = rec.status]
                                       ELSE IdleCall]

\* commit up to the rename; the old contents survive a failure.
WriteFails ==
  /\ Writing /\ updCommit.at = "write"
  /\ updWorld.troubles < MaxTroubles
  /\ updWorld' = [updWorld EXCEPT !.troubles = @ + 1]
  /\ updCommit' = NoCommit
  /\ updCalls' = Returned(updCommit.rid, updCommit.rec, FALSE)
  /\ UNCHANGED <<updRecord, updFiles, updActive, updFault, updDevice, updReports, updExpired>>

\* After the rename a power cut may leave either file, until the directory is
\* synced.
RenameFile ==
  /\ Writing /\ updCommit.at = "write"
  /\ updFiles' = Append(updFiles, updCommit.rec)
  /\ updCommit' = [updCommit EXCEPT !.at = "renamed"]
  /\ UNCHANGED <<updRecord, updActive, updFault, updCalls, updDevice, updReports, updExpired, updWorld>>

\* The directory is synced and the record published in place.
PublishRecord ==
  /\ Writing /\ updCommit.at = "renamed"
  /\ updFiles' = <<updCommit.rec>>
  /\ updRecord' = updCommit.rec
  /\ updCommit' = NoCommit
  /\ updCalls' = Returned(updCommit.rid, updCommit.rec, TRUE)
  /\ updWorld' = [updWorld EXCEPT !.doubt = IF @ = "loaded" THEN "none" ELSE @]
  /\ UNCHANGED <<updActive, updFault, updDevice, updReports, updExpired>>

SyncFails ==
  /\ Writing /\ updCommit.at = "renamed"
  /\ updWorld.troubles < MaxTroubles
  /\ updWorld' = [updWorld EXCEPT !.troubles = @ + 1]
  /\ updFault' = TRUE
  /\ updCommit' = NoCommit
  /\ updCalls' = Returned(updCommit.rid, updCommit.rec, FALSE)
  /\ UNCHANGED <<updRecord, updFiles, updActive, updDevice, updReports, updExpired>>
-----------------------------------------------------------------------------
RequestStatus(c) ==
  IF c.status = c.cmd.id THEN "accepted"
  ELSE IF c.cmd.id < updRecord.cmd.id THEN "superseded"
  ELSE IF c.cmd.id \in updExpired THEN "expired" ELSE "requested"

\* The answer is RequestStatus; the operator reads it or loses it.
AnswerRequest(rid) ==
  /\ updCalls[rid].at = "returned"
  /\ updCalls' = [updCalls EXCEPT ![rid] = IdleCall]
  /\ updWorld' = [updWorld EXCEPT !.told = IF updCalls[rid].cmd.id > @ THEN updCalls[rid].cmd.id ELSE @]
  /\ UNCHANGED <<updRecord, updFiles, updActive, updFault, updCommit, updDevice, updReports, updExpired>>

ExpireCommand ==
  /\ updRecord.cmd.id # 0 /\ updRecord.cmd.id \notin updExpired
  /\ updExpired' = updExpired \cup {updRecord.cmd.id}
  /\ UNCHANGED <<updRecord, updFiles, updActive, updFault, updCommit, updCalls, updDevice, updReports, updWorld>>

\* Open: loadRecords takes what the file shows, and nothing else is kept.
Reopened(rec) ==
  /\ updRecord' = rec
  /\ updActive' = 0
  /\ updFault' = FALSE
  /\ updCommit' = NoCommit
  /\ updCalls' = [r \in RequestIds |-> IdleCall]
  /\ updReports' = [s \in UpdSessions |-> <<>>]
  /\ UNCHANGED <<updDevice, updExpired>>

\* The process dies or is restarted at any point of a commit.  The kernel still
\* shows the last rename, synced or not.
ProcessRestart ==
  /\ updWorld.troubles < MaxTroubles
  /\ Reopened(LastOf(updFiles))
  /\ updWorld' = [updWorld EXCEPT !.troubles = @ + 1,
                     !.doubt = IF @ = "none" /\ Len(updFiles) > 1 THEN "loaded" ELSE @]
  /\ UNCHANGED updFiles

\* The host loses power: any rename since the last sync may be undone, also one
\* whose record a process has loaded and answered from.
PowerCut ==
  /\ updWorld.troubles < MaxTroubles
  /\ \E i \in 1..Len(updFiles) :
       /\ Reopened(updFiles[i])
       /\ updFiles' = <<updFiles[i]>>
       /\ updWorld' = [updWorld EXCEPT !.troubles = @ + 1,
            !.doubt = IF @ # "loaded" THEN @
                      ELSE IF updFiles[i].cmd.id < updRecord.cmd.id THEN "lost" ELSE "none"]

UpdNext ==
  \/ BeginUpdSession
  \/ SendUpdReport
  \/ DeliverCommand
  \/ \E s \in UpdSessions : UpdReport(s)
  \/ \E rid \in RequestIds, a \in Actions : PostRequest(rid, a)
  \/ \E rid \in RequestIds : AnswerRequest(rid)
  \/ WriteFails
  \/ RenameFile
  \/ PublishRecord
  \/ SyncFails
  \/ ExpireCommand
  \/ ProcessRestart
  \/ PowerCut

UpdSpec == UpdInit /\ [][UpdNext]_updVars
-----------------------------------------------------------------------------
Ran(id) == {i \in 1..Len(updDevice.ran) : updDevice.ran[i].id = id}

\* A number is never given twice: the published command is the one the device
\* ran under that number, or one the device has yet to reach.  A command that
\* was delivered survives every crash, or its number would be used again and
\* the device would ignore the new command.
NumbersNeverReused ==
  updRecord.cmd.id # 0 /\ updRecord.cmd.id <= updDevice.last =>
    \E i \in Ran(updRecord.cmd.id) : updDevice.ran[i] = updRecord.cmd

\* A retried request runs once, as long as the audit still holds it: two
\* commands for one request_id have more than maxHistory requests between them.
OneRunPerRequest ==
  \A i, j \in 1..Len(updDevice.ran) :
    i < j /\ updDevice.ran[i].rid = updDevice.ran[j].rid =>
      updDevice.ran[j].id - updDevice.ran[i].id > UpdHistory

\* An operator told "accepted" is told of the very command the device ran.
AcceptedIsTrue ==
  \A rid \in RequestIds : updCalls[rid].at = "returned" /\ RequestStatus(updCalls[rid]) = "accepted" =>
    \E i \in Ran(updCalls[rid].cmd.id) : updDevice.ran[i] = updCalls[rid].cmd

\* What an operator was told of is in every file a power cut could leave.
ToldIsDurable == \A i \in 1..Len(updFiles) : updFiles[i].cmd.id >= updWorld.told

\* The status in the record never goes back, but by a restart: a report of an
\* older session or an older sequence does not replace a newer one.
StatusNeverGoesBack ==
  [][updRecord'.status < updRecord.status => ProcessRestart \/ PowerCut]_updVars

\* While the manager is open, memory holds what the file holds: an uncertain
\* rename is not built upon.
OpenMeansCertain ==
  ~updFault /\ ~Writing => \A i \in 1..Len(updFiles) : updFiles[i].cmd = updRecord.cmd

\* A firmware request is numbered and run once, what was told of it is true and
\* durable, and an open manager is certain of its file, through retries,
\* restarts and power cuts (Manager.request, commit).  What was told is durable
\* unless a restarted process is running on a rename nobody has synced (Open
\* does not), and a request may run twice once a power cut has undone such a
\* rename.
RequestsAreSound ==
    /\ [](updWorld.doubt # "lost" =>
            NumbersNeverReused /\ OneRunPerRequest /\ AcceptedIsTrue)
    /\ [](updWorld.doubt = "none" => ToldIsDurable /\ OpenMeansCertain)
    /\ StatusNeverGoesBack

-----------------------------------------------------------------------------
(***************************************************************************)
(* The collector's reading of a published update tree                      *)
(* (go/internal/updates/catalog.go).  The tree is a directory that a       *)
(* publication reaches file by file, in no particular order, while the     *)
(* operator UI asks for a channel's choice and the lifetime watch reads    *)
(* when every role expires.  timestamp.json is replaced in place; it pins  *)
(* the snapshot by version, length and hash, the snapshot the channel      *)
(* role, the channel role its target.                                      *)
(*                                                                         *)
(* A file is the publication it comes from, which stands for its hash.  A  *)
(* rebuilt tree may use a version number again, so a versioned name does   *)
(* not name one content.  The roles read like the channel are one of them; *)
(* the chain of roots is left out.                                         *)
(***************************************************************************)

CONSTANTS
  Publications,  \* how many the publisher makes
  Versions,      \* version numbers in use
  CatalogReads   \* bound: reads begun by the UI and by the watch

ASSUME CatalogBounds == {Publications, Versions} \subseteq Nat \ {0} /\ CatalogReads \in Nat

VARIABLES
  published,  \* publications made so far
  tree,       \* the files in the directory
  expired,    \* publications whose timestamp has expired
  choosing,   \* a choice: the role to read next and the chain pinned so far
  watching,   \* observeLifetimes: the same, with the roles read
  chosen,     \* the choice answered last
  gauges,     \* metadataExpiry: the publication each role's value comes from
  catalogReads

catalogVars == <<published, tree, expired, choosing, watching, chosen, gauges, catalogReads>>

Roles == {"timestamp", "snapshot", "channel"}
Absent == 0
VersionOf(p) == (p % Versions) + 1
\* Every other publication renews the online roles over the same channel.
ChannelOf(p) == IF p % 2 = 0 THEN p - 1 ELSE p
\* The release a channel selects may be withdrawn in the same document.
WithdrawnIn(p) == p = Publications

NotReading == [next |-> "none"]

CatalogInit ==
  /\ published = 0
  /\ tree = [timestamp |-> Absent, snapshot |-> [v \in 1..Versions |-> Absent],
             channel |-> [v \in 1..Versions |-> Absent], targets |-> {}]
  /\ expired = {}
  /\ choosing = NotReading /\ watching = NotReading
  /\ chosen = Absent
  /\ gauges = [r \in Roles |-> Absent]
  /\ catalogReads = 0
-----------------------------------------------------------------------------
\* The publisher makes a publication; its files arrive one by one, and are
\* removed again when they are superseded.
PublishTree ==
  /\ published < Publications
  /\ published' = published + 1
  /\ UNCHANGED <<tree, expired, choosing, watching, chosen, gauges, catalogReads>>
FileArrives ==
  \E p \in 1..published :
    /\ \/ tree' = [tree EXCEPT !.timestamp = p]
       \/ tree' = [tree EXCEPT !.snapshot[VersionOf(p)] = p]
       \/ tree' = [tree EXCEPT !.channel[VersionOf(ChannelOf(p))] = ChannelOf(p)]
       \/ tree' = [tree EXCEPT !.targets = @ \cup {ChannelOf(p)}]
    /\ tree' # tree
    /\ UNCHANGED <<published, expired, choosing, watching, chosen, gauges, catalogReads>>
TargetRemoved ==
  \E p \in tree.targets :
    /\ tree' = [tree EXCEPT !.targets = @ \ {p}]
    /\ UNCHANGED <<published, expired, choosing, watching, chosen, gauges, catalogReads>>
TimestampExpires ==
  \E p \in 1..published \ expired :
    /\ expired' = expired \cup {p}
    /\ UNCHANGED <<published, tree, choosing, watching, chosen, gauges, catalogReads>>
-----------------------------------------------------------------------------
Pins(held, want) == held = want
Begun == [next |-> "timestamp", got |-> [r \in Roles |-> Absent]]
\* One read of the chain: the next role, what it is pinned to and what is there.
FileOf(r, c) ==
  CASE r = "timestamp" -> tree.timestamp
    [] r = "snapshot" -> tree.snapshot[VersionOf(c.got["timestamp"])]
    [] r = "channel" -> tree.channel[VersionOf(ChannelOf(c.got["snapshot"]))]
PinnedTo(r, c) ==
  CASE r = "snapshot" -> c.got["timestamp"]
    [] r = "channel" -> ChannelOf(c.got["snapshot"])
Readable(c) ==
  LET held == FileOf(c.next, c)
  IN  held # Absent /\ (c.next # "timestamp" => Pins(held, PinnedTo(c.next, c)))
After(r) == IF r = "timestamp" THEN "snapshot" ELSE IF r = "snapshot" THEN "channel" ELSE "target"
Advance(c) == [next |-> After(c.next), got |-> [c.got EXCEPT ![c.next] = FileOf(c.next, c)]]

\* choice: an expired link refuses it, like one that is missing or differs.
ChoiceBegins ==
  /\ choosing = NotReading /\ catalogReads < CatalogReads
  /\ choosing' = Begun /\ chosen' = Absent
  /\ catalogReads' = catalogReads + 1
  /\ UNCHANGED <<published, tree, expired, watching, gauges>>
ChoiceReads ==
  /\ choosing.next \in Roles
  /\ choosing' = IF Readable(choosing) /\ (choosing.next = "timestamp" => tree.timestamp \notin expired)
                 THEN Advance(choosing) ELSE NotReading
  /\ UNCHANGED <<published, tree, expired, watching, chosen, gauges, catalogReads>>
\* The target is read by its hash; a withdrawn release is no choice.
\* Mutant: the withdrawn list is not looked at.
SelectableAlways(p) == TRUE
Selectable(p) == ~WithdrawnIn(p)
ChoiceAnswers ==
  /\ choosing.next = "target"
  /\ chosen' = IF choosing.got["channel"] \in tree.targets /\ Selectable(choosing.got["channel"])
               THEN choosing.got["channel"] ELSE Absent
  \* The chain stays for the property; the next choice starts a new one.
  /\ choosing' = [choosing EXCEPT !.next = "done"]
  /\ UNCHANGED <<published, tree, expired, watching, gauges, catalogReads>>
ChoiceDone ==
  /\ choosing.next = "done"
  /\ choosing' = NotReading /\ chosen' = Absent
  /\ UNCHANGED <<published, tree, expired, watching, gauges, catalogReads>>

\* observeLifetimes: expired metadata is reported, an unreadable tree zeroes
\* every role.
WatchBegins ==
  /\ watching = NotReading /\ catalogReads < CatalogReads
  /\ watching' = Begun
  /\ catalogReads' = catalogReads + 1
  /\ UNCHANGED <<published, tree, expired, choosing, chosen, gauges>>
Zeroed == [r \in Roles |-> Absent]
WatchReads ==
  /\ watching.next \in Roles
  /\ IF Readable(watching)
     THEN watching' = Advance(watching) /\ UNCHANGED gauges
     ELSE watching' = NotReading /\ gauges' = Zeroed
  /\ UNCHANGED <<published, tree, expired, choosing, chosen, catalogReads>>
WatchReports ==
  /\ watching.next = "target"
  /\ gauges' = watching.got
  /\ watching' = NotReading
  /\ UNCHANGED <<published, tree, expired, choosing, chosen, catalogReads>>

CatalogNext ==
  \/ PublishTree \/ FileArrives \/ TargetRemoved \/ TimestampExpires
  \/ ChoiceBegins \/ ChoiceReads \/ ChoiceAnswers \/ ChoiceDone
  \/ WatchBegins \/ WatchReads \/ WatchReports

CatalogSpec == CatalogInit /\ [][CatalogNext]_catalogVars
-----------------------------------------------------------------------------
OfOneTree(got) == got["snapshot"] = got["timestamp"] /\ got["channel"] = ChannelOf(got["snapshot"])

\* However a publication's files arrive during the read, the choice shown is
\* the channel of the very publication whose timestamp was read, and a
\* release that publication withdraws is not offered.
ChoiceIsOfOneTree ==
  chosen # Absent => OfOneTree(choosing.got) /\ chosen = choosing.got["channel"] /\ ~WithdrawnIn(chosen)

\* The lifetimes shown are of one publication, or they are zero: a read that
\* straddles a publication leaves no mixture of the two behind.
GaugesAreOfOneTree ==
  gauges = [r \in Roles |-> Absent] \/ OfOneTree(gauges)

\* What is shown of the release tree is of one publication (choice,
\* lifetimes).
CatalogIsSound ==
    /\ ChoiceIsOfOneTree
    /\ GaugesAreOfOneTree

\* Both halves of the update coordinator: what operators and devices are told
\* of requests, and what is shown of the release tree (Manager).
UpdatesAreSound == RequestsAreSound /\ []CatalogIsSound

=============================================================================

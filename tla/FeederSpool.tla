---------------------------- MODULE FeederSpool ----------------------------
(***************************************************************************)
(* The feeder's two-tier spool (navfeeder.c): a RAM ring that spills its   *)
(* oldest record to a file, the files of earlier runs kept for replay, and *)
(* the sending loop that drains the file before the ring.                  *)
(*                                                                         *)
(* A run of the process is a session: its number stands for the random     *)
(* session name, and <<session, sequence>> names a record.  A file is a    *)
(* sequence of entries: the session header, the records in the order they  *)
(* were appended, and perhaps a torn entry.  Directory entries and file    *)
(* contents exist twice, as the running system sees them and as they are   *)
(* on the medium: killing the process loses the ring, losing power loses   *)
(* whatever was not synced as well.                                        *)
(***************************************************************************)
EXTENDS Naturals, FiniteSets, SequencesExt

CONSTANTS
    RingCap,        \* records the RAM ring holds
    DiskCap,        \* disk_max_bytes, in records
    MaxReplayFiles, \* MAX_REPLAY_FILES
    MaxRecords,     \* bound: records the receiver delivers over all runs
    MaxRuns,        \* bound: process starts
    MaxSpoolFaults  \* bound: failed filesystem operations and power cuts

ASSUME SpoolAssumption ==
    /\ {RingCap, MaxReplayFiles, MaxRecords, MaxRuns} \subseteq Nat \ {0}
    /\ {DiskCap, MaxSpoolFaults} \subseteq Nat

Sessions == 1..MaxRuns
Torn == 0
Header == MaxRecords + 1
NoFile == 0

VARIABLES
    process,     \* down, the step of archive_spool it is in, or run
    hardLinks,   \* whether the filesystem has link(2)
    archiving,   \* the session whose file archive_spool moves
    spool,       \* g_spool
    replayList,  \* g_replays
    contents,    \* entries of every session's file
    syncedTo,    \* how many of them are on the medium
    dirNow,      \* the directory: the session whose file is at <path>, and the
    dirDisk,     \* sessions with a .replay name; now and on the medium
    link,        \* the connection and serve_collector's locals
    made,        \* ghost: records the receiver delivered
    delivered,   \* ghost: records the collector acknowledged
    counted,     \* ghost: records given up under a drop counter
    ramLost,     \* ghost: records lost with the ring or an unsynced tail
    exitStatus,  \* of the last orderly shutdown
    runs, produced, spoolFaults

fileVars == <<contents, syncedTo, dirNow, dirDisk>>
ghostVars == <<delivered, counted, ramLost, exitStatus>>
spoolVars == <<process, hardLinks, archiving, spool, replayList, fileVars, link, ghostVars,
               runs, made, produced, spoolFaults>>

NoLink == [up |-> FALSE, to |-> 0, stage |-> "top", sentUpto |-> 0, off |-> 0, gen |-> 0,
           batch |-> <<>>, sent |-> {}, any |-> FALSE]

\* spool_init.  good is disk_bytes and max is disk_max_seq; off is
\* disk_append_disabled; writer says disk_w is open.
FreshSpool(s, disabled) ==
    [session |-> s, ring |-> <<>>, seq |-> 0, acked |-> 0, max |-> 0, good |-> 0,
     cap |-> DiskCap, off |-> disabled, gen |-> 0, writer |-> FALSE]

SpoolInit ==
    /\ process = "down" /\ hardLinks \in BOOLEAN /\ archiving = NoFile
    /\ spool = FreshSpool(0, FALSE) /\ replayList = <<>>
    /\ contents = [s \in Sessions |-> <<>>] /\ syncedTo = [s \in Sessions |-> 0]
    /\ dirNow = [path |-> NoFile, replays |-> {}] /\ dirDisk = dirNow
    /\ link = NoLink
    /\ made = {} /\ delivered = {} /\ counted = {} /\ ramLost = {} /\ exitStatus = 1
    /\ runs = 0 /\ produced = 0 /\ spoolFaults = 0

Named(dir) == dir.replays \cup ({dir.path} \ {NoFile})

RecordsIn(entries) == {entries[i] : i \in 2..Len(entries)} \ {Torn}

\* A record is stored when a file with a name holds it, durable when it would
\* survive a power cut.
StoredRecords ==
    UNION {{<<s, n>> : n \in RecordsIn(contents[s])} : s \in Named(dirNow)}

DurableRecords ==
    UNION {{<<s, n>> : n \in RecordsIn(SubSeq(contents[s], 1, syncedTo[s]))} :
              s \in Named(dirDisk)}

RingRecords == {<<spool.session, spool.ring[i]>> : i \in 1..Len(spool.ring)}

IoFault == spoolFaults < MaxSpoolFaults /\ spoolFaults' = spoolFaults + 1

-----------------------------------------------------------------------------
(* Start: spool_recover_all.                                               *)

\* spool_recover: a file without its header is corrupt evidence; otherwise the
\* complete records are kept and a torn tail is cut.
Corrupt(s) == contents[s] = <<>> \/ contents[s][1] # Header
Repaired(s) == SelectSeq(contents[s], LAMBDA e : e # Torn)
Recoverable(s) == ~Corrupt(s) /\ RecordsIn(contents[s]) # {}

\* bytes is retained_bytes, in records.
ReplaySpool(s) ==
    [session |-> s, acked |-> 0, max |-> Last(Repaired(s)), bytes |-> Len(Repaired(s)) - 1]

Retained(list) == FoldLeft(LAMBDA sum, r : sum + r.bytes, 0, list)

\* The scan of the .replay names, in any order, and then of <path>: a failed
\* reading leaves the file where it is and disables the disk tier.
StartScan(unread) ==
    LET tried == dirNow.replays \ unread
        kept == {s \in tried : Recoverable(s)}
        gone == {s \in tried : ~Corrupt(s) /\ ~Recoverable(s)}
        failed == \/ unread # {}
                  \/ \E s \in tried : Corrupt(s)
                  \/ Cardinality(dirNow.replays) > MaxReplayFiles
        main == dirNow.path
        empty == main # NoFile /\ main \notin unread /\ ~Corrupt(main) /\ ~Recoverable(main)
        ready == main # NoFile /\ main \notin unread /\ Recoverable(main)
        room == Cardinality(dirNow.replays) < MaxReplayFiles
        refused == main # NoFile /\ ~empty /\ ~(ready /\ room)
    IN  /\ \E list \in SetToSeqs(kept) :
              replayList' = [i \in 1..Len(list) |-> ReplaySpool(list[i])]
        /\ contents' = [s \in Sessions |->
                          IF s \in kept \cup (IF ready THEN {main} ELSE {})
                          THEN Repaired(s) ELSE contents[s]]
        /\ syncedTo' = [s \in Sessions |-> IF syncedTo[s] < Len(contents'[s])
                                           THEN syncedTo[s] ELSE Len(contents'[s])]
        /\ dirNow' = [path |-> IF empty THEN NoFile ELSE main,
                      replays |-> dirNow.replays \ gone]
        /\ dirDisk' = [path |-> IF empty /\ dirDisk.path = main THEN NoFile
                                ELSE dirDisk.path,
                       replays |-> dirDisk.replays \ gone]
        /\ spool' = FreshSpool(runs + 1, failed \/ refused)
        /\ archiving' = main
        /\ process' = IF ready /\ room THEN "link" ELSE "reserve"

\* The ghosts keep what is still in a file.
Start ==
    /\ process = "down" /\ runs < MaxRuns
    /\ runs' = runs + 1
    /\ \/ StartScan({}) /\ UNCHANGED spoolFaults
       \/ \E s \in Named(dirNow) : StartScan({s}) /\ IoFault
    /\ link' = NoLink
    /\ exitStatus' = 1
    /\ made' = made \cap StoredRecords /\ delivered' = delivered \cap StoredRecords
    /\ counted' = counted \cap StoredRecords /\ ramLost' = ramLost \cap StoredRecords
    /\ UNCHANGED <<hardLinks, produced>>

\* A failure in archive_spool: what was archived is left for the next start.
ArchiveFails ==
    /\ process \in {"link", "sync", "unlink", "resync"}
    /\ IoFault
    /\ spool' = [spool EXCEPT !.off = TRUE]
    /\ process' = "reserve"
    /\ UNCHANGED <<hardLinks, archiving, replayList, fileVars, link, ghostVars, runs, made,
                   produced>>

\* Mutant: the old name goes before the new one is durable.
ArchiveLinkMoves ==
    /\ dirNow' = [path |-> NoFile, replays |-> dirNow.replays \cup {dirNow.path}]
    /\ process' = "resync"

\* link(path, archived), resumed when both names already lead to the one file;
\* rename(path, archived) where there are no links, refused over an archive.
ArchiveLink ==
    \/ /\ hardLinks
       /\ dirNow' = [dirNow EXCEPT !.replays = @ \cup {dirNow.path}]
       /\ process' = "sync"
    \/ /\ ~hardLinks /\ dirNow.path \notin dirNow.replays
       /\ dirNow' = [path |-> NoFile, replays |-> dirNow.replays \cup {dirNow.path}]
       /\ process' = "resync"

SyncDirectory == dirDisk' = dirNow

\* The archived file joins the replay list unless a crash between link and
\* unlink already had it listed from its archive name.
ListArchived(s) ==
    replayList' = IF \E i \in 1..Len(replayList) : replayList[i].session = s
                  THEN replayList ELSE <<ReplaySpool(s)>> \o replayList

ArchiveStep ==
    /\ \/ process = "link" /\ ArchiveLink /\ UNCHANGED <<dirDisk, replayList>>
       \/ /\ process = "sync" /\ SyncDirectory /\ process' = "unlink"
          /\ UNCHANGED <<dirNow, replayList>>
       \/ /\ process = "unlink" /\ process' = "resync"
          /\ dirNow' = [dirNow EXCEPT !.path = NoFile]
          /\ UNCHANGED <<dirDisk, replayList>>
       \/ /\ process = "resync" /\ SyncDirectory /\ process' = "reserve"
          /\ ListArchived(archiving)
          /\ UNCHANGED dirNow
    /\ UNCHANGED <<hardLinks, archiving, spool, contents, syncedTo, link, ghostVars, runs,
                   made, produced, spoolFaults>>

\* The end of spool_recover_all: what the replay files take is not available to
\* this run.
Reserve ==
    /\ process = "reserve" /\ process' = "run" /\ archiving' = NoFile
    /\ LET held == Retained(replayList)
       IN  spool' = [spool EXCEPT !.cap = IF held < DiskCap THEN DiskCap - held ELSE 0]
    /\ UNCHANGED <<hardLinks, replayList, fileVars, link, ghostVars, runs, made, produced,
                   spoolFaults>>

-----------------------------------------------------------------------------
(* The ring and the file: spool_append, disk_put, spool_ack.               *)

\* One disk_put: the live spool and its file after it, and whether the record
\* was given up.
Attempt(sp, entries, lost) == [spool |-> sp, entries |-> entries, lost |-> lost]

\* disk_rollback: cut the file back to the known-good boundary, or never append
\* to it again.
DiskRollback(sp, entries, repaired) ==
    Attempt([sp EXCEPT !.writer = FALSE, !.gen = @ + 1, !.off = @ \/ ~repaired],
            IF repaired THEN SubSeq(entries, 1, sp.good) ELSE Append(entries, Torn), TRUE)

\* What the filesystem does to an append.
Outcomes == {"ok", "noopen", "header", "headertear", "record", "tear"}

DiskPut(sp, entries, n, outcome) ==
    IF sp.off \/ outcome = "noopen" THEN Attempt(sp, entries, TRUE)
    ELSE IF (IF sp.good = 0 THEN 1 ELSE sp.good) > sp.cap
    THEN Attempt([sp EXCEPT !.writer = TRUE], entries, TRUE)
    ELSE IF outcome \in {"header", "headertear"} /\ sp.good = 0
    THEN DiskRollback(sp, entries, outcome = "header")
    ELSE LET headed == IF sp.good = 0 THEN <<Header>> ELSE entries
             begun == [sp EXCEPT !.good = Len(headed)]
         IN  IF outcome = "ok"
             THEN Attempt([begun EXCEPT !.writer = TRUE, !.good = @ + 1, !.max = n],
                          Append(headed, n), FALSE)
             ELSE DiskRollback(begun, headed, outcome # "tear")

\* fopen(path, "ab") makes the name, with the first attempt to append.
CreatesFile(sp, outcome) == ~sp.off /\ outcome # "noopen"

Put(n, outcome) ==
    LET s == spool.session
        got == DiskPut(spool, contents[s], n, outcome)
    IN  /\ IF outcome = "ok" THEN UNCHANGED spoolFaults ELSE IoFault
        /\ contents' = [contents EXCEPT ![s] = got.entries]
        /\ dirNow' = IF CreatesFile(spool, outcome)
                     THEN [dirNow EXCEPT !.path = s] ELSE dirNow
        /\ counted' = IF got.lost THEN counted \cup {<<s, n>>} ELSE counted

\* spool_append: a full ring first spills its oldest record.
SpoolAppend ==
    /\ process = "run" /\ produced < MaxRecords
    /\ produced' = produced + 1
    /\ made' = made \cup {<<spool.session, spool.seq + 1>>}
    /\ \/ /\ Len(spool.ring) < RingCap
          /\ spool' = [spool EXCEPT !.seq = @ + 1, !.ring = Append(@, spool.seq + 1)]
          /\ UNCHANGED <<contents, dirNow, counted, spoolFaults>>
       \/ /\ Len(spool.ring) = RingCap
          /\ \E outcome \in Outcomes :
                /\ Put(Head(spool.ring), outcome)
                /\ spool' = [DiskPut(spool, contents[spool.session], Head(spool.ring),
                                     outcome).spool
                               EXCEPT !.seq = @ + 1,
                                      !.ring = Append(Tail(@), spool.seq + 1)]
    /\ UNCHANGED <<process, hardLinks, archiving, replayList, syncedTo, dirDisk, link,
                   delivered, ramLost, exitStatus, runs>>

\* The spool the connection serves: the head of the replay list, else the live one.
Replaying == replayList # <<>> /\ link.to # spool.session
Served == IF Replaying THEN Head(replayList) ELSE spool
UpdateServed(rec) ==
    IF Replaying THEN replayList' = <<rec>> \o Tail(replayList) /\ UNCHANGED spool
    ELSE spool' = rec /\ UNCHANGED replayList

\* reader_thread -> spool_ack.  The collector acknowledges what this connection
\* sent it.
SpoolAck ==
    /\ process = "run" /\ link.up
    /\ \E n \in link.sent :
          /\ n > Served.acked
          /\ IF Replaying
             THEN UpdateServed([Served EXCEPT !.acked = n])
             ELSE UpdateServed([Served EXCEPT !.acked = n,
                                              !.ring = SelectSeq(@, LAMBDA e : e > n)])
          /\ delivered' = delivered \cup {<<link.to, k>> : k \in {j \in link.sent : j <= n}}
    /\ UNCHANGED <<process, hardLinks, archiving, fileVars, link, counted, ramLost,
                   exitStatus, runs, made, produced, spoolFaults>>

-----------------------------------------------------------------------------
(* The sending loop: serve_collector, disk_maybe_delete, disk_drain.       *)

Quiet == UNCHANGED <<process, hardLinks, archiving, runs, made, produced>>

\* A connection resumes after the last acknowledged record of its spool.
Connect ==
    /\ process = "run" /\ ~link.up
    /\ link' = [NoLink EXCEPT
                   !.up = TRUE,
                   !.to = IF replayList # <<>> THEN Head(replayList).session
                          ELSE spool.session,
                   !.sentUpto = IF replayList # <<>> THEN Head(replayList).acked
                                ELSE spool.acked]
    /\ UNCHANGED <<spool, replayList, fileVars, ghostVars, spoolFaults>> /\ Quiet

Disconnect ==
    /\ process = "run" /\ link.up
    /\ link' = NoLink
    /\ UNCHANGED <<spool, replayList, fileVars, ghostVars, spoolFaults>> /\ Quiet

Stage(stage) == process = "run" /\ link.up /\ link.stage = stage

Spent == Served.max # 0 /\ Served.acked >= Served.max

\* unlink: the name that led to the file is gone.  (A deletion that a power cut
\* undoes brings back acknowledged records only; it is taken as durable.)
Forget(dir) ==
    IF Replaying THEN [dir EXCEPT !.replays = @ \ {link.to}]
    ELSE [dir EXCEPT !.path = IF @ = link.to THEN NoFile ELSE @]

\* The accounting of the live spool once its file is deleted.
Cleared(sp) ==
    [sp EXCEPT !.max = 0, !.good = 0, !.off = FALSE, !.gen = @ + 1, !.writer = FALSE]

\* disk_maybe_delete on a fully acknowledged file.
DiskMaybeDelete ==
    /\ Stage("top") /\ Spent
    /\ dirNow' = Forget(dirNow) /\ dirDisk' = Forget(dirDisk)
    /\ contents' = [contents EXCEPT ![link.to] = <<>>]
    /\ syncedTo' = [syncedTo EXCEPT ![link.to] = 0]
    /\ UpdateServed(IF Replaying THEN [Served EXCEPT !.max = 0] ELSE Cleared(Served))
    /\ UNCHANGED <<link, ghostVars, spoolFaults>> /\ Quiet

\* The unlink fails: no appends past the old accounting, and a replay spool is
\* retired with its file after REPLAY_RETIRE_STUCK_S (replay_retire_stuck).
DeleteFails ==
    /\ Stage("top") /\ Spent /\ IoFault
    /\ IF Replaying THEN UpdateServed([Served EXCEPT !.max = 0])
       ELSE UpdateServed([Served EXCEPT !.off = TRUE, !.writer = FALSE])
    /\ link' = IF Replaying THEN link ELSE [link EXCEPT !.stage = "drain"]
    /\ UNCHANGED <<fileVars, ghostVars>> /\ Quiet

\* A replay spool with nothing left ends its connection and the main loop takes
\* the next one, returning its reservation.
ReplayDone ==
    /\ Stage("top") /\ Replaying /\ Served.max = 0
    /\ replayList' = Tail(replayList)
    /\ LET room == DiskCap - spool.cap
       IN  spool' = [spool EXCEPT !.cap = @ + (IF Served.bytes < room THEN Served.bytes
                                              ELSE room)]
    /\ link' = NoLink
    /\ UNCHANGED <<fileVars, ghostVars, spoolFaults>> /\ Quiet

\* disk_drain's snapshot of disk_max_seq and disk_gen; the cursor restarts when
\* the file was cut or replaced since.
DrainSnapshot ==
    /\ \/ Stage("top") /\ ~Spent /\ ~(Replaying /\ Served.max = 0)
       \/ Stage("drain")
    /\ LET gen == IF Replaying THEN 0 ELSE spool.gen
       IN  link' = [link EXCEPT
                      !.stage = IF Served.max > link.sentUpto THEN "scan" ELSE "collect",
                      !.off = IF link.gen = gen THEN @ ELSE 0,
                      !.gen = gen, !.any = FALSE]
    /\ UNCHANGED <<spool, replayList, fileVars, ghostVars, spoolFaults>> /\ Quiet

\* One record of the scan: sent unless it already was.
Cursor == IF link.off = 0 THEN 1 ELSE link.off
AtRecord == Cursor < Len(contents[link.to]) /\ contents[link.to][Cursor + 1] # Torn

DrainRecord ==
    /\ Stage("scan") /\ AtRecord
    /\ LET n == contents[link.to][Cursor + 1]
           fresh == n > link.sentUpto
       IN  link' = [link EXCEPT !.off = Cursor + 1,
                                !.sentUpto = IF fresh THEN n ELSE @,
                                !.sent = IF fresh THEN @ \cup {n} ELSE @,
                                !.any = @ \/ fresh]
    /\ UNCHANGED <<spool, replayList, fileVars, ghostVars, spoolFaults>> /\ Quiet

DrainEnd ==
    /\ Stage("scan") /\ ~AtRecord
    /\ link' = [link EXCEPT !.stage = IF link.any THEN "top" ELSE "collect"]
    /\ UNCHANGED <<spool, replayList, fileVars, ghostVars, spoolFaults>> /\ Quiet

\* disk_open_failed once the retries ran out: the spool is retired, or the disk
\* tier reset, and the file stays for the next start.
OpenFailed ==
    /\ Stage("scan") /\ ~link.any /\ IoFault
    /\ UpdateServed(IF Replaying THEN [Served EXCEPT !.max = 0]
                    ELSE [Served EXCEPT !.max = 0, !.good = 0, !.gen = @ + 1, !.off = TRUE,
                                        !.writer = FALSE])
    /\ link' = [link EXCEPT !.stage = "collect"]
    /\ UNCHANGED <<fileVars, ghostVars>> /\ Quiet

RingAfter(n) == IF Replaying THEN <<>> ELSE SelectSeq(spool.ring, LAMBDA e : e > n)

\* spool_collect: when a record past sent_upto is on disk by now, the batch is
\* discarded and the disk drained first.
Collect ==
    link' = IF Served.max > link.sentUpto THEN [link EXCEPT !.stage = "top"]
            ELSE [link EXCEPT !.stage = "send", !.batch = RingAfter(link.sentUpto)]

CollectRing ==
    /\ Stage("collect") /\ Collect
    /\ UNCHANGED <<spool, replayList, fileVars, ghostVars, spoolFaults>> /\ Quiet

SendRing ==
    /\ Stage("send")
    /\ link' = IF link.batch = <<>> THEN [link EXCEPT !.stage = "top"]
               ELSE [link EXCEPT !.sentUpto = Head(link.batch), !.batch = Tail(@),
                                 !.sent = @ \cup {Head(link.batch)}]
    /\ UNCHANGED <<spool, replayList, fileVars, ghostVars, spoolFaults>> /\ Quiet

-----------------------------------------------------------------------------
(* The ends of a process.                                                  *)

Ended ==
    /\ process' = "down" /\ link' = NoLink /\ replayList' = <<>>
    /\ spool' = FreshSpool(0, FALSE)

\* The final fsync of the file and of its directory.
CommitFlush(s, entries) ==
    /\ syncedTo' = [syncedTo EXCEPT ![s] = Len(entries)]
    /\ dirDisk' = dirNow'

\* signal_thread: every ring record goes to the file and the process leaves
\* with status 0 only if all of that is durable.  The lock is kept to the end.
Flush(outcome, synced) ==
    LET s == spool.session
        intended == spool.ring
        Step(acc, n) ==
            LET got == DiskPut(acc.spool, acc.entries, n,
                               IF n = Last(intended) THEN outcome ELSE "ok")
            IN  [spool |-> got.spool, entries |-> got.entries,
                 lost |-> acc.lost \cup (IF got.lost THEN {<<s, n>>} ELSE {})]
        end == FoldLeft(Step, [spool |-> spool, entries |-> contents[s], lost |-> {}],
                        intended)
        durable == synced /\ end.lost = {} /\ (end.spool.writer \/ intended = <<>>)
    IN  /\ contents' = [contents EXCEPT ![s] = end.entries]
        /\ dirNow' = IF intended # <<>> /\ CreatesFile(spool, outcome)
                     THEN [dirNow EXCEPT !.path = s] ELSE dirNow
        /\ IF end.spool.writer /\ synced THEN CommitFlush(s, end.entries)
           ELSE UNCHANGED <<syncedTo, dirDisk>>
        /\ counted' = counted \cup end.lost
        /\ exitStatus' = IF durable THEN 0 ELSE 1

Shutdown ==
    /\ process = "run"
    /\ \/ Flush("ok", TRUE) /\ UNCHANGED spoolFaults
       \/ /\ spool.ring # <<>> /\ IoFault
          /\ \/ \E outcome \in Outcomes \ {"ok"} : Flush(outcome, TRUE)
             \/ Flush("ok", FALSE)
    /\ Ended
    /\ UNCHANGED <<hardLinks, archiving, delivered, ramLost, runs, made, produced>>

\* The process is killed: the ring is lost, the page cache is not.
Killed ==
    /\ process # "down"
    /\ Ended
    /\ ramLost' = ramLost \cup RingRecords
    /\ exitStatus' = 1
    /\ UNCHANGED <<hardLinks, archiving, fileVars, delivered, counted, runs, made, produced,
                   spoolFaults>>

\* Power fails: of every file a prefix no shorter than what was synced remains,
\* perhaps with a torn entry, and of every directory change since the last sync
\* some.  A rename is one change.
KeptPrefix(s) ==
    {SubSeq(contents[s], 1, k) : k \in syncedTo[s]..Len(contents[s])} \cup
    {Append(SubSeq(contents[s], 1, k), Torn) : k \in syncedTo[s]..(Len(contents[s]) - 1)}

Between(new, old) == {x \in SUBSET (new \cup old) : new \cap old \subseteq x}

KeptDirs ==
    IF hardLinks
    THEN {[path |-> p, replays |-> a] :
             p \in {dirNow.path, dirDisk.path},
             a \in Between(dirNow.replays, dirDisk.replays)}
    ELSE {dirNow, dirDisk}

PowerLoss ==
    /\ spoolFaults < MaxSpoolFaults
    /\ spoolFaults' = spoolFaults + 1
    /\ Ended
    /\ exitStatus' = 1
    /\ \E dir \in KeptDirs, s \in Sessions :
          /\ dirNow' = dir /\ dirDisk' = dir
          /\ \E left \in KeptPrefix(s) :
                /\ contents' = [t \in Sessions |->
                                   IF t \notin Named(dir) THEN <<>>
                                   ELSE IF t = s THEN left ELSE contents[t]]
                /\ syncedTo' = [t \in Sessions |-> Len(contents'[t])]
    /\ ramLost' = ramLost \cup RingRecords \cup (StoredRecords \ StoredRecords')
    /\ UNCHANGED <<hardLinks, archiving, delivered, counted, runs, made, produced>>

SpoolNext ==
    \/ Start \/ ArchiveStep \/ ArchiveFails \/ Reserve
    \/ SpoolAppend \/ SpoolAck
    \/ Connect \/ Disconnect
    \/ DiskMaybeDelete \/ DeleteFails \/ ReplayDone
    \/ DrainSnapshot \/ DrainRecord \/ DrainEnd \/ OpenFailed
    \/ CollectRing \/ SendRing
    \/ Shutdown \/ Killed \/ PowerLoss

SpoolSpec == SpoolInit /\ [][SpoolNext]_spoolVars

-----------------------------------------------------------------------------
(* Properties.                                                             *)

Accounted == delivered \cup counted \cup ramLost

\* Every record of every run is in the ring, in a named file, or was
\* acknowledged or counted as dropped: a spill, a repair, a deletion or an
\* archive never loses one silently (disk_put, disk_maybe_delete,
\* spool_recover_all).
NothingVanishes ==
    /\ made \subseteq RingRecords \cup StoredRecords \cup Accounted
    /\ \A i \in 1..Len(replayList) :
          replayList[i].max # 0 => replayList[i].session \in dirNow.replays

\* What is on the medium under a durable name stays there until the collector
\* has it, through a power cut in the middle of archive_spool too.
DurableStaysDurable ==
    [][DurableRecords \ DurableRecords' \subseteq delivered']_spoolVars

\* The file of this run was set aside for the next start (disk_open_failed).
SetAside == spool.off /\ spool.max = 0

\* sent_upto never passes a record that was neither sent on this connection nor
\* acknowledged nor dropped nor set aside: the drain and the ring together skip nothing
\* although records move from one to the other between two looks.
NoRecordSkipped ==
    process = "run" /\ link.up =>
        \A r \in RingRecords \cup (IF SetAside THEN {} ELSE StoredRecords) :
           r[1] = link.to /\ r[2] <= link.sentUpto =>
              r[2] \in link.sent \/ r[2] <= Served.acked \/ r \in counted

\* No file holds a record behind a tear or out of order: recovery reads every
\* complete record of every file (the disk_append_disabled rule).
FilesAreOrdered ==
    \A s \in Named(dirNow) :
       \A i, j \in 1..Len(contents[s]) : i < j =>
          /\ contents[s][i] # Torn
          /\ i > 1 /\ contents[s][j] # Torn => contents[s][i] < contents[s][j]

\* The replay list holds a session once, and never the running one: sequence
\* numbers of one session come from one spool.
OneSpoolPerSession ==
    /\ \A i, j \in 1..Len(replayList) :
          replayList[i].session = replayList[j].session => i = j
    /\ \A i \in 1..Len(replayList) : replayList[i].session # spool.session

\* Exit status 0 means that every unacknowledged record of the ring is durable.
CleanExitIsDurable ==
    [][process = "run" /\ process' = "down" /\ exitStatus' = 0
         => RingRecords \subseteq DurableRecords']_spoolVars

\* No record of the feeder is lost silently, skipped, or lost from the medium
\* before the collector has it, whatever crashes (spool, disk_put).
SpoolIsSound ==
    /\ [](/\ NothingVanishes
          /\ NoRecordSkipped
          /\ FilesAreOrdered
          /\ OneSpoolPerSession)
    /\ DurableStaysDurable
    /\ CleanExitIsDurable

=============================================================================

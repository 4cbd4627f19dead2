------------------------------ MODULE Archiver ------------------------------
(***************************************************************************)
(* One server's archiver (archiver.rs): the loops that ship and reclaim    *)
(* binlogs and take full backups, the supervisor that ties them to the     *)
(* writable-primary role, and the state file on the volume that both loops *)
(* write.  Binlogs are numbered; time is left out but for a file's age.    *)
(***************************************************************************)
EXTENDS Integers, FiniteSets

CONSTANTS
    MaxFile,        \* bound: binlogs
    MaxTrouble,     \* bound: external events
    Troubles        \* which external events happen

AllTroubles == {"role", "crash", "lose", "expire", "request", "due", "set_fails", "set_unclear", "foreign"}

ASSUME ArchiverAssumption ==
    /\ MaxFile \in Nat \ {0} /\ MaxTrouble \in Nat
    /\ Troubles \subseteq AllTroubles

VARIABLES
    group,      \* ArchiveMode: GroupPrimary or Standalone
    primary,    \* this node is the group's writable primary, unfenced
    arch,       \* the archiver task: "off", "starting", "on", "ended"
    owns,       \* owns_expiry
    expiry,     \* mysqld expires binlogs on its own
    binlog,     \* the index: oldest, active; files up to aged are old
    gone,       \* binlogs that left the disk otherwise than by our purge
    bucket,     \* the binlogs that are archived
    newest,     \* the coordinate of the newest complete full, or 0
    state,      \* the upload state file
    ship,       \* the shipping pass: pc, what it read, the cut
    dump,       \* the full-backup loop: pc, anchors_a_gap, coordinate
    latch,      \* full_backup_state
    late,       \* losses recorded while an anchoring full was under way
    trouble     \* external events so far

vars == <<group, primary, arch, owns, expiry, binlog, gone, bucket, newest,
          state, ship, dump, latch, late, trouble>>

server == <<group, primary, binlog, gone, expiry>>

(***************************************************************************)
(* Reading.                                                                *)
(***************************************************************************)
NoState == [uploaded |-> {}, lost |-> {}, anchor |-> FALSE]
Resting == [pc |-> "rest", first |-> 0, act |-> 0, cut |-> 0, st |-> NoState]
NoDump == [pc |-> "rest", anchors |-> FALSE, coord |-> 0, st |-> NoState]

OnDisk(s) == s >= binlog.oldest /\ s <= binlog.active /\ s \notin gone

\* The next closed binlog of the pass that is neither shipped nor lost.
Left(p) == {s \in p.first .. (p.act - 1) : s \notin p.st.uploaded \cup p.st.lost}
IsNext(s) == s \in Left(ship) /\ \A t \in Left(ship) : s <= t

\* An anchoring full is between the reading of the flag and its clearing.
Anchoring == dump.pc # "rest" /\ dump.anchors

\* purge_cut stops at what has not shipped; purge_cut_retaining_recent also
\* at what is recent, or of unknown age.
Stops(f) ==
    /\ f \notin ship.st.lost
    /\ f \notin ship.st.uploaded \/ (group /\ (f > binlog.aged \/ ~ OnDisk(f)))

IsCut(c) ==
    /\ c \in ship.first .. ship.act
    /\ c = ship.act \/ Stops(c)
    /\ \A f \in ship.first .. (c - 1) : ~ Stops(f)

Happens(what) ==
    /\ what \in Troubles /\ trouble < MaxTrouble
    /\ trouble' = trouble + 1

(***************************************************************************)
(* The server and its surroundings.                                        *)
(***************************************************************************)
Init ==
    /\ group \in BOOLEAN
    /\ primary = ~ group /\ expiry = group
    /\ arch = "off" /\ owns = FALSE
    /\ binlog = [oldest |-> 1, active |-> 1, aged |-> 0]
    /\ gone = {} /\ bucket = {} /\ newest = 0
    /\ state = NoState /\ ship = Resting /\ dump = NoDump
    /\ latch = "idle" /\ late = {} /\ trouble = 0

\* mysqld on its own, or rotation_loop's FLUSH BINARY LOGS.
Rotate ==
    /\ binlog.active < MaxFile
    /\ binlog' = [binlog EXCEPT !.active = @ + 1]
    /\ UNCHANGED <<group, primary, arch, owns, expiry, gone, bucket, newest, state, ship, dump, latch, late, trouble>>

\* A closed binlog passes the recovery window.
GrowOld ==
    /\ group /\ binlog.aged < binlog.active - 1
    /\ binlog' = [binlog EXCEPT !.aged = @ + 1]
    /\ UNCHANGED <<group, primary, arch, owns, expiry, gone, bucket, newest, state, ship, dump, latch, late, trouble>>

\* A binlog vanishes from the disk and stays in the index.
LoseFile(s) ==
    /\ Happens("lose")
    /\ OnDisk(s) /\ s < binlog.active
    /\ gone' = gone \cup {s}
    /\ UNCHANGED <<group, primary, arch, owns, expiry, binlog, bucket, newest, state, ship, dump, latch, late>>

\* mysqld expires its oldest binlog, out of the index too.
Expire ==
    /\ expiry /\ Happens("expire")
    /\ binlog.oldest <= binlog.aged
    /\ binlog' = [binlog EXCEPT !.oldest = @ + 1]
    /\ gone' = gone \cup {binlog.oldest}
    /\ UNCHANGED <<group, primary, arch, owns, expiry, bucket, newest, state, ship, dump, latch, late>>

\* The group elects another writable primary, or this node is fenced.
ChangeRole ==
    /\ group /\ Happens("role")
    /\ primary' = ~ primary
    /\ UNCHANGED <<group, arch, owns, expiry, binlog, gone, bucket, newest, state, ship, dump, latch, late>>

\* The process ends.  mysqld comes back on a new binlog, with the expiry of
\* its configuration file and without the role.
Crash ==
    /\ Happens("crash") /\ binlog.active < MaxFile
    /\ primary' = ~ group /\ expiry' = group
    /\ arch' = "off" /\ owns' = FALSE
    /\ binlog' = [binlog EXCEPT !.active = @ + 1]
    /\ ship' = Resting /\ dump' = NoDump /\ latch' = "idle"
    /\ UNCHANGED <<group, gone, bucket, newest, state, late>>

(***************************************************************************)
(* The role supervisor, and the start of the archiver.                     *)
(***************************************************************************)
\* run_group_primary_supervisor, or main.rs for a standalone.  Handing the
\* expiry over may fail, or be done although it seemed to fail.
Start ==
    /\ primary /\ arch = "off"
    /\ arch' = "starting"
    /\ \/ owns' = group /\ expiry' = FALSE /\ UNCHANGED trouble
       \/ group /\ Happens("set_fails") /\ UNCHANGED <<owns, expiry>>
       \/ group /\ Happens("set_unclear") /\ UNCHANGED owns /\ expiry' = FALSE
    /\ UNCHANGED <<group, primary, binlog, gone, bucket, newest, state, ship, dump, latch, late>>

\* ensure_archive_ownership refuses or cannot read the record: the task ends,
\* for this boot unless the supervisor starts it again.
Refuse ==
    /\ arch = "starting" /\ arch' = IF group THEN "off" ELSE "ended"
    /\ UNCHANGED <<server, owns, bucket, newest, state, ship, dump, latch, late, trouble>>

\* The claim stands; reconcile_upload_state drops what a HEAD denies.
Reconcile ==
    /\ arch = "starting" /\ arch' = "on"
    /\ state' = [state EXCEPT !.uploaded = @ \cap bucket]
    /\ UNCHANGED <<server, owns, bucket, newest, ship, dump, latch, late, trouble>>

\* The bug ExpiryHandedBack is about: a failed hand-back is forgotten.
HandBackOnce(done) ==
    /\ owns' = FALSE
    /\ expiry' = (expiry \/ (owns /\ done))

HandBack(done) ==
    IF owns /\ done THEN owns' = FALSE /\ expiry' = TRUE
                    ELSE UNCHANGED <<owns, expiry>>

\* The bug LatchMeansDump is about: the dump is not aborted with the task.
StopDetached ==
    /\ ~ primary /\ arch # "off"
    /\ arch' = "off" /\ latch' = "idle"
    /\ ship' = Resting
    /\ HandBack(TRUE)
    /\ UNCHANGED <<group, primary, binlog, gone, bucket, newest, state, dump, late, trouble>>

\* The task is aborted and awaited, then stop_archiving; mysqld gets its
\* expiry back, or at a later poll.
Stop ==
    /\ ~ primary /\ arch # "off"
    /\ arch' = "off" /\ latch' = "idle"
    /\ ship' = Resting /\ dump' = NoDump
    /\ \/ HandBack(TRUE) /\ UNCHANGED trouble
       \/ Happens("set_fails") /\ HandBack(FALSE)
    /\ UNCHANGED <<group, primary, binlog, gone, bucket, newest, state, late>>

HandBackLater ==
    /\ ~ primary /\ arch = "off" /\ owns
    /\ HandBack(TRUE)
    /\ UNCHANGED <<group, primary, arch, binlog, gone, bucket, newest, state, ship, dump, latch, late, trouble>>

(***************************************************************************)
(* The shipping loop, one pass of ship_once.                               *)
(***************************************************************************)
ShipBegin ==
    /\ arch = "on" /\ ship.pc = "rest"
    /\ ship' = [pc |-> "scan", first |-> binlog.oldest, act |-> binlog.active, cut |-> 0, st |-> state]
    /\ UNCHANGED <<server, arch, owns, bucket, newest, state, dump, latch, late, trouble>>

\* A file that is gone is recorded once, with the flag that asks for a full.
RecordLoss(s) ==
    /\ ship.pc = "scan" /\ IsNext(s) /\ ~ OnDisk(s)
    /\ LET st == [ship.st EXCEPT !.lost = @ \cup {s}, !.anchor = TRUE]
       IN  ship' = [ship EXCEPT !.st = st] /\ state' = st
    /\ late' = IF Anchoring THEN late \cup {s} ELSE late
    /\ UNCHANGED <<server, arch, owns, bucket, newest, dump, latch, trouble>>

Upload(s) ==
    /\ ship.pc = "scan" /\ IsNext(s) /\ OnDisk(s)
    /\ bucket' = bucket \cup {s}
    /\ ship' = [ship EXCEPT !.pc = "sent"]
    /\ UNCHANGED <<server, arch, owns, newest, state, dump, latch, late, trouble>>

\* The bug RecordTrue is about: the record does not wait for the PUT.
UploadFailsRecorded(s) ==
    /\ ship.pc = "scan" /\ IsNext(s)
    /\ ship' = Resting
    /\ state' = [ship.st EXCEPT !.uploaded = @ \cup {s}]
    /\ UNCHANGED <<server, arch, owns, bucket, newest, dump, latch, late, trouble>>

\* The PUT fails, or landed although it seemed to: the pass ends.
UploadFails(s) ==
    /\ \/ ship.pc = "scan" /\ IsNext(s)
       \/ ship.pc = "sent" /\ IsNext(s)
    /\ ship' = Resting
    /\ UNCHANGED <<server, arch, owns, bucket, newest, state, dump, latch, late, trouble>>

RecordUpload(s) ==
    /\ ship.pc = "sent" /\ IsNext(s)
    /\ LET st == [ship.st EXCEPT !.uploaded = @ \cup {s}]
       IN  ship' = [ship EXCEPT !.pc = "scan", !.st = st] /\ state' = st
    /\ UNCHANGED <<server, arch, owns, bucket, newest, dump, latch, late, trouble>>

\* The bug GapReanchored is about: nobody asks for the anchoring full.
CutOnly ==
    /\ ship.pc = "scan" /\ Left(ship) = {}
    /\ ship' = Resting
    /\ UNCHANGED <<server, arch, owns, bucket, newest, state, dump, latch, late, trouble>>

\* Everything closed has shipped: ask for the anchoring full, then reclaim_decision.
AskAndCut ==
    /\ ship.pc = "scan" /\ Left(ship) = {}
    /\ latch' = IF ship.st.anchor /\ latch = "idle" THEN "queued" ELSE latch
    /\ \E c \in 1 .. MaxFile :
         /\ IsCut(c)
         /\ ship' = IF c = ship.first \/ dump.pc = "locked" THEN Resting
                    ELSE [ship EXCEPT !.pc = "purge", !.cut = c]
    /\ UNCHANGED <<server, arch, owns, bucket, newest, state, dump, late, trouble>>

\* The bug TypeOK is about: the purge takes the boundary file too.
PurgeThrough ==
    /\ ship.pc = "purge" /\ dump.pc # "locked"
    /\ binlog' = [binlog EXCEPT !.oldest = ship.cut + 1]
    /\ ship' = [ship EXCEPT !.pc = "forget"]
    /\ UNCHANGED <<group, primary, gone, expiry, arch, owns, bucket, newest, state, dump, latch, late, trouble>>

\* The bug SpoolKept is about: the purge goes up to what is active by now, not
\* to what was active when the pass began.
PurgeToActive ==
    /\ ship.pc = "purge" /\ dump.pc # "locked"
    /\ binlog' = [binlog EXCEPT !.oldest = binlog.active]
    /\ ship' = [ship EXCEPT !.pc = "forget"]
    /\ UNCHANGED <<group, primary, gone, expiry, arch, owns, bucket, newest, state, dump, latch, late, trouble>>

\* PURGE BINARY LOGS, which a backup lock of any session refuses.
Purge ==
    /\ ship.pc = "purge" /\ dump.pc # "locked"
    /\ binlog' = IF ship.cut > binlog.oldest THEN [binlog EXCEPT !.oldest = ship.cut] ELSE binlog
    /\ ship' = [ship EXCEPT !.pc = "forget"]
    /\ UNCHANGED <<group, primary, gone, expiry, arch, owns, bucket, newest, state, dump, latch, late, trouble>>

PurgeRefused ==
    /\ ship.pc = "purge"
    /\ IF dump.pc = "locked" THEN UNCHANGED trouble ELSE Happens("foreign")
    /\ ship' = Resting
    /\ UNCHANGED <<server, arch, owns, bucket, newest, state, dump, latch, late>>

\* The purged names leave the state file, which is written whole.
Forget ==
    /\ ship.pc = "forget"
    /\ LET st == [ship.st EXCEPT !.uploaded = {s \in @ : s >= ship.cut}]
       IN  state' = IF st = ship.st THEN state ELSE st
    /\ ship' = Resting
    /\ UNCHANGED <<server, arch, owns, bucket, newest, dump, latch, late, trouble>>

(***************************************************************************)
(* The full-backup loop, and the requests for one.                         *)
(***************************************************************************)
\* The health endpoint: queue_full_backup.
Request ==
    /\ arch = "on" /\ latch = "idle" /\ Happens("request")
    /\ latch' = "queued"
    /\ UNCHANGED <<server, arch, owns, bucket, newest, state, ship, dump, late>>

\* A request is queued, or a full is due by the listing or for want of one.
BeginFull ==
    /\ arch = "on" /\ dump.pc = "rest"
    /\ \/ latch = "queued" /\ UNCHANGED trouble
       \/ latch = "idle" /\ newest = 0 /\ UNCHANGED trouble
       \/ latch = "idle" /\ Happens("due")
    /\ latch' = "running"
    /\ dump' = [NoDump EXCEPT !.pc = "begun", !.anchors = state.anchor]
    /\ UNCHANGED <<server, arch, owns, bucket, newest, state, ship, late>>

\* Deferred for a long statement or a read lock that does not come, or
\* failed before, during or after the dump: the latch falls back to idle.
EndFull ==
    /\ dump.pc \in {"begun", "locked", "dumped"}
    /\ dump' = NoDump /\ latch' = "idle"
    /\ UNCHANGED <<server, arch, owns, bucket, newest, state, ship, late, trouble>>

\* Read lock, backup lock, coordinates; mysqldump's snapshot is at them.
LockForBackup ==
    /\ dump.pc = "begun"
    /\ dump' = [dump EXCEPT !.pc = "locked", !.coord = binlog.active]
    /\ UNCHANGED <<server, arch, owns, bucket, newest, state, ship, latch, late, trouble>>

\* The dump is in the bucket and the backup lock goes.
DumpEnds ==
    /\ dump.pc = "locked"
    /\ dump' = [dump EXCEPT !.pc = "dumped"]
    /\ UNCHANGED <<server, arch, owns, bucket, newest, state, ship, latch, late, trouble>>

\* The bug LossAnchored is about: any full clears the flag.
PutMetaClearing ==
    /\ dump.pc = "dumped"
    /\ newest' = dump.coord /\ latch' = "idle"
    /\ dump' = [dump EXCEPT !.pc = "taken"]
    /\ UNCHANGED <<server, arch, owns, bucket, state, ship, late, trouble>>

\* meta.json completes the full, and the latch is dropped.
PutMeta ==
    /\ dump.pc = "dumped"
    /\ newest' = dump.coord /\ latch' = "idle"
    /\ dump' = IF dump.anchors THEN [dump EXCEPT !.pc = "taken"] ELSE NoDump
    /\ UNCHANGED <<server, arch, owns, bucket, state, ship, late, trouble>>

\* clear_gap_anchor reads the state file and writes it, the shipping loop
\* running on another thread.
ReadAnchor ==
    /\ dump.pc = "taken"
    /\ dump' = IF state.anchor THEN [dump EXCEPT !.pc = "read", !.st = state] ELSE NoDump
    /\ UNCHANGED <<server, arch, owns, bucket, newest, state, ship, latch, late, trouble>>

ClearAnchor ==
    /\ dump.pc = "read"
    /\ state' = [dump.st EXCEPT !.anchor = FALSE]
    /\ dump' = NoDump
    /\ UNCHANGED <<server, arch, owns, bucket, newest, ship, latch, late, trouble>>

Shipping ==
    \/ ShipBegin \/ AskAndCut \/ Purge \/ PurgeRefused \/ Forget
    \/ \E s \in 1 .. MaxFile : RecordLoss(s) \/ Upload(s) \/ UploadFails(s) \/ RecordUpload(s)

Dumping ==
    BeginFull \/ EndFull \/ LockForBackup \/ DumpEnds \/ PutMeta \/ ReadAnchor \/ ClearAnchor

Supervising == Start \/ Refuse \/ Reconcile \/ Stop \/ HandBackLater

Surroundings ==
    \/ Rotate \/ GrowOld \/ Expire \/ ChangeRole \/ Crash \/ Request
    \/ \E s \in 1 .. MaxFile : LoseFile(s)

Next == Shipping \/ Dumping \/ Supervising \/ Surroundings

Spec == Init /\ [][Next]_vars

(***************************************************************************)
(* The loops and the supervisor run for ever.  A pass begun again and      *)
(* again gets past a file, or to its end, at last; a full attempted again  *)
(* and again is completed at last.                                         *)
(***************************************************************************)
Gains == AskAndCut \/ \E s \in 1 .. MaxFile : RecordLoss(s) \/ RecordUpload(s)

Fairness ==
    /\ WF_vars(Shipping) /\ WF_vars(Dumping)
    /\ []<><<ShipBegin>>_vars => []<><<Gains>>_vars
    /\ []<><<BeginFull>>_vars => []<><<PutMeta>>_vars
    /\ WF_vars(Start \/ Stop) /\ WF_vars(HandBackLater)

FairSpec == Spec /\ Fairness

(***************************************************************************)
(* Properties.                                                             *)
(***************************************************************************)
Files == SUBSET (1 .. MaxFile)
UploadState == [uploaded : Files, lost : Files, anchor : BOOLEAN]
ShipPass == [pc : {"rest", "scan", "sent", "purge", "forget"}, first : 0 .. MaxFile,
             act : 0 .. MaxFile, cut : 0 .. MaxFile, st : UploadState]
FullRun == [pc : {"rest", "begun", "locked", "dumped", "taken", "read"},
            anchors : BOOLEAN, coord : 0 .. MaxFile, st : UploadState]

FlagsOK ==
    /\ group \in BOOLEAN /\ primary \in BOOLEAN
    /\ owns \in BOOLEAN /\ expiry \in BOOLEAN

FilesOK ==
    /\ arch \in {"off", "starting", "on", "ended"}
    /\ binlog \in [oldest : 1 .. MaxFile, active : 1 .. MaxFile, aged : 0 .. MaxFile]
    /\ binlog.oldest <= binlog.active /\ binlog.aged < binlog.active
    /\ gone \in Files /\ bucket \in Files /\ late \in Files
    /\ newest \in 0 .. MaxFile
    /\ latch \in {"idle", "queued", "running"}
    /\ trouble \in 0 .. MaxTrouble

LoopsOK == state \in UploadState /\ ship \in ShipPass /\ dump \in FullRun

TypeOK == FlagsOK /\ FilesOK /\ LoopsOK

\* The state file never claims an upload that the bucket lacks, whenever the
\* process ends (ship_once, reconcile_upload_state).
RecordTrue == state.uploaded \subseteq bucket

\* The latch says "running" exactly while a full is under way, through
\* requests, role changes and crashes: never two at once, never one that
\* blocks all others (FullBackupRun, stop_archiving).
LatchMeansDump == (latch = "running") <=> dump.pc \in {"begun", "locked", "dumped"}

\* A recorded loss has a later full, or the flag that will bring one, across
\* crashes and failed fulls: but for one recorded while an anchoring full was
\* under way, where the anchor goes with the dump that began before it (see the README).
LossAnchored ==
    \A s \in state.lost : s \in late \/ state.anchor \/ newest > s

\* The same of every recorded loss (gap_anchor_pending's comment).
EveryLossAnchored ==
    \A s \in state.lost : state.anchor \/ newest > s

\* A gap does not stay open while the archiver runs: the full is asked for
\* again however often it is deferred or fails (ship_once).
GapReanchored == state.anchor ~> (~ state.anchor \/ arch # "on")

\* What the supervisor knows to have taken over it hands back, whatever fails
\* meanwhile: a node demoted for good ends with mysqld's expiry on.
ExpiryHandedBack == (owns /\ ~ primary) ~> (primary \/ (expiry /\ ~ owns))

\* The archiver keeps the spool's promise.
Spool == INSTANCE BinlogSpool WITH
            open <- binlog.active,
            disk <- {s \in binlog.oldest .. binlog.active : s \notin gone},
            archive <- bucket
SpoolKept == Spool!Spec
==============================================================================

------------------------------- MODULE Archive -------------------------------
(***************************************************************************)
(* The point-in-time archive: what the archiver puts in the bucket         *)
(* (archiver.rs), what a retention sweep takes out of it (pitr.rs's        *)
(* planner), and what a restore makes of what is left (restore.rs).        *)
(*                                                                         *)
(* One behaviour is either one group's shared history, every member of     *)
(* which logs every transaction, or one standalone service's independent   *)
(* histories, one per volume it has had.  A tick is one second, the grain  *)
(* at which mysqlbinlog cuts, and every second commits one transaction, so *)
(* a transaction is the second of its commit and a binlog the seconds from *)
(* its opening to the next one's.  All instants are read on one clock.     *)
(***************************************************************************)
EXTENDS Integers, FiniteSets, Sequences, FiniteSetsExt

CONSTANTS
    Servers,        \* lineages, numbered in the order of their uuids
    Horizon,        \* BINLOG_RETENTION_DAYS
    MinAge,         \* RETENTION_MIN_OBJECT_AGE_SECONDS
    Grace,          \* ORPHAN_DUMP_GRACE_SECONDS
    LagBound,       \* achieved_lag_bound_seconds
    LockWait,       \* GLOBAL_READ_LOCK_WAIT
    MinFulls,       \* MIN_ACTIVE_FULLS_KEPT
    MaxTime, MaxFile, MaxLost, MaxFulls, MaxUnread, MaxSweeps, MaxMoves   \* bounds

ASSUME ArchiveAssumption ==
    /\ Servers \subseteq Nat /\ Servers # {}
    /\ {Horizon, MinAge, Grace, LagBound, LockWait} \subseteq Nat
    /\ MinFulls \in Nat \ {0}

ASSUME BoundsAssumption ==
    {MaxTime, MaxFile, MaxLost, MaxFulls, MaxUnread, MaxSweeps, MaxMoves} \subseteq Nat

VARIABLES
    now,        \* the clock
    shared,     \* the archive carries the shared-history marker
    writer,     \* the lineage that archives: the primary, the current volume
    held,       \* for how long it has been that, LockWait or more being one
    log,        \* per lineage, when each binlog was opened; the last is active
    bucket,     \* the objects: [kind, lin, seq or full, put]
    losses,     \* how many binlogs were gone from disk before they shipped
    moves,      \* how often the writer changed
    sweeps,     \* how many sweeps deleted something
    step        \* how far the current second's operations have come

vars == <<now, shared, writer, held, log, bucket, losses, moves, sweeps, step>>

None == [at |-> -1]

(***************************************************************************)
(* The objects.  A full is identified by its lineage and the instant it    *)
(* was begun, taken_at; its meta carries the coordinate: the binlog active *)
(* when the read lock was granted, where the snapshot stands, snap.        *)
(***************************************************************************)
Active(l) == Len(log[l])
Closed(l) == 1 .. (Active(l) - 1)

Binlog(l, s, t) == [kind |-> "binlog", lin |-> l, id |-> s, put |-> t]
Dump(f, t) == [kind |-> "dump", lin |-> f.lin, id |-> f, put |-> t]
Meta(f, t) == [kind |-> "meta", lin |-> f.lin, id |-> f, put |-> t]

Objects(b, kind) == {o \in b : o.kind = kind}
Shipped(b, l) == {o.id : o \in {p \in Objects(b, "binlog") : p.lin = l}}
Metas(b) == {o.id : o \in Objects(b, "meta")}
Dumps(b) == {o.id : o \in Objects(b, "dump")}

\* The transactions a closed binlog holds, when its last event was written,
\* and what its server had executed before it (its Previous_gtids).
Born(l) == log[l][1]
LastEvent(l, s) == log[l][s + 1]
Holds(l, s) == log[l][s] .. (LastEvent(l, s) - 1)
PreviousGtids(l, s) == Born(l) .. (log[l][s] - 1)

(***************************************************************************)
(* Restore.  The newest full at or before the target; then, in an          *)
(* independent history, that lineage's gap-free run from the full's        *)
(* coordinate, and in a shared one every lineage's binlogs, the runs past  *)
(* a gap in later rounds.  Commits are applied up to the target's second.  *)
(***************************************************************************)
NewestQualifyingFull(fulls, target) ==
    LET ok == {f \in fulls : f.at <= target}
    IN  IF ok = {} THEN None
        ELSE CHOOSE f \in ok :
                \A g \in ok : g.at < f.at \/ (g.at = f.at /\ g.lin <= f.lin)

\* binlogs_to_replay: the run, and the files a gap cuts off it.
GapFreeRun(files, start) == {s \in files : s >= start /\ start .. s \subseteq files}
PastGap(files, start) == {s \in files : s > start} \ GapFreeRun(files, start)

Refused(kind) == [verdict |-> kind, applied |-> {}, achieved |-> -1]

VerifyAchievedPoint(applied, achieved, target) ==
    IF target - achieved <= LagBound
    THEN [verdict |-> "completed", applied |-> applied, achieved |-> achieved]
    ELSE Refused("target-unreachable")

\* What replaying the binlogs <<l, s>> on top of full f applies.
Replay(f, files, target) ==
    (Born(f.lin) .. (f.snap - 1)) \cup
    {i \in UNION {Holds(p[1], p[2]) : p \in files} : i < target}

\* The bug RestoreHonest is about: a gap the target lies behind is no refusal.
ReplayPastGaps(b, f, target) ==
    LET files == {s \in Shipped(b, f.lin) : s >= f.seq}
        last == IF files = {} THEN f.at ELSE LastEvent(f.lin, Max(files))
    IN  VerifyAchievedPoint(Replay(f, {f.lin} \X files, target),
                            Min({last, target}), target)

ReplayBinlogs(b, f, target) ==
    LET files == Shipped(b, f.lin)
        run == GapFreeRun(files, f.seq)
        last == IF run = {} THEN f.at ELSE LastEvent(f.lin, Max(run))
    IN  IF PastGap(files, f.seq) # {} /\ last < target
        THEN Refused("binlog-gap")
        ELSE VerifyAchievedPoint(Replay(f, {f.lin} \X run, target),
                                 Min({last, target}), target)

ReplaySharedHistory(b, f, target) ==
    LET own == {f.lin} \X {s \in Shipped(b, f.lin) : s >= f.seq}
        others == UNION {{l} \X Shipped(b, l) : l \in Servers \ {f.lin}}
        files == own \cup others
        applied == Replay(f, files, target)
        witnesses == {p \in files : log[p[1]][p[2]] < target}
        achieved == Max({f.at} \cup {Min({LastEvent(p[1], p[2]), target}) : p \in files})
    IN  IF \E p \in witnesses : ~ (PreviousGtids(p[1], p[2]) \subseteq applied)
        THEN Refused("gtid-hole")
        ELSE VerifyAchievedPoint(applied, achieved, target)

Restore(b, target) ==
    LET f == NewestQualifyingFull(Metas(b), target)
    IN  IF f = None THEN Refused("no-full")
        ELSE IF f \notin Dumps(b) THEN Refused("error")
        ELSE IF shared THEN ReplaySharedHistory(b, f, target)
        ELSE ReplayBinlogs(b, f, target)

(***************************************************************************)
(* Retention.  unread is the set of metas this pass could not read.        *)
(***************************************************************************)
Newest(fulls, n) == {f \in fulls : Cardinality({g \in fulls : g.at > f.at}) < n}

\* The bug SweepKeepsWindow is about: the full that serves the targets between
\* the cutoff and the first full inside the horizon is not kept.
FullsInside(fulls, cutoff, minKept) ==
    LET inside == Cardinality({f \in fulls : f.at >= cutoff})
    IN  Newest(fulls, Max({inside, minKept, 1}))

FullsToKeep(fulls, cutoff, minKept) ==
    LET inside == Cardinality({f \in fulls : f.at >= cutoff})
        n == Min({Max({inside, minKept, 1}), Cardinality(fulls)})
        oldest == Min({f.at : f \in Newest(fulls, n)})
    IN  IF n < Cardinality(fulls) /\ oldest > cutoff
        THEN Newest(fulls, n + 1)
        ELSE Newest(fulls, n)

Oldest(fulls) == CHOOSE f \in fulls : \A g \in fulls : f.at <= g.at

\* The complete fulls of the lineages ls that a sweep could read.
Readable(b, unread, ls) ==
    {f \in (Metas(b) \cap Dumps(b)) \ unread : f.lin \in ls}

OrphanDumps(b) ==
    {o \in Objects(b, "dump") : o.id \notin Metas(b) /\ now - o.put > Grace}

ObjectsOf(b, fulls) == {o \in b : o.kind \in {"dump", "meta"} /\ o.id \in fulls}
BinlogsOf(b, l) == {o \in Objects(b, "binlog") : o.lin = l}

\* A dead lineage every full of which is past the horizon retires whole.
Retired(b, unread, l, cutoff) ==
    LET fulls == Readable(b, unread, {l})
    IN  /\ l # writer
        /\ fulls # {} => Max({f.at : f \in fulls}) < cutoff
        /\ fulls = {} => ~ \E f \in Metas(b) : f.lin = l

PlanLineage(b, unread, l, cutoff) ==
    LET fulls == Readable(b, unread, {l})
        kept == FullsToKeep(fulls, cutoff, IF l = writer THEN MinFulls ELSE 1)
    IN  IF Retired(b, unread, l, cutoff) THEN ObjectsOf(b, fulls) \cup BinlogsOf(b, l)
        ELSE IF fulls = {} THEN {}
        ELSE ObjectsOf(b, fulls \ kept) \cup
             {o \in BinlogsOf(b, l) : o.id < Oldest(kept).seq}

\* The bug NeverUnrestorable is about: dead lineages retire although the active
\* one has no complete full yet.
PlanUngated(b, unread, cutoff) ==
    OrphanDumps(b) \cup UNION {PlanLineage(b, unread, l, cutoff) : l \in Servers}

PlanIndependent(b, unread, cutoff) ==
    IF Readable(b, unread, {writer}) = {} THEN {}
    ELSE OrphanDumps(b) \cup UNION {PlanLineage(b, unread, l, cutoff) : l \in Servers}

PlanSharedHistory(b, unread, cutoff) ==
    LET fulls == Readable(b, unread, Servers)
        kept == FullsToKeep(fulls, cutoff, MinFulls)
        floor == Oldest(kept)
    IN  OrphanDumps(b) \cup
        IF fulls # Metas(b) \/ fulls = {} THEN {}
        ELSE ObjectsOf(b, fulls \ kept) \cup
             {o \in Objects(b, "binlog") : IF o.lin = floor.lin THEN o.id < floor.seq
                                           ELSE o.put < floor.at}

PlanRetention(b, unread) ==
    IF Horizon = 0 THEN {}
    ELSE IF shared THEN PlanSharedHistory(b, unread, now - Horizon)
    ELSE PlanIndependent(b, unread, now - Horizon)

(***************************************************************************)
(* The service: commits, binlogs, failovers and volume resets.             *)
(***************************************************************************)
Init ==
    /\ now = 0
    /\ shared \in BOOLEAN
    /\ writer = Min(Servers)
    /\ log = [l \in Servers |-> IF shared \/ l = writer THEN <<0>> ELSE <<>>]
    /\ held = 0 /\ bucket = {} /\ losses = 0 /\ moves = 0 /\ sweeps = 0 /\ step = 0

\* A second passes, and with it a commit; the binlogs of the lineages in
\* turn rotate (rotation_loop's FLUSH BINARY LOGS, or mysqld on its own).
Live == {l \in Servers : log[l] # <<>> /\ (shared \/ l = writer)}

Tick ==
    /\ now < MaxTime
    /\ now' = now + 1
    /\ \E turn \in SUBSET {l \in Live : Active(l) < MaxFile} :
         log' = [l \in Servers |-> IF l \in turn THEN Append(log[l], now') ELSE log[l]]
    /\ held' = IF held < LockWait THEN held + 1 ELSE held
    /\ step' = 0
    /\ UNCHANGED <<shared, writer, bucket, losses, moves, sweeps>>

\* Two operations of one second commute for everything below, so they are
\* taken in one order: role, shipping, full backup, sweep.
InOrder(n) == step <= n /\ step' = n

\* Another member becomes the writable primary and archives from here on; the
\* old one's archiver stops, and with it a full that waits for the read lock.
Failover(l) ==
    /\ InOrder(0)
    /\ shared /\ l # writer
    /\ writer' = l
    /\ moves < MaxMoves /\ moves' = moves + 1
    /\ held' = 0
    /\ UNCHANGED <<now, shared, log, bucket, losses, sweeps>>

\* A standalone's volume is reset: a new lineage, a new dataset.
ResetVolume(l) ==
    /\ InOrder(0)
    /\ ~ shared /\ log[l] = <<>>
    /\ writer' = l
    /\ log' = [log EXCEPT ![l] = <<now>>]
    /\ moves < MaxMoves /\ moves' = moves + 1
    /\ held' = 0
    /\ UNCHANGED <<now, shared, bucket, losses, sweeps>>

(***************************************************************************)
(* The archiver: the shipping pass, a loss, the full backup, the sweep.    *)
(***************************************************************************)
\* ship_once: every closed binlog past what the lineage has shipped goes up,
\* but for those found missing from the disk, which never will.
ShipOnce ==
    /\ InOrder(1)
    /\ LET closed == {s \in Closed(writer) : s > Max({0} \cup Shipped(bucket, writer))}
       IN  \E missing \in SUBSET closed :
             /\ missing # closed
             /\ losses' = losses + Cardinality(missing) /\ losses' <= MaxLost
             /\ bucket' = bucket \cup {Binlog(writer, s, now) : s \in closed \ missing}
    /\ UNCHANGED <<now, shared, writer, held, log, moves, sweeps>>

\* take_full_backup and dump_and_upload, at the standstill of the read lock:
\* the coordinates and the snapshot, the dump when its upload ends and then
\* the meta; a full that fails in between leaves an orphan dump.  taken_at was
\* stamped before the wait for the lock, by this writer and after the last
\* full; an attempt that is deferred or fails earlier leaves nothing behind.
FullBackup ==
    /\ InOrder(2)
    /\ Cardinality(Dumps(bucket)) < MaxFulls
    /\ \E begun \in (now - held) .. now :
         /\ \A f \in Metas(bucket) \cup Dumps(bucket) : f.at < begun /\ f.snap <= begun
         /\ LET f == [lin |-> writer, at |-> begun, seq |-> Active(writer), snap |-> now]
            IN  \/ bucket' = bucket \cup {Dump(f, now)}
                \/ bucket' = bucket \cup {Dump(f, now), Meta(f, now)}
    /\ UNCHANGED <<now, shared, writer, held, log, losses, sweeps, moves>>

\* What a pass over these objects may delete.
Attempts(due) == {due} \cup UNION {{due \ {o}, {o}} : o \in due}

\* retention_pass deletes what the plan names and is old enough.  A delete
\* fails, or a crash lets only one go through.
RetentionPass ==
    /\ InOrder(3)
    /\ sweeps < MaxSweeps /\ sweeps' = sweeps + 1
    /\ \E unread \in SUBSET Metas(bucket) :
         /\ Cardinality(unread) <= MaxUnread
         /\ LET due == {o \in PlanRetention(bucket, unread) : now - o.put >= MinAge}
            IN  \E gone \in Attempts(due) : gone # {} /\ bucket' = bucket \ gone
    /\ UNCHANGED <<now, shared, writer, held, log, losses, moves>>

Next ==
    \/ Tick
    \/ \E l \in Servers : Failover(l) \/ ResetVolume(l)
    \/ ShipOnce
    \/ FullBackup
    \/ RetentionPass

Spec == Init /\ [][Next]_vars

(***************************************************************************)
(* Properties.                                                             *)
(***************************************************************************)
\* The commits a restore of full f to instant t owes.
Owed(f, t) == Born(f.lin) .. (t - 1)

\* A hole one side of the target: a binlog opened before it is missing from
\* the bucket, and the first one past the hole was opened at or after it.
HoleAcross(target) ==
    \E l \in Servers : \E s \in Closed(l) :
        /\ s \notin Shipped(bucket, l) /\ log[l][s] < target
        /\ \E t \in Shipped(bucket, l) : t > s /\ log[l][t] >= target

\* A restore that reports success holds every commit up to the instant it
\* reports (run, replay_binlogs, replay_shared_history), whatever was lost,
\* expired or never shipped, and none past its target but those the base
\* full's snapshot took up while it waited for the read lock: but for a hole of
\* a shared history that straddles the target (see the README).
RestoreHonest ==
    \A t \in 0 .. now :
        LET r == Restore(bucket, t)
            f == NewestQualifyingFull(Metas(bucket), t)
        IN  r.verdict = "completed" =>
              /\ (shared /\ HoleAcross(t)) \/ Owed(f, r.achieved) \subseteq r.applied
              /\ \A i \in r.applied : i < t \/ (i < f.snap /\ f.snap - f.at <= LockWait)

\* No restore that reports success holds a commit past its target (run: what
\* lies beyond the stop instant is deliberately not applied).
StopsAtTarget ==
    \A t \in 0 .. now :
        LET r == Restore(bucket, t)
        IN  r.verdict = "completed" => \A i \in r.applied : i < t

\* The same of every hole: a restore whose witnesses found none lost has lost
\* none (replay_shared_history, refusal of a gtid hole).
SharedRestoreHonest ==
    \A t \in 0 .. now :
        LET r == Restore(bucket, t)
            f == NewestQualifyingFull(Metas(bucket), t)
        IN  r.verdict = "completed" => Owed(f, r.achieved) \subseteq r.applied

\* What a sweep takes, whichever of its deletes fail, changes no restore to
\* a target inside the horizon (plan_retention).  An independent archive has
\* two exceptions, which the README shows: the base full's lineage is dead and
\* retires whole, or a meta went unread.
SweepKeepsWindow ==
    \A unread \in {u \in SUBSET Metas(bucket) : Cardinality(u) <= MaxUnread} :
        LET plan == PlanRetention(bucket, unread)
        IN  \A t \in Max({0, now - Horizon}) .. now :
              LET f == NewestQualifyingFull(Metas(bucket), t)
                  before == Restore(bucket, t)
              IN  plan # {} /\ f # None /\ (shared \/ (unread = {} /\ ~ Retired(bucket, {}, f.lin, now - Horizon)))
                    => \A gone \in Attempts(plan) : Restore(bucket \ gone, t) = before

\* No sweep leaves an archive that had a complete full without one.
NeverUnrestorable ==
    [][Metas(bucket) \cap Dumps(bucket) # {}
         => (Metas(bucket) \cap Dumps(bucket))' # {}]_vars
==============================================================================

# Verification of the MySQL HA node

TLA+ specifications of the wrapper that runs a MySQL Group Replication node
(`src/mysql-wrapper`), the TLC runs that check them on small instances and the
TLAPS proofs of what holds for every instance.

Line numbers are those of `src/mysql-wrapper/src/` unless a path is given.

## 1. The system

One container per node. Its supervisor (`main.rs`) starts mysqld and a set of
tokio tasks beside it; the tasks talk to the local mysqld by SQL, to the other
nodes by HTTP (`/gr/state`, `/role`) and to the bucket. Group Replication runs
inside mysqld. HAProxy in front routes to whoever answers `/role` with 200.
What must survive a restart is kept in files at the root of the data directory.

| Part | State it keeps | Operations | Correct when |
|---|---|---|---|
| Orchestration, `gr.rs` 1284-2470 | markers: group name, waiver generation, pre-GTID data, member; per boot: `fresh_datadir`, the safe dwell, gone clocks | adoption detection, peer round, identity adoption, join, clone, bootstrap, bootstrap past a waived peer, flag write | never two live groups; one node can always bootstrap; no committed data is lost without a waiver; forks are visible in the GTIDs |
| Decisions, `gr.rs` 477-543, 1137-1268 | none (pure) | `classify_round`, `decide`, `diverged_peer_wins`, `adopted_data_verdict` | at most one winner, and at least one |
| Majority watch, `gr.rs` 560-1010 | high-water marker; `membership_fenced`, force streak and attempts, gone clocks | look, fence, lift, judge, re-form | writes only with a declared majority; a forced re-formation never forks; writes return |
| `/gr/state`, `/role`, `/switchover`, `health_server.rs` | readiness, the fence flag | answer, switch primary | a 200 names a writable primary with a majority |
| Name probe, `dns_probe.rs`; peers, `peers.rs` | none | one DNS query, one HTTP query | only NXDOMAIN means gone; silence means nothing |
| Self-heal, `self_heal.rs` | boot-attempt count, heal ledger on the volume | preboot wipe, boot watch, stuck watch | local data discarded only while a quorum-confirmed primary answers; caps survive restarts |
| Volume lock, `volume_lock.rs` | one `flock` per volume | acquire at boot | one supervisor per volume |
| Password pin and rotation, `password_pin.rs`, `credentials.rs` | pin file, staged rotation | resolve, prepare, database, member, finalize, verify, reconcile | after any interruption every member ends on one password that authenticates |
| Archiver, `archiver.rs` | backup latch, upload record, gap anchor, status | follow the role, full backup, ship, purge, rotate, expire, claim ownership | no binlog purged before it is archived; a hole is anchored by a later full; one archiving member |
| Retention, `pitr.rs` 876-1376 | none (pure plan) | plan, delete | what a restore inside the horizon needs is never deleted |
| Restore, `restore.rs` | restore marker with attempts | choose, load, replay, verify | a partial restore is never served; the point reached is proved, not assumed |
| Upgrade pass, `finish_upgrade.rs` | served-version marker | decide, minimal boot, drop orphans | the owed server step is never taken for done |
| Supervision, `main.rs`, `process_manager.rs`, `demote_on_shutdown.rs` | child process | boot order, signals, hand-off on stop | the container ends with mysqld; a failed hand-off never blocks a stop |
| HAProxy edge, `src/haproxy` | a rendered file | render, supervise | routes follow `/role` |
| Text, I/O: `config.rs`, `mysql_conf.rs`, `sql.rs`, `s3.rs`, `health_auth.rs`, `src/common` | - | parse, render, query, send | no protocol of their own |

How they interact, where it is hard:

- **Orchestration and its peers.** Every node decides from answers that are
  already old when it acts; any of them may be lost. Nothing but a dwell (15 s by
  default) and the deterministic order separates two deciders.
- **Orchestration and its own volume.** Names, generations and markers are
  written one file at a time before the statement that makes them true.
- **Fence, election, `/role`.** Group Replication lifts `super_read_only` on
  its own at each election; the watch re-imposes it two seconds later at most.
- **Archiver, role and mysqld.** Two loops write one state file; the archiver is
  started and stopped as the role moves, while backups and purges are in
  flight, and mysqld's own expiry is handed over and back by statements that
  may fail.
- **Archiver, retention and restore** meet only in the bucket, days apart.
- **One boot and the next.** Lock, restore marker, boot counter, heal ledger and
  served version are all a boot has of the one before; a wipe deletes some of
  them, a kill falls between any two of their writes.
- **A rotation and the group.** Account statements replicate at their own pace
  while members restart, resolve their pin and rewrite their recovery account.

## 2. Modules

| Module | Models | Uses |
|---|---|---|
| `BootstrapDecision` | the pure decisions, over standings (GTIDs, pre-GTID claim, generation, seed rank) | - |
| `GroupLineage` | abstract: the promise about the groups that succeed one another | - |
| `Orchestrate` | one boot of a node from mysqld's start to the active member, its volume, its peers' answers, the group | extends `BootstrapDecision`, instance of `GroupLineage` |
| `OrchestrateProofs` | type correctness; at most one winner, and one live group; the winner is the most advanced; while nobody is given up on: no fork, no loss, adopted data shared, somebody wins; giving up takes a history; the refinement | extends `Orchestrate`, TLAPS |
| `MajorityWatch` | the watch on every member, with Group Replication and the platform around it | - |
| `MajorityWatchProofs` | type correctness; the marker; the fence | extends `MajorityWatch`, TLAPS |
| `MajorityGroupProofs` | one group, and what it acknowledged, through re-formations | extends `MajorityWatchProofs` |
| `Archive` | the bucket: what is shipped, what a sweep deletes, what a restore makes of the rest | - |
| `ArchiveProofs` | restores are honest; a sweep keeps the window, and a full | extends `Archive`, TLAPS |
| `BinlogSpool` | abstract: the promise about a server's binlogs | - |
| `Archiver` | one server's loops, supervisor and state file | instance of `BinlogSpool` |
| `ArchiverProofs` | type correctness; the record; the latch; the anchor; the refinement | extends `Archiver`, TLAPS |
| `NodeBoot` | containers on one volume: lock, restore, self-heal, upgrade pass, serving, clones | - |
| `NodeBootProofs` | type correctness; the lock; the self-heal cap | extends `NodeBoot`, TLAPS |
| `NodeBootRecordProofs` | the boot counter, the restore marker and the versions tell the truth | extends `NodeBootProofs` |
| `Credentials` | password rotation across a group, with its boots | - |
| `CredentialsProofs` | nobody is locked out; the old password is kept | extends `Credentials`, TLAPS |
| `MC...` | seed orders, symmetry, model values | the module of that name |

`PROJECT.json` maps each definition to its lines.

### BootstrapDecision and Orchestrate

`Boot` is a container start up to the orchestrator; `SettleFresh` and
`SettleExisting` are step 2a (purge of init GTIDs, or adoption detection).
One pass of the loop is two steps. `Round` is everything up to the decision:
the answers heard, the waived peers, then either the joining half
(`RefuseIdentity`, `AdoptIdentity` with `JoinPlan`) or the deciding half
(`Wait`, `StartDwell`, `DecideBootstrap`, `DecideWaiverBootstrap`). What was
decided stands in `plan` until one of `Bootstrap`, `BootstrapFails`, `Join`,
`JoinFails`, `Clone` or `WriteFlag` acts on it, with steps of other nodes
between. A bootstrap past a waived peer takes three: `DecideWaiverBootstrap` mints
the name and persists it, `PersistGeneration` persists the generation (or fails to:
fault `"generation_unwritten"`), then the group is formed, or is not; the node may end
between any two of them, and what was persisted stays. `Activate` is the pass that finds the node ONLINE.

State: the volume (`initialised`, `txns`, `base`, and the four markers) survives
`Leave`; the process (`pc`, `fresh`, `safe`, `plan`, `group`, `role`) does not.
`base` stands for the data of an adopted volume, which no GTID describes.
A transaction carries the group that committed it (`era`) beside its GTID, so
that two transactions under one GTID can be told apart; that is what
`NoInvisibleFork` and `ForkShowsFirst` are about.

`LineageKept` is the abstract specification of all this, `GroupLineage`: a group is
founded by a node that holds all that was ever committed, while nobody leads; one
leader commits; a volume only catches up. The term is `eras`, the leader the live
primary, and a volume holds its `txns`, except that the init GTIDs of a first boot
(`Newborn`) are not data; the log is what the volumes hold together. It does not
mention decisions, answers or markers, and leaves no room for a fork or a loss.

Abstractions and assumptions:

- GTID sets are sets; a name hands out numbers in order. View-change events mint
  no GTIDs (as of MySQL 8.3).
- The safe dwell is far longer than one round. The model has no clock for it:
  a START, CLONE or bootstrap that a peer had already decided on when this
  node's dwell began is over when the dwell ends (`inflight`). A peer that
  takes longer than the dwell between reading answers and acting is outside
  the model. A gone name is a Boolean for "NXDOMAIN for the whole dwell".
- Not modelled: regenerating a colliding `server_uuid` (about lines 1770-1812),
  adopting the group's GTID block size (2137-2172), and errors of persisting a
  name, fresh or adopted (a failed `set_group_name` is in `Wait`). The first two change how mysqld is configured, not who decides what.

### MajorityWatch

One iteration of the loop is `Look` (members, high-water marker), then
`RaiseFence`, `LiftFence` or `LiftFenceFails` on that snapshot, then, in a view
that lost its majority, `Judge` (answers, verdict, dwell, gate, attempts), then
`StopPlugin` and `Reform`, each with its failure. `LookAway` is every early
`continue`. `watch[n]` holds the local variables of `majority_watch`;
`highWater` is the marker on the volume; `readOnly` is mysqld's
`super_read_only`.

The world is what `src/` relies on: a majority expels who it cannot reach
(`Expel`), an expelled member finds out (`NoticeExpulsion`), a kept one that was
cut off catches up (`CatchUp`), a clean leave shrinks the view (`Leave`), an
election makes its winner writable (`InstallView`), a commit is acknowledged
when a majority of the view has it (`ClientWrite`). Orchestration appears by its
result: `JoinGroup`, and `ColdStart` after a total outage.

Abstractions and assumptions:

- All seeds carry one group name, so the identity arms of the verdict, and the
  arm for a member that is RECOVERING on its own, always pass. `NotReady` is
  the same as no answer.
- Members are ONLINE or UNREACHABLE. All answers of a round are read at one
  instant; the round as a whole is not atomic.
- The member marker the watch also writes (747) is `wasMember` of `Orchestrate`.
  The high-water marker may be torn, or its one write may fail (766).
- **The dwell outlasts a re-formation.** A lost member that has begun
  `STOP GROUP_REPLICATION` and bootstrap is again active before this node's
  dwell (15 rounds, 30 s) ends (`DwellOutlastsReform`). Without it the trouble
  `"slow_reform"` lets two survivors re-form at once, see section 5.
- **A round outruns the view.** The members a round read are still this node's view
  when their answers are in (`RoundOutrunsView`); a read and its HTTP answers take
  seconds. The trouble `"slow_round"` drops this. Only a small `ForceDwell` then forks
  the group (section 5): in the code fifteen rounds in a row must agree, and each reads
  the members anew, so it is the last of them that has to be overtaken by departures,
  restarts and joins.
- `ColdStart` likewise excludes a re-formation already decided.

### Archive

The bucket over seconds. Every second commits one transaction, so a transaction
is the second of its commit and a binlog the seconds from its opening to the
next one's (`log`). A behaviour is either one group's shared history, which every
member logs whole, or one standalone's independent histories, one per volume it
has had. `ShipOnce` ships every closed binlog but those already gone from disk,
`FullBackup` waits for the read lock and leaves a dump, or a dump and its meta, `RetentionPass` deletes what
`PlanRetention` names and is old enough, all of it, all but one or just one of
it. `Restore(bucket, target)` is the whole of `restore.rs` as a function: the newest
full, `ReplayBinlogs` or `ReplaySharedHistory`, the refusals, and
`VerifyAchievedPoint`. The properties quantify over every target in every state.

- All instants are read on one clock. A full has two of them: `at` is `taken_at`, read before
  the wait for the read lock (944), `snap` the instant the lock is held, of which coordinates
  and dump are. The wait is at most `LockWait` (`GLOBAL_READ_LOCK_WAIT`, `sql.rs` 34), and no longer
  than the writer has been the writer (`held`): a role change stops a full that waits. The
  step is taken at `snap`, as a full that waits has left nothing in the bucket.
- A member logs every transaction of the group. A lineage is a server's uuid
  in a group and a volume in a standalone.
- Within one second operations commute for every property here, and are taken
  in one order (`InOrder`).
- `LagBound` is a constant; the code derives it from the rotation interval.

### BinlogSpool and Archiver

`BinlogSpool` is the promise: a closed binlog leaves the disk because it is in
the archive, oldest first, or because something else took it. `Archiver` keeps
it (`SpoolKept`): `open` is the active binlog, `disk` the index without `gone`,
`archive` the bucket.

`ship` holds the locals of one pass of `ship_once`, with its copy of the state file;
`dump` those of the full-backup loop. `RecordLoss`, `Upload`, `RecordUpload`, `AskAndCut`,
`Purge` and `Forget` are the pass's awaits; `BeginFull` to `ClearAnchor` those of a
full; `ReadAnchor` and `ClearAnchor` are separate because the shipping loop runs on
another thread. `Start` to `HandBackLater` are the role supervisor. `state` and `bucket`
survive `Crash`; the rest does not.

- `ChangeRole` is what the supervisor reads, the fence included. Ages are a
  prefix of the binlogs (`aged`). A purge is refused while this node's dump holds
  the backup lock, or somebody else does (`"foreign"`).
- `"set_unclear"`: handing over the expiry takes effect although it seemed to fail.
- Not modelled: the owner record as a protocol between services (`Refuse` is its
  outcome), `last_error`, `ReclaimWatch`'s wording.

### NodeBoot

One volume and several containers (`box`). A boot is: `Start` (opens the lock file,
or fails open), `Acquire` or `GiveUpWaiting`; a restore that did not complete is
retried or refused; `Proceed`, `CountBoot` or `Heal` (preboot); the restore, in five
steps that each leave another state behind; `BeginPass` and `EndPass`; `Spawn`;
then the tasks beside mysqld, each a separate action: `LandLedger`, `Ready`,
`OverBudget`, `RecordServed`, `JoinClone`, `StuckHeal`, `CloneLands`, `CloneEnds`, `HandBack`, `HealthyHour`.
`Kill` and `Stop` may come at any point. The lock is an inode: `lockfile` is the one at the
path, `box[c].lock` the one container `c` opened.

`data` says what the directory holds ("debris": something `mysqld --initialize` refuses;
"fresh": initialised, no data; "partial": a restore under way; "whole"; "wedged":
mysqld does not boot on it). `version` is the upgrade history and the served marker.
`past` remembers what the properties count.

Every record on the volume may fail to be written, where the code warns and goes on: the boot
counter when a boot is counted, has answered or is stopped (`"counter_unwritten"`), the ledger
(`"ledger_unwritten"`), the restore marker (`"marker_unwritten"`). A count that was not written is
no record: the boot that answered or was stopped without it counts as failed in
`past.failed`, and a ledger that stays unwritten ends the record `BudgetHolds` is about. A clone may
land in a directory made anew (`"clone_drops"`), without counter, ledger, served version and lock
file; `stuck_watch` then may or may not get its count into the new directory (`CloneEnds`).
A restore attempt is on record from its first marker write on (`MarkRestore`), or by its
verdict; one killed before that leaves nothing behind.

- The lock file stands in every data directory, and the model lets an
  initialisation tolerate it; see section 5.
- The temporary server of an initialisation refuses root's password, which
  counts as an answer (`Answered`). The `mysql` directory appears after the poll
  that writes the restore's first marker.
- `note_planned_shutdown` is one step; a SIGTERM outside `finish_upgrade` and
  `supervise` is a kill, as no handler is installed. A root password is always set
  (`preboot` never heals without one).
- A boot counter saturates two above the threshold; it is only compared with it.
- A group member (`"ha"`) stays one, or is reverted to a standalone and back; a fork
  likewise. What makes a member stuck is an external event.

### Credentials

A group, its account statements (`binlog`), each mysqld's accounts (`server`), the pin
and the staged rotation on each volume (`disk`), what of them a directory sync has made
durable (`synced`), each wrapper (`proc`: the environment, the password of the boot, the
pool), and the platform's rotation (`coord`). `Prepare` to `Verify` are the phases of
`credentials.rs`; `Adopt` is what MEMBER and `reconcile` share, in steps a request that runs
out of time stops between; `Start`, `Resolve`, `FallBack`, `EnsureRecovery` and `Join` are
a boot. An account holds a password and a retained old one; a verifier is told apart by
the statement that set it, as its salt does. PREPARE's snapshot and DATABASE's comparison are of
root and the recovery account (`Verifiers`; the app user is changed with root only), and a
boot gives its recovery account a verifier of its own (`LocalSalt`), outside the binlog.

The coordinator is not in this repository. From how `src/` is asked, it is taken to: ask
every member and go through the phases in order, repeat a request without an answer,
take passwords that are not in use, and begin, or turn back, only while no member lags.
`GR_REPLICATION_PASSWORD` is coupled to the root password, as in the template. A new
primary works off its backlog before it takes statements. A clone copies the donor's
accounts and neither pin nor staged file.

## 3. Runs

Every property of a passing run is also seen to fail under one plausible bug
in the code it is about: an operator placed before the definition it spoils,
listed in `PROJECT.json`.

| Run | Instance | Shows | States |
|---|---|---|---|
| `formation` | 3 nodes, one may stay stopped, lost answers, fairness | `ExactlyOneWinner`, `BootstrapMostAdvanced`, `Recovers` | 20,000 |
| `waiver` | 2 nodes, one stopped past the dwell and back; crashes, lost answers, failing bootstraps | `TypeOK`, `ForkShowsFirst`, `WaiverNeedsStanding`, `DiscardsOnlyPastWaiver` | 3,758,000 |
| `adoption` | 2 fresh nodes and an adopted volume, failing flag reads, crashes | `AtMostOneWinner`, `AdoptedDataShared`, `AdoptedDataLeads`, `LineageKept` | 444,000 |
| `faults` | 2 nodes, all ten faults, one pinned and retirable, one an adopted root, both disposable | `OneLiveGroup` | 2,508,000 |
| `watch` | 3 seeds; leaves, crashes, partitions, lag, torn markers: 2 troubles, 2 writes | `OneOperatingGroup`, `AckedKept`, `LiftJustified` | 445,000 |
| `fence` | 2 seeds from the first boot, ten troubles of which 3 happen, fairness | `TypeOK`, `MarkerRemembers`, `WritesReturn` | 69,000 |
| `archive` | 2 lineages, 4 seconds, 3 binlogs, a lost one, 2 fulls, an unreadable meta, a sweep, a move, a second's wait for the read lock | `RestoreHonest`, `SweepKeepsWindow`, `NeverUnrestorable` | 807,000 |
| `archiver` | 3 binlogs, nine troubles of which 3 happen, fairness | `TypeOK`, `RecordTrue`, `LatchMeansDump`, `LossAnchored`, `GapReanchored`, `ExpiryHandedBack`, `SpoolKept` | 152,000 |
| `boot` | 2 containers until they overlap, a member or a fork, 18 troubles of which 3 happen, fairness | `TypeOK`, `LockSeparates`, `BudgetHolds`, `AttemptsHonest`, `RestoresBounded`, `NoHalfRestoreServed`, `OwedIsPending`, `DerivedUnlessTorn`, `Settles` | 544,000 |
| `rotation` | 2 members, 3 passwords, eight troubles of which 2 happen, fairness | `NoLockout`, `OldKept`, `Settles` | 1,277,000 |
| `two_holders`, `rollback_skipped` | see section 5 | one disagreement each | |

Bounds, and why they are enough.

- *Nodes.* Two nodes suffice for anything between a group and one returning
  fork; three are the smallest cluster with a majority that can lose a member,
  and with a third opinion on who wins. `watch` needs three: with two, an
  acknowledged transaction is on both members. Two containers are the smallest
  overlap on a volume. A rotation treats members alike but for the primary; three
  members with two passwords (2.4 million states) were also checked for safety.
- *`MaxEra`* (groups formed and names minted): 3 allows an initial group, one
  past a waiver and one after the fork returns. *`MaxWrites`* and *`MaxStops`*
  bound client transactions and process ends; each run has enough for the
  hazard it is about (a write on each side of a fork, a stop of each node). In `waiver` (4 writes,
  5 stops) the hidden fork and the discard of section 5 do occur; its
  properties are about these too. They also hold with both nodes retirable (5.4 million
  states) and with `generation_unwritten` (9.2 million); `faults` was also checked with both retirable (7.8 million).
- *`MaxTrouble`* bounds external events. In `watch`, two are a fault and
  one more during the recovery from it, in `boot` three; `watch` with three and one write (3.1 million
  states), and `rotation` with four of `crash`, `failover` and `rollback` and two passwords (3.0 million,
  liveness too) were also checked.
- *`Apart`* ends a behaviour of `boot` where two containers have been past the lock together. Every
  safety property but `LockSeparates`, and `Settles`, is settled there for good by its first disjunct;
  `two_holders` goes on without it.
- *`ForceDwell = 2`* stands for 15 rounds. It must be at least 2: with 1 a
  node acts on the snapshot it has just read, and TLC finds a fork.
  *`GoneDwell = 1`* stands for the NXDOMAIN dwell. *`MaxAttempts = 2`* for 3.
- *`archive`*: one unit each of horizon, age, grace, lag and lock wait lets every comparison of
  the plan come out either way within four seconds; three binlogs give one on each
  side of a full, and two fulls one that anchors the window and one that does not. The second member
  of a shared history stops at two (`Short`); three of each were also checked (2.6 million states).
- *`archiver`*: three binlogs are a lost one, a shipped one and the active one.
- *`boot`*: `Threshold = 2`, `HealCap = 1`, `MaxRestores = 2` and two images stand for 3, 5
  and 3 and any sequence of versions; a cap of one is reached, and passed by the mutant.
- *`rotation`*: three passwords are two rotations in a row, so that a retained password
  of the first can be taken for one of the second.
- `watch` begins with every seed ONLINE (`FormedSpec`), a state `Spec` reaches;
  `fence` begins with first boots. Nodes are symmetric in `MajorityWatch`, not in
  `Orchestrate`, where seed order decides.

All but the `MajorityWatch` runs set `CHECK_DEADLOCK FALSE`: with stops, writes, eras,
seconds, binlogs or rotations bounded, a system that has settled has nothing left to do.

## 4. Fairness

`Orchestrate!FairSpec`. Weak fairness of `Proceed`: the platform restarts a
container that ended (restart policy), a stopped service that stays stopped
turns NXDOMAIN, step 2a, the flag write and the pass that finds the node ONLINE
run without waiting for anybody (nor does `PersistGeneration`), an attempt that cannot succeed ends.
Strong fairness of a round that hears everybody who answers and has waited
out every gone clock (`WaitOutGone`): the loop polls every 3 s for ever, and a
clock of a peer that stays away only advances. Strong fairness of
`Bootstrap \/ Join \/ Clone`: an attempt made again and again succeeds at last.
Nothing is assumed of lost answers beyond that. `HeldForPeer` is the one wait
that is deliberate: no running node has the standing to give up on a
stopped peer.

`MajorityWatch!FairSpec`. Weak fairness of each watch (2 s poll for ever), of
container restarts, of joining, of Group Replication's own expulsion and rejoin,
and of the end of a partition. Troubles are bounded, so there is a last one.
`LeftToHuman` is deliberate too: a lost member has transactions the survivor
lacks (the gate, 887-932), or the lifetime cap on attempts is spent (934-941).
Clients and deliveries have no fairness.

`Archiver!FairSpec`. Weak fairness of both loops and of the supervisor's polls; a
shipping pass begun again and again gets past a file, or to its end, at last, and a
full attempted again and again is completed at last. The claim of ownership, role
changes and everything outside have none.

`NodeBoot!FairSpec`. Weak fairness of every step of a boot that its process or mysqld
takes by itself, of the tasks beside mysqld that poll, and of the end of the backoff.
Troubles, the health of peers among them, have none. `Held` is what the code leaves to a
human: a restore whose attempts are spent, a wedged directory without a donor or budget.

`Credentials!FairSpec`. Weak fairness of the platform's next request (it repeats one
that was not answered), of replication, of the finding of the primary, and of each
member's boot. `Parked` waits for the operator: a member that a clone left without its
pin, under a variable no account accepts. `Outside` waits to be recloned, `Refused` for the platform to
turn back, and a rotation that went on without its change (`~ ChangeMade`) for a human; section 5.

## 5. Where code and words disagree

Checked by a run, which TLC refutes:

- **`two_holders`** (`OneContainer`, `self_heal.rs` 248). The wipe of a failed boot
  removes the lock file its own process holds; `reset_partial_restore` keeps it. The
  next container locks a new inode and runs beside the first, and from there on each
  may wipe what the other serves. `volume_lock.rs` 1 says at most one container touches the volume.
- **`rollback_skipped`** (`ChangeMade`, `credentials.rs` 129). DATABASE makes its change only while the
  accounts equal PREPARE's snapshot, the recovery account's verifier included, and every boot
  gives that account a new one (`sql.rs` 816). After a turn back, a member that restarts past its
  PREPARE and is then asked as the leader skips the change; its probe passes on the retained password. 126
  says the same rule restores the old primary password. What follows is worse: MEMBER
  pins the retained password, FINALIZE discards it, and no member has a password that works, with
  four troubles (a crash, two failovers, the turn back). `NoLockout` holds wherever the change was made.

Seen the same way, and reproducible with the constants given; not kept as runs:

| What | Property | Constants |
|---|---|---|
| The loser of a fork persists the live group's name and generation before the clone that discards its tail; if the group goes down first, it may win by rank, and hands out GTIDs of that name again (1866; 2270 says a fork is detectable). What does hold is `ForkShowsFirst`: the second transaction under a GTID is minted under a waiver's name, by a node whose history the GTIDs already show to have diverged | `NoInvisibleFork` | a, b; a retirable; `crash`; eras 3, writes 4, stops 3; `Spec` |
| Seen from the data: the newest authority's transactions are discarded in favour of the node that took its name over (1873) | `DiscardsOnlyPastWaiver` without `TookOver` | the same; stops 5 |
| A `GR_GROUP_NAME` pin undoes the fresh name of a waiver bootstrap at the next restart (294), on both sides of the fork | `NoInvisibleFork` | a, b pinned; b retirable; `crash`; eras 3, writes 4, stops 3 |
| A full is named after an instant before its wait for the read lock, and its dump is of the instant after (`archiver.rs` 944). A restore to the name, which the platform offers as the oldest restorable point (`pitr.rs` 335-342), holds commits past it; `restore.rs` 956 and `test/e2e.sh` 3278 say it never does. `RestoreHonest` bounds the excess by the wait | `StopsAtTarget` | as `archive` |
| The recovery password of a boot is the one its pin held at the start (1446). A member that restarts after PREPARE, and that the rotation reaches before `ensure_recovery_user`, writes the old password back; the discard then leaves it only that, VERIFY probes root alone, and the member does not rejoin after its next stop until it is recloned. 1434 says the credential stays on the password the group enforces | `RecoveryFollows` | as `rotation`, 2 passwords; one `crash`; `Spec` |
| `decide` gets the file marker for this node but marker-or-flag for a peer; two equal histories, one with the replicated flag only, defer to each other for ever (1203; 1237 says all agree on one winner) | `ExactlyOneWinner` | nodes a, b, c; c adopted; no faults; eras 1, writes 0, stops 3 |
| A fresh node that restarts after its purge and before it joined is taken for an adopted volume and may waive its peers (1378; 1662 says a fresh node never does) | `WaiverNeedsStanding` | a, b; a adopted and retirable; `empty_restart`; eras 1, writes 0, stops 2 |
| Seeds are observed only while membership is low, so the round in which a seed is back leaves its gone clock running (775; 1063 says a reachable peer's clock resets) | `ReturnResetsClock` | 2 seeds; gone dwell 2; leave, 2 troubles; writes 0 |
| Three histories, one diverged from two comparable ones, beat each other in a circle and everyone waits (1154; 46 says never frozen for a human) | `ExactlyOneWinner` | nodes a, b, c; a, c retirable; no faults; eras 2, writes 4, stops 4 |
| A failed purge leaves a fresh node ahead of an adopted root (1339) | `AdoptedDataLeads` | a, b; a adopted; `reset_fails`; eras 1, writes 1, stops 2 |
| Between bootstrap and flag write, a member that cloned the root without its marker answers a definite no (2344) | `AdoptedDataShared` | a, b, c; c adopted; `query_lost`; eras 1, writes 1, stops 1 |
| A torn high-water marker arms the fence only until the first write replaces it by the count of the moment; the next boot is disarmed (700) | `LiftJustified` | 2 seeds; leave, crash, `marker_torn`; `FormedSpec` or `Spec`; 4 troubles |
| Persisting the high-water marker fails once and is not tried again (764-768); a restart below the majority starts disarmed | `LiftJustified` | 2 seeds; leave, crash, `marker_unwritten`; `Spec`; 4 troubles |
| Two survivors re-form at once when STOP and bootstrap outlast the other's dwell (566-573) | `OneOperatingGroup` | 3 seeds; crash, split, `slow_reform`; 2 troubles; `FormedSpec` |
| A survivor asks the members of its own view, as old as its isolation (603; 571 says a partition cannot fake their answer): of four seeds three formed the group and one is cut off; the others take in the fourth and leave cleanly, which hands the group to it alone; everyone the survivor lists is then in no group, and it re-forms beside an operating group. The declared-majority fence keeps both halves read-only | `ForcedAlone` | 4 seeds; `MovedOnSpec`; force dwell 2, 1 attempt; leave, split; 3 troubles; writes 0 |
| The members are read before the answers; a view that moved in between is judged by the old member list (868), in the last round of the dwell | `OneOperatingGroup` | 3 seeds; force dwell 1; leave, split, `slow_round`; 3 troubles; `FormedSpec` |
| A binlog opened before the target is lost and the first one past it opened at or after it: no witness vouches for what is missing, and a restore within the lag bound reports success (`restore.rs` 1272, 1281; 67 says the file after a gap vouches for it) | `SharedRestoreHonest` | as `archive` |
| A binlog lost while an anchoring dump runs loses its flag with the dump's (`archiver.rs` 1928; 797 promises a full after the loss) | `EveryLossAnchored` | as `archiver` |
| A restore marker that decays to something unparsable reads as unfinished, and a fork that has served is wiped (`restore.rs` 331; `main.rs` 117 says derived state only); it also forgets how often the restore was tried | `DerivedOnly` | as `boot` |
| A pin written without a directory sync, a power loss and a rotation that takes a password used before leave a member with no password that works (`credentials.rs` 124) | `NoLockout` | as `rotation`, `power` alone, with a `Begin` that may take a password used before |
| The platform turns back while a member lags: its snapshot is of the verifiers before the change. As the new primary it takes the turn back for made, and FINALIZE discards the password just restored (`credentials.rs` 130; 127 says the same rule restores the old password) | `ChangeMade` | as `rotation`, 2 passwords; crash, power, failover, lost, cut, edit, `hasty_rollback` |
| A member that restarts after its PREPARE and becomes the primary no longer equals its snapshot; a PREPARE of the same target keeps that snapshot, so DATABASE skips the change and answers "target password refused" for ever (`credentials.rs` 107-110, 128-137; 125 means the comparison to tell a retry) | `Settles` without `Refused` | as `rotation`; crash, failover |
| A member that acknowledged MEMBER is provisioned again by clone, and boots on the stale variable, which it pins; the discard revokes that (`password_pin.rs` takes a pin for what the accounts accept) | `NoLockout` | as the row before the last, with `late_clone` for `hasty_rollback` |

Seen while reading, without a property of their own:

- 902-910 of `pitr.rs` say that an error of reading must never make a good lineage
  unrestorable. The gate (1063) holds only while no meta at all was read: with one of two
  unread, the plan takes the other for the newest, and may retire the lineage whole (1103).
  In an independent archive a dead lineage also goes while a target inside the horizon still
  has its base there. Both are the exceptions of `SweepKeepsWindow`.
- Two services may claim an archive without an owner at once: the record is read and
  written without a condition (`archiver.rs` 613-683).
- A requested full that is deferred or fails is forgotten with its latch (800-862).
  Handing the expiry over may take effect although it seemed to fail, and is then not handed
  back (about 366-376; trouble `"set_unclear"`).
- The lock file, which every boot creates, is not among the entries with which
  `init_could_succeed` calls a directory fresh (`self_heal.rs` 271), so a first boot is counted.
  The model lets it pass, so that a first boot is not a failed one.
- The boot counter and the ledger are deleted by the wipe and written again when the
  new directory is there; a kill in between forgets them (281-299). `BudgetHolds` is
  about the record while it lasts.
- A stuck heal that stops the plugin and finds its donor gone hands back to an
  orchestrator that may have returned (700, 744-752).

Not a violation, but worth knowing: 729 says the dataset of an ONLINE member of
a blocked view has every transaction the group acknowledged. A lagging secondary
is ONLINE and does not. The gate at 887 refuses to re-form around it, so the
cluster is safe and stays fenced until a human acts (`LeftToHuman`).

## 6. Proofs

All are for any finite set of nodes or containers and any value of the other
constants, from the named assumptions in the modules and the hypotheses the table names.

| Theorem | Statement | Argument |
|---|---|---|
| `OrchestrateProofs!TypeCorrect` | `Spec => []TypeOK` | inductive as it stands; one lemma per action |
| `OrchestrateProofs!NeverTwoWinners` | `Spec => []AtMostOneWinner` | two nodes that each beat the other have equal GTIDs or diverged ones; in the first case the pre-GTID claim and seed rank decide, in the second generation and rank; ranks differ by `RankAssumption` |
| `OrchestrateProofs!NeverTwoGroups` | `Spec => []OneLiveGroup` | below |
| `OrchestrateProofs!WinnerIsMostAdvanced` | with `Disposable = {}`, `Spec => BootstrapMostAdvanced` | below |
| `OrchestrateProofs!NeverForks` | with `VolumesStay`, `Spec => []NoInvisibleFork` | below |
| `OrchestrateProofs!NothingDiscarded` | with `VolumesStay` and without `"gtid_unread"`, `Spec => DiscardsOnlyPastWaiver` | `EmptyClones`: no live primary is behind a joiner, so a clone replaces an empty history |
| `OrchestrateProofs!OrchestrateImplementsLineage` | with `VolumesStay` and without `"gtid_unread"`, `Spec => LineageKept` | below |
| `OrchestrateProofs!SomeoneWins` | with `VolumesStay`, `AdoptedRoots = {}` and `Node # {}`, `Spec => []ExactlyOneWinner` | below |
| `OrchestrateProofs!AdoptedDataIsShared` | with `OneAdoption`, `Spec => []AdoptedDataShared` | below |
| `OrchestrateProofs!AdoptedVolumeLeads` | with `OneAdoption`, `Spec => AdoptedDataLeads` | the same invariant |
| `OrchestrateProofs!GivingUpTakesHistory` | with `NoAdoption`, `Spec => []WaiverNeedsStanding` | below |
| `MajorityWatchProofs!WatchTypeCorrect` | `Spec => []TypeOK` | inductive; streak and attempts stay below their limits by `OneMoreType` and the guard of `StartForcing` |
| `MajorityWatchProofs!MarkersRemembered` | with `MarkersKept`, `Spec => []MarkerRemembers` | inductive with `MarkerInv`, which adds that a marker is readable; `Look` raises peak and marker together, every other step keeps both or ends the watch (`KeepsMarks`) |
| `MajorityWatchProofs!FenceHolds` | with `MarkersKept`, `Spec => LiftJustified` | below |
| `MajorityGroupProofs!OneGroupHolds` | with `AtMostThree` and `PromptRounds`, `Spec => []OneOperatingGroup` | below |
| `MajorityGroupProofs!ForcedAloneHolds` | with the same, `Spec => ForcedAlone` | below |
| `MajorityGroupProofs!AckedHeld` | with the same, `Spec => []AckedKept` | below |
| `ArchiverProofs!TypeCorrect` | `Spec => []TypeOK` | inductive with what a pass knows: its cut is at most the file that was active when it began |
| `ArchiverProofs!RecordsTrue` | `Spec => []RecordTrue` | the same of the copies of the state file that a pass and a clearing dump hold, and of a file sent but not yet recorded |
| `ArchiverProofs!LatchIsTheDump` | `Spec => []LatchMeansDump` | inductive as it stands |
| `ArchiverProofs!LossesAnchored` | `Spec => []LossAnchored` | `AnchorInv`: a loss not marked as late is older than every dump that may still clear the flag, and both copies of the state file say so |
| `ArchiverProofs!ArchiverImplementsSpool` | `Spec => SpoolKept` | below |
| `ArchiveProofs!SweepsSpareAFull` | `Spec => NeverUnrestorable` | below |
| `ArchiveProofs!RestoresAreHonest` | `Spec => []RestoreHonest` | below |
| `ArchiveProofs!SweepsKeepWindow` | `Spec => []SweepKeepsWindow` | below |
| `NodeBootProofs!TypeCorrect` | `Spec => []TypeOK` | inductive; an inode nobody holds exists because there are fewer containers than candidates (`NewInodeIsNew`) |
| `NodeBootProofs!LockHolds` | `Spec => []LockSeparates` | `LockInv`: while nothing failed open or was removed, whoever waits or is past the lock has opened the inode at the path; `KeepsLock` is what every step but opening, taking and removing it does |
| `NodeBootProofs!CapHolds` | `Spec => []BudgetHolds` | below |
| `NodeBootRecordProofs!AttemptsAreHonest` | `Spec => []AttemptsHonest` | below |
| `NodeBootRecordProofs!RestoresAreBounded` | `Spec => []RestoresBounded` | below |
| `NodeBootRecordProofs!HalfRestoreNeverServed` | `Spec => []NoHalfRestoreServed` | below |
| `NodeBootRecordProofs!OwedStaysPending` | `Spec => []OwedIsPending` | below |
| `NodeBootRecordProofs!WipesDerivedOnly` | `Spec => DerivedUnlessTorn` | below |
| `CredentialsProofs!NeverLockedOut` | with `Orderly`, `Spec => []NoLockout` | below |
| `CredentialsProofs!OldStaysAccepted` | with `Orderly`, `Spec => []OldKept` | below |

`NeverTwoGroups` has no hypothesis: seeds, waivers, adopted and replaced volumes, pins and every fault are
covered. `ElectInv` is about the decision that is taken in one round and acted on later. Whoever has
decided is alone with that (`DecidesAlone`): no group is alive, nobody else has decided, and a node in its
dwell either began while the other was already acting, and waits for it, or has been heard by the
other and beaten. In the last case it cannot win in turn (`NeverBothBeat`), because no step but the
decider's own changes what the two say of themselves while no group is alive (`SameStanding`).

`WinnerIsMostAdvanced` adds `LeadInv`: a decision without a waiver was taken with all peers heard, so no
volume is still to be initialised while it stands, and none gains a transaction. A service that
comes back empty would gain its init GTIDs, hence `Disposable = {}`.

`VolumesStay` says that nobody is given up on (no service is stopped past the dwell), no service comes
back empty, and a first boot is carried through: its purge succeeds and it is not cut off before it holds
anything. Crashes, lost and failed answers, failing joins, clones and bootstraps, lost markers and adopted volumes
remain. `HistoryInv` then says that all volumes hold prefixes of one log and that the only primary
there is holds the whole of it: a commit extends the log, and the next primary has to be
comparable with everybody and behind nobody, which leaves whoever holds all of it. The
hypotheses are needed. Past a waiver two logs exist, and `NoInvisibleFork` is
then false (section 5); `ForkShowsFirst` and `DiscardsOnlyPastWaiver`, with what they except, are
checked there by run `waiver`. Under `VolumesStay` no group is formed past a waiver, so
`NothingDiscarded` says that nothing at all is.
`UuidAssumption` keeps a node's init GTIDs, under its own uuid, apart from a group's.

`OrchestrateImplementsLineage` maps every step to a step of `GroupLineage` or a stutter. `Bootstrap` founds:
a volume the winner is not behind adds nothing to a log of which all hold prefixes
(`LineageFounds`). A commit of the primary extends, under the term that is the number of groups
formed: no older group has a primary (`LastEra`). Joining, applying and cloning catch up with the
primary; a clone does only because it replaces a history the donor's contains (`EmptyClones`), which is
where own GTIDs must be read. A primary that ends steps down, with the successor that
first applies its backlog, or with none. Boots, rounds, decisions and markers stutter. Past a waiver there
is no one lineage: the new group may be founded by a node that lacks what the stopped one
committed, by design.

`SomeoneWins` adds `Plain`: without an adopted volume there is never a pre-GTID claim, since a
node that stops has held something. Of finitely many prefixes of one log one is the longest, and of its
holders one is the first of `GR_SEEDS`; it beats all others. With an adopted volume the claim differs
between what a node says of itself and what a peer says of it, and the property is false (section 5).

`OneAdoption` is what run `adoption` assumes: `VolumesStay`, one adopted volume, answers that arrive, own GTIDs
that can be read, and a flag that is written; what may fail are reads of the flag, bootstraps, and
members, by a crash. `AdoptInv` says that a volume without the adopted data holds nothing and is in no
group, and that there is no history without the flag or the primary about to write it. Its
delicate part is `StaleJoins`. A bare node may plan a plain join although the data exists, when all it
hears of a group is what a crash left of it, a member that cloned before the flag was written and
never applied it. That plan outlives the group. It does no harm: by then no group has a primary, and
whoever is in a dwell either waits for the plan to fail or has no flag itself, so it is behind a peer it
must hear before it may win.

`GivingUpTakesHistory` is about waivers, so it cannot have `VolumesStay`: `NoAdoption` lets any service be
stopped past the dwell, and every fault happen but a failed purge, a first boot cut short, a lost volume.
A node has three kinds of standing: adopted data, which nobody claims here; transactions of its group;
and membership, a marker on its volume and by itself no history. `StandInv` says that a node
that carries the marker and is in no group holds a transaction all the same. A member that ends holds
one, by the guard of `Leave`; a clone leaves it what the donor has, which is a primary's log
(`RoundStand`: without a claim a node clones only for a history it has and the primary has not); and a primary holds
nothing only where nobody does (`PrimaryLast`), which a new group inherits from `Leading`.

`MarkersKept` says that no marker is torn and no write of one fails.

`FenceHolds` is the membership fence of issue #33. The only step that leaves the
fence step with the flag down is `LiftFence` (`OnlyLiftPasses`), where the fence
is not wanted. `MarkerRemembers` makes the watch armed, because a volume that
has seen a declared majority says so. If the membership is not low, more than
half of all seeds are ONLINE. If it
is low, no waived seed is ONLINE or running, so at most `Effective` seeds are,
and more than half of `Effective` are ONLINE (`LiftCounts`). `MarkerRemembers`
is needed: from an arbitrary marker a restart could disarm the watch, which is
what happens when the marker is torn or was never written.

`OneGroupHolds`, `ForcedAloneHolds` and `AckedHeld` are about the forced re-formation. They need
`AtMostThree`, because the second is false for four seeds (section 5), and `PromptRounds`, the two
timing assumptions of section 2. `GroupInv` says what a view may still promise when the
group has gone on without its holder: a group that went on without some seed has left at most one
member behind, alone with the view of everyone (`OldViewLone`); a survivor that is about to
re-form is the only one, and nobody else is in a group (`StopsLast`, `ReformsAlone`). The
heart is `NoFourSeeds`: whoever an outdated view does not list would be the fourth seed. `AckInv` then
follows an acknowledged transaction: it is in a majority of every view that could commit, and in
whoever a survivor at the gate compares itself with; the gate (887-932) is what carries it over a
re-formation, and `AckedByForcing` keeps it between the gate and the bootstrap.

`ArchiverImplementsSpool` maps each step of `Archiver` to a step of `BinlogSpool` or a
stutter. The one that needs an invariant is `Purge`: what it reclaims was, when the pass
cut, on record as uploaded or lost; the bucket has the former, and what a pass has found
lost stays off the disk (`Trusted`, of the file and of the copies that both loops hold). It
holds although losses, expiry and role changes fall between the cut and the purge, and
although the full-backup loop may have rewritten the state file since the pass read it.

`SweepsSpareAFull` follows the planner. The newest of the fulls a lineage, or the shared
history, considers is always among `FullsToKeep`, whatever the cutoff (`KeepsOne`); the lists of
orphans, of other fulls and of binlogs name neither its dump nor its meta, so the whole plan spares
both (`PlanSpares`). When a meta of a shared history went unread, or the active lineage has no
readable full, the plan takes orphan dumps alone or nothing. It needs `ArchiveInv`: there are
finitely many fulls, so one is newest, none is from the future, and the writer is a lineage.

`RestoresAreHonest` and `SweepsKeepWindow` add `HistoryInv`: the log of a lineage rises, what the
bucket says of a binlog or a full agrees with the log, two fulls of one instant are
one, and a later full's name is not before an earlier one's dump. A restore of an independent history then holds what it reports because the binlogs of a gap-free
run meet end to end from before the base on (`BinlogsCover`). In a shared one the latest
binlog opened before the target vouches for all before it; what the restore applied past
that binlog is its own, unless a hole straddles the target (`TargetCovered`), the exception of
`RestoreHonest`. A sweep keeps the full that serves a target of the
horizon, because the newer ones are all inside it, and the planner keeps as many as are inside and one more
where the oldest of them is too young (`KeepsServing`). What it takes ends before that full's
coordinate, so replaying without it applies, witnesses and achieves the same
(`IndependentUnmoved`, `SharedUnmoved`).

`CapHolds` rests on `CountInv`: the discards on record are at most the ledger, or at most
the bumped count that waits in memory while the directory is empty. A heal and
`stuck_watch` both act below the cap only, so each adds one to both sides.
It needs two facts that the cap does not show: a count is pending in the one container past
the lock, and only while the data is not whole, so `stuck_watch`, which reads the ledger
of the volume, cannot run beside it; and a fork, whose retried restore deletes the
ledger, has no discards.

The theorems of `NodeBootRecordProofs` share `RecordInv`, one conjunct per thing a
boot leaves to the next: what the volume says of itself when nobody is past the lock, and what the one
container past it adds while it is under way (`OfVolume`, `OfBox`). Two lemmas carry
them: as long as no overlap is on record one container acts at a time (`OwnBox`), which
is `LockInv` of the lock proof, and steps at the lock leave the records alone. `RestoresBounded`
counts an attempt from its first marker write on, or from its verdict: the marker carries one more than it found,
and nothing lowers it but a wipe or a decay;
`NoHalfRestoreServed` that `complete` is written only after the replay has ended.

`NeverLockedOut` and `OldStaysAccepted` are about the history `H` of the root account: what it is after
each statement of the binlog. Each member's accounts are `H` at the statement it has applied,
so what a pin has to get it through is its backlog, `H` from there to the end. `RotationOf` says which
accounts a backlog may hold in each phase, that the change and the discard are never undone by
a later statement (`InOrder`), and that pin or staged password fits every account
of the backlog (`SafeOf`), both as the volume is and as a power loss would leave it. The
change is made once because nobody's snapshot can be the verifier the change itself sets: it is
salted by a later statement (`SnapshotsOf`). Steps of members alone only shorten backlogs or
fall back on what was durable (`Moved`); whatever a member pins, its accounts accept now and, being
the target, to the end (`PinHolds`). A new primary works its backlog off by a recursive
function, whose existence and result are by well-founded induction (`BacklogRuns`, `PromotedOf`).
`NoLockout` says nothing while a rotation goes on without its change, which is the lockout of `rollback_skipped`;
where it was made, every pin fits what the discard leaves.
`Orderly` excludes two of the ten troubles: a turn back while a member lags, which breaks `ChangeMade`, and a clone in
the middle of a rotation, with which `NoLockout` is false (section 5). That the platform takes an unused password
is a guard of `Begin`, and as necessary.

Model-checked only: liveness (`Recovers`, `WritesReturn`, `GapReanchored`, `ExpiryHandedBack`,
`Settles`), which is out of the prover's reach. Of the other properties of a passing run, `ForkShowsFirst` is not the
statement of a theorem. What the theorems on `Orchestrate` exclude by hypothesis is checked by TLC only, or
false: `DiscardsOnlyPastWaiver` past a waiver by run `waiver`; a fresh node that restarts too early, beside an adopted one, is the row of
section 5 on `WaiverNeedsStanding`.

## 7. Not modelled

- The rendering of my.cnf and haproxy.cfg, the object-store client, request
  authentication, logging and telemetry: text and I/O with no state a property could relate.
- HAProxy itself, Group Replication's internals (XCom) and mysqld's: external, by what
  `src/` relies on. The tests and the end-to-end suite are read, not modelled.
- The `/role` verdict, `/switchover` and the demotion before a stop: single statements whose
  outcome Group Replication decides; the fence they respect is `MajorityWatch`.
- Regenerating a colliding `server_uuid`, and the ownership record of the archive as a
  protocol between services.
- The relay of signals to mysqld and the locks of its sockets.

## 8. Plan

Done: `BootstrapDecision`, `Orchestrate` over `GroupLineage`, `MajorityWatch`, `Archiver` over `BinlogSpool`, and
`NodeBoot` and `Archive`, each with proofs but the first, whose theorem is in `OrchestrateProofs`;
`Credentials`, with proofs.

Left, in order of what it would add: a `Switchover` module (role answers, hand-off on stop,
HAProxy's stale view; at most one node routed for writes); the ownership record between two
services; a history variable for waived forks, and with it a proof of `ForkShowsFirst`.

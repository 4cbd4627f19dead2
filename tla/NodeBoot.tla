------------------------------ MODULE NodeBoot ------------------------------
(***************************************************************************)
(* The boots of one volume (main.rs, volume_lock.rs, self_heal.rs, the     *)
(* restore markers of restore.rs, finish_upgrade.rs): containers that may  *)
(* overlap and be killed at any moment, the lock that keeps them apart,    *)
(* and the records on the volume that tell a boot what the last one did.   *)
(***************************************************************************)
EXTENDS Integers, FiniteSets, FiniteSetsExt

CONSTANTS
    Box,            \* containers
    Kinds,          \* group members ("ha"), forks to restore ("fork")
    Threshold,      \* boot_loop_threshold
    HealCap,        \* self_heal_attempt_cap
    MaxRestores,    \* MAX_RESTORE_ATTEMPTS
    MaxImage,       \* bound: server versions
    MaxTrouble,     \* bound: external events
    Troubles        \* which external events happen

\* "ha" has GR_SEEDS, "fork" a recovery source; "alone" had them removed, or never had any.
AllModes == {"ha", "fork", "alone"}
AllTroubles ==
    {"kill", "term", "wedge", "slow", "no_lock", "no_wipe", "ledger_torn", "marker_torn",
     "marker_unwritten", "ledger_unwritten", "counter_unwritten", "archive", "rollback", "clone_drops", "stuck",
     "peer", "mode", "image"}

ASSUME NodeBootAssumption ==
    /\ IsFiniteSet(Box) /\ Kinds \subseteq {"ha", "fork"} /\ Troubles \subseteq AllTroubles
    /\ {Threshold, HealCap, MaxRestores, MaxImage} \subseteq Nat \ {0}
    /\ MaxTrouble \in Nat

VARIABLES
    box,        \* what each container is doing
    lockfile,   \* the inode at the lock file's path, 0 if none
    data,       \* what the data directory holds
    attempts,   \* the boot-attempt marker
    ledger,     \* the self-heal ledger, Torn if it does not parse
    marker,     \* the restore marker
    version,    \* opened, initialised by it; server step done; step blocked; served
    env,        \* what is deployed, its image, a quorum-confirmed peer, the backoff
    past,       \* history: discards and restores on record, boots that failed
    trouble     \* external events so far

vars == <<box, lockfile, data, attempts, ledger, marker, version, env, past, trouble>>

(***************************************************************************)
(* Reading.                                                                *)
(***************************************************************************)
Torn == 0 - 1
Top == Threshold + 2    \* a counter of boots saturates here: it is only compared with Threshold
Up(n) == IF n < Top THEN n + 1 ELSE Top

Off == [pc |-> "off", lock |-> 0, mode |-> "alone", image |-> 0, pend |-> 0, counted |-> FALSE,
        heal |-> 0, ready |-> FALSE, init |-> FALSE, try |-> 0]
NoMarker == [status |-> "none", tries |-> 0]
Unopened == [opened |-> 0, by |-> FALSE, stepped |-> 0, blocked |-> FALSE, served |-> 0]

\* main runs past the lock: held, or not to be had.
Inside(c) == box[c].pc \notin {"off", "waiting"}
Together(c) == \E d \in Box \ {c} : Inside(d)
LockedBy(c, i) == Inside(c) /\ box[c].lock = i

Initialised == data \in {"fresh", "partial", "whole", "wedged"}
Spent(l) == l = Torn \/ l >= HealCap

\* (Mutant.)  Only an attempt that left no verdict counts as unfinished.
CrashedWithoutVerdict == marker.status = "in_progress"

\* crashed_mid_restore: also a marker that does not parse.
Crashed == marker.status \in {"in_progress", "refused", "failed", "torn"}

\* init_could_succeed: no entry at all, and the lock file is one.
Blank ==
    /\ data = "none" /\ lockfile = 0 /\ attempts = 0 /\ ledger = 0
    /\ marker = NoMarker /\ version = Unopened

\* decide: this image opened the datadir, did not initialise it, and never served it.
PassPending(image) ==
    /\ Initialised
    /\ version.opened = image /\ ~ version.by /\ version.served < image

Happens(what) ==
    /\ what \in Troubles /\ trouble < MaxTrouble
    /\ trouble' = trouble + 1

Moves(c, pc) == box' = [box EXCEPT ![c].pc = pc]

\* The process ends, and with it what only its memory held.
Remembered(c, planned) ==
    [discards |-> IF box[c].pend # 0 THEN 0 ELSE past.discards,
     restores |-> past.restores,
     failed |-> IF box[c].counted /\ ~ box[c].ready /\ ~ planned THEN Up(past.failed) ELSE past.failed,
     unlocked |-> past.unlocked, overlap |-> past.overlap]

Ends(c, planned) ==
    /\ box' = [box EXCEPT ![c] = Off]
    /\ past' = Remembered(c, planned)

(***************************************************************************)
(* A new volume, or an initialised one an earlier image served.            *)
(***************************************************************************)
Init ==
    /\ box = [c \in Box |-> Off]
    /\ lockfile = 0 /\ attempts = 0 /\ ledger = 0 /\ marker = NoMarker
    /\ \E k \in Kinds, r \in BOOLEAN :
        env = [kind |-> k, reverted |-> r, image |-> 1, peer |-> TRUE, backoff |-> FALSE]
    /\ \/ data = "none" /\ version = Unopened
       \/ /\ data = "whole"
          /\ \E by \in BOOLEAN, s \in {0, 1} :
              version = [opened |-> 1, by |-> by, stepped |-> 1, blocked |-> FALSE, served |-> s]
    /\ past = [discards |-> 0, restores |-> 0, failed |-> 0, unlocked |-> FALSE, overlap |-> FALSE]
    /\ trouble = 0

(***************************************************************************)
(* The lock.  A container opens the file at the path, creating it, and     *)
(* tries for the flock of the inode it opened.                             *)
(***************************************************************************)
NewInode == CHOOSE i \in 1 .. (Cardinality(Box) + 1) : \A c \in Box : box[c].lock # i

Deployed == IF env.reverted THEN "alone" ELSE env.kind

Start(c) ==
    /\ box[c].pc = "off"
    /\ LET boot == [Off EXCEPT !.mode = Deployed, !.image = env.image]
           ino == IF lockfile = 0 THEN NewInode ELSE lockfile
       IN  \/ /\ lockfile' = ino
              /\ box' = [box EXCEPT ![c] = [boot EXCEPT !.pc = "waiting", !.lock = ino]]
              /\ UNCHANGED <<past, trouble>>
           \/ /\ Happens("no_lock")
              /\ box' = [box EXCEPT ![c] = [boot EXCEPT !.pc = "locked"]]
              /\ past' = [past EXCEPT !.unlocked = TRUE, !.overlap = past.overlap \/ Together(c)]
              /\ UNCHANGED lockfile
    /\ UNCHANGED <<data, attempts, ledger, marker, version, env>>

Acquire(c) ==
    /\ box[c].pc = "waiting"
    /\ ~ \E d \in Box : LockedBy(d, box[c].lock)
    /\ Moves(c, "locked")
    /\ past' = [past EXCEPT !.overlap = past.overlap \/ Together(c)]
    /\ UNCHANGED <<lockfile, data, attempts, ledger, marker, version, env, trouble>>

\* RUNTIME_LOCK_WAIT_SECONDS passed.
GiveUpWaiting(c) ==
    /\ box[c].pc = "waiting"
    /\ \E d \in Box : LockedBy(d, box[c].lock)
    /\ Ends(c, FALSE)
    /\ UNCHANGED <<lockfile, data, attempts, ledger, marker, version, env, trouble>>

(***************************************************************************)
(* A restore that did not complete is wiped and retried, at most           *)
(* MaxRestores times, or refused.                                          *)
(***************************************************************************)
Refuse(c) ==
    /\ box[c].pc = "locked" /\ Crashed
    /\ box[c].mode # "fork" \/ marker.tries >= MaxRestores
    /\ Ends(c, FALSE)
    /\ UNCHANGED <<lockfile, data, attempts, ledger, marker, version, env, trouble>>

\* (Mutant.)  The sweep takes the lock file too.
ResetRestoreWithLock(c) ==
    /\ box[c].pc = "locked" /\ Crashed
    /\ box[c].mode = "fork" /\ marker.tries < MaxRestores
    /\ data' = "none" /\ lockfile' = 0 /\ attempts' = 0 /\ ledger' = 0 /\ version' = Unopened
    /\ Moves(c, "clear")
    /\ UNCHANGED <<marker, env, past, trouble>>

\* reset_partial_restore keeps the lock file and the marker.
ResetRestore(c) ==
    /\ box[c].pc = "locked" /\ Crashed
    /\ box[c].mode = "fork" /\ marker.tries < MaxRestores
    /\ data' = "none" /\ attempts' = 0 /\ ledger' = 0 /\ version' = Unopened
    /\ Moves(c, "clear")
    /\ UNCHANGED <<lockfile, marker, env, past, trouble>>

(***************************************************************************)
(* preboot.                                                                *)
(***************************************************************************)
Proceed(c) ==
    /\ box[c].pc = "locked" /\ ~ Crashed
    /\ box[c].mode # "ha" \/ Blank
    /\ Moves(c, "clear")
    /\ UNCHANGED <<lockfile, data, attempts, ledger, marker, version, env, past, trouble>>

\* heal_gate says Go, and a quorum-confirmed peer answers.
HealDue == attempts >= Threshold /\ ~ Spent(ledger) /\ ~ env.backoff /\ env.peer

CountBoot(c) ==
    /\ box[c].pc = "locked" /\ ~ Crashed
    /\ box[c].mode = "ha" /\ ~ Blank
    /\ \E counts \in BOOLEAN :
        /\ \/ ~ HealDue /\ counts /\ UNCHANGED <<data, trouble>>
           \/ ~ HealDue /\ ~ counts /\ Happens("counter_unwritten") /\ UNCHANGED data
           \/ HealDue /\ counts /\ Happens("no_wipe") /\ data' = "wedged"
        /\ attempts' = IF counts THEN Up(attempts) ELSE attempts
        /\ box' = [box EXCEPT ![c].pc = "clear", ![c].counted = counts]
    /\ UNCHANGED <<lockfile, ledger, marker, version, env, past>>

\* wipe_datadir takes every entry, the lock file too; the bumped ledger waits in memory.
Heal(c) ==
    /\ box[c].pc = "locked" /\ ~ Crashed
    /\ box[c].mode = "ha" /\ ~ Blank /\ HealDue
    /\ data' = "none" /\ lockfile' = 0
    /\ attempts' = 0 /\ ledger' = 0 /\ marker' = NoMarker /\ version' = Unopened
    /\ box' = [box EXCEPT ![c].pc = "clear", ![c].pend = ledger + 1]
    /\ past' = [past EXCEPT !.discards = past.discards + 1, !.unlocked = TRUE]
    /\ env' = [env EXCEPT !.backoff = TRUE]
    /\ UNCHANGED trouble

(***************************************************************************)
(* The restore-phase server.                                               *)
(***************************************************************************)
BeginRestore(c) ==
    /\ box[c].pc = "clear" /\ box[c].mode = "fork" /\ ~ Initialised
    /\ box' = [box EXCEPT ![c].pc = "restoring", ![c].init = data = "none",
                          ![c].try = marker.tries + 1]
    /\ data' = "debris"
    /\ UNCHANGED <<lockfile, attempts, ledger, marker, version, env, past, trouble>>

\* write_marker_once_datadir_exists: the directory is not empty.  From here on the attempt
\* is on record.
MarkRestore(c) ==
    /\ box[c].pc = "restoring" /\ box[c].init
    /\ data # "none" \/ lockfile # 0
    /\ marker' = [status |-> "in_progress", tries |-> box[c].try]
    /\ past' = [past EXCEPT !.restores = past.restores + 1]
    /\ Moves(c, "loading")
    /\ UNCHANGED <<lockfile, data, attempts, ledger, version, env, trouble>>

LoadFull(c) ==
    /\ box[c].pc = "loading" /\ data = "debris"
    /\ data' = "partial"
    /\ version' = [Unopened EXCEPT !.opened = box[c].image, !.by = TRUE, !.stepped = box[c].image]
    /\ UNCHANGED <<box, lockfile, attempts, ledger, marker, env, past, trouble>>

ReplayAndStop(c) ==
    /\ box[c].pc = "loading" /\ data = "partial"
    /\ data' = "whole"
    /\ Moves(c, "restored")
    /\ UNCHANGED <<lockfile, attempts, ledger, marker, version, env, past, trouble>>

\* (Mutant.)  The completion is not recorded.
CompleteRestoreUnmarked(c) ==
    /\ box[c].pc = "restored"
    /\ Moves(c, "clear")
    /\ UNCHANGED <<lockfile, data, attempts, ledger, marker, version, env, past, trouble>>

CompleteRestore(c) ==
    /\ box[c].pc = "restored"
    /\ marker' = [status |-> "completed", tries |-> box[c].try]
    /\ Moves(c, "clear")
    /\ UNCHANGED <<lockfile, data, attempts, ledger, version, env, past, trouble>>

\* A verdict puts an attempt on record that had not marked the volume.
Tried(c) ==
    [past EXCEPT !.restores = IF box[c].pc = "restoring" THEN past.restores + 1 ELSE past.restores]

\* (Mutant.)  The terminal marker keeps the count it finds.
RestoreEndsUncounted(c) ==
    /\ box[c].pc \in {"restoring", "loading"}
    /\ Happens("archive")
    /\ marker' = [status |-> "failed", tries |-> marker.tries]
    /\ past' = Tried(c)
    /\ box' = [box EXCEPT ![c] = Off]
    /\ UNCHANGED <<lockfile, data, attempts, ledger, version, env>>

\* run_reporting: the terminal marker carries this attempt's number.
RestoreEnds(c) ==
    /\ box[c].pc \in {"restoring", "loading"}
    /\ \/ box[c].pc = "restoring" /\ ~ box[c].init /\ UNCHANGED trouble
       \/ Happens("archive")
    /\ \E s \in {"refused", "failed"} : marker' = [status |-> s, tries |-> box[c].try]
    /\ past' = Tried(c)
    /\ box' = [box EXCEPT ![c] = Off]
    /\ UNCHANGED <<lockfile, data, attempts, ledger, version, env>>

RestoreEndsUnmarked(c) ==
    /\ box[c].pc \in {"restoring", "loading"}
    /\ Happens("marker_unwritten")
    /\ Ends(c, FALSE)
    /\ UNCHANGED <<lockfile, data, attempts, ledger, marker, version, env>>

(***************************************************************************)
(* finish_upgrade's pass, then the serving mysqld.                         *)
(***************************************************************************)
Owes(c) == PassPending(box[c].image)
Booted(c) == box[c].pc = "clear" /\ (box[c].mode = "fork" => Initialised)

BeginPass(c) ==
    /\ Booted(c) /\ Owes(c)
    /\ Moves(c, "pass")
    /\ UNCHANGED <<lockfile, data, attempts, ledger, marker, version, env, past, trouble>>

\* (Mutant.)  The pass does not wait for the rollback.
EndPassAtOnce(c) ==
    /\ box[c].pc = "pass"
    /\ Moves(c, "passed")
    /\ UNCHANGED <<lockfile, data, attempts, ledger, marker, version, env, past, trouble>>

\* Recovered transactions rolled back, orphans dropped; or the pass fails and the boot goes on.
EndPass(c) ==
    /\ box[c].pc = "pass"
    /\ \/ /\ data # "wedged"
          /\ version' = [version EXCEPT !.blocked = FALSE]
          /\ UNCHANGED trouble
       \/ (Happens("rollback") \/ (data = "wedged" /\ UNCHANGED trouble)) /\ UNCHANGED version
    /\ Moves(c, "passed")
    /\ UNCHANGED <<lockfile, data, attempts, ledger, marker, env, past>>

\* mysqld initialises an empty directory, or starts on what it finds; the dictionary
\* step records the new version before the server step.
Spawn(c) ==
    /\ box[c].pc = "passed" \/ (Booted(c) /\ ~ Owes(c))
    /\ box' = [box EXCEPT ![c].pc = "booting", ![c].init = data = "none"]
    /\ IF data = "none"
       THEN data' = "debris" /\ UNCHANGED version
       ELSE /\ UNCHANGED data
            /\ version' = IF data \in {"fresh", "whole"} /\ version.opened < box[c].image
                          THEN [version EXCEPT !.opened = box[c].image, !.by = FALSE]
                          ELSE version
    /\ UNCHANGED <<lockfile, attempts, ledger, marker, env, past, trouble>>

InitDone(c) ==
    /\ box[c].pc = "booting" /\ box[c].init /\ data = "debris"
    /\ data' = "fresh"
    /\ version' = [Unopened EXCEPT !.opened = box[c].image, !.by = TRUE, !.stepped = box[c].image]
    /\ UNCHANGED <<box, lockfile, attempts, ledger, marker, env, past, trouble>>

StepBlocked(c) == version.stepped < box[c].image /\ version.blocked

\* The server step completes before mysqld accepts connections.
Answer(c) ==
    /\ box[c].pc = "booting" /\ data \in {"fresh", "whole", "partial"}
    /\ version.opened = box[c].image /\ ~ StepBlocked(c)
    /\ version' = [version EXCEPT !.stepped = box[c].image]
    /\ Moves(c, "up")
    /\ UNCHANGED <<lockfile, data, attempts, ledger, marker, env, past, trouble>>

\* mysqld exits on its own.
BootFails(c) ==
    /\ box[c].pc = "booting"
    /\ \/ data = "wedged"
       \/ data = "debris" /\ ~ box[c].init
       \/ Initialised /\ (version.opened > box[c].image \/ StepBlocked(c))
    /\ Ends(c, FALSE)
    /\ UNCHANGED <<lockfile, data, attempts, ledger, marker, version, env, trouble>>

\* What dies with mysqld: a server step with a transaction open, an unfinished clone.
StepCut(c) ==
    /\ box[c].pc = "booting" /\ Initialised
    /\ version.opened = box[c].image /\ version.stepped < box[c].image
    /\ version' = [version EXCEPT !.blocked = TRUE] /\ UNCHANGED data

CloneCut(c) == box[c].pc = "cloning" /\ data' = "wedged" /\ UNCHANGED version

Broken(c) == UNCHANGED <<data, version>> \/ StepCut(c) \/ CloneCut(c)

\* boot_watch ends a boot over its budget while a peer serves.
OverBudget(c) ==
    /\ box[c].pc = "booting" /\ box[c].mode = "ha" /\ env.peer
    /\ Happens("slow")
    /\ UNCHANGED <<data, version>> \/ StepCut(c)
    /\ Ends(c, FALSE)
    /\ UNCHANGED <<lockfile, attempts, ledger, marker, env>>

\* The temporary server of an initialisation refuses root's password, which counts as an answer.
Answered(c) ==
    \/ box[c].pc \in {"up", "cloning"}
    \/ box[c].pc = "booting" /\ box[c].init /\ Initialised

\* boot_watch: the bumped ledger lands as soon as the directory is initialised; stuck_watch
\* writes its own again after each pass of the clone.
LandLedger(c) ==
    /\ box[c].pc \in {"booting", "up", "cloning"} /\ box[c].pend # 0 /\ Initialised
    /\ ledger' = box[c].pend
    /\ box' = [box EXCEPT ![c].pend = 0]
    /\ UNCHANGED <<lockfile, data, attempts, marker, version, env, past, trouble>>

\* A count that could not be reset reads as a failed boot from then on.
Ready(c) ==
    /\ box[c].mode = "ha" /\ Answered(c) /\ ~ box[c].ready
    /\ \E resets, lands \in BOOLEAN :
        /\ \/ resets /\ lands /\ UNCHANGED trouble
           \/ ~ resets /\ Happens("counter_unwritten")
           \/ resets /\ ~ lands /\ Happens("ledger_unwritten")
        /\ attempts' = IF resets THEN 0 ELSE attempts
        /\ ledger' = IF lands /\ box[c].pend # 0 THEN box[c].pend ELSE ledger
        /\ past' = [past EXCEPT
              !.failed = IF resets THEN 0 ELSE IF box[c].counted THEN Up(past.failed) ELSE past.failed,
              !.discards = IF lands \/ box[c].pend = 0 THEN past.discards ELSE 0]
    /\ box' = [box EXCEPT ![c].ready = TRUE, ![c].pend = 0]
    /\ UNCHANGED <<lockfile, data, marker, version, env>>

\* (Mutant.)  The version is recorded when its mysqld starts.
RecordServedAtSpawn(c) ==
    /\ box[c].pc \in {"booting", "up", "cloning"} /\ version.served # box[c].image
    /\ version' = [version EXCEPT !.served = box[c].image]
    /\ UNCHANGED <<box, lockfile, data, attempts, ledger, marker, env, past, trouble>>

RecordServed(c) ==
    /\ Answered(c) /\ version.served # box[c].image
    /\ version' = [version EXCEPT !.served = box[c].image]
    /\ UNCHANGED <<box, lockfile, data, attempts, ledger, marker, env, past, trouble>>

(***************************************************************************)
(* A group member that serves: its first clone, and stuck_watch.           *)
(***************************************************************************)
JoinClone(c) ==
    /\ box[c].pc = "up" /\ box[c].mode = "ha" /\ data = "fresh" /\ env.peer
    /\ Moves(c, "cloning")
    /\ UNCHANGED <<lockfile, data, attempts, ledger, marker, version, env, past, trouble>>

\* Past its dwell, long after boot_watch is done; without a donor the pass is over.
Stuck(c) ==
    /\ box[c].pc = "up" /\ box[c].mode = "ha" /\ box[c].ready /\ data = "whole"
    /\ ~ Spent(ledger) /\ ~ env.backoff /\ env.peer

\* (Mutant.)  The attempt is counted when the clone has landed.
StuckHealCountedAfter(c) ==
    /\ Stuck(c) /\ Happens("stuck")
    /\ box' = [box EXCEPT ![c].pc = "cloning", ![c].heal = ledger + 1]
    /\ past' = [past EXCEPT !.discards = past.discards + 1]
    /\ env' = [env EXCEPT !.backoff = TRUE]
    /\ UNCHANGED <<lockfile, data, attempts, ledger, marker, version>>

\* The attempt is counted before the plugin stops, which may fail, and the clone begins.  A
\* count that could not be written is in memory until the next write.
StuckHeal(c) ==
    /\ Stuck(c)
    /\ \/ Happens("stuck") /\ ledger' = ledger + 1 /\ env' = [env EXCEPT !.backoff = TRUE]
          /\ \/ /\ box' = [box EXCEPT ![c].pc = "cloning", ![c].heal = ledger + 1]
                /\ past' = [past EXCEPT !.discards = past.discards + 1]
             \/ UNCHANGED <<box, past>>
       \/ /\ Happens("ledger_unwritten") /\ UNCHANGED <<ledger, env>>
          /\ box' = [box EXCEPT ![c].pc = "cloning", ![c].heal = ledger + 1, ![c].pend = ledger + 1]
          /\ past' = [past EXCEPT !.discards = past.discards + 1]
    /\ UNCHANGED <<lockfile, data, attempts, marker, version>>

\* The recipient shuts down on the donor's data.  A directory made anew has none of the
\* wrapper's files, the lock file included; stuck_watch still remembers its count.
CloneLands(c) ==
    /\ box[c].pc = "cloning" /\ env.peer
    /\ data' = "whole"
    /\ \/ /\ version' = [version EXCEPT !.blocked = FALSE, !.stepped = version.opened]
          /\ Moves(c, "cloned")
          /\ UNCHANGED <<lockfile, attempts, ledger, past, trouble>>
       \/ /\ Happens("clone_drops")
          /\ lockfile' = 0 /\ attempts' = 0 /\ ledger' = 0
          /\ version' = [version EXCEPT !.blocked = FALSE, !.stepped = version.opened, !.served = 0]
          /\ box' = [box EXCEPT ![c].pc = "cloned", ![c].pend = box[c].heal]
          /\ past' = [past EXCEPT !.unlocked = TRUE,
                        !.discards = IF box[c].heal = 0 THEN 0 ELSE past.discards]
    /\ UNCHANGED <<marker, env>>

\* The wrapper exits with mysqld, the count written again or not.
CloneEnds(c) ==
    /\ box[c].pc = "cloned"
    /\ \/ /\ box[c].heal # 0 /\ ledger' = box[c].heal
          /\ past' = [Remembered(c, FALSE) EXCEPT !.discards = past.discards]
       \/ past' = Remembered(c, FALSE) /\ UNCHANGED ledger
    /\ box' = [box EXCEPT ![c] = Off]
    /\ UNCHANGED <<lockfile, data, attempts, marker, version, env, trouble>>

\* The donors are gone, and with them the pass; so is a count that never got written.
HandBack(c) ==
    /\ box[c].pc = "cloning" /\ ~ env.peer
    /\ box' = [box EXCEPT ![c].pc = "up", ![c].heal = 0,
                          ![c].pend = IF box[c].heal # 0 THEN 0 ELSE box[c].pend]
    /\ past' = [past EXCEPT !.discards =
                   IF box[c].heal # 0 /\ box[c].pend # 0 THEN 0 ELSE past.discards]
    /\ UNCHANGED <<lockfile, data, attempts, ledger, marker, version, env, trouble>>

\* HEALTHY_LEDGER_RESET.
HealthyHour(c) ==
    /\ box[c].pc = "up" /\ box[c].mode = "ha" /\ data = "whole" /\ box[c].ready
    /\ ledger # 0
    /\ ledger' = 0 /\ past' = [past EXCEPT !.discards = 0]
    /\ UNCHANGED <<box, lockfile, data, attempts, marker, version, env, trouble>>

(***************************************************************************)
(* Kills, planned stops and the surroundings.                              *)
(***************************************************************************)
Kill(c) ==
    /\ box[c].pc # "off"
    /\ Happens("kill")
    /\ Broken(c)
    /\ Ends(c, FALSE)
    /\ UNCHANGED <<lockfile, attempts, ledger, marker, env>>

\* (Mutant.)  A planned stop is not taken back from the count.
StopCounted(c) ==
    /\ box[c].pc \in {"pass", "booting", "up", "cloning", "cloned"}
    /\ Happens("term")
    /\ Broken(c)
    /\ Ends(c, TRUE)
    /\ UNCHANGED <<lockfile, attempts, ledger, marker, env>>

\* (Mutant.)  The count is taken back without a look at it.
StopUnguarded(c) ==
    /\ box[c].pc \in {"pass", "booting", "up", "cloning", "cloned"}
    /\ Happens("term")
    /\ attempts' = IF box[c].mode = "ha" /\ ~ box[c].ready THEN attempts - 1 ELSE attempts
    /\ Broken(c)
    /\ Ends(c, TRUE)
    /\ UNCHANGED <<lockfile, ledger, marker, env>>

\* SIGTERM while finish_upgrade or supervise listens: note_planned_shutdown, then a clean stop.
\* A count that could not be taken back reads as a failed boot.
Stop(c) ==
    /\ box[c].pc \in {"pass", "booting", "up", "cloning", "cloned"}
    /\ \/ /\ Happens("term")
          /\ attempts' = IF box[c].mode = "ha" /\ ~ box[c].ready /\ attempts > 0
                         THEN attempts - 1 ELSE attempts
          /\ Ends(c, TRUE)
       \/ /\ Happens("counter_unwritten") /\ UNCHANGED attempts
          /\ Ends(c, FALSE)
    /\ Broken(c)
    /\ UNCHANGED <<lockfile, ledger, marker, env>>

Wedge ==
    /\ data \in {"fresh", "whole"} /\ \A c \in Box : box[c].pc \in {"off", "waiting"}
    /\ Happens("wedge")
    /\ data' = "wedged"
    /\ UNCHANGED <<box, lockfile, attempts, ledger, marker, version, env, past>>

\* A record decays; a restore marker that does not parse has forgotten its count.
Decay ==
    /\ \/ /\ ledger \notin {0, Torn} /\ Happens("ledger_torn")
          /\ ledger' = Torn /\ UNCHANGED <<marker, past>>
       \/ /\ marker.status \notin {"none", "torn"} /\ Happens("marker_torn")
          /\ marker' = [status |-> "torn", tries |-> 0]
          /\ past' = [past EXCEPT !.restores = 0] /\ UNCHANGED ledger
    /\ UNCHANGED <<box, lockfile, data, attempts, version, env>>

Surroundings ==
    /\ \/ Happens("peer") /\ env' = [env EXCEPT !.peer = ~ env.peer]
       \/ Happens("mode") /\ env' = [env EXCEPT !.reverted = ~ env.reverted]
       \/ env.image < MaxImage /\ Happens("image") /\ env' = [env EXCEPT !.image = env.image + 1]
    /\ UNCHANGED <<box, lockfile, data, attempts, ledger, marker, version, past>>

BackoffOver ==
    /\ env.backoff
    /\ env' = [env EXCEPT !.backoff = FALSE]
    /\ UNCHANGED <<box, lockfile, data, attempts, ledger, marker, version, past, trouble>>

Boots(c) ==
    \/ Start(c) \/ Acquire(c) \/ GiveUpWaiting(c)
    \/ Refuse(c) \/ ResetRestore(c) \/ Proceed(c) \/ CountBoot(c) \/ Heal(c)
    \/ BeginRestore(c) \/ MarkRestore(c) \/ LoadFull(c) \/ ReplayAndStop(c)
    \/ CompleteRestore(c) \/ RestoreEnds(c) \/ RestoreEndsUnmarked(c)
    \/ BeginPass(c) \/ EndPass(c) \/ Spawn(c) \/ InitDone(c) \/ Answer(c)
    \/ BootFails(c) \/ OverBudget(c) \/ LandLedger(c) \/ Ready(c) \/ RecordServed(c)
    \/ JoinClone(c) \/ StuckHeal(c) \/ CloneLands(c) \/ CloneEnds(c)
    \/ HandBack(c) \/ HealthyHour(c)

Next ==
    \/ \E c \in Box : Boots(c) \/ Kill(c) \/ Stop(c)
    \/ Wedge \/ Decay \/ Surroundings \/ BackoffOver

Spec == Init /\ [][Next]_vars

\* The platform restarts what exits, polls go on, mysqld gets somewhere, time passes.
Progress(c) ==
    \/ Start(c) \/ Acquire(c) \/ GiveUpWaiting(c)
    \/ Refuse(c) \/ ResetRestore(c) \/ Proceed(c) \/ CountBoot(c) \/ Heal(c)
    \/ BeginRestore(c) \/ MarkRestore(c) \/ LoadFull(c) \/ ReplayAndStop(c)
    \/ CompleteRestore(c) \/ RestoreEnds(c)
    \/ BeginPass(c) \/ EndPass(c) \/ Spawn(c) \/ InitDone(c) \/ Answer(c)
    \/ BootFails(c) \/ CloneLands(c) \/ CloneEnds(c) \/ HandBack(c)

FairSpec ==
    /\ Spec
    /\ \A c \in Box : /\ WF_vars(Progress(c)) /\ WF_vars(Ready(c)) /\ WF_vars(RecordServed(c))
                     /\ WF_vars(JoinClone(c))
    /\ WF_vars(BackoffOver)

(***************************************************************************)
(* Properties.  Once two containers have been past the lock together all   *)
(* bets are off; LockSeparates says how that comes about.                  *)
(***************************************************************************)
Phases == {"off", "waiting", "locked", "clear", "restoring", "loading", "restored", "pass",
           "passed", "booting", "up", "cloning", "cloned"}

\* Every variable keeps its type, and counters of boots their ceiling.
BoxOK ==
    box \in [Box -> [pc : Phases, lock : Nat, mode : AllModes, image : Nat, pend : Nat, heal : Nat,
                     counted : BOOLEAN, ready : BOOLEAN, init : BOOLEAN, try : Nat]]
VolumeOK ==
    /\ lockfile \in Nat
    /\ data \in {"none", "debris", "fresh", "partial", "whole", "wedged"}
    /\ attempts \in 0 .. Top /\ ledger \in Nat \cup {Torn}
    /\ marker \in [status : {"none", "in_progress", "refused", "failed", "completed", "torn"},
                   tries : Nat]
    /\ version \in [opened : Nat, by : BOOLEAN, stepped : Nat, blocked : BOOLEAN, served : Nat]
WorldOK ==
    /\ env \in [kind : {"ha", "fork"}, reverted : BOOLEAN, image : Nat, peer : BOOLEAN,
                backoff : BOOLEAN]
    /\ past \in [discards : Nat, restores : Nat, failed : 0 .. Top, unlocked : BOOLEAN,
                 overlap : BOOLEAN]
    /\ trouble \in 0 .. MaxTrouble
TypeOK == BoxOK /\ VolumeOK /\ WorldOK

\* "At most one MySQL container touches this volume at a time" (volume_lock.rs).
OneContainer == ~ past.overlap

\* Two containers get past the lock together only when one could not open the lock file,
\* or a heal or a clone into a new directory removed the file its own process held: a
\* retried restore does not.
LockSeparates == past.overlap => past.unlocked

\* The self-heal cap: while its record lasts, a volume is discarded at most HealCap times,
\* by boots and by stuck_watch together, across kills, torn ledgers and failed clones.  A
\* record lasts until its count is lost: killed in memory, never written, or reset.
BudgetHolds == past.overlap \/ past.discards <= HealCap

\* The marker never claims more failed boots than ended unplanned and unanswered since the
\* last answer, or had their answer or planned stop fail to reach it: as long as the marker
\* is written, redeploys do not read as a boot loop.
AttemptsHonest ==
    \/ past.overlap
    \/ attempts <= past.failed + Cardinality({c \in Box : box[c].counted /\ ~ box[c].ready})

\* While their record lasts, at most MaxRestores attempts at a restore mark the volume or end
\* with a verdict; one that is killed before its first mark leaves neither.
RestoresBounded == past.overlap \/ past.restores <= MaxRestores

\* No mysqld starts to serve what an unfinished restore left behind.
NoHalfRestoreServed ==
    \/ past.overlap
    \/ \A c \in Box : box[c].pc \in {"booting", "up"} => data # "partial"

\* A server step that is owed is never taken for done, whatever was killed when: decide
\* calls for the pass for as long as the step has not completed.
OwedIsPending ==
    \/ past.overlap
    \/ Initialised /\ version.opened > version.stepped => PassPending(version.opened)

\* Wiping for another restore never takes a data directory that has served ("derived state
\* only", restore.rs), unless the marker decayed.
DerivedUnlessTorn ==
    [][\A c \in Box : ResetRestore(c) =>
           past.overlap \/ version.served = 0 \/ marker.status = "torn"]_vars

\* The same of a decayed marker as well.
DerivedOnly == [][\A c \in Box : ResetRestore(c) => past.overlap \/ version.served = 0]_vars

\* What the code leaves to a human.
Held ==
    \/ Crashed /\ (Deployed # "fork" \/ marker.tries >= MaxRestores)
    \/ data \in {"wedged", "debris"}
       /\ (Deployed # "ha" \/ ~ env.peer \/ Spent(ledger))

\* Whatever happened, the volume is served in the end with its server step done, cloned
\* from the group if it was discarded, or it waits for a human.
Settles ==
    <>[](\/ Held \/ past.overlap
         \/ \E c \in Box :
               /\ box[c].pc = "up" /\ version.stepped = box[c].image
               /\ (box[c].mode = "ha" /\ env.peer) => data = "whole")
=============================================================================

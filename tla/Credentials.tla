---------------------------- MODULE Credentials ----------------------------
(***************************************************************************)
(* Rotating the root password of a group (credentials.rs, password_pin.rs, *)
(* the credential paths of sql.rs and gr.rs).  Each member pins on its     *)
(* volume the password that last worked and stages the one a rotation      *)
(* moves to; accounts keep an old password beside the new one until every  *)
(* member has moved.  The platform, external, orders the phases and        *)
(* repeats a request it got no answer to.                                  *)
(***************************************************************************)
EXTENDS Integers, Sequences, FiniteSets

CONSTANTS
    Node,           \* group members
    Password,       \* root passwords; each rotation takes an unused one
    MaxTrouble,     \* bound: external events
    Troubles,       \* which external events happen
    None            \* no password

AllTroubles ==
    {"crash", "power", "clone", "failover", "lost", "cut", "edit", "rollback", "hasty_rollback",
     "late_clone"}

ASSUME CredentialsAssumption ==
    /\ IsFiniteSet(Node) /\ Node # {} /\ None \notin Password /\ Password # {}
    /\ Troubles \subseteq AllTroubles /\ MaxTrouble \in Nat

VARIABLES
    binlog,     \* account statements of the group, in order
    server,     \* what each member's mysqld holds: accounts, recovery channel
    disk,       \* the pin and the staged rotation on each volume
    synced,     \* the last state of both that a directory sync made durable
    proc,       \* each member's wrapper
    primary,    \* the group's primary
    coord,      \* the platform's rotation
    variable,   \* MYSQL_ROOT_PASSWORD as the next deploy sees it
    spent       \* passwords used, external events so far

vars == <<binlog, server, disk, synced, proc, primary, coord, variable, spent>>

(***************************************************************************)
(* Accounts.  A verifier is salted: it is told apart by the statement that *)
(* set it.  The application's user changes whenever root does.             *)
(***************************************************************************)
Accepts(account, p) == p # None /\ p \in {account.now, account.old}

Altered(account, p, salt) == [now |-> p, salt |-> salt, old |-> account.now]
Discarded(account) == [account EXCEPT !.old = None]

\* One statement changes root and gr_recovery together.
Apply(s, e, i) ==
    LET To(account) == IF e = None THEN Discarded(account) ELSE Altered(account, e, i)
    IN  [s EXCEPT !.root = To(s.root), !.gr = To(s.gr), !.applied = i]

Unread == [root |-> 0, gr |-> 0]

\* What tells a member's accounts from the ones a PREPARE saw on it.
Verifiers(s) == [root |-> s.root.salt, gr |-> s.gr.salt]

\* A statement outside the binlog has a salt no snapshot on the volume has.
LocalSalt(n) ==
    CHOOSE i \in -3 .. -1 : i \notin {disk[n].pending.before.gr, synced[n].pending.before.gr}

Behind(n) == server[n].applied < Len(binlog)
Up(n) == proc[n].pc # "down"
Joined(n) == proc[n].pc = "joined"
\* A member lists only who is in the group with it: group_healthy is its own membership.
GroupHealthy(n) == Joined(n)

CaughtUp == \A n \in Node : Joined(n) /\ ~ Behind(n)
Works(n, p) == Up(n) /\ Accepts(server[n].root, p)
Connected(n) == Works(n, proc[n].pool)

NotStaged == [to |-> None, before |-> Unread]
Empty == [pin |-> None, pending |-> NotStaged]

\* (Mutant.)  Only the pin and the environment.
ChoicesUnstaged(n) == <<None, disk[n].pin, proc[n].env>>

\* Candidates in the order they are tried: the staged one, the pin, the environment.
Choices(n) == <<disk[n].pending.to, disk[n].pin, proc[n].env>>

Happens(what) ==
    /\ what \in Troubles /\ spent.trouble < MaxTrouble
    /\ spent' = [spent EXCEPT !.trouble = spent.trouble + 1]

Init ==
    /\ binlog = <<>>
    /\ \E p \in Password :
        /\ LET account == [now |-> p, salt |-> 0, old |-> None]
           IN  server = [n \in Node |-> [root |-> account, gr |-> account, applied |-> 0, channel |-> p]]
        /\ disk = [n \in Node |-> [Empty EXCEPT !.pin = p]]
        /\ synced = disk
        /\ proc = [n \in Node |-> [pc |-> "joined", env |-> p, boot |-> p, pool |-> p, resolved |-> TRUE]]
        /\ coord = [phase |-> "idle", target |-> p, previous |-> p, acked |-> {}, leader |-> None,
                  turned |-> FALSE]
        /\ variable = p
        /\ spent = [used |-> {p}, trouble |-> 0]
    /\ primary \in Node

(***************************************************************************)
(* The platform (external).                                                *)
(***************************************************************************)
Phase == <<"prepare", "database", "member", "finalize", "verify">>

\* PREFLIGHT: the password in force works on every member; one says it is the leader.
\* That no member lags is taken for granted, here and when the platform turns back;
\* "hasty_rollback" drops it.
Begin(p) ==
    /\ coord.phase = "idle" /\ p \notin spent.used
    /\ CaughtUp /\ \A n \in Node : Works(n, coord.target)
    /\ coord' = [phase |-> "prepare", target |-> p, previous |-> coord.target, acked |-> {},
                 leader |-> primary, turned |-> FALSE]
    /\ spent' = [spent EXCEPT !.used = spent.used \cup {p}]
    /\ UNCHANGED <<binlog, server, disk, synced, proc, primary, variable>>

Complete ==
    IF coord.phase \in {"database", "finalize"} THEN coord.acked # {} ELSE coord.acked = Node

NextPhase ==
    /\ coord.phase # "idle" /\ Complete
    /\ coord' = [coord EXCEPT !.acked = {},
                   !.phase = IF @ = "verify" THEN "idle"
                             ELSE Phase[(CHOOSE i \in 1 .. 4 : Phase[i] = coord.phase) + 1]]
    /\ UNCHANGED <<binlog, server, disk, synced, proc, primary, variable, spent>>

LearnLeader ==
    /\ coord.phase # "idle" /\ coord.leader # primary /\ Connected(primary)
    /\ coord' = [coord EXCEPT !.leader = primary]
    /\ UNCHANGED <<binlog, server, disk, synced, proc, primary, variable, spent>>

\* Before anything is revoked the platform may turn back: the same phases, the other way.
Rollback ==
    /\ coord.phase \in {"prepare", "database", "member"} /\ ~ coord.turned
    /\ \/ Happens("hasty_rollback")
       \/ Happens("rollback") /\ CaughtUp
    /\ coord' = [coord EXCEPT !.phase = "prepare", !.acked = {}, !.turned = TRUE,
                              !.target = coord.previous, !.previous = coord.target]
    /\ UNCHANGED <<binlog, server, disk, synced, proc, primary, variable>>

Edit ==
    /\ Happens("edit")
    /\ \E p \in Password \ {variable} : variable' = p
    /\ UNCHANGED <<binlog, server, disk, synced, proc, primary, coord>>

(***************************************************************************)
(* A request, authenticated with the pin.  Its answer may be lost.         *)
(***************************************************************************)
Asked(n, phase) ==
    /\ coord.phase = phase /\ n \notin coord.acked
    /\ Up(n) /\ disk[n].pin \in {coord.target, coord.previous}

Answers(n) ==
    \/ coord' = [coord EXCEPT !.acked = coord.acked \cup {n}] /\ UNCHANGED spent
    \/ Happens("lost") /\ UNCHANGED coord

\* A request that runs out of time stops between two of its steps.
CutShort == Happens("cut") /\ UNCHANGED coord

Stage(n, staged) ==
    /\ disk' = [disk EXCEPT ![n].pending = staged]
    /\ synced' = [synced EXCEPT ![n] = disk'[n]]

\* The same target staged again keeps its snapshot of the verifiers.
Prepare(n) ==
    /\ Asked(n, "prepare")
    /\ \/ disk[n].pending.to = coord.target /\ Stage(n, disk[n].pending)
       \/ /\ disk[n].pending.to # coord.target /\ Connected(n)
          /\ Stage(n, [to |-> coord.target, before |-> Verifiers(server[n])])
    /\ Answers(n)
    /\ UNCHANGED <<binlog, server, proc, primary, variable>>

Swap(n, p) == proc' = [proc EXCEPT ![n].pool = p]

\* A statement of the primary: in the binlog, and in force on it.
Execute(n, e) ==
    /\ n = primary /\ Joined(n)
    /\ binlog' = Append(binlog, e)
    /\ server' = [server EXCEPT ![n] = Apply(server[n], e, Len(binlog) + 1)]

\* (Mutant.)  The change is made again on every request.
DatabaseAgain(n) ==
    /\ Asked(n, "database") /\ n = coord.leader /\ Connected(n)
    /\ disk[n].pending.to = coord.target
    /\ Execute(n, coord.target)
    /\ \/ CutShort /\ UNCHANGED proc
       \/ Swap(n, coord.target) /\ Answers(n)
    /\ UNCHANGED <<disk, synced, primary, variable>>

\* The change is made only while the verifiers are those of the snapshot, and the target
\* has to work then, whichever way: a retained password does.
Database(n) ==
    /\ Asked(n, "database") /\ n = coord.leader /\ Connected(n)
    /\ disk[n].pending.to = coord.target
    /\ IF Verifiers(server[n]) = disk[n].pending.before
       THEN Execute(n, coord.target)
       ELSE UNCHANGED <<binlog, server>>
    /\ Accepts(server'[n].root, coord.target)
    /\ \/ CutShort /\ UNCHANGED proc
       \/ Swap(n, coord.target) /\ Answers(n)
    /\ UNCHANGED <<disk, synced, primary, variable>>

\* (Mutant.)  The pin is left to the next boot.
AdoptUnpinned(n, p, steps) ==
    /\ Works(n, p)
    /\ Swap(n, p)
    /\ server' = IF steps > 1 THEN [server EXCEPT ![n].channel = p] ELSE server
    /\ UNCHANGED <<binlog, disk, synced, primary, variable>>

\* Pool, recovery channel and pin, in this order, one directory sync short.
Adopt(n, p, steps) ==
    /\ Works(n, p)
    /\ Swap(n, p)
    /\ server' = IF steps > 1 THEN [server EXCEPT ![n].channel = p] ELSE server
    /\ disk' = IF steps > 2 THEN [disk EXCEPT ![n].pin = p] ELSE disk
    /\ UNCHANGED <<binlog, synced, primary, variable>>

Member(n) ==
    /\ Asked(n, "member")
    /\ \/ Adopt(n, coord.target, 3) /\ Answers(n)
       \/ \E steps \in 1 .. 2 : Adopt(n, coord.target, steps) /\ CutShort

\* A staged rotation that has not moved for a while is adopted without being asked for.
Reconcile(n) ==
    /\ disk[n].pending.to # None
    /\ \/ Adopt(n, disk[n].pending.to, 3) /\ UNCHANGED <<coord, spent>>
       \/ \E steps \in 1 .. 2 : Adopt(n, disk[n].pending.to, steps) /\ CutShort

Finalize(n) ==
    /\ Asked(n, "finalize") /\ n = coord.leader /\ Connected(n)
    /\ Works(n, coord.target)
    /\ Execute(n, None)
    /\ Answers(n)
    /\ UNCHANGED <<disk, synced, proc, primary, variable>>

Verify(n) ==
    /\ Asked(n, "verify") /\ GroupHealthy(n) /\ Connected(n)
    /\ ~ Works(n, coord.previous) /\ Works(n, coord.target)
    /\ disk[n].pin = coord.target
    /\ disk' = [disk EXCEPT ![n].pending = NotStaged]
    /\ Answers(n)
    /\ UNCHANGED <<binlog, server, synced, proc, primary, variable>>

(***************************************************************************)
(* The members.                                                            *)
(***************************************************************************)
Replicate(n) ==
    /\ Joined(n) /\ Behind(n)
    /\ LET i == server[n].applied + 1
       IN  server' = [server EXCEPT ![n] = Apply(server[n], binlog[i], i)]
    /\ UNCHANGED <<binlog, disk, synced, proc, primary, coord, variable, spent>>

\* A new primary works its backlog off before it takes statements.
Promoted(m) ==
    LET From[i \in 0 .. Len(binlog)] ==
            IF i <= server[m].applied THEN server[m] ELSE Apply(From[i - 1], binlog[i], i)
    IN  From[Len(binlog)]

Moves(n) ==
    \E m \in Node \ {n} :
        /\ Joined(m)
        /\ primary' = m /\ server' = [server EXCEPT ![m] = Promoted(m)]

Failover ==
    /\ Happens("failover") /\ Moves(primary)
    /\ UNCHANGED <<binlog, disk, synced, proc, coord, variable>>

Gone == [pc |-> "down", env |-> None, boot |-> None, pool |-> None, resolved |-> FALSE]

\* The container ends; with its host, what no directory sync had made durable.
Crash(n) ==
    /\ Up(n)
    /\ \/ Happens("crash") /\ UNCHANGED disk
       \/ Happens("power") /\ disk' = [disk EXCEPT ![n] = synced[n]]
    /\ proc' = [proc EXCEPT ![n] = Gone]
    /\ IF n = primary /\ \E m \in Node \ {n} : Joined(m)
       THEN Moves(n)
       ELSE UNCHANGED <<primary, server>>
    /\ UNCHANGED <<binlog, synced, coord, variable>>

\* A member provisioned by clone has the donor's accounts and neither pin nor staged rotation.
Clone(n) ==
    /\ proc[n].pc = "down"
    /\ Happens("late_clone") \/ (Happens("clone") /\ coord.phase = "idle")
    /\ \E m \in Node \ {n} :
           /\ Joined(m)
           /\ server' = [server EXCEPT ![n] = [server[m] EXCEPT !.channel = server[n].channel]]
    /\ disk' = [disk EXCEPT ![n] = Empty] /\ synced' = [synced EXCEPT ![n] = Empty]
    /\ UNCHANGED <<binlog, proc, primary, coord, variable>>

\* initial_password: the pin, or the environment without one.
Start(n) ==
    /\ proc[n].pc = "down"
    /\ LET p == IF disk[n].pin # None THEN disk[n].pin ELSE variable
       IN  proc' = [proc EXCEPT ![n] = [pc |-> "booted", env |-> variable, boot |-> p, pool |-> p,
                                        resolved |-> FALSE]]
    /\ UNCHANGED <<binlog, server, disk, synced, primary, coord, variable, spent>>

\* resolve_and_apply: the first candidate that works becomes the pin, and the pool's.
Resolve(n) ==
    /\ Up(n) /\ ~ proc[n].resolved
    /\ \E i \in 1 .. 3 :
        LET p == Choices(n)[i]
        IN  /\ Works(n, p) /\ \A j \in 1 .. i - 1 : ~ Works(n, Choices(n)[j])
            /\ disk' = [disk EXCEPT ![n].pin = p]
            /\ proc' = [proc EXCEPT ![n].resolved = TRUE,
                                    ![n].pool = IF p # proc[n].boot THEN p ELSE proc[n].pool]
    /\ UNCHANGED <<binlog, server, synced, primary, coord, variable, spent>>

\* Sql::conn: a refused pool moves to the staged password if that works.
FallBack(n) ==
    /\ Up(n) /\ ~ Connected(n) /\ Works(n, disk[n].pending.to)
    /\ Swap(n, disk[n].pending.to)
    /\ UNCHANGED <<binlog, server, disk, synced, primary, coord, variable, spent>>

\* ensure_recovery_user, unlogged and on this member alone, with the password of the boot
\* and a new salt; the recovery channel follows.
EnsureRecovery(n) ==
    /\ proc[n].pc = "booted" /\ Connected(n)
    /\ server' = [server EXCEPT ![n].channel = proc[n].boot,
          ![n].gr = [now |-> proc[n].boot, salt |-> LocalSalt(n), old |-> server[n].gr.old]]
    /\ proc' = [proc EXCEPT ![n].pc = "ready"]
    /\ UNCHANGED <<binlog, disk, synced, primary, coord, variable, spent>>

\* Inbound group connections authenticate against the peer's gr_recovery, and its own.
Admitted(n) ==
    /\ Accepts(server[n].gr, server[n].channel)
    /\ \/ \E m \in Node \ {n} : Joined(m) /\ Accepts(server[m].gr, server[n].channel)
       \/ n = primary /\ ~ \E m \in Node : Joined(m)

Join(n) ==
    /\ proc[n].pc = "ready" /\ Connected(n) /\ Admitted(n)
    /\ proc' = [proc EXCEPT ![n].pc = "joined"]
    /\ UNCHANGED <<binlog, server, disk, synced, primary, coord, variable, spent>>

Serves(n) == Prepare(n) \/ Database(n) \/ Member(n) \/ Finalize(n) \/ Verify(n)
Keeps(n) ==
    Replicate(n) \/ Start(n) \/ Resolve(n) \/ FallBack(n) \/ EnsureRecovery(n) \/ Join(n)

Next ==
    \/ \E p \in Password : Begin(p)
    \/ NextPhase \/ LearnLeader \/ Rollback \/ Edit \/ Failover
    \/ \E n \in Node : Serves(n) \/ Keeps(n) \/ Reconcile(n) \/ Crash(n) \/ Clone(n)

Spec == Init /\ [][Next]_vars

\* The platform repeats its requests; polls and replication go on; what exits is restarted.
FairSpec ==
    /\ Spec
    /\ WF_vars(NextPhase) /\ WF_vars(LearnLeader)
    /\ \A n \in Node :
        /\ WF_vars(Replicate(n)) /\ WF_vars(Start(n)) /\ WF_vars(Resolve(n)) /\ WF_vars(FallBack(n))
        /\ WF_vars(EnsureRecovery(n)) /\ WF_vars(Join(n)) /\ WF_vars(Serves(n))

(***************************************************************************)
(* Properties.                                                             *)
(***************************************************************************)
\* "The same rule restores the old primary password" (credentials.rs): past its DATABASE
\* phase, a rotation's target is the primary's password.
ChangeMade ==
    coord.phase \in {"member", "finalize", "verify"} =>
        server[primary].root.now = coord.target

\* "Whichever one mysqld accepts" (password_pin.rs): whatever the environment says, a member
\* that had a pin keeps on its volume a password its accounts accept, unless the rotation
\* goes on without its change: FINALIZE then discards the password every member has pinned.
NoLockout ==
    ChangeMade => \A n \in Node : disk[n].pin # None =>
        \E i \in 1 .. 2 : Accepts(server[n].root, Choices(n)[i])

\* "A retry after a lost SQL response must not replace the retained old password": until the
\* revocation every member accepts the password the rotation found in force.
OldKept ==
    coord.phase \in {"prepare", "database", "member"} =>
        LET found == IF coord.turned THEN coord.target ELSE coord.previous
        IN  \A n \in Node : Accepts(server[n].root, found)

\* "A coupled credential stays on the password the group actually enforces" (gr.rs): once a
\* rotation is verified, every member admits the others with its target.
RecoveryFollows ==
    [][coord.phase = "verify" /\ coord'.phase = "idle" =>
           \A n \in Node : Accepts(server[n].gr, coord.target)]_vars

\* A member that lost its pin to a clone and whose variable is wrong waits for the operator.
Parked(n) == Up(n) /\ ~ proc[n].resolved /\ \A i \in 1 .. 3 : ~ Works(n, Choices(n)[i])

\* One whose recovery account its boot left on another password waits to be recloned.
Outside(n) == proc[n].pc = "ready" /\ ~ Admitted(n)

\* A leader that booted since its PREPARE has other verifiers than its snapshot, which a
\* PREPARE of the same target keeps: it refuses the target until the platform turns back.
Refused(n) ==
    /\ coord.phase = "database" /\ n = coord.leader
    /\ Verifiers(server[n]) # disk[n].pending.before /\ ~ Works(n, coord.target)

\* In the end every rotation that began is through, and every member holds a connection,
\* or a member waits, or the leader refuses its target, or went on without its change.
Settles ==
    <>[](\/ \E n \in Node : Parked(n) \/ Outside(n) \/ Refused(n)
         \/ ~ ChangeMade
         \/ coord.phase = "idle" /\ \A n \in Node : Joined(n) /\ Connected(n))
=============================================================================

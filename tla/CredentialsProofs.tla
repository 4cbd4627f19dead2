------------------------- MODULE CredentialsProofs -------------------------
(***************************************************************************)
(* Theorems about Credentials, for any members, passwords and number of    *)
(* troubles, while the platform turns back, and a member is recloned, only *)
(* as Orderly says.                                                        *)
(***************************************************************************)
EXTENDS Credentials, WellFoundedInduction, TLAPS

USE CredentialsAssumption

\* The platform turns back only while no member lags, and no member is provisioned by
\* clone in the middle of a rotation.
Orderly == "hasty_rollback" \notin Troubles /\ "late_clone" \notin Troubles

-----------------------------------------------------------------------------
(* Types. *)

Secret == Password \cup {None}
Account == [now : Secret, salt : Int, old : Secret]
Server == [root : Account, gr : Account, applied : Nat, channel : Secret]
Staging == [to : Secret, before : [root : Int, gr : Int]]
Volume == [pin : Secret, pending : Staging]
Wrapper == [pc : {"down", "booted", "ready", "joined"}, env : Secret, boot : Secret,
            pool : Secret, resolved : BOOLEAN]
Rotation == [phase : {"idle", "prepare", "database", "member", "finalize", "verify"},
             target : Password, previous : Password, acked : SUBSET Node,
             leader : Node \cup {None}, turned : BOOLEAN]

TypeOK ==
    /\ binlog \in Seq(Secret)
    /\ server \in [Node -> Server]
    /\ disk \in [Node -> Volume] /\ synced \in [Node -> Volume]
    /\ proc \in [Node -> Wrapper]
    /\ primary \in Node
    /\ coord \in Rotation
    /\ variable \in Password
    /\ spent \in [used : SUBSET Password, trouble : Nat]

-----------------------------------------------------------------------------
(* The history of the root account: what it is after each statement.       *)

Last == Len(binlog)

After(account, e, i) == IF e = None THEN Discarded(account) ELSE Altered(account, e, i)

HistoryOf(H) ==
    /\ H \in [0 .. Last -> Account]
    /\ \A i \in 1 .. Last : H[i] = After(H[i - 1], binlog[i], i)
    /\ \A i \in 0 .. Last : H[i].now # None /\ H[i].salt <= i

\* Each member has applied a part of it, the primary all.
ServersOf(H) ==
    /\ \A n \in Node : server[n].applied <= Last /\ server[n].root = H[server[n].applied]
    /\ server[primary].applied = Last
    /\ \A n \in Node : Joined(n) => Joined(primary)

\* What a member is on, or has still to come through.
Backlog(n) == server[n].applied .. Last
Window == UNION {Backlog(n) : n \in Node}

\* Accounts that accept p alone, or p and a retained q.
Only(a, p) == a.now = p /\ a.old \in {None, p}
Both(a, p, q) == a.now = p /\ a.old = q

Target == coord.target
Previous == coord.previous
Found == IF coord.turned THEN Target ELSE Previous
Rotating == {"database", "member", "finalize", "verify"}

\* The accounts of a window, by phase.
PastAccounts(H) == coord.phase = "idle" => \A i \in Window : Only(H[i], Target)
FoundAccounts(H) ==
    /\ coord.phase = "prepare" =>
          Only(H[Last], Found) \/ (coord.turned /\ Both(H[Last], Previous, Target))
    /\ coord.phase = "prepare" \/ (coord.phase = "database" /\ H[Last].now # Target) =>
          \A n \in Node : server[n].applied = Last
ChangingAccounts(H) ==
    coord.phase \in {"database", "member"} =>
        \A i \in Window : \/ Only(H[i], Found)
                          \/ Both(H[i], Target, Previous)
                          \/ coord.turned /\ Both(H[i], Previous, Target)
ChangedAccounts(H) ==
    coord.phase \in {"finalize", "verify"} =>
        \A i \in Window : \/ Only(H[i], Target)
                          \/ Both(H[i], Target, Previous)
                          \/ Both(H[i], Previous, Target)

\* Once changed, and once revoked, an account stays so.
InOrder(H) ==
    coord.phase \in Rotating =>
        \A i, j \in Window : i <= j => /\ H[i].now = Target => H[j].now = Target
                                       /\ Only(H[i], Target) => Only(H[j], Target)

\* What the acknowledgements of a phase say.
Acknowledged(H) ==
    /\ coord.phase = "database" /\ coord.acked # {} => H[Last].now = Target \/ coord.turned
    /\ coord.phase \in Rotating \ {"database"} => H[Last].now = Target
    /\ coord.phase = "member" =>
          \A n \in coord.acked : \A i \in Backlog(n) : Accepts(H[i], Target)
    /\ coord.phase = "verify" =>
          \A n \in coord.acked : \A i \in Backlog(n) : Only(H[i], Target)

AccountsOf(H) ==
    /\ PastAccounts(H) /\ FoundAccounts(H) /\ ChangingAccounts(H) /\ ChangedAccounts(H)
    /\ InOrder(H) /\ Acknowledged(H)

Volumes(n) == {disk[n], synced[n]}

\* What makes a second change impossible: the snapshot of the verifiers.
SnapshotsOf(H) ==
    \A n \in Node : \A d \in Volumes(n) :
        /\ d.pending.before.root <= Last
        /\ coord.phase = "database" /\ ~ coord.turned /\ H[Last].now = Target
              => d.pending.before.root # H[Last].salt

\* A volume is staged for the rotation.
Ready(d) == d.pin # None /\ d.pending.to = Target

\* The pin or the staged password gets a member through its backlog.
SafeOf(H) ==
    \A n \in Node : \A d \in Volumes(n) : d.pin # None =>
        \A i \in Backlog(n) : Accepts(H[i], d.pin) \/ Accepts(H[i], d.pending.to)

Staged ==
    /\ coord.phase = "prepare" => \A n \in coord.acked : \A d \in Volumes(n) : Ready(d)
    /\ coord.phase = "prepare" /\ ~ coord.turned =>
          \A n \in Node : \A d \in Volumes(n) : d.pin # Target
    /\ coord.phase \in Rotating \ {"verify"} => \A n \in Node : \A d \in Volumes(n) : Ready(d)
    /\ coord.phase = "verify" =>
          \A n \in Node : \A d \in Volumes(n) :
              d.pin # None /\ (d.pending.to = Target \/ (d.pending.to = None /\ d.pin = Target))

Used ==
    /\ Target \in spent.used /\ Previous \in spent.used
    /\ coord.phase # "idle" => Target # Previous
    /\ \A n \in Node : \A d \in Volumes(n) :
          d.pin \in spent.used \cup {None} /\ d.pending.to \in spent.used \cup {None}

RotationOf(H) ==
    HistoryOf(H) /\ ServersOf(H) /\ AccountsOf(H) /\ SnapshotsOf(H) /\ SafeOf(H) /\ Staged /\ Used

\* Or the platform turned back and the leader answered without the change: the accounts stay
\* on the password the rotation set, which VERIFY never finds refused.
UnmadeOf(H) ==
    /\ HistoryOf(H) /\ ServersOf(H)
    /\ coord.turned /\ coord.phase \in {"member", "finalize", "verify"} /\ Target # Previous
    /\ \A i \in Window : H[i].now = Previous /\ (coord.phase = "member" => H[i].old = Target)
    /\ coord.phase = "verify" => coord.acked = {}

StateOf(H) == RotationOf(H) \/ UnmadeOf(H)

RotationInv == \E H : StateOf(H)

-----------------------------------------------------------------------------
(* The backlog of a new primary. *)

Step(s, e, f, i) == IF i <= s.applied THEN s ELSE Apply(f[i - 1], e[i], i)

\* A function that works off e from s is there for every part of e.
LEMMA BacklogRuns ==
    ASSUME NEW s, s.applied \in Nat, NEW e, NEW top \in Nat
    PROVE  \E f : f = [i \in 0 .. top |-> Step(s, e, f, i)]
<1> DEFINE Runs(k) == \E f : f = [i \in 0 .. k |-> Step(s, e, f, i)]
           bad == {k \in Nat : ~ Runs(k)}
<1>1. SUFFICES ASSUME bad # {} PROVE FALSE
  BY <1>1
<1>2. PICK k \in bad : \A j \in bad : ~ (<<j, k>> \in OpToRel(<, Nat))
  BY <1>1, NatLessThanWellFounded, WFMin
<1>3. k \in Nat /\ ~ Runs(k) /\ \A j \in Nat : j < k => Runs(j)
  BY <1>2 DEF OpToRel
<1>4. CASE k = 0
  <2> DEFINE f == [i \in 0 .. 0 |-> s]
  <2>1. f = [i \in 0 .. 0 |-> Step(s, e, f, i)]
    BY DEF Step
  <2> HIDE DEF f
  <2>2. Runs(0)
    BY <2>1
  <2>3. QED BY <1>3, <1>4, <2>2
<1>5. CASE k # 0
  <2>1. k - 1 \in Nat /\ k - 1 < k
    BY <1>3, <1>5
  <2>2. PICK f : f = [i \in 0 .. (k - 1) |-> Step(s, e, f, i)]
    BY <1>3, <2>1
  <2> DEFINE g == [i \in 0 .. k |-> IF i <= k - 1 THEN f[i] ELSE Step(s, e, f, k)]
  <2>3. ASSUME NEW i \in 0 .. k PROVE g[i] = Step(s, e, g, i)
    <3>1. CASE i <= s.applied
      <4>1. Step(s, e, f, i) = s /\ Step(s, e, g, i) = s
        BY <3>1 DEF Step
      <4>2. i <= k - 1 => f[i] = Step(s, e, f, i)
        BY <1>3, <2>2
      <4>3. ~ (i <= k - 1) => i = k
        BY <1>3
      <4>4. QED BY <4>1, <4>2, <4>3
    <3>2. CASE ~ (i <= s.applied)
      <4>1. i - 1 \in 0 .. (k - 1) /\ i - 1 \in 0 .. k
        BY <1>3, <3>2
      <4>2. g[i - 1] = f[i - 1]
        BY <4>1
      <4>3. Step(s, e, g, i) = Step(s, e, f, i)
        BY <4>2 DEF Step
      <4>4. i <= k - 1 => f[i] = Step(s, e, f, i)
        BY <1>3, <2>2
      <4>5. ~ (i <= k - 1) => i = k
        BY <1>3
      <4>6. QED BY <4>3, <4>4, <4>5
    <3>3. QED BY <3>1, <3>2
  <2>4. g = [i \in 0 .. k |-> Step(s, e, g, i)]
    <3>1. g = [i \in 0 .. k |-> g[i]]
      OBVIOUS
    <3> HIDE DEF g
    <3>2. QED BY <2>3, <3>1
  <2> HIDE DEF g
  <2>5. Runs(k)
    BY <2>4
  <2>6. QED BY <1>3, <2>5
<1>6. QED BY <1>4, <1>5

LEMMA PromotedRuns ==
    ASSUME TypeOK, NEW m \in Node
    PROVE  \E f : /\ f = [i \in 0 .. Last |-> Step(server[m], binlog, f, i)]
                  /\ Promoted(m) = f[Last]
<1> DEFINE From == CHOOSE f : f = [i \in 0 .. Last |-> Step(server[m], binlog, f, i)]
<1>1. Last \in Nat /\ server[m].applied \in Nat
  BY DEF TypeOK, Server, Last
<1>2. From = [i \in 0 .. Last |-> Step(server[m], binlog, From, i)]
  BY <1>1, BacklogRuns
<1>3. Promoted(m) = From[Last]
  BY DEF Promoted, Step, Last
<1>4. QED BY <1>2, <1>3

LEMMA ApplyType ==
    ASSUME NEW s \in Server, NEW e \in Secret, NEW i \in Nat
    PROVE  /\ Apply(s, e, i) \in Server /\ Apply(s, e, i).applied = i
           /\ Apply(s, e, i).root = After(s.root, e, i)
<1>1. i \in Int /\ s.root \in Account /\ s.gr \in Account
  BY DEF Server
<1>2. \A a \in Account : After(a, e, i) \in Account
  BY <1>1 DEF After, Altered, Discarded, Account, Secret
<1>3. Apply(s, e, i) = [s EXCEPT !.root = After(s.root, e, i), !.gr = After(s.gr, e, i), !.applied = i]
  BY DEF Apply, After
<1>4. QED BY <1>1, <1>2, <1>3 DEF Server

LEMMA PromotedOf ==
    ASSUME TypeOK, NEW H, HistoryOf(H), NEW m \in Node, server[m].applied <= Last,
           server[m].root = H[server[m].applied]
    PROVE  /\ Promoted(m) \in Server
           /\ Promoted(m).applied = Last /\ Promoted(m).root = H[Last]
<1> DEFINE s == server[m]
<1>1. PICK f : /\ f = [i \in 0 .. Last |-> Step(s, binlog, f, i)]
               /\ Promoted(m) = f[Last]
  BY PromotedRuns
<1>2. Last \in Nat /\ s \in Server /\ s.applied \in Nat /\ \A i \in 1 .. Last : binlog[i] \in Secret
  BY DEF TypeOK, Server, Last
<1> DEFINE Right(i) == f[i] \in Server /\ f[i].applied = i /\ f[i].root = H[i]
           bad == {i \in s.applied .. Last : ~ Right(i)}
<1>3. ASSUME bad # {} PROVE FALSE
  <2>1. bad \subseteq Nat
    BY <1>2
  <2>2. PICK k \in bad : \A j \in bad : ~ (<<j, k>> \in OpToRel(<, Nat))
    BY <1>3, <2>1, NatLessThanWellFounded, WFMin
  <2>3. k \in s.applied .. Last /\ ~ Right(k) /\ \A j \in s.applied .. Last : j < k => Right(j)
    <3>1. \A j \in bad : ~ (j < k)
      <4> HIDE DEF bad
      <4>1. QED BY <2>1, <2>2 DEF OpToRel
    <3> HIDE DEF Right, s
    <3>2. QED BY <2>2, <3>1
  <2>4. k # s.applied
    <3>1. s.applied \in 0 .. Last /\ f[s.applied] = Step(s, binlog, f, s.applied)
      BY <1>1, <1>2
    <3>2. f[s.applied] = s
      BY <1>2, <3>1 DEF Step
    <3>3. Right(s.applied)
      BY <1>2, <3>2
    <3>4. QED BY <2>3, <3>3
  <2>5. k - 1 \in s.applied .. Last /\ k - 1 < k /\ k \in 1 .. Last /\ k \in Nat /\ ~ (k <= s.applied)
    BY <1>2, <2>3, <2>4
  <2>6. Right(k - 1)
    BY <2>3, <2>5
  <2>7. f[k] = Apply(f[k - 1], binlog[k], k)
    <3>1. k \in 0 .. Last
      BY <2>5
    <3>2. f[k] = Step(s, binlog, f, k)
      BY <1>1, <3>1
    <3>3. QED BY <2>5, <3>2 DEF Step
  <2>8. H[k] = After(H[k - 1], binlog[k], k)
    BY <2>5 DEF HistoryOf
  <2> HIDE DEF s
  <2>9. binlog[k] \in Secret
    BY <1>2, <2>5
  <2>10. /\ Apply(f[k - 1], binlog[k], k) \in Server /\ Apply(f[k - 1], binlog[k], k).applied = k
         /\ Apply(f[k - 1], binlog[k], k).root = After(f[k - 1].root, binlog[k], k)
    BY <2>5, <2>6, <2>9, ApplyType
  <2>11. Right(k)
    BY <2>6, <2>7, <2>8, <2>10
  <2>12. QED BY <2>3, <2>11
<1>4. Last \in s.applied .. Last
  BY <1>2
<1>5. Right(Last)
  BY <1>3, <1>4
<1>6. QED BY <1>1, <1>5

-----------------------------------------------------------------------------
(* Types are kept. *)

LEMMA TypeInit == Init => TypeOK
<1> SUFFICES ASSUME Init PROVE TypeOK
  OBVIOUS
<1>1. PICK p \in Password :
        LET account == [now |-> p, salt |-> 0, old |-> None]
        IN  /\ server = [n \in Node |-> [root |-> account, gr |-> account, applied |-> 0, channel |-> p]]
            /\ disk = [n \in Node |-> [Empty EXCEPT !.pin = p]]
            /\ synced = disk
            /\ proc = [n \in Node |-> [pc |-> "joined", env |-> p, boot |-> p, pool |-> p, resolved |-> TRUE]]
            /\ coord = [phase |-> "idle", target |-> p, previous |-> p, acked |-> {}, leader |-> None,
                        turned |-> FALSE]
            /\ variable = p
            /\ spent = [used |-> {p}, trouble |-> 0]
  BY DEF Init
<1>2. server \in [Node -> Server] /\ disk \in [Node -> Volume] /\ synced \in [Node -> Volume]
  <2>1. 0 \in Int /\ 0 \in Nat
    OBVIOUS
  <2>2. [now |-> p, salt |-> 0, old |-> None] \in Account
    BY <2>1 DEF Account, Secret
  <2>3. [Empty EXCEPT !.pin = p] \in Volume
    BY <2>1 DEF Volume, Staging, Empty, NotStaged, Unread, Secret
  <2>4. QED BY <1>1, <2>1, <2>2, <2>3 DEF Server, Secret
<1>3. proc \in [Node -> Wrapper] /\ coord \in Rotation
  BY <1>1 DEF Wrapper, Rotation, Secret
<1>4. binlog \in Seq(Secret) /\ primary \in Node
  BY DEF Init
<1>5. variable \in Password /\ spent \in [used : SUBSET Password, trouble : Nat]
  BY <1>1
<1>6. QED BY <1>2, <1>3, <1>4, <1>5 DEF TypeOK

\* A rotation that keeps what the requests do not change.
LEMMA AnswersType ==
    ASSUME TypeOK, NEW n \in Node, Answers(n) \/ CutShort
    PROVE  coord' \in Rotation /\ spent' \in [used : SUBSET Password, trouble : Nat]
<1>1. coord \in Rotation /\ spent \in [used : SUBSET Password, trouble : Nat]
  BY DEF TypeOK
<1>2. CASE coord' = [coord EXCEPT !.acked = coord.acked \cup {n}] /\ UNCHANGED spent
  BY <1>1, <1>2 DEF Rotation
<1>3. CASE \E what : Happens(what) /\ UNCHANGED coord
  BY <1>1, <1>3 DEF Happens
<1>4. QED BY <1>2, <1>3 DEF Answers, CutShort

LEMMA ExecuteType ==
    ASSUME TypeOK, NEW n \in Node, NEW e \in Secret, Execute(n, e)
    PROVE  server' \in [Node -> Server] /\ binlog' \in Seq(Secret)
<1>1. Len(binlog) + 1 \in Nat /\ server[n] \in Server
  BY DEF TypeOK
<1>2. Apply(server[n], e, Len(binlog) + 1) \in Server
  BY <1>1, ApplyType
<1>3. QED BY <1>2 DEF Execute, TypeOK

LEMMA AdoptType ==
    ASSUME TypeOK, NEW n \in Node, NEW p \in Secret, NEW steps, Adopt(n, p, steps)
    PROVE  proc' \in [Node -> Wrapper] /\ server' \in [Node -> Server] /\ disk' \in [Node -> Volume]
<1>1. proc' \in [Node -> Wrapper]
  <2>1. proc \in [Node -> Wrapper] /\ proc' = [proc EXCEPT ![n].pool = p]
    BY DEF Adopt, Swap, TypeOK
  <2>2. [proc[n] EXCEPT !.pool = p] \in Wrapper
    BY <2>1 DEF Wrapper
  <2>3. QED BY <2>1, <2>2
<1>2. server' \in [Node -> Server]
  <2>1. server \in [Node -> Server] /\ (server' = server \/ server' = [server EXCEPT ![n].channel = p])
    BY DEF Adopt, TypeOK
  <2>2. [server[n] EXCEPT !.channel = p] \in Server
    BY <2>1 DEF Server
  <2>3. QED BY <2>1, <2>2
<1>3. disk' \in [Node -> Volume]
  <2>1. disk \in [Node -> Volume] /\ (disk' = disk \/ disk' = [disk EXCEPT ![n].pin = p])
    BY DEF Adopt, TypeOK
  <2>2. [disk[n] EXCEPT !.pin = p] \in Volume
    BY <2>1 DEF Volume
  <2>3. QED BY <2>1, <2>2
<1>4. QED BY <1>1, <1>2, <1>3

LEMMA ServesType ==
    ASSUME TypeOK, NEW n \in Node, Serves(n) PROVE TypeOK'
<1>1. coord \in Rotation /\ coord.target \in Secret /\ None \in Secret
  BY DEF TypeOK, Rotation, Secret
<1>2. CASE Prepare(n)
  <2>1. coord' \in Rotation /\ spent' \in [used : SUBSET Password, trouble : Nat]
    BY <1>2, AnswersType DEF Prepare
  <2>2. PICK staged \in Staging : Stage(n, staged)
    <3>1. disk[n].pending \in Staging
      BY DEF TypeOK, Volume
    <3>2. [to |-> coord.target, before |-> Verifiers(server[n])] \in Staging
      BY <1>1 DEF TypeOK, Server, Account, Verifiers, Staging
    <3>3. QED BY <1>2, <3>1, <3>2 DEF Prepare
  <2>3. disk' \in [Node -> Volume]
    <3>1. disk \in [Node -> Volume] /\ disk' = [disk EXCEPT ![n].pending = staged]
      BY <2>2 DEF Stage, TypeOK
    <3>2. [disk[n] EXCEPT !.pending = staged] \in Volume
      BY <3>1 DEF Volume
    <3>3. QED BY <3>1, <3>2
  <2>4. synced' \in [Node -> Volume]
    <3>1. synced \in [Node -> Volume] /\ synced' = [synced EXCEPT ![n] = disk'[n]]
      BY <2>2 DEF Stage, TypeOK
    <3>2. QED BY <2>3, <3>1
  <2>5. QED BY <1>2, <2>1, <2>3, <2>4 DEF Prepare, TypeOK
<1>3. CASE Database(n)
  <2>1. coord' \in Rotation /\ spent' \in [used : SUBSET Password, trouble : Nat]
    BY <1>3, AnswersType DEF Database
  <2>2. server' \in [Node -> Server] /\ binlog' \in Seq(Secret)
    BY <1>1, <1>3, ExecuteType DEF Database, TypeOK
  <2>3. proc' \in [Node -> Wrapper]
    <3>1. proc \in [Node -> Wrapper] /\ (proc' = proc \/ proc' = [proc EXCEPT ![n].pool = coord.target])
      BY <1>3 DEF Database, Swap, TypeOK
    <3>2. [proc[n] EXCEPT !.pool = coord.target] \in Wrapper
      BY <1>1, <3>1 DEF Wrapper
    <3>3. QED BY <3>1, <3>2
  <2>4. QED BY <1>3, <2>1, <2>2, <2>3 DEF Database, TypeOK
<1>4. CASE Member(n)
  <2>1. coord' \in Rotation /\ spent' \in [used : SUBSET Password, trouble : Nat]
    BY <1>4, AnswersType DEF Member
  <2>2. PICK steps : Adopt(n, coord.target, steps)
    BY <1>4 DEF Member
  <2>3. proc' \in [Node -> Wrapper] /\ server' \in [Node -> Server] /\ disk' \in [Node -> Volume]
    BY <1>1, <2>2, AdoptType
  <2>4. QED BY <2>1, <2>2, <2>3 DEF Adopt, TypeOK
<1>5. CASE Finalize(n)
  <2>1. coord' \in Rotation /\ spent' \in [used : SUBSET Password, trouble : Nat]
    BY <1>5, AnswersType DEF Finalize
  <2>2. server' \in [Node -> Server] /\ binlog' \in Seq(Secret)
    BY <1>1, <1>5, ExecuteType DEF Finalize
  <2>3. QED BY <1>5, <2>1, <2>2 DEF Finalize, TypeOK
<1>6. CASE Verify(n)
  <2>1. coord' \in Rotation /\ spent' \in [used : SUBSET Password, trouble : Nat]
    BY <1>6, AnswersType DEF Verify
  <2>2. disk' \in [Node -> Volume]
    <3>1. disk \in [Node -> Volume] /\ disk' = [disk EXCEPT ![n].pending = NotStaged]
      BY <1>6 DEF Verify, TypeOK
    <3>2. [disk[n] EXCEPT !.pending = NotStaged] \in Volume
      BY <3>1 DEF Volume, Staging, NotStaged, Unread, Secret
    <3>3. QED BY <3>1, <3>2
  <2>3. QED BY <1>6, <2>1, <2>2 DEF Verify, TypeOK
<1>7. QED BY <1>2, <1>3, <1>4, <1>5, <1>6 DEF Serves

\* A snapshot on the volume and one on its durable copy leave one salt of the three.
LEMMA LocalSaltType == ASSUME NEW n \in Node PROVE LocalSalt(n) \in Int
<1> DEFINE x == disk[n].pending.before.gr
           y == synced[n].pending.before.gr
<1>1. \E i \in -3 .. -1 : i \notin {x, y}
  <2>1. -3 \in -3 .. -1 /\ -2 \in -3 .. -1 /\ -1 \in -3 .. -1
    OBVIOUS
  <2>2. -3 # -2 /\ -3 # -1 /\ -2 # -1
    OBVIOUS
  <2> HIDE DEF x, y
  <2>3. QED BY <2>1, <2>2
<1>2. LocalSalt(n) \in -3 .. -1
  BY <1>1 DEF LocalSalt
<1>3. QED BY <1>2

LEMMA KeepsType ==
    ASSUME TypeOK, NEW n \in Node, Keeps(n) PROVE TypeOK'
<1>1. CASE Replicate(n)
  <2>1. server[n].applied + 1 \in 1 .. Len(binlog) /\ server[n].applied + 1 \in Nat
    BY <1>1 DEF Replicate, Behind, TypeOK, Server
  <2>2. Apply(server[n], binlog[server[n].applied + 1], server[n].applied + 1) \in Server
    <3>1. binlog[server[n].applied + 1] \in Secret /\ server[n] \in Server
      BY <2>1 DEF TypeOK
    <3>2. QED BY <2>1, <3>1, ApplyType
  <2>3. QED BY <1>1, <2>2 DEF Replicate, TypeOK
<1>2. CASE Start(n)
  <2>1. PICK p \in Secret : proc' = [proc EXCEPT ![n] = [pc |-> "booted", env |-> variable, boot |-> p,
                                                         pool |-> p, resolved |-> FALSE]]
    BY <1>2 DEF Start, TypeOK, Volume, Secret
  <2>2. [pc |-> "booted", env |-> variable, boot |-> p, pool |-> p, resolved |-> FALSE] \in Wrapper
    BY DEF TypeOK, Wrapper, Secret
  <2>3. proc' \in [Node -> Wrapper]
    BY <2>1, <2>2 DEF TypeOK
  <2>4. QED BY <1>2, <2>3 DEF Start, TypeOK
<1>3. CASE Resolve(n)
  <2>1. PICK i \in 1 .. 3 :
          /\ disk' = [disk EXCEPT ![n].pin = Choices(n)[i]]
          /\ proc' = [proc EXCEPT ![n].resolved = TRUE,
                                  ![n].pool = IF Choices(n)[i] # proc[n].boot THEN Choices(n)[i]
                                              ELSE proc[n].pool]
    BY <1>3 DEF Resolve
  <2> DEFINE p == Choices(n)[i]
  <2>2. p \in Secret /\ disk[n] \in Volume /\ proc[n] \in Wrapper
    BY DEF Choices, TypeOK, Volume, Staging, Wrapper
  <2> HIDE DEF p
  <2>3. [disk[n] EXCEPT !.pin = p] \in Volume
    BY <2>2 DEF Volume
  <2>4. PICK q \in Secret : proc' = [proc EXCEPT ![n] = [proc[n] EXCEPT !.resolved = TRUE, !.pool = q]]
    <3> DEFINE q == IF p # proc[n].boot THEN p ELSE proc[n].pool
    <3>1. q \in Secret
      BY <2>2 DEF Wrapper
    <3>2. proc' = [proc EXCEPT ![n] = [proc[n] EXCEPT !.resolved = TRUE, !.pool = q]]
      BY <2>1 DEF p, TypeOK
    <3>3. QED BY <3>1, <3>2
  <2>5. [proc[n] EXCEPT !.resolved = TRUE, !.pool = q] \in Wrapper
    BY <2>2 DEF Wrapper
  <2>6. disk' \in [Node -> Volume] /\ proc' \in [Node -> Wrapper]
    BY <2>1, <2>3, <2>4, <2>5 DEF TypeOK, p
  <2>7. QED BY <1>3, <2>6 DEF Resolve, TypeOK
<1>4. CASE FallBack(n)
  <2>1. disk[n].pending.to \in Secret /\ proc[n] \in Wrapper
    BY DEF TypeOK, Volume, Staging
  <2>2. [proc[n] EXCEPT !.pool = disk[n].pending.to] \in Wrapper
    BY <2>1 DEF Wrapper
  <2>3. QED BY <1>4, <2>2 DEF FallBack, Swap, TypeOK
<1>5. CASE EnsureRecovery(n)
  <2>1. proc[n].boot \in Secret /\ proc[n] \in Wrapper /\ server[n] \in Server
    BY DEF TypeOK, Wrapper
  <2>2. [proc[n] EXCEPT !.pc = "ready"] \in Wrapper
    BY <2>1 DEF Wrapper
  <2> DEFINE gr == [now |-> proc[n].boot, salt |-> LocalSalt(n), old |-> server[n].gr.old]
  <2>3. gr \in Account
    BY <2>1, LocalSaltType DEF Server, Account
  <2>4. /\ server' = [server EXCEPT ![n] = [server[n] EXCEPT !.channel = proc[n].boot, !.gr = gr]]
        /\ proc' = [proc EXCEPT ![n] = [proc[n] EXCEPT !.pc = "ready"]]
    BY <1>5 DEF EnsureRecovery, TypeOK
  <2>6. [server[n] EXCEPT !.channel = proc[n].boot, !.gr = gr] \in Server
    <3> HIDE DEF gr
    <3>1. QED BY <2>1, <2>3 DEF Server
  <2> HIDE DEF gr
  <2>7. server' \in [Node -> Server] /\ proc' \in [Node -> Wrapper]
    BY <2>2, <2>4, <2>6 DEF TypeOK
  <2>5. QED BY <1>5, <2>7 DEF EnsureRecovery, TypeOK
<1>6. CASE Join(n)
  <2>1. [proc[n] EXCEPT !.pc = "joined"] \in Wrapper
    BY DEF TypeOK, Wrapper
  <2>2. QED BY <1>6, <2>1 DEF Join, TypeOK
<1>7. QED BY <1>1, <1>2, <1>3, <1>4, <1>5, <1>6 DEF Keeps

LEMMA PlatformType ==
    ASSUME TypeOK, (\E p \in Password : Begin(p)) \/ NextPhase \/ LearnLeader \/ Rollback \/ Edit
    PROVE  TypeOK'
<1>1. coord \in Rotation /\ spent \in [used : SUBSET Password, trouble : Nat] /\ primary \in Node
  BY DEF TypeOK
<1>2. ASSUME NEW p \in Password, Begin(p) PROVE TypeOK'
  <2>1. coord' \in Rotation /\ spent' \in [used : SUBSET Password, trouble : Nat]
    BY <1>1, <1>2 DEF Begin, Rotation
  <2>2. QED BY <1>2, <2>1 DEF Begin, TypeOK
<1>3. CASE NextPhase
  <2> DEFINE i == CHOOSE k \in 1 .. 4 : Phase[k] = coord.phase
             next == IF coord.phase = "verify" THEN "idle" ELSE Phase[i + 1]
  <2>1. coord.phase # "verify" => i \in 1 .. 4
    <3>1. coord.phase # "verify" => \E k \in 1 .. 4 : Phase[k] = coord.phase
      BY <1>1, <1>3 DEF NextPhase, Rotation, Phase
    <3>2. QED BY <3>1
  <2>2. next \in {"idle", "prepare", "database", "member", "finalize", "verify"}
    <3> HIDE DEF i
    <3>1. QED BY <2>1 DEF Phase
  <2>3. coord' = [coord EXCEPT !.acked = {}, !.phase = next]
    BY <1>3 DEF NextPhase
  <2> HIDE DEF next
  <2>4. coord' \in Rotation
    <3>1. \A q \in {"idle", "prepare", "database", "member", "finalize", "verify"} :
            [coord EXCEPT !.acked = {}, !.phase = q] \in Rotation
      BY <1>1 DEF Rotation
    <3>2. QED BY <2>2, <2>3, <3>1
  <2>5. QED BY <1>3, <2>4 DEF NextPhase, TypeOK
<1>4. CASE LearnLeader
  <2>1. coord' \in Rotation
    BY <1>1, <1>4 DEF LearnLeader, Rotation
  <2>2. QED BY <1>4, <2>1 DEF LearnLeader, TypeOK
<1>5. CASE Rollback
  <2>1. coord' \in Rotation /\ spent' \in [used : SUBSET Password, trouble : Nat]
    <3>1. coord' \in Rotation
      BY <1>1, <1>5 DEF Rollback, Rotation
    <3>2. spent' = [spent EXCEPT !.trouble = spent.trouble + 1]
      BY <1>5 DEF Rollback, Happens
    <3>3. QED BY <1>1, <3>1, <3>2
  <2>2. QED BY <1>5, <2>1 DEF Rollback, TypeOK
<1>6. CASE Edit
  BY <1>1, <1>6 DEF Edit, Happens, TypeOK
<1>7. QED BY <1>2, <1>3, <1>4, <1>5, <1>6

LEMMA RotationType == TypeOK /\ None \notin Password => Target \in Password /\ Previous \in Password
BY DEF TypeOK, Rotation, Target, Previous

-----------------------------------------------------------------------------
(* What the steps leave as it was. *)

SameRotation ==
    /\ coord'.phase = coord.phase /\ coord'.target = coord.target
    /\ coord'.previous = coord.previous /\ coord'.turned = coord.turned

SameCoord == SameRotation /\ coord'.acked = coord.acked

\* Members that come through more of the same history, and volumes that fall back on what
\* was durable.
LEMMA Moved ==
    ASSUME TypeOK, TypeOK', NEW H, StateOf(H), binlog' = binlog, SameCoord,
           spent'.used = spent.used,
           \A n \in Node : /\ server'[n].applied \in Backlog(n)
                           /\ server'[n].root = H[server'[n].applied],
           server'[primary'].applied = Last,
           \A n \in Node : Joined(n)' => Joined(primary)',
           \A n \in Node : Volumes(n)' \subseteq Volumes(n)
    PROVE  StateOf(H)'
<1>0. HistoryOf(H) /\ ServersOf(H)
  BY DEF StateOf, RotationOf, UnmadeOf
<1>1. Last' = Last /\ Target' = Target /\ Previous' = Previous /\ Found' = Found /\ Last \in Nat
  BY DEF Last, Target, Previous, Found, SameCoord, SameRotation, TypeOK
<1>2. \A n \in Node : Backlog(n)' \subseteq Backlog(n)
  <2> SUFFICES ASSUME NEW n \in Node PROVE Backlog(n)' \subseteq Backlog(n)
    OBVIOUS
  <2>1. server[n].applied \in Nat /\ server'[n].applied \in Nat
    BY DEF TypeOK, Server
  <2>2. server'[n].applied \in server[n].applied .. Last
    BY DEF Backlog
  <2>3. QED BY <1>1, <2>1, <2>2 DEF Backlog
<1>3. Window' \subseteq Window
  BY <1>2 DEF Window
<1>4. coord'.acked \subseteq Node /\ coord.acked \subseteq Node
  BY DEF TypeOK, Rotation
<1>5. HistoryOf(H)'
  BY <1>0, <1>1 DEF HistoryOf
<1>6. ServersOf(H)'
  <2>1. \A n \in Node : server'[n].applied <= Last
    BY <1>1 DEF Backlog, TypeOK, Server
  <2>2. QED BY <1>1, <2>1 DEF ServersOf
<1>7. CASE UnmadeOf(H)
  BY <1>1, <1>3, <1>5, <1>6, <1>7 DEF StateOf, UnmadeOf, SameCoord, SameRotation
<1>8. CASE RotationOf(H)
  <2> USE <1>8 DEF RotationOf
  <2>1. AccountsOf(H)'
    <3>1. coord.phase = "prepare" \/ (coord.phase = "database" /\ H[Last].now # Target) =>
            \A n \in Node : server'[n].applied = Last
      <4> SUFFICES ASSUME coord.phase = "prepare" \/ (coord.phase = "database" /\ H[Last].now # Target),
                          NEW n \in Node
                   PROVE  server'[n].applied = Last
        OBVIOUS
      <4>1. server[n].applied = Last /\ server'[n].applied \in server[n].applied .. Last
        BY DEF AccountsOf, FoundAccounts, Backlog
      <4>2. QED BY <1>1, <4>1
    <3>2. FoundAccounts(H)'
      BY <1>1, <3>1 DEF AccountsOf, FoundAccounts, SameCoord, SameRotation
    <3>3. PastAccounts(H)' /\ ChangingAccounts(H)' /\ ChangedAccounts(H)' /\ InOrder(H)'
      BY <1>1, <1>3 DEF AccountsOf, PastAccounts, ChangingAccounts, ChangedAccounts, InOrder,
            SameCoord, SameRotation
    <3>4. Acknowledged(H)'
      BY <1>1, <1>2, <1>4 DEF AccountsOf, Acknowledged, SameCoord, SameRotation
    <3>5. QED BY <3>2, <3>3, <3>4 DEF AccountsOf
  <2>2. SnapshotsOf(H)'
    BY <1>1 DEF SnapshotsOf, SameCoord, SameRotation
  <2>3. SafeOf(H)'
    BY <1>2 DEF SafeOf
  <2>4. Staged'
    BY <1>1, <1>4 DEF Staged, Ready, SameCoord, SameRotation
  <2>5. Used'
    BY <1>1 DEF Used, SameCoord, SameRotation
  <2>6. QED BY <1>5, <1>6, <2>1, <2>2, <2>3, <2>4, <2>5 DEF StateOf
<1>9. QED BY <1>7, <1>8 DEF StateOf

\* A step that leaves the servers' accounts and the volumes alone.
LEMMA Untouched ==
    ASSUME TypeOK, TypeOK', NEW H, StateOf(H), binlog' = binlog, SameCoord,
           spent'.used = spent.used, primary' = primary, disk' = disk, synced' = synced,
           \A n \in Node : server'[n].applied = server[n].applied /\ server'[n].root = server[n].root,
           \A n \in Node : Joined(n)' => Joined(primary)'
    PROVE  StateOf(H)'
<1>1. \A n \in Node : /\ server'[n].applied \in Backlog(n)
                      /\ server'[n].root = H[server'[n].applied]
  <2> SUFFICES ASSUME NEW n \in Node
               PROVE  server'[n].applied \in Backlog(n) /\ server'[n].root = H[server'[n].applied]
    OBVIOUS
  <2>1. server[n].applied \in Nat /\ Last \in Nat /\ server[n].applied <= Last
    BY DEF TypeOK, Server, Last, StateOf, RotationOf, UnmadeOf, ServersOf
  <2>2. QED BY <2>1 DEF Backlog, StateOf, RotationOf, UnmadeOf, ServersOf
<1>2. server'[primary'].applied = Last
  BY DEF StateOf, RotationOf, UnmadeOf, ServersOf, TypeOK
<1>3. \A n \in Node : Volumes(n)' \subseteq Volumes(n)
  BY DEF Volumes
<1>4. QED BY <1>1, <1>2, <1>3, Moved

-----------------------------------------------------------------------------
(* Steps of the members alone. *)

LEMMA KeepsSafe ==
    ASSUME TypeOK, TypeOK', NEW H, StateOf(H), NEW n \in Node, Keeps(n), ~ Resolve(n)
    PROVE  StateOf(H)'
<1>1. ServersOf(H) /\ HistoryOf(H) /\ \A m \in Node : server[m].applied \in Nat
  BY DEF StateOf, RotationOf, UnmadeOf, TypeOK, Server
<1>2. SameCoord /\ spent' = spent /\ primary' = primary /\ disk' = disk /\ synced' = synced
      /\ binlog' = binlog
  BY DEF Keeps, Replicate, Start, Resolve, FallBack, EnsureRecovery, Join, Swap, SameCoord, SameRotation
<1>3. \A m \in Node : Joined(m)' => Joined(primary)'
  <2>1. primary \in Node /\ proc \in [Node -> Wrapper] /\ \A m \in Node : Joined(m) => Joined(primary)
    BY <1>1 DEF ServersOf, TypeOK
  <2>2. CASE Replicate(n)
    BY <1>2, <2>1, <2>2 DEF Replicate, Joined
  <2>3. CASE Start(n)
    <3>1. ~ Joined(n) /\ ~ Joined(n)' /\ \A m \in Node \ {n} : proc'[m] = proc[m]
      BY <2>1, <2>3 DEF Start, Joined
    <3>2. QED BY <1>2, <2>1, <3>1 DEF Joined
  <2>4. CASE FallBack(n)
    <3>1. \A m \in Node : proc'[m].pc = proc[m].pc
      BY <2>1, <2>4 DEF FallBack, Swap, Wrapper
    <3>2. QED BY <1>2, <2>1, <3>1 DEF Joined
  <2>5. CASE EnsureRecovery(n)
    <3>1. ~ Joined(n) /\ ~ Joined(n)' /\ \A m \in Node \ {n} : proc'[m] = proc[m]
      BY <2>1, <2>5 DEF EnsureRecovery, Joined, Wrapper
    <3>2. QED BY <1>2, <2>1, <3>1 DEF Joined
  <2>6. CASE Join(n)
    <3>1. proc'[n].pc = "joined" /\ \A m \in Node \ {n} : proc'[m] = proc[m]
      BY <2>1, <2>6 DEF Join, Wrapper
    <3>2. n = primary \/ \E m \in Node : Joined(m)
      BY <2>6 DEF Join, Admitted
    <3>3. n = primary \/ Joined(primary)
      BY <2>1, <3>2
    <3>4. QED BY <1>2, <2>1, <3>1, <3>3 DEF Joined
  <2>7. QED BY <2>2, <2>3, <2>4, <2>5, <2>6 DEF Keeps
<1>4. CASE Replicate(n)
  <2> DEFINE i == server[n].applied + 1
  <2>1. Last \in Nat /\ server[n].applied <= Last /\ server[n].applied # Last /\ server[n].applied \in Nat
    BY <1>1, <1>4 DEF Replicate, Behind, ServersOf, Last, TypeOK
  <2>2. i \in 1 .. Last /\ i \in Nat /\ i \in Backlog(n) /\ i - 1 = server[n].applied
    BY <2>1 DEF Backlog
  <2>3. server' = [server EXCEPT ![n] = Apply(server[n], binlog[i], i)]
    BY <1>4 DEF Replicate
  <2> HIDE DEF i
  <2>4. /\ Apply(server[n], binlog[i], i).applied = i
        /\ Apply(server[n], binlog[i], i).root = After(server[n].root, binlog[i], i)
    <3>1. binlog[i] \in Secret /\ server[n] \in Server
      BY <2>2 DEF TypeOK, Last
    <3>2. QED BY <2>2, <3>1, ApplyType
  <2>5. After(server[n].root, binlog[i], i) = H[i]
    BY <1>1, <2>2 DEF HistoryOf, ServersOf
  <2>6. server'[n].applied = i /\ server'[n].root = H[i] /\ \A m \in Node \ {n} : server'[m] = server[m]
    BY <2>3, <2>4, <2>5 DEF TypeOK
  <2>7. \A m \in Node : server'[m].applied \in Backlog(m) /\ server'[m].root = H[server'[m].applied]
    <3>1. \A m \in Node \ {n} : /\ server'[m].applied \in Backlog(m)
                               /\ server'[m].root = H[server'[m].applied]
      <4>1. \A m \in Node : server[m].applied \in Backlog(m)
        BY <1>1, <2>1 DEF ServersOf, Backlog
      <4>2. \A m \in Node : server[m].root = H[server[m].applied]
        BY <1>1 DEF ServersOf
      <4>3. QED BY <2>6, <4>1, <4>2
    <3>2. server'[n].applied \in Backlog(n) /\ server'[n].root = H[server'[n].applied]
      BY <2>2, <2>6
    <3>3. QED BY <3>1, <3>2
  <2>8. n # primary
    BY <1>1, <2>1 DEF ServersOf
  <2>9. server'[primary'].applied = Last
    BY <1>1, <1>2, <2>6, <2>8 DEF ServersOf, TypeOK
  <2>10. QED BY <1>2, <1>3, <2>7, <2>9, Moved DEF Volumes
<1>5. CASE ~ Replicate(n)
  <2>1. \A m \in Node : server'[m].applied = server[m].applied /\ server'[m].root = server[m].root
    BY <1>5 DEF Keeps, Start, FallBack, EnsureRecovery, Join, TypeOK, Server
  <2>2. QED BY <1>2, <1>3, <2>1, Untouched
<1>6. QED BY <1>4, <1>5

LEMMA CrashSafe ==
    ASSUME TypeOK, TypeOK', NEW H, StateOf(H),
           Failover \/ \E n \in Node : Crash(n)
    PROVE  StateOf(H)'
<1>1. ServersOf(H) /\ HistoryOf(H) /\ Last \in Nat /\ \A m \in Node : server[m].applied \in Nat
  BY DEF StateOf, RotationOf, UnmadeOf, TypeOK, Server, Last
<1>2. SameCoord /\ spent'.used = spent.used /\ binlog' = binlog /\ synced' = synced
  BY DEF Failover, Crash, Happens, SameCoord, SameRotation, TypeOK
<1>3. \A m \in Node : Volumes(m)' \subseteq Volumes(m)
  BY <1>2 DEF Failover, Crash, Volumes, TypeOK
<1>4. \A m \in Node : server[m].applied \in Backlog(m) /\ server[m].root = H[server[m].applied]
  BY <1>1 DEF ServersOf, Backlog
<1>5. ASSUME NEW k \in Node, Moves(k)
      PROVE  /\ primary' \in Node \ {k} /\ Joined(primary')
             /\ server'[primary'].applied = Last
             /\ \A m \in Node : server'[m].applied \in Backlog(m) /\ server'[m].root = H[server'[m].applied]
  <2>1. PICK m \in Node \ {k} : Joined(m) /\ primary' = m /\ server' = [server EXCEPT ![m] = Promoted(m)]
    BY <1>5 DEF Moves
  <2>2. Promoted(m).applied = Last /\ Promoted(m).root = H[Last]
    BY <1>1, PromotedOf DEF ServersOf
  <2>3. Last \in Backlog(m)
    BY <1>1 DEF ServersOf, Backlog
  <2>4. QED BY <1>4, <2>1, <2>2, <2>3 DEF TypeOK
<1>6. CASE Failover
  <2>1. Moves(primary) /\ primary \in Node /\ proc' = proc
    BY <1>6 DEF Failover, TypeOK
  <2>2. Joined(primary)'
    BY <1>5, <2>1 DEF Joined
  <2>3. QED BY <1>2, <1>3, <1>5, <2>1, <2>2, Moved
<1>7. ASSUME NEW n \in Node, Crash(n) PROVE StateOf(H)'
  <2>1. proc' = [proc EXCEPT ![n] = Gone] /\ proc \in [Node -> Wrapper]
    BY <1>7 DEF Crash, TypeOK
  <2>2. \A m \in Node : Joined(m)' <=> Joined(m) /\ m # n
    BY <2>1 DEF Joined, Gone
  <2>3. CASE n = primary /\ \E m \in Node \ {n} : Joined(m)
    <3>1. Moves(n)
      BY <1>7, <2>3 DEF Crash
    <3>2. Joined(primary)'
      BY <1>5, <2>2, <3>1 DEF Joined
    <3>3. QED BY <1>2, <1>3, <1>5, <3>1, <3>2, Moved
  <2>4. CASE ~ (n = primary /\ \E m \in Node \ {n} : Joined(m))
    <3>1. primary' = primary /\ server' = server
      BY <1>7, <2>4 DEF Crash
    <3>2. \A m \in Node : Joined(m)' => Joined(primary)'
      <4>1. \A m \in Node : Joined(m) => Joined(primary)
        BY <1>1 DEF ServersOf
      <4>2. primary \in Node /\ \A m \in Node : proc'[m].pc = "joined" <=> Joined(m) /\ m # n
        BY <2>2 DEF Joined, TypeOK
      <4>3. \A m \in Node : proc'[m].pc = "joined" => proc'[primary].pc = "joined"
        BY <2>4, <4>1, <4>2
      <4>4. QED BY <3>1, <4>3 DEF Joined
    <3>3. QED BY <1>1, <1>2, <1>3, <1>4, <3>1, <3>2, Moved DEF ServersOf
  <2>5. QED BY <2>3, <2>4
<1>8. QED BY <1>6, <1>7

LEMMA CloneSafe ==
    ASSUME Orderly, TypeOK, TypeOK', NEW H, RotationOf(H), NEW n \in Node, Clone(n)
    PROVE  RotationOf(H)'
<1> USE DEF RotationOf
<1>1. PICK m \in Node \ {n} :
          /\ Joined(m)
          /\ server' = [server EXCEPT ![n] = [server[m] EXCEPT !.channel = server[n].channel]]
  BY DEF Clone
<1>2. /\ coord.phase = "idle" /\ ~ Joined(n) /\ binlog' = binlog /\ proc' = proc
      /\ primary' = primary /\ coord' = coord /\ spent'.used = spent.used
      /\ disk' = [disk EXCEPT ![n] = Empty] /\ synced' = [synced EXCEPT ![n] = Empty]
  BY DEF Clone, Orderly, Happens, Joined, TypeOK
<1>3. Last' = Last /\ Target' = Target /\ Previous' = Previous /\ Last \in Nat
  BY <1>2 DEF Last, Target, Previous, TypeOK
<1>4. /\ server'[n].applied = server[m].applied /\ server'[n].root = server[m].root
      /\ \A k \in Node \ {n} : server'[k] = server[k]
  BY <1>1 DEF TypeOK, Server
<1>5. Backlog(n)' = Backlog(m) /\ \A k \in Node \ {n} : Backlog(k)' = Backlog(k)
  BY <1>3, <1>4 DEF Backlog
<1>6. Window' \subseteq Window
  BY <1>5 DEF Window
<1>7. \A k \in Node : Volumes(k)' = IF k = n THEN {Empty} ELSE Volumes(k)
  BY <1>2 DEF Volumes, TypeOK
<1>8. Empty.pin = None /\ Empty.pending.to = None /\ Empty.pending.before.root = 0
  BY DEF Empty, NotStaged, Unread
<1>9. HistoryOf(H)'
  BY <1>2, <1>3 DEF HistoryOf
<1>10. ServersOf(H)'
  <2>1. Joined(primary) /\ primary # n
    BY <1>1, <1>2 DEF ServersOf
  <2>2. \A k \in Node : server'[k].applied <= Last /\ server'[k].root = H[server'[k].applied]
    BY <1>4 DEF ServersOf
  <2>3. server'[primary].applied = Last
    BY <1>4, <2>1 DEF ServersOf, TypeOK
  <2>4. QED BY <1>2, <1>3, <2>1, <2>2, <2>3 DEF ServersOf, Joined
<1>11. AccountsOf(H)'
  BY <1>2, <1>3, <1>6 DEF AccountsOf, PastAccounts, FoundAccounts, ChangingAccounts, ChangedAccounts,
        InOrder, Acknowledged, Rotating
<1>12. SnapshotsOf(H)'
  BY <1>2, <1>3, <1>7, <1>8 DEF SnapshotsOf
<1>13. SafeOf(H)'
  BY <1>5, <1>7, <1>8 DEF SafeOf
<1>14. Staged'
  BY <1>2 DEF Staged, Rotating
<1>15. Used'
  BY <1>2, <1>3, <1>7, <1>8 DEF Used
<1>16. QED BY <1>9, <1>10, <1>11, <1>12, <1>13, <1>14, <1>15

-----------------------------------------------------------------------------
(* The pin: whatever a member adopts gets it through its backlog. *)

LEMMA BacklogFacts ==
    ASSUME TypeOK, NEW H, RotationOf(H), NEW n \in Node
    PROVE  /\ Last \in Nat /\ server[n].applied \in Backlog(n) /\ server[n].root = H[server[n].applied]
           /\ Backlog(n) \subseteq Window /\ Last \in Backlog(n)
           /\ \A i \in Backlog(n) : server[n].applied <= i
           /\ coord.phase = "prepare" => Backlog(n) = {Last} /\ server[n].root = H[Last]
<1>1. Last \in Nat /\ server[n].applied \in Nat /\ server[n].applied <= Last
  BY DEF TypeOK, Server, Last, RotationOf, ServersOf
<1>2. coord.phase = "prepare" => server[n].applied = Last
  BY DEF RotationOf, AccountsOf, FoundAccounts
<1>3. QED BY <1>1, <1>2 DEF Backlog, Window, RotationOf, ServersOf

LEMMA AcceptedIsUsed ==
    ASSUME TypeOK, NEW H, RotationOf(H), NEW n \in Node, NEW p, Accepts(H[server[n].applied], p)
    PROVE  /\ p \in {Target, Previous} /\ p \in spent.used /\ p \in Password
           /\ coord.phase = "idle" => p = Target
           /\ coord.phase = "prepare" /\ ~ coord.turned => p = Previous
<1>1. server[n].applied \in Window /\ (coord.phase = "prepare" => server[n].applied = Last)
  BY BacklogFacts DEF RotationOf, AccountsOf, FoundAccounts
<1>2. Target \in spent.used /\ Previous \in spent.used /\ Target \in Password /\ Previous \in Password
  BY RotationType DEF RotationOf, Used
<1> DEFINE a == H[server[n].applied]
<1>3. /\ Only(a, Target) \/ Only(a, Previous) \/ Both(a, Target, Previous) \/ Both(a, Previous, Target)
      /\ coord.phase = "idle" => Only(a, Target)
      /\ coord.phase = "prepare" /\ ~ coord.turned => Only(a, Previous)
  <2>1. coord.phase \in {"idle", "prepare", "database", "member", "finalize", "verify"}
    BY DEF TypeOK, Rotation
  <2>2. QED BY <1>1, <2>1 DEF RotationOf, AccountsOf, PastAccounts, FoundAccounts, ChangingAccounts,
               ChangedAccounts, Found
<1> HIDE DEF a
<1>4. QED BY <1>2, <1>3 DEF Accepts, Only, Both, a

LEMMA StaysAccepted ==
    ASSUME TypeOK, NEW H, RotationOf(H), NEW n \in Node, coord.phase \in Rotating,
           Accepts(H[server[n].applied], Target)
    PROVE  \A i \in Backlog(n) : Accepts(H[i], Target)
<1> SUFFICES ASSUME NEW i \in Backlog(n) PROVE Accepts(H[i], Target)
  OBVIOUS
<1>1. /\ Target # Previous /\ Target \in Password /\ Previous \in Password
      /\ server[n].applied \in Window /\ i \in Window /\ server[n].applied <= i
  BY BacklogFacts, RotationType DEF RotationOf, Used, Rotating
<1>2. Target # None
  BY <1>1
<1> DEFINE a == H[server[n].applied]
           b == H[i]
<1>3. a.now = Target => b.now = Target
  BY <1>1 DEF RotationOf, AccountsOf, InOrder
<1>4. CASE coord.phase \in {"database", "member"} /\ ~ coord.turned
  <2>1. Only(a, Previous) \/ Both(a, Target, Previous)
    BY <1>1, <1>4 DEF RotationOf, AccountsOf, ChangingAccounts, Found
  <2>2. a.now = Target
    BY <1>1, <1>2, <2>1 DEF Accepts, Only, Both
  <2>3. QED BY <1>2, <1>3, <2>2 DEF Accepts
<1>5. CASE coord.phase \in {"database", "member"} /\ coord.turned
  <2>1. Only(b, Target) \/ Both(b, Target, Previous) \/ Both(b, Previous, Target)
    BY <1>1, <1>5 DEF RotationOf, AccountsOf, ChangingAccounts, Found
  <2>2. QED BY <1>2, <2>1 DEF Accepts, Only, Both
<1>6. CASE coord.phase \in {"finalize", "verify"}
  <2>1. Only(b, Target) \/ Both(b, Target, Previous) \/ Both(b, Previous, Target)
    BY <1>1, <1>6 DEF RotationOf, AccountsOf, ChangedAccounts
  <2>2. QED BY <1>2, <2>1 DEF Accepts, Only, Both
<1>7. QED BY <1>4, <1>5, <1>6 DEF Rotating

\* What a member may pin: what its accounts accept now and what it has staged, has pinned,
\* is asked to move to, or finds in the environment without a pin.
LEMMA PinHolds ==
    ASSUME TypeOK, NEW H, RotationOf(H), NEW n \in Node, NEW p, Accepts(server[n].root, p),
           \/ p = disk[n].pending.to \/ p = disk[n].pin
           \/ coord.phase = "member" /\ p = Target
           \/ disk[n].pin = None
    PROVE  /\ \A i \in Backlog(n) : Accepts(H[i], p) \/ Accepts(H[i], disk[n].pending.to)
           /\ coord.phase = "prepare" /\ ~ coord.turned => p # Target
           /\ coord.phase = "verify" =>
                disk[n].pending.to = Target \/ (disk[n].pending.to = None /\ p = Target)
<1> DEFINE d == disk[n]
<1>1. /\ p \in {Target, Previous} /\ p # None
      /\ coord.phase = "idle" => p = Target
      /\ coord.phase = "prepare" /\ ~ coord.turned => p = Previous
  BY AcceptedIsUsed, BacklogFacts DEF Accepts
<1>2. coord.phase # "idle" => Target # Previous
  BY DEF RotationOf, Used
<1>3. d \in Volumes(n)
  BY DEF Volumes
<1>4. coord.phase = "verify" => d.pending.to = Target \/ (d.pending.to = None /\ p = Target)
  <2> SUFFICES ASSUME coord.phase = "verify", d.pending.to # Target
               PROVE  d.pending.to = None /\ p = Target
    OBVIOUS
  <2>1. d.pin # None /\ d.pending.to = None /\ d.pin = Target
    BY <1>3 DEF RotationOf, Staged
  <2>2. QED BY <1>1, <2>1
<1>5. ASSUME NEW i \in Backlog(n) PROVE Accepts(H[i], p) \/ Accepts(H[i], d.pending.to)
  <2>1. CASE p = d.pin
    BY <1>1, <1>3, <2>1 DEF RotationOf, SafeOf
  <2>2. CASE coord.phase = "idle"
    <3>1. Only(H[i], Target)
      BY <2>2, BacklogFacts DEF RotationOf, AccountsOf, PastAccounts
    <3>2. QED BY <1>1, <2>2, <3>1 DEF Only, Accepts
  <2>3. CASE coord.phase = "prepare"
    BY <2>3, BacklogFacts
  <2>4. CASE coord.phase \in Rotating /\ p # d.pin
    <3>1. p = Target
      <4>1. coord.phase \in Rotating \ {"verify"} => Ready(d)
        BY <1>3 DEF RotationOf, Staged
      <4>2. coord.phase = "verify" => d.pin # None /\ (d.pending.to \in {Target, None})
        BY <1>3 DEF RotationOf, Staged
      <4>3. QED BY <1>1, <2>4, <4>1, <4>2 DEF Ready
    <3>2. QED BY <2>4, <3>1, StaysAccepted, BacklogFacts
  <2>5. coord.phase \in {"idle", "prepare"} \cup Rotating
    BY DEF TypeOK, Rotation, Rotating
  <2>6. QED BY <2>1, <2>2, <2>3, <2>4, <2>5
<1>6. QED BY <1>1, <1>2, <1>4, <1>5

\* The acknowledgements a step may add.
Acks(H, n) ==
    \/ coord'.acked = coord.acked
    \/ /\ coord'.acked = coord.acked \cup {n}
       /\ coord.phase = "member" /\ \A i \in Backlog(n) : Accepts(H[i], Target)

LEMMA Pinned ==
    ASSUME TypeOK, TypeOK', NEW H, RotationOf(H), NEW n \in Node, NEW p \in spent.used, p # None,
           binlog' = binlog, SameRotation, Acks(H, n), spent'.used = spent.used,
           primary' = primary, synced' = synced, disk' = [disk EXCEPT ![n].pin = p],
           \A m \in Node : server'[m].applied = server[m].applied /\ server'[m].root = server[m].root,
           \A m \in Node : proc'[m].pc = proc[m].pc,
           \A i \in Backlog(n) : Accepts(H[i], p) \/ Accepts(H[i], disk[n].pending.to),
           coord.phase = "prepare" /\ ~ coord.turned => p # Target,
           coord.phase = "verify" =>
               disk[n].pending.to = Target \/ (disk[n].pending.to = None /\ p = Target)
    PROVE  RotationOf(H)'
<1> USE DEF RotationOf
<1>1. Last' = Last /\ Target' = Target /\ Previous' = Previous /\ Found' = Found /\ Last \in Nat
  BY DEF Last, Target, Previous, Found, SameRotation, TypeOK
<1>2. Window' = Window /\ \A m \in Node : Backlog(m)' = Backlog(m)
  BY <1>1 DEF Window, Backlog
<1>3. /\ coord.acked \subseteq Node /\ coord'.acked \subseteq Node
      /\ coord'.acked # coord.acked => coord.phase = "member"
  BY DEF TypeOK, Rotation, Acks
<1>4. /\ disk'[n].pin = p /\ disk'[n].pending = disk[n].pending
      /\ \A m \in Node \ {n} : disk'[m] = disk[m]
  BY DEF TypeOK, Volume
<1>5. HistoryOf(H)'
  BY <1>1 DEF HistoryOf
<1>6. ServersOf(H)'
  BY <1>1 DEF ServersOf, TypeOK, Joined
<1>7. AccountsOf(H)'
  <2>1. FoundAccounts(H)' /\ PastAccounts(H)' /\ ChangingAccounts(H)' /\ ChangedAccounts(H)' /\ InOrder(H)'
    BY <1>1, <1>2 DEF AccountsOf, FoundAccounts, PastAccounts, ChangingAccounts, ChangedAccounts,
          InOrder, SameRotation
  <2>2. Acknowledged(H)'
    BY <1>1, <1>2, <1>3 DEF AccountsOf, Acknowledged, SameRotation, Acks
  <2>3. QED BY <2>1, <2>2 DEF AccountsOf
<1>8. \A m \in Node : \A d \in Volumes(m)' :
         \/ d \in Volumes(m)
         \/ m = n /\ d = disk'[n]
  BY <1>4 DEF Volumes
<1>9. disk[n] \in Volumes(n)
  BY DEF Volumes
<1>10. SnapshotsOf(H)'
  <2>1. \A m \in Node : \A d \in Volumes(m)' : \E e \in Volumes(m) : d.pending = e.pending
    <3>1. ASSUME NEW m \in Node, NEW d \in Volumes(m)'
          PROVE  \E e \in Volumes(m) : d.pending = e.pending
      <4>1. CASE d \in Volumes(m)
        BY <4>1
      <4>2. CASE m = n /\ d = disk'[n]
        BY <1>4, <1>9, <4>2
      <4>3. QED BY <1>8, <3>1, <4>1, <4>2
    <3>2. QED BY <3>1
  <2>2. coord'.phase = coord.phase /\ coord'.turned = coord.turned
    BY DEF SameRotation
  <2>3. SnapshotsOf(H)
    OBVIOUS
  <2>4. QED BY <1>1, <2>1, <2>2, <2>3 DEF SnapshotsOf
<1>11. SafeOf(H)'
  <2>1. SafeOf(H)
    OBVIOUS
  <2>2. SUFFICES ASSUME NEW m \in Node, NEW d \in Volumes(m)', d.pin # None, NEW i \in Backlog(m)
                 PROVE  Accepts(H[i], d.pin) \/ Accepts(H[i], d.pending.to)
    BY <1>2 DEF SafeOf
  <2>3. CASE d \in Volumes(m)
    BY <2>1, <2>2, <2>3 DEF SafeOf
  <2>4. CASE m = n /\ d = disk'[n]
    BY <1>4, <2>2, <2>4
  <2>5. QED BY <1>8, <2>2, <2>3, <2>4
<1>12. Staged'
  <2>1. Ready(disk[n]) => Ready(disk[n])'
    BY <1>1, <1>4 DEF Ready
  <2>2. \A d : Ready(d) => Ready(d)'
    BY <1>1 DEF Ready
  <2>3. coord.phase = "prepare" => \A m \in coord'.acked : \A d \in Volumes(m)' : Ready(d)'
    BY <1>3, <1>8, <1>9, <2>1, <2>2 DEF Staged
  <2>4. coord.phase \in Rotating \ {"verify"} => \A m \in Node : \A d \in Volumes(m)' : Ready(d)'
    BY <1>8, <1>9, <2>1, <2>2 DEF Staged
  <2>5. coord.phase = "prepare" /\ ~ coord.turned => \A m \in Node : \A d \in Volumes(m)' : d.pin # Target
    BY <1>4, <1>8 DEF Staged
  <2>6. coord.phase = "verify" =>
          \A m \in Node : \A d \in Volumes(m)' :
              d.pin # None /\ (d.pending.to = Target \/ (d.pending.to = None /\ d.pin = Target))
    BY <1>4, <1>8 DEF Staged
  <2>7. QED BY <1>1, <2>3, <2>4, <2>5, <2>6 DEF Staged, SameRotation, Rotating
<1>13. Used'
  BY <1>1, <1>4, <1>8, <1>9 DEF Used, SameRotation
<1>14. QED BY <1>5, <1>6, <1>7, <1>10, <1>11, <1>12, <1>13

\* Choices, spelled out.
LEMMA ChoicesAre ==
    ASSUME NEW n \in Node, NEW i \in 1 .. 3
    PROVE  /\ Choices(n)[1] = disk[n].pending.to /\ Choices(n)[2] = disk[n].pin
           /\ Choices(n)[i] \in {disk[n].pending.to, disk[n].pin, proc[n].env}
           /\ Choices(n)[i] = disk[n].pending.to \/ i > 1
           /\ Choices(n)[i] \in {disk[n].pending.to, disk[n].pin} \/ i = 3
BY DEF Choices

LEMMA ResolveSafe ==
    ASSUME TypeOK, TypeOK', NEW H, RotationOf(H), NEW n \in Node, Resolve(n)
    PROVE  RotationOf(H)'
<1>1. PICK i \in 1 .. 3 :
        /\ Works(n, Choices(n)[i]) /\ \A j \in 1 .. i - 1 : ~ Works(n, Choices(n)[j])
        /\ disk' = [disk EXCEPT ![n].pin = Choices(n)[i]]
  BY DEF Resolve
<1> DEFINE p == Choices(n)[i]
<1>2. Accepts(server[n].root, p) /\ p # None
  BY <1>1 DEF Works, Accepts
<1>3. p = disk[n].pending.to \/ p = disk[n].pin \/ disk[n].pin = None
  <2> SUFFICES ASSUME p # disk[n].pending.to, p # disk[n].pin, disk[n].pin # None PROVE FALSE
    OBVIOUS
  <2>1. i = 3 /\ 1 \in 1 .. i - 1 /\ 2 \in 1 .. i - 1
    BY ChoicesAre
  <2>2. ~ Works(n, disk[n].pending.to) /\ ~ Works(n, disk[n].pin)
    BY <1>1, <2>1, ChoicesAre
  <2>3. Up(n)
    BY <1>1 DEF Works
  <2>4. Accepts(server[n].root, disk[n].pin) \/ Accepts(server[n].root, disk[n].pending.to)
    BY BacklogFacts DEF RotationOf, SafeOf, Volumes
  <2>5. QED BY <2>2, <2>3, <2>4 DEF Works
<1> HIDE DEF p
<1>4. p \in spent.used
  BY <1>2, AcceptedIsUsed, BacklogFacts
<1>5. /\ binlog' = binlog /\ server' = server /\ synced' = synced /\ primary' = primary
      /\ coord' = coord /\ spent' = spent /\ disk' = [disk EXCEPT ![n].pin = p]
  BY <1>1 DEF Resolve, p
<1>6. \A m \in Node : proc'[m].pc = proc[m].pc
  <2>1. PICK q : proc' = [proc EXCEPT ![n].resolved = TRUE, ![n].pool = q]
    BY DEF Resolve
  <2>2. proc \in [Node -> Wrapper]
    BY DEF TypeOK
  <2>3. QED BY <2>1, <2>2 DEF Wrapper
<1>7. SameRotation /\ Acks(H, n)
  BY <1>5 DEF SameRotation, Acks
<1>8. /\ \A j \in Backlog(n) : Accepts(H[j], p) \/ Accepts(H[j], disk[n].pending.to)
      /\ coord.phase = "prepare" /\ ~ coord.turned => p # Target
      /\ coord.phase = "verify" =>
           disk[n].pending.to = Target \/ (disk[n].pending.to = None /\ p = Target)
  BY <1>2, <1>3, PinHolds
<1>9. QED BY <1>2, <1>4, <1>5, <1>6, <1>7, <1>8, Pinned

\* Adopting changes the pool, the recovery channel and the pin, or stops before it.
LEMMA AdoptSafe ==
    ASSUME TypeOK, TypeOK', NEW H, RotationOf(H), NEW n \in Node, NEW p, NEW steps, Adopt(n, p, steps),
           p = disk[n].pending.to \/ (coord.phase = "member" /\ p = Target),
           SameRotation, spent'.used = spent.used,
           \/ coord'.acked = coord.acked
           \/ coord'.acked = coord.acked \cup {n} /\ coord.phase = "member" /\ p = Target /\ steps = 3
    PROVE  StateOf(H)'
<1>1. Accepts(server[n].root, p) /\ p # None
  BY DEF Adopt, Works, Accepts
<1>2. /\ binlog' = binlog /\ synced' = synced /\ primary' = primary
      /\ \A m \in Node : server'[m].applied = server[m].applied /\ server'[m].root = server[m].root
      /\ \A m \in Node : proc'[m].pc = proc[m].pc
  BY DEF Adopt, Swap, TypeOK, Wrapper, Server
<1>3. CASE disk' = [disk EXCEPT ![n].pin = p]
  <2>1. p \in spent.used
    BY <1>1, AcceptedIsUsed, BacklogFacts
  <2>2. Acks(H, n)
    <3>1. coord.phase = "member" /\ p = Target => \A i \in Backlog(n) : Accepts(H[i], Target)
      BY <1>1, StaysAccepted, BacklogFacts DEF Rotating
    <3>2. QED BY <3>1 DEF Acks
  <2>3. /\ \A j \in Backlog(n) : Accepts(H[j], p) \/ Accepts(H[j], disk[n].pending.to)
        /\ coord.phase = "prepare" /\ ~ coord.turned => p # Target
        /\ coord.phase = "verify" =>
             disk[n].pending.to = Target \/ (disk[n].pending.to = None /\ p = Target)
    BY <1>1, PinHolds
  <2>4. QED BY <1>1, <1>2, <1>3, <2>1, <2>2, <2>3, Pinned DEF StateOf
<1>4. CASE disk' = disk /\ coord'.acked = coord.acked
  <2>1. SameCoord
    BY <1>4 DEF SameCoord
  <2>2. \A m \in Node : Joined(m)' => Joined(primary)'
    BY <1>2 DEF RotationOf, ServersOf, Joined, TypeOK
  <2>3. QED BY <1>2, <1>4, <2>1, <2>2, Untouched DEF StateOf
<1>5. disk' = [disk EXCEPT ![n].pin = p] \/ (disk' = disk /\ ~ (steps > 2))
  BY DEF Adopt
<1>6. QED BY <1>3, <1>4, <1>5

LEMMA MemberSafe ==
    ASSUME TypeOK, TypeOK', NEW H, RotationOf(H), NEW n \in Node, Member(n) \/ Reconcile(n)
    PROVE  StateOf(H)'
<1>1. CASE Reconcile(n)
  <2>1. PICK steps : Adopt(n, disk[n].pending.to, steps)
    BY <1>1 DEF Reconcile
  <2>2. coord' = coord /\ spent'.used = spent.used
    BY <1>1 DEF Reconcile, CutShort, Happens, TypeOK
  <2>3. QED BY <2>1, <2>2, AdoptSafe DEF SameRotation
<1>2. CASE Member(n)
  <2>1. coord.phase = "member" /\ coord \in Rotation /\ spent \in [used : SUBSET Password, trouble : Nat]
    BY <1>2 DEF Member, Asked, TypeOK
  <2>2. PICK steps \in 1 .. 3 :
          /\ Adopt(n, Target, steps)
          /\ (steps = 3 /\ Answers(n)) \/ CutShort
    BY <1>2 DEF Member, Target
  <2>3. SameRotation /\ spent'.used = spent.used
    BY <2>1, <2>2 DEF Answers, CutShort, Happens, SameRotation, Rotation
  <2>4. coord'.acked = coord.acked \/ (coord'.acked = coord.acked \cup {n} /\ steps = 3)
    BY <2>1, <2>2 DEF Answers, CutShort, Rotation
  <2>5. QED BY <2>1, <2>2, <2>3, <2>4, AdoptSafe
<1>3. QED BY <1>1, <1>2


\* Types, where the recursion over the backlog needs the history.
LEMMA MovesType ==
    ASSUME TypeOK, NEW H, StateOf(H), NEW k \in Node, Moves(k)
    PROVE  primary' \in Node /\ server' \in [Node -> Server]
<1>1. PICK m \in Node \ {k} : primary' = m /\ server' = [server EXCEPT ![m] = Promoted(m)]
  BY DEF Moves
<1>2. Promoted(m) \in Server
  BY PromotedOf DEF StateOf, RotationOf, UnmadeOf, ServersOf
<1>3. QED BY <1>1, <1>2 DEF TypeOK

LEMMA TroubleType ==
    ASSUME TypeOK, NEW what, Happens(what)
    PROVE  spent' \in [used : SUBSET Password, trouble : Nat] /\ spent'.used = spent.used
BY DEF TypeOK, Happens

LEMMA EventsType ==
    ASSUME TypeOK, NEW H, StateOf(H),
           Failover \/ \E n \in Node : Crash(n) \/ Clone(n) \/ Reconcile(n)
    PROVE  TypeOK'
<1>1. CASE Failover
  <2>1. primary' \in Node /\ server' \in [Node -> Server]
    BY <1>1, MovesType DEF Failover, TypeOK
  <2>2. QED BY <1>1, <2>1, TroubleType DEF Failover, TypeOK
<1>2. ASSUME NEW n \in Node, Crash(n) PROVE TypeOK'
  <2>1. primary' \in Node /\ server' \in [Node -> Server]
    BY <1>2, MovesType DEF Crash, TypeOK
  <2>2. spent' \in [used : SUBSET Password, trouble : Nat]
    BY <1>2, TroubleType DEF Crash
  <2>3. disk' \in [Node -> Volume]
    BY <1>2 DEF Crash, TypeOK
  <2>4. proc' \in [Node -> Wrapper]
    <3>1. Gone \in Wrapper
      BY DEF Gone, Wrapper, Secret
    <3>2. QED BY <1>2, <3>1 DEF Crash, TypeOK
  <2>5. QED BY <1>2, <2>1, <2>2, <2>3, <2>4 DEF Crash, TypeOK
<1>3. ASSUME NEW n \in Node, Clone(n) PROVE TypeOK'
  <2>1. spent' \in [used : SUBSET Password, trouble : Nat]
    BY <1>3, TroubleType DEF Clone
  <2>2. server' \in [Node -> Server]
    <3>1. PICK m \in Node : server' = [server EXCEPT ![n] = [server[m] EXCEPT !.channel = server[n].channel]]
      BY <1>3 DEF Clone
    <3>2. [server[m] EXCEPT !.channel = server[n].channel] \in Server
      BY DEF TypeOK, Server
    <3>3. QED BY <3>1, <3>2 DEF TypeOK
  <2>3. disk' \in [Node -> Volume] /\ synced' \in [Node -> Volume]
    <3>1. Empty \in Volume
      BY DEF Empty, NotStaged, Unread, Volume, Staging, Secret
    <3>2. QED BY <1>3, <3>1 DEF Clone, TypeOK
  <2>4. QED BY <1>3, <2>1, <2>2, <2>3 DEF Clone, TypeOK
<1>4. ASSUME NEW n \in Node, Reconcile(n) PROVE TypeOK'
  <2>1. disk[n].pending.to \in Secret
    BY DEF TypeOK, Volume, Staging
  <2>2. PICK steps : Adopt(n, disk[n].pending.to, steps)
    BY <1>4 DEF Reconcile
  <2>3. proc' \in [Node -> Wrapper] /\ server' \in [Node -> Server] /\ disk' \in [Node -> Volume]
    BY <2>1, <2>2, AdoptType
  <2>4. coord' = coord /\ spent' \in [used : SUBSET Password, trouble : Nat]
    BY <1>4, TroubleType DEF Reconcile, CutShort, TypeOK
  <2>5. QED BY <2>2, <2>3, <2>4 DEF Adopt, TypeOK
<1>5. QED BY <1>1, <1>2, <1>3, <1>4

LEMMA TypeNext ==
    ASSUME TypeOK, NEW H, StateOf(H), [Next]_vars
    PROVE  TypeOK'
<1>1. CASE UNCHANGED vars
  BY <1>1 DEF TypeOK, vars
<1>2. CASE Next
  BY <1>2, PlatformType, EventsType, ServesType, KeepsType DEF Next
<1>3. QED BY <1>1, <1>2

-----------------------------------------------------------------------------
(* Steps of the platform. *)

\* It touches neither servers nor volumes.
LEMMA PlatformKeeps ==
    ASSUME TypeOK, NEW H, RotationOf(H),
           UNCHANGED <<binlog, server, disk, synced, proc, primary>>
    PROVE  /\ HistoryOf(H)' /\ ServersOf(H)' /\ SafeOf(H)'
           /\ Last' = Last /\ Window' = Window /\ \A n \in Node : Backlog(n)' = Backlog(n)
           /\ \A n \in Node : Volumes(n)' = Volumes(n)
<1>1. Last' = Last /\ \A n \in Node : Backlog(n)' = Backlog(n) /\ Volumes(n)' = Volumes(n)
  BY DEF Last, Backlog, Volumes
<1>2. Window' = Window
  BY <1>1 DEF Window
<1>3. HistoryOf(H)' /\ ServersOf(H)' /\ SafeOf(H)'
  BY <1>1 DEF RotationOf, HistoryOf, ServersOf, SafeOf, Joined
<1>4. QED BY <1>1, <1>2, <1>3

LEMMA AllCaughtUp ==
    ASSUME TypeOK, NEW H, RotationOf(H),
           (\A n \in Node : ~ Behind(n)) \/ coord.phase = "prepare"
    PROVE  Window = {Last} /\ \A n \in Node : Backlog(n) = {Last} /\ server[n].applied = Last
<1>1. ASSUME NEW n \in Node PROVE Backlog(n) = {Last} /\ server[n].applied = Last
  <2>1. server[n].applied \in Nat /\ Last \in Nat /\ server[n].applied <= Last
    BY DEF TypeOK, Server, Last, RotationOf, ServersOf
  <2>2. server[n].applied = Last
    BY <2>1 DEF Behind, Last, RotationOf, AccountsOf, FoundAccounts
  <2>3. QED BY <2>1, <2>2 DEF Backlog
<1>2. QED BY <1>1 DEF Window

LEMMA BeginSafe ==
    ASSUME TypeOK, NEW H, RotationOf(H), NEW p \in Password, Begin(p)
    PROVE  RotationOf(H)'
<1>1. /\ coord.phase = "idle" /\ p \notin spent.used /\ p # None
      /\ coord'.phase = "prepare" /\ coord'.acked = {} /\ coord'.turned = FALSE
      /\ Target' = p /\ Previous' = Target /\ Found' = Target
      /\ spent'.used = spent.used \cup {p}
  BY DEF Begin, Target, Previous, Found, TypeOK
<1>2. UNCHANGED <<binlog, server, disk, synced, proc, primary>> /\ \A n \in Node : ~ Behind(n)
  BY DEF Begin, CaughtUp
<1>3. Window = {Last} /\ \A n \in Node : server[n].applied = Last
  BY <1>2, AllCaughtUp
<1>4. /\ HistoryOf(H)' /\ ServersOf(H)' /\ SafeOf(H)'
      /\ Last' = Last /\ \A n \in Node : Volumes(n)' = Volumes(n)
  BY <1>2, PlatformKeeps
<1>5. \A n \in Node : \A d \in Volumes(n) : d.pin # p /\ d.pending.to # p
  BY <1>1 DEF RotationOf, Used
<1>6. AccountsOf(H)'
  <2>1. Only(H[Last], Target)
    BY <1>1, <1>3 DEF RotationOf, AccountsOf, PastAccounts
  <2>2. FoundAccounts(H)'
    BY <1>1, <1>2, <1>3, <1>4, <2>1 DEF FoundAccounts
  <2>3. QED BY <1>1, <2>2 DEF AccountsOf, PastAccounts, ChangingAccounts, ChangedAccounts, InOrder,
               Acknowledged, Rotating
<1>7. SnapshotsOf(H)'
  BY <1>1, <1>4, <1>5 DEF SnapshotsOf, RotationOf
<1>8. Staged'
  BY <1>1, <1>4, <1>5 DEF Staged, Rotating
<1>9. Used'
  BY <1>1, <1>4 DEF Used, RotationOf
<1>10. QED BY <1>4, <1>6, <1>7, <1>8, <1>9 DEF RotationOf

LEMMA NextPhaseIs ==
    ASSUME TypeOK, NextPhase
    PROVE  /\ coord'.acked = {} /\ coord'.target = coord.target /\ coord'.previous = coord.previous
           /\ coord'.turned = coord.turned
           /\ \/ coord.phase = "prepare" /\ coord'.phase = "database" /\ coord.acked = Node
              \/ coord.phase = "database" /\ coord'.phase = "member" /\ coord.acked # {}
              \/ coord.phase = "member" /\ coord'.phase = "finalize" /\ coord.acked = Node
              \/ coord.phase = "finalize" /\ coord'.phase = "verify"
              \/ coord.phase = "verify" /\ coord'.phase = "idle" /\ coord.acked = Node
<1> DEFINE i == CHOOSE k \in 1 .. 4 : Phase[k] = coord.phase
           next == IF coord.phase = "verify" THEN "idle" ELSE Phase[i + 1]
<1>1. coord \in Rotation /\ coord.phase # "idle"
  BY DEF TypeOK, NextPhase
<1>2. coord' = [coord EXCEPT !.acked = {}, !.phase = next]
  BY DEF NextPhase
<1>3. coord'.acked = {} /\ coord'.phase = next /\ coord'.target = coord.target
      /\ coord'.previous = coord.previous /\ coord'.turned = coord.turned
  <2> HIDE DEF next
  <2>1. QED BY <1>1, <1>2 DEF Rotation
<1>4. coord.phase \in {"prepare", "database", "member", "finalize"} =>
        i \in 1 .. 4 /\ Phase[i] = coord.phase
  <2>1. coord.phase \in {"prepare", "database", "member", "finalize"} =>
          \E k \in 1 .. 4 : Phase[k] = coord.phase
    BY DEF Phase
  <2>2. QED BY <2>1
<1>5. /\ coord.phase = "prepare" => next = "database"
      /\ coord.phase = "database" => next = "member"
      /\ coord.phase = "member" => next = "finalize"
      /\ coord.phase = "finalize" => next = "verify"
      /\ coord.phase = "verify" => next = "idle"
  <2> HIDE DEF i
  <2>1. QED BY <1>4 DEF Phase
<1> HIDE DEF next
<1>6. coord.phase \in {"prepare", "database", "member", "finalize", "verify"}
  BY <1>1 DEF Rotation
<1>7. coord.acked = Node \/ (coord.phase \in {"database", "finalize"} /\ coord.acked # {})
  BY DEF NextPhase, Complete
<1>8. QED BY <1>3, <1>5, <1>6, <1>7

LEMMA NextPhaseSafe ==
    ASSUME TypeOK, NEW H, RotationOf(H), NextPhase
    PROVE  StateOf(H)'
<1>1. /\ coord'.acked = {} /\ Target' = Target /\ Previous' = Previous /\ Found' = Found
      /\ coord'.turned = coord.turned /\ coord.phase # "idle"
  BY NextPhaseIs DEF Target, Previous, Found
<1>2. UNCHANGED <<binlog, server, disk, synced, proc, primary>> /\ spent' = spent
  BY DEF NextPhase
<1>3. /\ HistoryOf(H)' /\ ServersOf(H)' /\ SafeOf(H)' /\ Last' = Last /\ Window' = Window
      /\ \A n \in Node : Volumes(n)' = Volumes(n)
  BY <1>2, PlatformKeeps
<1>4. Target # Previous /\ Target # None /\ Previous # None
  BY <1>1, RotationType DEF RotationOf, Used
<1>5. Used'
  BY <1>1, <1>2, <1>3, <1>4 DEF Used, RotationOf
<1>6. \A d : Ready(d)' <=> Ready(d)
  BY <1>1 DEF Ready
<1>7. CASE coord.phase = "prepare"
  <2>1. coord'.phase = "database" /\ coord.acked = Node
    BY <1>7, NextPhaseIs
  <2>2. Window = {Last} /\ Last \in Nat
    BY <1>7, AllCaughtUp DEF Last, TypeOK
  <2>3. AccountsOf(H)'
    <3>1. ChangingAccounts(H)'
      BY <1>1, <1>3, <1>7, <2>1, <2>2 DEF ChangingAccounts, RotationOf, AccountsOf, FoundAccounts
    <3>2. InOrder(H)' /\ Acknowledged(H)'
      BY <1>1, <1>3, <2>1, <2>2 DEF InOrder, Acknowledged, Rotating
    <3>3. FoundAccounts(H)'
      BY <1>2, <1>3, <1>7, <2>1, AllCaughtUp DEF FoundAccounts
    <3>4. QED BY <2>1, <3>1, <3>2, <3>3 DEF AccountsOf, PastAccounts, ChangedAccounts
  <2>4. SnapshotsOf(H)'
    <3>1. ~ coord.turned => H[Last].now # Target
      BY <1>4, <1>7 DEF RotationOf, AccountsOf, FoundAccounts, Only, Found
    <3>2. QED BY <1>1, <1>3, <1>7, <2>1, <3>1 DEF RotationOf, SnapshotsOf
  <2>5. Staged'
    BY <1>1, <1>3, <1>6, <1>7, <2>1 DEF RotationOf, Staged, Rotating
  <2>6. QED BY <1>3, <1>5, <2>3, <2>4, <2>5 DEF RotationOf, StateOf
<1>0. CASE coord.phase = "database" /\ H[Last].now # Target
  <2>1. coord'.phase = "member" /\ coord.acked # {}
    BY <1>0, NextPhaseIs
  <2>2. coord.turned
    BY <1>0, <2>1 DEF RotationOf, AccountsOf, Acknowledged
  <2>3. Window = {Last}
    <3>1. \A n \in Node : server[n].applied = Last
      BY <1>0 DEF RotationOf, AccountsOf, FoundAccounts
    <3>2. QED BY <3>1, AllCaughtUp DEF Behind, Last
  <2>4. H[Last].now = Previous /\ H[Last].old = Target
    BY <1>0, <2>2, <2>3 DEF RotationOf, AccountsOf, ChangingAccounts, Only, Both, Found
  <2>5. UnmadeOf(H)'
    BY <1>1, <1>3, <1>4, <2>1, <2>2, <2>3, <2>4 DEF UnmadeOf
  <2>6. QED BY <2>5 DEF StateOf
<1>8. CASE coord.phase # "prepare" /\ ~ (coord.phase = "database" /\ H[Last].now # Target)
  <2>1. /\ coord.phase \in Rotating /\ coord'.phase \in {"member", "finalize", "verify", "idle"}
        /\ coord.phase = "database" => coord'.phase = "member" /\ coord.acked # {}
        /\ coord.phase = "member" => coord'.phase = "finalize" /\ coord.acked = Node
        /\ coord.phase = "finalize" => coord'.phase = "verify"
        /\ coord.phase = "verify" => coord'.phase = "idle" /\ coord.acked = Node
    BY <1>8, NextPhaseIs DEF Rotating
  <2>2. AccountsOf(H)'
    <3>1. ChangingAccounts(H)'
      BY <1>1, <1>3, <2>1 DEF ChangingAccounts, RotationOf, AccountsOf, Rotating
    <3>2. ChangedAccounts(H)'
      <4>1. ASSUME coord.phase = "member", NEW i \in Window
            PROVE  Only(H[i], Target) \/ Both(H[i], Target, Previous) \/ Both(H[i], Previous, Target)
        <5>1. Accepts(H[i], Target)
          <6>1. PICK n \in Node : i \in Backlog(n)
            BY <4>1 DEF Window
          <6>2. QED BY <2>1, <4>1, <6>1 DEF RotationOf, AccountsOf, Acknowledged
        <5>2. \/ Only(H[i], Found) \/ Both(H[i], Target, Previous)
              \/ coord.turned /\ Both(H[i], Previous, Target)
          BY <4>1 DEF RotationOf, AccountsOf, ChangingAccounts
        <5>3. QED BY <1>4, <5>1, <5>2 DEF Accepts, Only, Both, Found
      <4>2. QED BY <1>1, <1>3, <2>1, <4>1 DEF ChangedAccounts, RotationOf, AccountsOf, Rotating
    <3>3. InOrder(H)'
      BY <1>1, <1>3, <2>1 DEF InOrder, RotationOf, AccountsOf, Rotating
    <3>4. Acknowledged(H)'
      <4>1. coord'.phase # "idle" => H[Last].now = Target
        BY <1>8, <2>1 DEF RotationOf, AccountsOf, Acknowledged, Rotating
      <4>2. QED BY <1>1, <1>3, <2>1, <4>1 DEF Acknowledged, Rotating
    <3>5. PastAccounts(H)'
      <4>1. ASSUME coord.phase = "verify", NEW i \in Window PROVE Only(H[i], Target)
        <5>1. PICK n \in Node : i \in Backlog(n)
          BY <4>1 DEF Window
        <5>2. QED BY <2>1, <4>1, <5>1 DEF RotationOf, AccountsOf, Acknowledged
      <4>2. QED BY <1>1, <1>3, <2>1, <4>1 DEF PastAccounts, Rotating
    <3>6. QED BY <2>1, <3>1, <3>2, <3>3, <3>4, <3>5 DEF AccountsOf, FoundAccounts
  <2>3. SnapshotsOf(H)'
    BY <1>3, <2>1 DEF RotationOf, SnapshotsOf
  <2>4. Staged'
    <3>1. coord.phase # "verify" => \A n \in Node : \A d \in Volumes(n) : Ready(d)
      BY <2>1 DEF RotationOf, Staged
    <3>2. QED BY <1>1, <1>3, <1>6, <2>1, <3>1 DEF Staged, Rotating, Ready
  <2>5. QED BY <1>3, <1>5, <2>2, <2>3, <2>4 DEF RotationOf, StateOf
<1>9. QED BY <1>0, <1>7, <1>8

LEMMA RollbackSafe ==
    ASSUME Orderly, TypeOK, NEW H, RotationOf(H), Rollback
    PROVE  RotationOf(H)'
<1>1. /\ coord.phase \in {"prepare", "database", "member"} /\ ~ coord.turned
      /\ coord'.phase = "prepare" /\ coord'.acked = {} /\ coord'.turned = TRUE
      /\ Target' = Previous /\ Previous' = Target /\ Found' = Previous
      /\ spent'.used = spent.used
  <2>1. coord \in Rotation /\ coord' = [coord EXCEPT !.phase = "prepare", !.acked = {}, !.turned = TRUE,
                                               !.target = coord.previous, !.previous = coord.target]
    BY DEF Rollback, TypeOK
  <2>2. spent'.used = spent.used
    BY DEF Rollback, Happens, TypeOK
  <2>3. coord'.phase = "prepare" /\ coord'.acked = {} /\ coord'.turned = TRUE
        /\ coord'.target = coord.previous /\ coord'.previous = coord.target
    BY <2>1 DEF Rotation
  <2>4. QED BY <2>2, <2>3 DEF Rollback, Target, Previous, Found
<1>2. UNCHANGED <<binlog, server, disk, synced, proc, primary>> /\ \A n \in Node : ~ Behind(n)
  BY DEF Rollback, Orderly, Happens, CaughtUp
<1>3. Window = {Last} /\ \A n \in Node : server[n].applied = Last
  BY <1>2, AllCaughtUp
<1>4. /\ HistoryOf(H)' /\ ServersOf(H)' /\ SafeOf(H)'
      /\ Last' = Last /\ \A n \in Node : Volumes(n)' = Volumes(n)
  BY <1>2, PlatformKeeps
<1>5. Target # Previous
  BY <1>1 DEF RotationOf, Used
<1>6. Only(H[Last], Previous) \/ (coord.phase # "prepare" /\ Both(H[Last], Target, Previous))
  BY <1>1, <1>3 DEF RotationOf, AccountsOf, FoundAccounts, ChangingAccounts, Found
<1>7. AccountsOf(H)'
  <2>1. FoundAccounts(H)'
    BY <1>1, <1>2, <1>3, <1>4, <1>6 DEF FoundAccounts
  <2>2. QED BY <1>1, <2>1 DEF AccountsOf, PastAccounts, ChangingAccounts, ChangedAccounts, InOrder,
               Acknowledged, Rotating
<1>8. SnapshotsOf(H)'
  BY <1>1, <1>4 DEF SnapshotsOf, RotationOf
<1>9. Staged'
  BY <1>1, <1>4 DEF Staged, Rotating
<1>10. Used'
  BY <1>1, <1>4, <1>5 DEF Used, RotationOf
<1>11. QED BY <1>4, <1>7, <1>8, <1>9, <1>10 DEF RotationOf

-----------------------------------------------------------------------------
(* The requests that write the volume. *)

\* PREPARE: the target on both the volume and its durable copy.
LEMMA PrepareSafe ==
    ASSUME TypeOK, NEW H, RotationOf(H), NEW n \in Node, Prepare(n)
    PROVE  RotationOf(H)'
<1>1. /\ coord.phase = "prepare" /\ disk[n].pin \in {Target, Previous}
      /\ SameRotation /\ spent'.used = spent.used
      /\ coord'.acked \subseteq coord.acked \cup {n} /\ coord.acked \subseteq Node
  BY DEF Prepare, Asked, Answers, Happens, SameRotation, TypeOK, Rotation, Target, Previous
<1>2. UNCHANGED <<binlog, server, proc, primary>>
  BY DEF Prepare
<1>3. PICK staged : Stage(n, staged) /\ staged.to = Target /\ staged.before.root <= Last
  <2>1. Backlog(n) = {Last} /\ server[n].root = H[Last] /\ Last \in Nat
    BY <1>1, BacklogFacts
  <2>2. CASE disk[n].pending.to = Target /\ Stage(n, disk[n].pending)
    <3>1. disk[n] \in Volumes(n)
      BY DEF Volumes
    <3>2. disk[n].pending.before.root <= Last
      BY <3>1 DEF RotationOf, SnapshotsOf
    <3>3. QED BY <2>2, <3>2
  <2>3. CASE Stage(n, [to |-> Target, before |-> Verifiers(server[n])])
    <3>1. H[Last].salt <= Last
      BY <2>1 DEF RotationOf, HistoryOf
    <3>2. QED BY <2>1, <2>3, <3>1 DEF Verifiers
  <2>4. QED BY <2>2, <2>3 DEF Prepare, Target
<1>4. /\ disk'[n].pin = disk[n].pin /\ disk'[n].pending = staged /\ synced'[n] = disk'[n]
      /\ \A m \in Node \ {n} : disk'[m] = disk[m] /\ synced'[m] = synced[m]
  BY <1>3 DEF Stage, TypeOK, Volume
<1>5. /\ Last' = Last /\ Target' = Target /\ Previous' = Previous /\ Found' = Found
      /\ Window' = Window /\ \A m \in Node : Backlog(m)' = Backlog(m)
  <2>1. \A m \in Node : Backlog(m)' = Backlog(m)
    BY <1>2 DEF Backlog, Last
  <2>2. QED BY <1>1, <1>2, <2>1 DEF Last, Target, Previous, Found, Window, SameRotation
<1>6. HistoryOf(H)' /\ ServersOf(H)'
  BY <1>2, <1>5 DEF RotationOf, HistoryOf, ServersOf, Joined
<1>7. AccountsOf(H)'
  <2>1. FoundAccounts(H)'
    BY <1>1, <1>2, <1>5 DEF RotationOf, AccountsOf, FoundAccounts, SameRotation
  <2>2. coord'.phase = "prepare"
    BY <1>1 DEF SameRotation
  <2>3. QED BY <2>1, <2>2 DEF AccountsOf, PastAccounts, ChangingAccounts, ChangedAccounts, InOrder,
               Acknowledged, Rotating
<1>8. \A m \in Node : \A d \in Volumes(m)' :
         \/ m # n /\ d \in Volumes(m)
         \/ m = n /\ d.pin = disk[n].pin /\ d.pending = staged
  BY <1>4 DEF Volumes
<1>9. disk[n] \in Volumes(n) /\ disk[n].pin # None
  BY <1>1, RotationType DEF Volumes
<1>10. SnapshotsOf(H)'
  <2>1. coord'.phase = "prepare"
    BY <1>1 DEF SameRotation
  <2>2. QED BY <1>1, <1>3, <1>5, <1>8, <2>1 DEF RotationOf, SnapshotsOf
<1>11. SafeOf(H)'
  <2>1. \A m \in Node \ {n} : \A d \in Volumes(m)' : d.pin # None =>
          \A i \in Backlog(m)' : Accepts(H[i], d.pin) \/ Accepts(H[i], d.pending.to)
    BY <1>5, <1>8 DEF RotationOf, SafeOf
  <2>2. Accepts(H[Last], disk[n].pin) \/ Accepts(H[Last], Target)
    <3>1. Only(H[Last], Found) \/ (coord.turned /\ Both(H[Last], Previous, Target))
      BY <1>1 DEF RotationOf, AccountsOf, FoundAccounts
    <3>2. ~ coord.turned => disk[n].pin = Previous
      BY <1>1, <1>9 DEF RotationOf, Staged
    <3>3. Target # None /\ Previous # None
      BY RotationType
    <3>4. QED BY <3>1, <3>2, <3>3 DEF Accepts, Only, Both, Found
  <2>3. Backlog(n)' = {Last}
    BY <1>1, <1>5, BacklogFacts
  <2>4. \A d \in Volumes(n)' : d.pin = disk[n].pin /\ d.pending.to = Target
    BY <1>3, <1>8
  <2>5. \A d \in Volumes(n)' : d.pin # None =>
          \A i \in Backlog(n)' : Accepts(H[i], d.pin) \/ Accepts(H[i], d.pending.to)
    BY <2>2, <2>3, <2>4
  <2>6. QED BY <2>1, <2>5 DEF SafeOf
<1>12. Staged'
  <2>1. coord'.phase = "prepare" /\ coord'.turned = coord.turned
    BY <1>1 DEF SameRotation
  <2>2. \A m \in coord'.acked : \A d \in Volumes(m)' : Ready(d)'
    <3>1. \A m \in coord.acked \ {n} : \A d \in Volumes(m) : d.pin # None /\ d.pending.to = Target
      BY <1>1 DEF RotationOf, Staged, Ready
    <3>2. QED BY <1>1, <1>3, <1>5, <1>8, <1>9, <3>1 DEF Ready
  <2>3. ~ coord.turned => \A m \in Node : \A d \in Volumes(m)' : d.pin # Target
    <3>1. ~ coord.turned => \A m \in Node : \A d \in Volumes(m) : d.pin # Target
      BY <1>1 DEF RotationOf, Staged
    <3>2. QED BY <1>8, <1>9, <3>1
  <2>4. QED BY <1>5, <2>1, <2>2, <2>3 DEF Staged, Rotating
<1>13. Used'
  BY <1>1, <1>3, <1>5, <1>8, <1>9 DEF Used, RotationOf, SameRotation
<1>14. QED BY <1>6, <1>7, <1>10, <1>11, <1>12, <1>13 DEF RotationOf

\* VERIFY: what is staged is forgotten once the account accepts the target alone.
LEMMA VerifySafe ==
    ASSUME TypeOK, NEW H, RotationOf(H), NEW n \in Node, Verify(n)
    PROVE  RotationOf(H)'
<1>1. /\ coord.phase = "verify" /\ disk[n].pin = Target
      /\ SameRotation /\ spent'.used = spent.used
      /\ coord'.acked \subseteq coord.acked \cup {n} /\ coord.acked \subseteq Node
  BY DEF Verify, Asked, Answers, Happens, SameRotation, TypeOK, Rotation, Target
<1>2. UNCHANGED <<binlog, server, synced, proc, primary>>
  BY DEF Verify
<1>3. /\ disk'[n].pin = Target /\ disk'[n].pending = NotStaged
      /\ \A m \in Node \ {n} : disk'[m] = disk[m]
  BY <1>1 DEF Verify, TypeOK, Volume
<1>4. /\ Last' = Last /\ Target' = Target /\ Previous' = Previous /\ Found' = Found
      /\ Window' = Window /\ \A m \in Node : Backlog(m)' = Backlog(m)
  <2>1. \A m \in Node : Backlog(m)' = Backlog(m)
    BY <1>2 DEF Backlog, Last
  <2>2. QED BY <1>1, <1>2, <2>1 DEF Last, Target, Previous, Found, Window, SameRotation
<1>5. Target # None /\ Previous # None /\ Target # Previous
  BY <1>1, RotationType DEF RotationOf, Used
<1>6. \A i \in Backlog(n) : Only(H[i], Target)
  <2> DEFINE a == H[server[n].applied]
  <2>1. server[n].applied \in Window /\ a = server[n].root
    BY BacklogFacts
  <2>2. Accepts(a, Target) /\ ~ Accepts(a, Previous)
    BY <2>1 DEF Verify, Works, Target, Previous
  <2>3. Only(a, Target) \/ Both(a, Target, Previous) \/ Both(a, Previous, Target)
    BY <1>1, <2>1 DEF RotationOf, AccountsOf, ChangedAccounts
  <2>4. Only(a, Target)
    BY <1>5, <2>2, <2>3 DEF Accepts, Only, Both
  <2>5. \A i \in Backlog(n) : i \in Window /\ server[n].applied <= i
    BY BacklogFacts
  <2>6. QED BY <1>1, <2>1, <2>4, <2>5 DEF RotationOf, AccountsOf, InOrder, Rotating
<1>7. HistoryOf(H)' /\ ServersOf(H)'
  BY <1>2, <1>4 DEF RotationOf, HistoryOf, ServersOf, Joined
<1>8. coord'.phase = "verify"
  BY <1>1 DEF SameRotation
<1>9. AccountsOf(H)'
  <2>1. ChangedAccounts(H)' /\ InOrder(H)'
    BY <1>1, <1>4, <1>8 DEF RotationOf, AccountsOf, ChangedAccounts, InOrder
  <2>2. Acknowledged(H)'
    BY <1>1, <1>4, <1>6, <1>8 DEF RotationOf, AccountsOf, Acknowledged, Rotating
  <2>3. QED BY <1>8, <2>1, <2>2 DEF AccountsOf, PastAccounts, FoundAccounts, ChangingAccounts
<1>10. \A m \in Node : \A d \in Volumes(m)' :
          d \in Volumes(m) \/ (m = n /\ d.pin = Target /\ d.pending.to = None /\ d.pending.before.root = 0)
  BY <1>2, <1>3 DEF Volumes, NotStaged, Unread
<1>11. SnapshotsOf(H)'
  <2>1. 0 <= Last
    BY BacklogFacts
  <2>2. QED BY <1>4, <1>8, <1>10, <2>1 DEF RotationOf, SnapshotsOf
<1>12. SafeOf(H)'
  <2>1. \A i \in Backlog(n) : Accepts(H[i], Target)
    BY <1>5, <1>6 DEF Accepts, Only
  <2>2. QED BY <1>4, <1>10, <2>1 DEF RotationOf, SafeOf
<1>13. Staged'
  BY <1>1, <1>4, <1>5, <1>8, <1>10 DEF RotationOf, Staged, Rotating
<1>14. Used'
  BY <1>1, <1>4, <1>10 DEF Used, RotationOf, SameRotation
<1>15. QED BY <1>7, <1>9, <1>11, <1>12, <1>13, <1>14 DEF RotationOf

-----------------------------------------------------------------------------
(* A statement of the primary makes the history one longer. *)

Grown(H, e) == [i \in 0 .. Last + 1 |-> IF i <= Last THEN H[i] ELSE After(H[Last], e, Last + 1)]

LEMMA Grows ==
    ASSUME TypeOK, TypeOK', NEW H, HistoryOf(H), ServersOf(H), NEW n \in Node, NEW e \in Secret, Execute(n, e),
           primary' = primary, \A m \in Node : proc'[m].pc = proc[m].pc,
           NEW G, G = Grown(H, e)
    PROVE  /\ Last \in Nat /\ Last' = Last + 1
           /\ G[Last + 1] = After(H[Last], e, Last + 1)
           /\ \A i \in Window : G[i] = H[i] /\ i <= Last /\ i \in Nat
           /\ HistoryOf(G)' /\ ServersOf(G)'
           /\ \A m \in Node : Backlog(m)' \subseteq Backlog(m) \cup {Last + 1}
           /\ Window' \subseteq Window \cup {Last + 1}
<1>1. /\ Last \in Nat /\ Last' = Last + 1 /\ binlog' = Append(binlog, e)
      /\ \A i \in 1 .. Last : binlog'[i] = binlog[i]
      /\ binlog'[Last + 1] = e
  <2>1. binlog \in Seq(Secret) /\ binlog' = Append(binlog, e)
    BY DEF TypeOK, Execute
  <2>2. QED BY <2>1 DEF Last
<1> DEFINE top == Last + 1
<1>2. top \in Nat /\ Last < top /\ ~ (top <= Last) /\ top - 1 = Last /\ Last \in 0 .. Last
  BY <1>1
<1>3. G[top] = After(H[Last], e, top) /\ \A i \in 0 .. Last : G[i] = H[i]
  <2>1. top \in 0 .. Last + 1 /\ \A i \in 0 .. Last : i \in 0 .. Last + 1 /\ i <= Last
    BY <1>1
  <2>2. QED BY <1>2, <2>1 DEF Grown
<1>4. HistoryOf(G)'
  <2> DEFINE a == After(H[Last], e, top)
  <2>1. H[Last] \in Account /\ H[Last].now # None /\ H[Last].salt <= Last
    BY <1>2 DEF HistoryOf
  <2>2. a \in Account /\ a.now # None /\ a.salt <= top
    <3>1. CASE e = None
      <4>1. a = Discarded(H[Last])
        BY <3>1 DEF After
      <4>2. a \in Account /\ a.now = H[Last].now /\ a.salt = H[Last].salt
        BY <2>1, <4>1 DEF Discarded, Account, Secret
      <4>3. H[Last].salt \in Int
        BY <2>1 DEF Account
      <4> HIDE DEF a
      <4>4. QED BY <1>1, <2>1, <4>2, <4>3
    <3>2. CASE e # None
      <4>1. a = [now |-> e, salt |-> top, old |-> H[Last].now]
        BY <3>2 DEF After, Altered
      <4>2. top \in Nat /\ H[Last].now \in Secret
        BY <1>2, <2>1 DEF Account
      <4> HIDE DEF top, a
      <4>3. QED BY <3>2, <4>1, <4>2 DEF Account
    <3>3. QED BY <3>1, <3>2
  <2>3. \A i \in 0 .. top : i \in 0 .. Last \/ i = top
    BY <1>1
  <2>4. \A i \in 0 .. Last : H[i] \in Account /\ H[i].now # None /\ H[i].salt <= i
    BY DEF HistoryOf
  <2>5. \A i \in 0 .. top : G[i] \in Account /\ G[i].now # None /\ G[i].salt <= i
    <3> HIDE DEF a, top
    <3>1. G[top] = a
      BY <1>3 DEF a
    <3>2. QED BY <1>3, <2>2, <2>3, <2>4, <3>1
  <2>6. G \in [0 .. top -> Account]
    <3>1. G = [i \in 0 .. top |-> G[i]]
      BY DEF Grown
    <3> HIDE DEF top
    <3>2. QED BY <2>5, <3>1
  <2>7. ASSUME NEW i \in 1 .. top PROVE G[i] = After(G[i - 1], binlog'[i], i)
    <3>1. CASE i = top
      BY <1>1, <1>2, <1>3, <3>1
    <3>2. CASE i # top
      <4>1. i \in 1 .. Last /\ i \in 0 .. Last /\ i - 1 \in 0 .. Last
        BY <1>1, <3>2
      <4>2. H[i] = After(H[i - 1], binlog[i], i)
        BY <4>1 DEF HistoryOf
      <4>3. QED BY <1>1, <1>3, <4>1, <4>2
    <3>3. QED BY <3>1, <3>2
  <2>8. QED BY <1>1, <2>5, <2>6, <2>7 DEF HistoryOf
<1>5. ServersOf(H) /\ n = primary /\ Joined(n)
  BY DEF RotationOf, Execute
<1>6. /\ server'[n].applied = top /\ server'[n].root = G[top]
      /\ \A m \in Node \ {n} : server'[m] = server[m]
  <2>1. server[n] \in Server /\ server[n].root = H[Last]
    BY <1>5 DEF TypeOK, ServersOf
  <2>2. server' = [server EXCEPT ![n] = Apply(server[n], e, top)] /\ server \in [Node -> Server]
    BY DEF Execute, Last, TypeOK
  <2>3. Apply(server[n], e, top).applied = top /\ Apply(server[n], e, top).root = After(H[Last], e, top)
    BY <1>2, <2>1, ApplyType
  <2>4. QED BY <1>3, <2>2, <2>3
<1>7. \A m \in Node : server[m].applied \in Nat /\ server[m].applied <= Last
  BY <1>5 DEF ServersOf, TypeOK, Server
<1>8. ServersOf(G)'
  <2>1. \A m \in Node : server'[m].applied <= top /\ server'[m].root = G[server'[m].applied]
    <3>1. ASSUME NEW m \in Node \ {n} PROVE server'[m].applied <= top /\ server'[m].root = G[server'[m].applied]
      <4>1. server[m].applied \in 0 .. Last /\ server[m].applied <= top
        BY <1>1, <1>7
      <4>2. server[m].root = H[server[m].applied]
        BY <1>5 DEF ServersOf
      <4>3. QED BY <1>3, <1>6, <4>1, <4>2
    <3>2. top <= top
      BY <1>2
    <3> HIDE DEF top
    <3>3. QED BY <1>6, <3>1, <3>2
  <2>2. server'[primary].applied = top
    BY <1>5, <1>6
  <2>3. \A m \in Node : proc'[m].pc = "joined" => proc'[primary].pc = "joined"
    BY <1>5 DEF Joined
  <2>4. QED BY <1>1, <2>1, <2>2, <2>3 DEF ServersOf, Joined
<1>9. \A m \in Node : Backlog(m)' \subseteq Backlog(m) \cup {top}
  <2> SUFFICES ASSUME NEW m \in Node PROVE Backlog(m)' \subseteq Backlog(m) \cup {top}
    OBVIOUS
  <2>1. CASE m = n
    <3>1. Backlog(m)' = top .. top
      BY <1>1, <1>6, <2>1 DEF Backlog
    <3>2. QED BY <1>2, <3>1
  <2>2. CASE m # n
    <3>1. Backlog(m)' = server[m].applied .. top
      BY <1>1, <1>6, <2>2 DEF Backlog
    <3>2. \A i \in server[m].applied .. top : i \in server[m].applied .. Last \/ i = top
      BY <1>1, <1>7
    <3> HIDE DEF top
    <3>3. QED BY <3>1, <3>2 DEF Backlog
  <2>3. QED BY <2>1, <2>2
<1>10. Window' \subseteq Window \cup {top}
  BY <1>9 DEF Window
<1>11. \A i \in Window : G[i] = H[i] /\ i <= Last /\ i \in Nat
  <2>1. \A i \in Window : i \in 0 .. Last
    BY <1>1, <1>7 DEF Window, Backlog
  <2>2. QED BY <1>1, <1>3, <2>1
<1>12. QED BY <1>1, <1>3, <1>4, <1>8, <1>9, <1>10, <1>11

\* A statement that leaves the account on the target, of a shape the phase allows, and does not
\* bring back what was revoked.
LEMMA GrownSafe ==
    ASSUME TypeOK, TypeOK', NEW H, RotationOf(H), NEW n \in Node, NEW e \in Secret, Execute(n, e),
           SameRotation, spent'.used = spent.used, UNCHANGED <<disk, synced, primary>>,
           \A m \in Node : proc'[m].pc = proc[m].pc,
           coord.phase \in {"database", "finalize"},
           NEW a, a = After(H[Last], e, Last + 1), a.now = Target,
           Only(H[Last], Target) => Only(a, Target),
           Only(a, Target) \/ Both(a, Target, Previous),
           coord.phase = "database" /\ Only(a, Target) => coord.turned
    PROVE  RotationInv'
<1> DEFINE top == Last + 1
<1>1. PICK G : G = Grown(H, e)
  OBVIOUS
<1>2. /\ Last \in Nat /\ Last' = top /\ top \in Nat /\ ~ (top <= Last) /\ Last <= top
      /\ \A x \in Nat : x <= Last => x <= top /\ x # top
      /\ G[top] = a
      /\ \A i \in Window : G[i] = H[i] /\ i <= Last /\ i \in Nat
      /\ HistoryOf(G)' /\ ServersOf(G)'
      /\ \A m \in Node : Backlog(m)' \subseteq Backlog(m) \cup {top}
      /\ Window' \subseteq Window \cup {top}
  BY <1>1, Grows DEF RotationOf
<1>3. /\ Target' = Target /\ Previous' = Previous /\ Found' = Found
      /\ coord'.phase = coord.phase /\ coord'.turned = coord.turned
      /\ \A m \in Node : Volumes(m)' = Volumes(m)
  BY DEF Target, Previous, Found, SameRotation, Volumes
<1>4. Last \in Window /\ Target # None
  BY BacklogFacts, RotationType
<1> HIDE DEF top
<1>5. AccountsOf(G)'
  <2>1. FoundAccounts(G)'
    BY <1>2, <1>3 DEF FoundAccounts
  <2>2. ChangingAccounts(G)'
    <3> SUFFICES ASSUME coord.phase = "database", NEW i \in Window'
                 PROVE  \/ Only(G[i], Found) \/ Both(G[i], Target, Previous)
                        \/ coord.turned /\ Both(G[i], Previous, Target)
      BY <1>3 DEF ChangingAccounts
    <3>1. CASE i \in Window
      BY <1>2, <3>1 DEF RotationOf, AccountsOf, ChangingAccounts
    <3>2. CASE i = top
      BY <1>2, <3>2 DEF Found
    <3>3. QED BY <1>2, <3>1, <3>2
  <2>3. ChangedAccounts(G)'
    <3> SUFFICES ASSUME coord.phase = "finalize", NEW i \in Window'
                 PROVE  Only(G[i], Target) \/ Both(G[i], Target, Previous) \/ Both(G[i], Previous, Target)
      BY <1>3 DEF ChangedAccounts
    <3>1. CASE i \in Window
      BY <1>2, <3>1 DEF RotationOf, AccountsOf, ChangedAccounts
    <3>2. CASE i = top
      BY <1>2, <3>2
    <3>3. QED BY <1>2, <3>1, <3>2
  <2>4. InOrder(G)'
    <3> SUFFICES ASSUME NEW i \in Window', NEW j \in Window', i <= j
                 PROVE  /\ G[i].now = Target => G[j].now = Target
                        /\ Only(G[i], Target) => Only(G[j], Target)
      BY <1>3 DEF InOrder
    <3>1. \A k \in Window : Only(H[k], Target) => Only(H[Last], Target)
      BY <1>2, <1>4 DEF RotationOf, AccountsOf, InOrder, Rotating
    <3>2. CASE j = top
      <4>1. CASE i \in Window
        BY <1>2, <3>1, <3>2, <4>1
      <4>2. CASE i = top
        BY <1>2, <3>2, <4>2
      <4>3. QED BY <1>2, <4>1, <4>2
    <3>3. CASE j \in Window
      <4>1. i # top
        BY <1>2, <3>3
      <4>2. i \in Window
        BY <1>2, <4>1
      <4>3. QED BY <1>2, <3>3, <4>2 DEF RotationOf, AccountsOf, InOrder, Rotating
    <3>4. QED BY <1>2, <3>2, <3>3
  <2>5. Acknowledged(G)'
    BY <1>2, <1>3 DEF Acknowledged
  <2>6. PastAccounts(G)'
    BY <1>3 DEF PastAccounts
  <2>7. QED BY <2>1, <2>2, <2>3, <2>4, <2>5, <2>6 DEF AccountsOf
<1>6. SnapshotsOf(G)'
  <2> SUFFICES ASSUME NEW m \in Node, NEW d \in Volumes(m)
               PROVE  /\ d.pending.before.root <= top
                      /\ coord.phase = "database" /\ ~ coord.turned => d.pending.before.root # a.salt
    BY <1>2, <1>3 DEF SnapshotsOf
  <2>1. d.pending.before.root <= Last /\ d.pending.before.root \in Int /\ Last \in Nat
    BY <1>2 DEF RotationOf, SnapshotsOf, Volumes, TypeOK, Volume, Staging
  <2>2. ASSUME coord.phase = "database", ~ coord.turned PROVE a.salt = top
    <3>1. e # None
      <4>1. SUFFICES ASSUME e = None PROVE FALSE
        BY <4>1
      <4>2. a = Discarded(H[Last]) /\ H[Last] \in Account
        BY <1>2, <4>1 DEF After, RotationOf, HistoryOf
      <4>3. a.old = None
        BY <4>2 DEF Discarded, Account
      <4>4. Only(a, Target)
        BY <4>3 DEF Only
      <4>5. QED BY <2>2, <4>4
    <3>2. QED BY <3>1 DEF After, Altered, top
  <2>3. QED BY <2>1, <2>2 DEF top
<1>7. \A m \in Node : \A d \in Volumes(m) : Ready(d)
  BY DEF RotationOf, Staged, Rotating
<1>8. SafeOf(G)'
  <2> SUFFICES ASSUME NEW m \in Node, NEW d \in Volumes(m), d.pin # None, NEW i \in Backlog(m)'
               PROVE  Accepts(G[i], d.pin) \/ Accepts(G[i], d.pending.to)
    BY <1>3 DEF SafeOf
  <2>1. CASE i \in Backlog(m)
    <3>1. i \in Window
      BY <2>1 DEF Window
    <3>2. QED BY <1>2, <2>1, <3>1 DEF RotationOf, SafeOf
  <2>2. CASE i = top
    BY <1>2, <1>4, <1>7, <2>2 DEF Ready, Accepts
  <2>3. QED BY <1>2, <2>1, <2>2
<1>9. Staged'
  BY <1>3, <1>7 DEF Staged, Ready, Rotating
<1>10. Used'
  BY <1>3 DEF RotationOf, Used
<1>11. RotationOf(G)'
  BY <1>2, <1>5, <1>6, <1>8, <1>9, <1>10 DEF RotationOf
<1>12. QED BY <1>11 DEF RotationInv, StateOf

-----------------------------------------------------------------------------
(* The requests that change the account. *)

LEMMA AskedKeeps ==
    ASSUME TypeOK, NEW n \in Node, Answers(n) \/ CutShort
    PROVE  /\ SameRotation /\ spent'.used = spent.used
           /\ coord'.acked \in {coord.acked, coord.acked \cup {n}}
<1>1. coord \in Rotation /\ spent \in [used : SUBSET Password, trouble : Nat]
  BY DEF TypeOK
<1>2. QED BY <1>1 DEF Answers, CutShort, Happens, SameRotation, Rotation

LEMMA SwapKeeps ==
    ASSUME TypeOK, NEW n \in Node, NEW p, Swap(n, p) \/ UNCHANGED proc
    PROVE  \A m \in Node : proc'[m].pc = proc[m].pc
BY DEF TypeOK, Swap, Wrapper

\* DATABASE: the change is made while the verifiers are those of the snapshot, else it was made.
LEMMA DatabaseSafe ==
    ASSUME TypeOK, TypeOK', NEW H, RotationOf(H), NEW n \in Node, Database(n)
    PROVE  RotationInv'
<1>1. /\ coord.phase = "database" /\ disk[n].pending.to = Target
      /\ SameRotation /\ spent'.used = spent.used
      /\ coord'.acked \in {coord.acked, coord.acked \cup {n}}
      /\ UNCHANGED <<disk, synced, primary>>
      /\ \A m \in Node : proc'[m].pc = proc[m].pc
  BY AskedKeeps, SwapKeeps DEF Database, Asked, Target
<1>2. Target # None /\ Previous # None /\ Target # Previous
  BY <1>1, RotationType DEF RotationOf, Used
<1>3. disk[n] \in Volumes(n)
  BY DEF Volumes
<1>4. CASE Verifiers(server[n]) = disk[n].pending.before
  <2>1. Execute(n, coord.target)
    BY <1>4 DEF Database
  <2>2. n = primary /\ server[n].root = H[Last]
    BY <2>1 DEF Execute, RotationOf, ServersOf
  <2>3. coord.target \in Secret /\ coord.target = Target
    BY RotationType DEF Secret, Target
  <2> DEFINE a == After(H[Last], coord.target, Last + 1)
  <2>4. a.now = Target /\ a.old = H[Last].now
    BY <1>2, <2>3 DEF After, Altered
  <2> HIDE DEF a
  <2>5. \/ Only(H[Last], Found) \/ Both(H[Last], Target, Previous)
        \/ coord.turned /\ Both(H[Last], Previous, Target)
    BY <1>1, BacklogFacts DEF RotationOf, AccountsOf, ChangingAccounts
  <2>6. H[Last].now \in {Target, Previous}
    BY <2>5 DEF Only, Both, Found
  <2>7. Only(a, Target) \/ Both(a, Target, Previous)
    BY <2>4, <2>6 DEF Only, Both
  <2>8. Only(H[Last], Target) => Only(a, Target)
    BY <2>4 DEF Only
  <2>9. Only(a, Target) => coord.turned
    <3>1. ~ coord.turned => H[Last].now # Target
      BY <1>1, <1>3, <1>4, <2>2 DEF RotationOf, SnapshotsOf, Verifiers
    <3>2. QED BY <1>2, <2>4, <2>6, <3>1 DEF Only
  <2>10. QED BY <1>1, <2>1, <2>3, <2>4, <2>7, <2>8, <2>9, GrownSafe DEF a
<1>5. CASE Verifiers(server[n]) # disk[n].pending.before
  <2>1. UNCHANGED <<binlog, server>> /\ Accepts(server[n].root, Target)
    BY <1>5 DEF Database, Target
  <2>2. H[Last].now = Target \/ coord.turned
    <3> SUFFICES ASSUME H[Last].now # Target, ~ coord.turned PROVE FALSE
      OBVIOUS
    <3>1. server[n].root = H[Last] /\ Last \in Window
      BY <1>1, BacklogFacts DEF RotationOf, AccountsOf, FoundAccounts
    <3>2. Only(H[Last], Previous)
      BY <1>1, <3>1 DEF RotationOf, AccountsOf, ChangingAccounts, Both, Found
    <3>3. QED BY <1>2, <2>1, <3>1, <3>2 DEF Accepts, Only
  <2>3. /\ Last' = Last /\ Target' = Target /\ Previous' = Previous /\ Found' = Found
        /\ \A m \in Node : Backlog(m)' = Backlog(m) /\ Volumes(m)' = Volumes(m)
    BY <1>1, <2>1 DEF Last, Target, Previous, Found, SameRotation, Backlog, Volumes
  <2>4. Window' = Window
    BY <2>3 DEF Window
  <2>5. HistoryOf(H)' /\ ServersOf(H)' /\ SafeOf(H)'
    BY <1>1, <2>1, <2>3 DEF RotationOf, HistoryOf, ServersOf, SafeOf, Joined, TypeOK
  <2>6. AccountsOf(H)'
    <3>1. FoundAccounts(H)' /\ PastAccounts(H)' /\ ChangingAccounts(H)' /\ ChangedAccounts(H)' /\ InOrder(H)'
      BY <1>1, <2>1, <2>3, <2>4 DEF RotationOf, AccountsOf, FoundAccounts, PastAccounts,
            ChangingAccounts, ChangedAccounts, InOrder, SameRotation
    <3>2. Acknowledged(H)'
      BY <1>1, <2>2, <2>3 DEF Acknowledged, SameRotation, Rotating
    <3>3. QED BY <3>1, <3>2 DEF AccountsOf
  <2>7. SnapshotsOf(H)'
    BY <1>1, <2>3 DEF RotationOf, SnapshotsOf, SameRotation
  <2>8. Staged'
    BY <1>1, <2>3 DEF RotationOf, Staged, SameRotation, Ready, Rotating
  <2>9. Used'
    BY <1>1, <2>3 DEF RotationOf, Used, SameRotation
  <2>10. RotationOf(H)'
    BY <2>5, <2>6, <2>7, <2>8, <2>9 DEF RotationOf
  <2>11. QED BY <2>10 DEF RotationInv, StateOf
<1>6. QED BY <1>4, <1>5

\* FINALIZE: what the account retained is discarded.
LEMMA FinalizeSafe ==
    ASSUME TypeOK, TypeOK', NEW H, RotationOf(H), NEW n \in Node, Finalize(n)
    PROVE  RotationInv'
<1>1. /\ coord.phase = "finalize"
      /\ SameRotation /\ spent'.used = spent.used
      /\ UNCHANGED <<disk, synced, primary>>
      /\ \A m \in Node : proc'[m].pc = proc[m].pc
      /\ Execute(n, None)
  BY AskedKeeps DEF Finalize, Asked
<1> DEFINE a == After(H[Last], None, Last + 1)
<1>2. H[Last].now = Target /\ H[Last] \in Account
  <2>1. H[Last].now = Target
    BY <1>1 DEF RotationOf, AccountsOf, Acknowledged, Rotating
  <2>2. Last \in 0 .. Last
    BY BacklogFacts
  <2>3. QED BY <2>1, <2>2 DEF RotationOf, HistoryOf
<1>3. a.now = Target /\ a.old = None
  BY <1>2 DEF After, Discarded, Account
<1> HIDE DEF a
<1>4. Only(a, Target)
  BY <1>3 DEF Only
<1>5. None \in Secret
  BY DEF Secret
<1>6. QED BY <1>1, <1>3, <1>4, <1>5, GrownSafe DEF a

-----------------------------------------------------------------------------
(* A rotation that goes on without its change. *)

\* A step that leaves the members' accounts and the group's membership alone.
LEMMA UnmadeKept ==
    ASSUME TypeOK, TypeOK', NEW H, UnmadeOf(H), binlog' = binlog, primary' = primary, SameRotation,
           \A m \in Node : server'[m].applied = server[m].applied /\ server'[m].root = server[m].root,
           \A m \in Node : proc'[m].pc = proc[m].pc,
           coord.phase = "verify" => coord'.acked = coord.acked
    PROVE  RotationInv'
<1>1. /\ Last' = Last /\ Target' = Target /\ Previous' = Previous
      /\ \A m \in Node : Backlog(m)' = Backlog(m)
  BY DEF Last, Target, Previous, SameRotation, Backlog
<1>2. Window' = Window
  BY <1>1 DEF Window
<1>3. HistoryOf(H)' /\ ServersOf(H)'
  BY <1>1 DEF UnmadeOf, HistoryOf, ServersOf, Joined, TypeOK
<1>4. UnmadeOf(H)'
  BY <1>1, <1>2, <1>3 DEF UnmadeOf, SameRotation
<1>5. QED BY <1>4 DEF RotationInv, StateOf

\* FINALIZE discards the password the platform turned back to.
LEMMA UnmadeFinalize ==
    ASSUME TypeOK, TypeOK', NEW H, UnmadeOf(H), NEW n \in Node, Finalize(n)
    PROVE  RotationInv'
<1>1. /\ coord.phase = "finalize" /\ SameRotation /\ primary' = primary
      /\ \A m \in Node : proc'[m].pc = proc[m].pc
      /\ Execute(n, None)
  BY AskedKeeps DEF Finalize, Asked
<1>2. PICK G : G = Grown(H, None)
  OBVIOUS
<1>3. None \in Secret
  BY DEF Secret
<1>4. /\ G[Last + 1] = After(H[Last], None, Last + 1)
      /\ \A i \in Window : G[i] = H[i]
      /\ HistoryOf(G)' /\ ServersOf(G)'
      /\ Window' \subseteq Window \cup {Last + 1}
  BY <1>1, <1>2, <1>3, Grows DEF UnmadeOf
<1>5. H[Last].now = Previous /\ H[Last] \in Account
  <2>1. Last \in Nat /\ server[primary].applied = Last /\ primary \in Node
    BY DEF UnmadeOf, ServersOf, TypeOK, Last
  <2>2. Last \in Window /\ Last \in 0 .. Last
    BY <2>1 DEF Window, Backlog
  <2>3. QED BY <2>2 DEF UnmadeOf, HistoryOf
<1>6. After(H[Last], None, Last + 1).now = Previous
  BY <1>5 DEF After, Discarded, Account
<1>7. \A i \in Window' : G[i].now = Previous
  BY <1>4, <1>6 DEF UnmadeOf
<1>8. UnmadeOf(G)'
  BY <1>1, <1>4, <1>7 DEF UnmadeOf, SameRotation, Target, Previous
<1>9. QED BY <1>8 DEF RotationInv, StateOf

\* VERIFY finds the password in force that should be refused.
LEMMA UnmadeServes ==
    ASSUME TypeOK, TypeOK', NEW H, UnmadeOf(H), NEW n \in Node,
           Serves(n) \/ Reconcile(n) \/ Resolve(n)
    PROVE  RotationInv'
<1>1. coord.phase \in {"member", "finalize", "verify"}
  BY DEF UnmadeOf
<1>2. CASE Prepare(n) \/ Database(n)
  BY <1>1, <1>2 DEF Prepare, Database, Asked
<1>3. CASE Finalize(n)
  BY <1>3, UnmadeFinalize
<1>4. CASE Verify(n)
  <2>1. Previous # None
    BY RotationType
  <2>2. server[n].applied \in Window /\ server[n].root = H[server[n].applied]
    <3>1. Last \in Nat /\ server[n].applied \in Nat /\ server[n].applied <= Last
      BY DEF TypeOK, Server, Last, UnmadeOf, ServersOf
    <3>2. QED BY <3>1 DEF Backlog, Window, UnmadeOf, ServersOf
  <2>3. Works(n, Previous)
    BY <1>4, <2>1, <2>2 DEF Verify, UnmadeOf, Works, Accepts
  <2>4. QED BY <1>4, <2>3 DEF Verify, Previous
<1>5. CASE Member(n) \/ Reconcile(n)
  <2>1. PICK p, steps : Adopt(n, p, steps)
    BY <1>5 DEF Member, Reconcile
  <2>2. /\ binlog' = binlog /\ primary' = primary
        /\ \A m \in Node : server'[m].applied = server[m].applied /\ server'[m].root = server[m].root
        /\ \A m \in Node : proc'[m].pc = proc[m].pc
    BY <2>1 DEF Adopt, Swap, TypeOK, Wrapper, Server
  <2>3. SameRotation
    BY <1>5, AskedKeeps DEF Member, Reconcile, SameRotation, CutShort
  <2>4. coord.phase = "verify" => coord'.acked = coord.acked
    BY <1>5 DEF Member, Asked, Reconcile, CutShort
  <2>5. QED BY <2>2, <2>3, <2>4, UnmadeKept
<1>6. CASE Resolve(n)
  <2>1. /\ UNCHANGED <<binlog, server, primary, coord>>
        /\ \A m \in Node : proc'[m].pc = proc[m].pc
    BY <1>6 DEF Resolve, TypeOK, Wrapper
  <2>2. QED BY <2>1, UnmadeKept DEF SameRotation
<1>7. QED BY <1>2, <1>3, <1>4, <1>5, <1>6 DEF Serves

LEMMA UnmadePlatform ==
    ASSUME TypeOK, NEW H, UnmadeOf(H),
           (\E p \in Password : Begin(p)) \/ NextPhase \/ Rollback \/ \E n \in Node : Clone(n)
    PROVE  Orderly => RotationInv'
<1> SUFFICES ASSUME Orderly PROVE RotationInv'
  OBVIOUS
<1>1. coord.turned /\ coord.phase \in {"member", "finalize", "verify"}
  BY DEF UnmadeOf
<1>2. NextPhase
  BY <1>1 DEF Begin, Rollback, Clone, Orderly, Happens
<1>3. /\ coord'.acked = {} /\ Target' = Target /\ Previous' = Previous
      /\ coord'.turned = coord.turned /\ coord'.phase \in {"finalize", "verify"}
  BY <1>1, <1>2, NextPhaseIs, CredentialsAssumption DEF Target, Previous, UnmadeOf
<1>4. UNCHANGED <<binlog, server, proc, primary>>
  BY <1>2 DEF NextPhase
<1>5. Last' = Last /\ \A m \in Node : Backlog(m)' = Backlog(m)
  BY <1>4 DEF Last, Backlog
<1>6. Window' = Window
  BY <1>5 DEF Window
<1>7. HistoryOf(H)' /\ ServersOf(H)'
  BY <1>4, <1>5 DEF UnmadeOf, HistoryOf, ServersOf, Joined
<1>8. UnmadeOf(H)'
  BY <1>3, <1>5, <1>6, <1>7 DEF UnmadeOf
<1>9. QED BY <1>8 DEF RotationInv, StateOf

-----------------------------------------------------------------------------
(* The invariant. *)

LEMMA RotationInit == Init => RotationInv
<1> SUFFICES ASSUME Init PROVE RotationInv
  OBVIOUS
<1>1. PICK p \in Password :
        LET account == [now |-> p, salt |-> 0, old |-> None]
        IN  /\ server = [n \in Node |-> [root |-> account, gr |-> account, applied |-> 0, channel |-> p]]
            /\ disk = [n \in Node |-> [Empty EXCEPT !.pin = p]]
            /\ synced = disk
            /\ proc = [n \in Node |-> [pc |-> "joined", env |-> p, boot |-> p, pool |-> p, resolved |-> TRUE]]
            /\ coord = [phase |-> "idle", target |-> p, previous |-> p, acked |-> {}, leader |-> None,
                        turned |-> FALSE]
            /\ variable = p
            /\ spent = [used |-> {p}, trouble |-> 0]
  BY DEF Init
<1> DEFINE account == [now |-> p, salt |-> 0, old |-> None]
<1>2. PICK H : H = [i \in 0 .. 0 |-> account]
  OBVIOUS
<1>3. /\ Last = 0 /\ primary \in Node /\ H[0] = account /\ p # None
      /\ \A n \in Node : server[n].applied = 0 /\ server[n].root = account /\ Joined(n)
      /\ coord.phase = "idle" /\ Target = p /\ Previous = p
      /\ spent.used = {p}
  BY <1>1, <1>2 DEF Init, Last, Joined, Target, Previous
<1>4. \A n \in Node : \A d \in Volumes(n) : d.pin = p /\ d.pending.to = None /\ d.pending.before.root = 0
  BY <1>1 DEF Volumes, Empty, NotStaged, Unread
<1>5. account \in Account /\ account.now = p /\ account.salt = 0 /\ account.old = None
  BY DEF Account, Secret
<1> HIDE DEF account
<1>6. Window = {0} /\ \A n \in Node : Backlog(n) = {0}
  <2>1. \A n \in Node : Backlog(n) = {0}
    BY <1>3 DEF Backlog
  <2>2. QED BY <1>3, <2>1 DEF Window
<1>7. HistoryOf(H)
  <2>1. H \in [0 .. 0 -> Account]
    BY <1>2, <1>5
  <2>2. QED BY <1>3, <1>5, <2>1 DEF HistoryOf
<1>8. ServersOf(H)
  BY <1>3 DEF ServersOf
<1>9. AccountsOf(H)
  <2>1. Only(H[0], Target)
    BY <1>3, <1>5 DEF Only
  <2>2. PastAccounts(H)
    BY <1>6, <2>1 DEF PastAccounts
  <2>3. QED BY <1>3, <2>2 DEF AccountsOf, FoundAccounts, ChangingAccounts, ChangedAccounts, InOrder,
               Acknowledged, Rotating
<1>10. SnapshotsOf(H)
  BY <1>3, <1>4 DEF SnapshotsOf
<1>11. SafeOf(H)
  BY <1>3, <1>4, <1>5, <1>6 DEF SafeOf, Accepts
<1>12. Staged /\ Used
  BY <1>3, <1>4 DEF Staged, Used, Rotating
<1>13. RotationOf(H)
  BY <1>7, <1>8, <1>9, <1>10, <1>11, <1>12 DEF RotationOf
<1>14. QED BY <1>13 DEF RotationInv, StateOf

LEMMA RotationNext == Orderly /\ TypeOK /\ RotationInv /\ [Next]_vars => TypeOK' /\ RotationInv'
<1> SUFFICES ASSUME Orderly, TypeOK, RotationInv, [Next]_vars PROVE TypeOK' /\ RotationInv'
  OBVIOUS
<1>1. PICK H : StateOf(H)
  BY DEF RotationInv
<1>0. ServersOf(H)
  BY <1>1 DEF StateOf, RotationOf, UnmadeOf
<1>2. TypeOK'
  BY <1>1, TypeNext
<1>3. ASSUME StateOf(H)' PROVE RotationInv'
  BY <1>3 DEF RotationInv
<1>4. CASE UNCHANGED vars
  <2>1. SameCoord /\ \A n \in Node : Joined(n)' => Joined(primary)'
    BY <1>0, <1>4 DEF vars, SameCoord, SameRotation, Joined, ServersOf
  <2>2. QED BY <1>1, <1>2, <1>3, <1>4, <2>1, Untouched DEF vars
<1>5. CASE LearnLeader \/ Edit
  <2>1. coord \in Rotation /\ spent \in [used : SUBSET Password, trouble : Nat]
    BY DEF TypeOK
  <2>2. SameCoord /\ UNCHANGED <<binlog, server, disk, synced, proc, primary>> /\ spent'.used = spent.used
    BY <1>5, <2>1 DEF LearnLeader, Edit, Happens, SameCoord, SameRotation, Rotation
  <2>3. \A n \in Node : Joined(n)' => Joined(primary)'
    BY <1>0, <2>2 DEF Joined, ServersOf
  <2>4. QED BY <1>1, <1>2, <1>3, <2>2, <2>3, Untouched
<1>6. CASE (\E p \in Password : Begin(p)) \/ NextPhase \/ Rollback
  <2>1. CASE UnmadeOf(H)
    BY <1>2, <1>6, <2>1, UnmadePlatform
  <2>2. CASE RotationOf(H)
    BY <1>2, <1>3, <1>6, <2>2, BeginSafe, NextPhaseSafe, RollbackSafe DEF StateOf
  <2>3. QED BY <1>1, <2>1, <2>2 DEF StateOf
<1>7. CASE Failover \/ \E n \in Node : Crash(n) \/ Clone(n)
  <2>1. ASSUME NEW n \in Node, Clone(n) PROVE RotationInv'
    BY <1>1, <1>2, <1>3, <2>1, CloneSafe, UnmadePlatform DEF StateOf
  <2>2. QED BY <1>1, <1>2, <1>3, <1>7, <2>1, CrashSafe
<1>8. ASSUME NEW n \in Node, Serves(n) \/ Reconcile(n) PROVE RotationInv'
  <2>1. CASE UnmadeOf(H)
    BY <1>2, <1>8, <2>1, UnmadeServes
  <2>2. CASE RotationOf(H)
    BY <1>2, <1>3, <1>8, <2>2, PrepareSafe, DatabaseSafe, MemberSafe, FinalizeSafe, VerifySafe
       DEF Serves, StateOf
  <2>3. QED BY <1>1, <2>1, <2>2 DEF StateOf
<1>9. ASSUME NEW n \in Node, Keeps(n) PROVE RotationInv'
  <2>1. CASE Resolve(n)
    BY <1>1, <1>2, <1>3, <2>1, ResolveSafe, UnmadeServes DEF StateOf
  <2>2. CASE ~ Resolve(n)
    BY <1>1, <1>2, <1>3, <1>9, <2>2, KeepsSafe
  <2>3. QED BY <2>1, <2>2
<1>10. CASE Next
  <2>1. \/ (\E p \in Password : Begin(p)) \/ NextPhase \/ Rollback
        \/ LearnLeader \/ Edit
        \/ Failover \/ \E n \in Node : Crash(n) \/ Clone(n)
        \/ \E n \in Node : Serves(n) \/ Reconcile(n)
        \/ \E n \in Node : Keeps(n)
    BY <1>10 DEF Next
  <2>2. QED BY <1>2, <1>5, <1>6, <1>7, <1>8, <1>9, <2>1
<1>11. QED BY <1>2, <1>4, <1>10

\* A member whose volume has a pin finds there, staged or pinned, a password that its accounts
\* accept: on the history its accounts are one of the two gets it to the end.
LEMMA SafeIsUnlocked == TypeOK /\ RotationInv => NoLockout
<1> SUFFICES ASSUME TypeOK, RotationInv, ChangeMade, NEW n \in Node, disk[n].pin # None
             PROVE  \E i \in 1 .. 2 : Accepts(server[n].root, Choices(n)[i])
  BY DEF NoLockout
<1>1. PICK H : StateOf(H)
  BY DEF RotationInv
<1>2. ~ UnmadeOf(H)
  <2>1. SUFFICES ASSUME UnmadeOf(H) PROVE FALSE
    OBVIOUS
  <2>2. Last \in Nat /\ primary \in Node /\ server[primary].applied = Last
        /\ server[primary].root = H[Last]
    BY <2>1 DEF UnmadeOf, ServersOf, TypeOK, Last
  <2>3. Last \in Window
    BY <2>2 DEF Window, Backlog
  <2>4. QED BY <2>1, <2>2, <2>3 DEF UnmadeOf, ChangeMade, Target, Previous
<1>3. RotationOf(H)
  BY <1>1, <1>2 DEF StateOf
<1>4. Accepts(server[n].root, disk[n].pin) \/ Accepts(server[n].root, disk[n].pending.to)
  BY <1>3, BacklogFacts DEF RotationOf, SafeOf, Volumes
<1>5. Choices(n)[1] = disk[n].pending.to /\ Choices(n)[2] = disk[n].pin
  BY DEF Choices
<1>6. 1 \in 1 .. 2 /\ 2 \in 1 .. 2
  OBVIOUS
<1>7. QED BY <1>4, <1>5, <1>6

LEMMA ShapesAcceptFound == TypeOK /\ RotationInv => OldKept
<1> SUFFICES ASSUME TypeOK, RotationInv, coord.phase \in {"prepare", "database", "member"}, NEW n \in Node
             PROVE  Accepts(server[n].root, Found)
  BY DEF OldKept, Found, Target, Previous
<1>1. PICK H : StateOf(H)
  BY DEF RotationInv
<1> DEFINE a == H[server[n].applied]
<1>2. Target # None /\ Previous # None
  BY RotationType
<1>3. CASE RotationOf(H)
  <2>1. a = server[n].root /\ server[n].applied \in Window /\ (coord.phase = "prepare" => a = H[Last])
    BY <1>3, BacklogFacts
  <2>2. \/ Only(a, Found) \/ Both(a, Target, Previous)
        \/ coord.turned /\ Both(a, Previous, Target)
    BY <1>3, <2>1 DEF RotationOf, AccountsOf, FoundAccounts, ChangingAccounts
  <2>3. QED BY <1>2, <2>1, <2>2 DEF Accepts, Only, Both, Found
<1>4. CASE UnmadeOf(H)
  <2>1. Last \in Nat /\ server[n].applied \in Nat /\ server[n].applied <= Last
    BY <1>4 DEF TypeOK, Server, Last, UnmadeOf, ServersOf
  <2>2. a = server[n].root /\ server[n].applied \in Window
    BY <1>4, <2>1 DEF Backlog, Window, UnmadeOf, ServersOf
  <2>3. QED BY <1>2, <1>4, <2>2 DEF UnmadeOf, Accepts, Found
<1>5. QED BY <1>1, <1>3, <1>4 DEF StateOf

-----------------------------------------------------------------------------
(* Theorems. *)

LEMMA RotationHolds == ASSUME Orderly PROVE Spec => [](TypeOK /\ RotationInv)
<1>1. Init => TypeOK /\ RotationInv
  BY TypeInit, RotationInit
<1>2. TypeOK /\ RotationInv /\ [Next]_vars => (TypeOK /\ RotationInv)'
  BY RotationNext
<1>3. QED BY <1>1, <1>2, PTL DEF Spec

\* Through crashes, power losses, failovers, lost answers, requests cut short, edits of the
\* variable and a rollback, a member that had a pin never comes to a volume whose two
\* passwords its accounts refuse (Choices, credentials.rs).
THEOREM NeverLockedOut == ASSUME Orderly PROVE Spec => []NoLockout
<1>1. Spec => [](TypeOK /\ RotationInv)
  BY RotationHolds
<1>2. TypeOK /\ RotationInv => NoLockout
  BY SafeIsUnlocked
<1>3. QED BY <1>1, <1>2, PTL

\* However often DATABASE is repeated, and whoever answers it, the snapshot of the verifiers
\* lets the change be made once: the password found in force is accepted until it is revoked.
THEOREM OldStaysAccepted == ASSUME Orderly PROVE Spec => []OldKept
<1>1. Spec => [](TypeOK /\ RotationInv)
  BY RotationHolds
<1>2. TypeOK /\ RotationInv => OldKept
  BY ShapesAcceptFound
<1>3. QED BY <1>1, <1>2, PTL
====

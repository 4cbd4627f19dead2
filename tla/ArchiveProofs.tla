--------------------------- MODULE ArchiveProofs ---------------------------
(***************************************************************************)
(* Theorems about Archive, for any servers, horizon, ages and bounds.      *)
(***************************************************************************)
EXTENDS Archive, FiniteSetTheorems, TLAPS

USE ArchiveAssumption

-----------------------------------------------------------------------------
(* What the planner keeps.  A readable full that is the newest of those    *)
(* considered is kept, whatever the cutoff.                                *)

\* Full backups as a sweep finds them: finitely many, none from the future.
Considered(fulls) == IsFiniteSet(fulls) /\ \A f \in fulls : f.at \in 0 .. now

LEMMA NewestExists ==
    ASSUME now \in Nat, NEW fulls, Considered(fulls), fulls # {}
    PROVE  \E f \in fulls : \A g \in fulls : ~ (g.at > f.at)
<1> DEFINE ages == {now - f.at : f \in fulls}
<1>1. ages \subseteq Nat /\ ages # {}
  BY DEF Considered
<1>2. PICK x \in ages : \A y \in ages : ~ (<<y, x>> \in OpToRel(<, Nat))
  BY <1>1, NatLessThanWellFounded, WFMin
<1>3. \A y \in ages : ~ (y < x)
  BY <1>1, <1>2 DEF OpToRel
<1>4. PICK f \in fulls : x = now - f.at
  BY <1>2
<1>5. ASSUME NEW g \in fulls, g.at > f.at PROVE FALSE
  <2>1. now - g.at \in ages
    OBVIOUS
  <2>2. ~ (now - g.at < now - f.at)
    BY <1>3, <1>4, <2>1
  <2>3. g.at \in Int /\ f.at \in Int
    BY DEF Considered
  <2> HIDE DEF ages
  <2>4. QED BY <1>5, <2>2, <2>3
<1>6. QED BY <1>5

LEMMA NewestIsFirst ==
    ASSUME NEW fulls, NEW n \in Int, n >= 1,
           NEW f \in fulls, \A g \in fulls : ~ (g.at > f.at)
    PROVE  f \in Newest(fulls, n)
<1>1. {g \in fulls : g.at > f.at} = {}
  OBVIOUS
<1>2. Cardinality({g \in fulls : g.at > f.at}) = 0
  BY <1>1, FS_EmptySet
<1>3. QED BY <1>2 DEF Newest

LEMMA KeepsOne ==
    ASSUME now \in Nat, NEW fulls, Considered(fulls), fulls # {},
           NEW cutoff \in Int, NEW minKept \in Nat
    PROVE  \E f \in fulls : f \in FullsToKeep(fulls, cutoff, minKept)
<1> DEFINE inside == Cardinality({f \in fulls : f.at >= cutoff})
           wanted == Max({inside, minKept, 1})
           n == Min({wanted, Cardinality(fulls)})
<1>1. inside \in Nat /\ Cardinality(fulls) \in Nat /\ Cardinality(fulls) >= 1
  <2>1. IsFiniteSet({f \in fulls : f.at >= cutoff})
    BY FS_Subset DEF Considered
  <2>2. QED BY <2>1, FS_CardinalityType, FS_EmptySet DEF Considered
<1>2. wanted \in Nat /\ wanted >= 1
  <2> HIDE DEF inside
  <2>1. \E x \in {inside, minKept, 1} : \A y \in {inside, minKept, 1} : x >= y
    BY <1>1
  <2>2. wanted \in {inside, minKept, 1} /\ \A y \in {inside, minKept, 1} : wanted >= y
    BY <2>1 DEF Max
  <2>3. QED BY <1>1, <2>2
<1>3. n \in Nat /\ n >= 1
  <2> HIDE DEF wanted
  <2>1. \E x \in {wanted, Cardinality(fulls)} : \A y \in {wanted, Cardinality(fulls)} : x <= y
    BY <1>1, <1>2
  <2>2. n \in {wanted, Cardinality(fulls)}
    BY <2>1 DEF Min
  <2>3. QED BY <1>1, <1>2, <2>2
<1>4. PICK f \in fulls : \A g \in fulls : ~ (g.at > f.at)
  BY NewestExists
<1>5. f \in Newest(fulls, n) /\ f \in Newest(fulls, n + 1)
  <2> HIDE DEF n
  <2>1. n \in Int /\ n + 1 \in Int /\ n + 1 >= 1
    BY <1>3
  <2>2. QED BY <1>3, <1>4, <2>1, NewestIsFirst
<1>6. QED BY <1>4, <1>5 DEF FullsToKeep

-----------------------------------------------------------------------------
(* What the plan spares: a complete full, if the bucket holds one and the  *)
(* plan takes anything but orphan dumps.                                   *)

\* The plan leaves both objects of full f alone.
Spares(plan, f) == \A o \in plan : ~ (o.kind \in {"dump", "meta"} /\ o.id = f)

FullsInv == now \in Nat /\ Considered(Metas(bucket))

LEMMA ReadableConsidered ==
    ASSUME FullsInv, NEW unread, NEW ls
    PROVE  Considered(Readable(bucket, unread, ls))
<1>1. Readable(bucket, unread, ls) \subseteq Metas(bucket)
  BY DEF Readable
<1>2. QED BY <1>1, FS_Subset DEF FullsInv, Considered

LEMMA OrphansSpare ==
    ASSUME NEW f \in Metas(bucket) PROVE Spares(OrphanDumps(bucket), f)
BY DEF OrphanDumps, Spares

LEMMA OthersSpare ==
    ASSUME NEW fulls, NEW f, f \notin fulls PROVE Spares(ObjectsOf(bucket, fulls), f)
BY DEF ObjectsOf, Spares

LEMMA BinlogsSpare ==
    ASSUME NEW B, \A o \in B : o \in Objects(bucket, "binlog"), NEW f PROVE Spares(B, f)
BY DEF Objects, Spares

LEMMA SharedSpares ==
    ASSUME FullsInv, NEW unread, NEW cutoff \in Int, Metas(bucket) \cap Dumps(bucket) # {}
    PROVE  \E f \in Metas(bucket) \cap Dumps(bucket) :
               Spares(PlanSharedHistory(bucket, unread, cutoff), f)
<1> DEFINE fulls == Readable(bucket, unread, Servers)
           kept == FullsToKeep(fulls, cutoff, MinFulls)
<1>1. CASE fulls # Metas(bucket) \/ fulls = {}
  BY <1>1, OrphansSpare DEF PlanSharedHistory, Spares
<1>2. CASE ~ (fulls # Metas(bucket) \/ fulls = {})
  <2>1. PICK f \in fulls : f \in kept
    BY <1>2, ReadableConsidered, KeepsOne DEF FullsInv
  <2>2. f \in Metas(bucket) \cap Dumps(bucket)
    BY DEF Readable
  <2>3. Spares(OrphanDumps(bucket), f)
    BY <2>2, OrphansSpare
  <2>4. Spares(ObjectsOf(bucket, fulls \ kept), f)
    BY <2>1, OthersSpare
  <2> HIDE DEF kept
  <2>5. QED BY <1>2, <2>2, <2>3, <2>4 DEF PlanSharedHistory, Spares, Objects, kept
<1>3. QED BY <1>1, <1>2

LEMMA LineageSpares ==
    ASSUME FullsInv, NEW unread, NEW cutoff \in Int, writer \in Servers,
           Readable(bucket, unread, {writer}) # {}
    PROVE  \E f \in Readable(bucket, unread, {writer}) :
               \A l \in Servers : Spares(PlanLineage(bucket, unread, l, cutoff), f)
<1> DEFINE own == Readable(bucket, unread, {writer})
           kept == FullsToKeep(own, cutoff, MinFulls)
<1>1. PICK f \in own : f \in kept
  BY ReadableConsidered, KeepsOne DEF FullsInv
<1>2. f.lin = writer
  BY DEF Readable
<1>3. Spares(PlanLineage(bucket, unread, writer, cutoff), f)
  <2>1. ~ Retired(bucket, unread, writer, cutoff)
    BY DEF Retired
  <2>2. Spares(ObjectsOf(bucket, own \ kept), f)
    BY <1>1, OthersSpare
  <2>3. Spares({o \in BinlogsOf(bucket, writer) : o.id < Oldest(kept).seq}, f)
    BY BinlogsSpare DEF BinlogsOf
  <2> HIDE DEF kept
  <2>4. PlanLineage(bucket, unread, writer, cutoff) =
            ObjectsOf(bucket, own \ kept) \cup
            {o \in BinlogsOf(bucket, writer) : o.id < Oldest(kept).seq}
    BY <2>1, <1>1 DEF PlanLineage, kept
  <2>5. QED BY <2>2, <2>3, <2>4 DEF Spares
<1>4. ASSUME NEW l \in Servers \ {writer} PROVE Spares(PlanLineage(bucket, unread, l, cutoff), f)
  <2> DEFINE fulls == Readable(bucket, unread, {l})
             rest == FullsToKeep(fulls, cutoff, 1)
  <2>1. f \notin fulls
    BY <1>2, <1>4 DEF Readable
  <2>2. Spares(ObjectsOf(bucket, fulls), f) /\ Spares(ObjectsOf(bucket, fulls \ rest), f)
    BY <2>1, OthersSpare
  <2>3. /\ Spares(BinlogsOf(bucket, l), f)
        /\ Spares({o \in BinlogsOf(bucket, l) : o.id < Oldest(rest).seq}, f)
    BY BinlogsSpare DEF BinlogsOf
  <2> HIDE DEF rest
  <2>4. QED BY <1>4, <2>2, <2>3 DEF PlanLineage, Spares, rest
<1>5. QED BY <1>3, <1>4

LEMMA IndependentSpares ==
    ASSUME FullsInv, NEW unread, NEW cutoff \in Int, writer \in Servers,
           Metas(bucket) \cap Dumps(bucket) # {}
    PROVE  \E f \in Metas(bucket) \cap Dumps(bucket) :
               Spares(PlanIndependent(bucket, unread, cutoff), f)
<1>1. CASE Readable(bucket, unread, {writer}) = {}
  BY <1>1 DEF PlanIndependent, Spares
<1>2. CASE Readable(bucket, unread, {writer}) # {}
  <2>1. PICK f \in Readable(bucket, unread, {writer}) :
            \A l \in Servers : Spares(PlanLineage(bucket, unread, l, cutoff), f)
    BY <1>2, LineageSpares
  <2>2. f \in Metas(bucket) \cap Dumps(bucket)
    BY DEF Readable
  <2>3. Spares(OrphanDumps(bucket), f)
    BY <2>2, OrphansSpare
  <2>4. QED BY <1>2, <2>1, <2>2, <2>3 DEF PlanIndependent, Spares
<1>3. QED BY <1>1, <1>2

LEMMA PlanSpares ==
    ASSUME FullsInv, NEW unread, writer \in Servers, Metas(bucket) \cap Dumps(bucket) # {}
    PROVE  \E f \in Metas(bucket) \cap Dumps(bucket) :
               Spares(PlanRetention(bucket, unread), f)
<1>1. now - Horizon \in Int
  BY DEF FullsInv
<1>2. CASE Horizon = 0
  BY <1>2 DEF PlanRetention, Spares
<1>3. CASE Horizon # 0
  BY <1>1, <1>3, SharedSpares, IndependentSpares DEF PlanRetention
<1>4. QED BY <1>2, <1>3

-----------------------------------------------------------------------------
(* The steps. *)

ArchiveInv == FullsInv /\ writer \in Servers /\ held \in 0 .. now /\ held <= LockWait

LEMMA SweepTakesPlanned ==
    ASSUME NEW due, NEW gone \in Attempts(due) PROVE gone \subseteq due
BY DEF Attempts

LEMMA FullsShrink ==
    ASSUME NEW B, NEW C, B \subseteq C
    PROVE  Metas(B) \subseteq Metas(C) /\ Dumps(B) \subseteq Dumps(C)
BY DEF Metas, Dumps, Objects

LEMMA InvInit == Init => ArchiveInv
<1> SUFFICES ASSUME Init PROVE ArchiveInv
  OBVIOUS
<1>1. Metas(bucket) = {}
  BY DEF Init, Metas, Objects
<1>2. FullsInv
  BY <1>1, FS_EmptySet DEF Init, FullsInv, Considered
<1>3. writer \in Servers
  <2>1. \E x \in Servers : \A y \in Servers : x <= y
    <3>1. Servers \subseteq Nat /\ Servers # {}
      OBVIOUS
    <3>2. PICK x \in Servers : \A y \in Servers : ~ (<<y, x>> \in OpToRel(<, Nat))
      BY <3>1, NatLessThanWellFounded, WFMin
    <3>3. \A y \in Servers : ~ (y < x)
      BY <3>1, <3>2 DEF OpToRel
    <3>4. ASSUME NEW y \in Servers PROVE x <= y
      <4>1. x \in Int /\ y \in Int
        BY <3>1
      <4>2. ~ (y < x)
        BY <3>3
      <4>3. QED BY <4>1, <4>2
    <3>5. QED BY <3>4
  <2>2. QED BY <2>1 DEF Init, Min
<1>4. held \in 0 .. now /\ held <= LockWait
  <2>1. now = 0 /\ held = 0 /\ LockWait \in Nat
    BY DEF Init
  <2>2. QED BY <2>1
<1>5. QED BY <1>2, <1>3, <1>4 DEF ArchiveInv

LEMMA InvNext == ASSUME ArchiveInv, [Next]_vars PROVE ArchiveInv'
<1> USE DEF ArchiveInv, FullsInv, Considered
<1>1. CASE Tick
  <2>1. /\ now' = now + 1 /\ now \in Nat /\ writer' = writer /\ bucket' = bucket
        /\ held' = IF held < LockWait THEN held + 1 ELSE held
    BY <1>1 DEF Tick
  <2>2. held' \in 0 .. now' /\ held' <= LockWait
    <3>1. held \in 0 .. now /\ held <= LockWait /\ LockWait \in Nat
      OBVIOUS
    <3>2. QED BY <2>1, <3>1
  <2>3. QED BY <2>1, <2>2 DEF Metas, Objects
<1>2. ASSUME NEW l \in Servers, Failover(l) \/ ResetVolume(l) PROVE ArchiveInv'
  <2>1. /\ now' = now /\ writer' = l /\ bucket' = bucket /\ held' = 0
    BY <1>2 DEF Failover, ResetVolume
  <2>2. LockWait \in Nat
    OBVIOUS
  <2>3. QED BY <2>1, <2>2 DEF Metas, Objects
<1>3. CASE ShipOnce
  <2>1. PICK shipped : bucket' = bucket \cup shipped /\ \A o \in shipped : o.kind = "binlog"
    <3>1. PICK closed : bucket' = bucket \cup {Binlog(writer, s, now) : s \in closed}
      BY <1>3 DEF ShipOnce
    <3> DEFINE new == {Binlog(writer, s, now) : s \in closed}
    <3>2. \A o \in new : o.kind = "binlog"
      BY DEF Binlog
    <3> HIDE DEF new
    <3>3. bucket' = bucket \cup new
      BY <3>1 DEF new
    <3>4. QED BY <3>2, <3>3
  <2>2. Metas(bucket') = Metas(bucket)
    BY <2>1 DEF Metas, Objects
  <2>3. QED BY <1>3, <2>2 DEF ShipOnce, Metas, Objects
<1>4. CASE FullBackup
  <2>1. PICK f : /\ f.at \in (now - held) .. now
                 /\ \/ bucket' = bucket \cup {Dump(f, now)}
                    \/ bucket' = bucket \cup {Dump(f, now), Meta(f, now)}
    BY <1>4 DEF FullBackup
  <2>2. Metas(bucket') \subseteq Metas(bucket) \cup {f}
    BY <2>1 DEF Metas, Objects, Dump, Meta
  <2>3. IsFiniteSet(Metas(bucket) \cup {f})
    BY FS_AddElement
  <2>4. IsFiniteSet(Metas(bucket'))
    BY <2>2, <2>3, FS_Subset
  <2>5. f.at \in 0 .. now
    <3> DEFINE x == f.at
    <3>1. x \in (now - held) .. now /\ held \in 0 .. now /\ now \in Nat
      BY <2>1
    <3> HIDE DEF x
    <3>2. x \in 0 .. now
      BY <3>1
    <3>3. QED BY <3>2 DEF x
  <2>6. QED BY <1>4, <2>2, <2>4, <2>5 DEF FullBackup, Metas, Objects
<1>5. CASE RetentionPass
  <2>1. Metas(bucket') \subseteq Metas(bucket)
    BY <1>5, FullsShrink DEF RetentionPass
  <2>2. IsFiniteSet(Metas(bucket'))
    BY <2>1, FS_Subset
  <2>3. QED BY <1>5, <2>1, <2>2 DEF RetentionPass, Metas, Objects
<1>6. CASE UNCHANGED vars
  BY <1>6 DEF vars, Metas, Objects
<1>7. QED BY <1>1, <1>2, <1>3, <1>4, <1>5, <1>6 DEF Next

LEMMA StepKeepsFull ==
    ASSUME ArchiveInv, [Next]_vars, Metas(bucket) \cap Dumps(bucket) # {}
    PROVE  (Metas(bucket) \cap Dumps(bucket))' # {}
<1>1. CASE RetentionPass
  <2>1. PICK unread, gone :
            /\ gone \in Attempts({o \in PlanRetention(bucket, unread) : now - o.put >= MinAge})
            /\ bucket' = bucket \ gone
    BY <1>1 DEF RetentionPass
  <2>2. gone \subseteq PlanRetention(bucket, unread)
    BY <2>1, SweepTakesPlanned
  <2>3. PICK f \in Metas(bucket) \cap Dumps(bucket) : Spares(PlanRetention(bucket, unread), f)
    BY PlanSpares DEF ArchiveInv
  <2>4. f \in Metas(bucket') /\ f \in Dumps(bucket')
    BY <2>1, <2>2, <2>3 DEF Spares, Metas, Dumps, Objects
  <2>5. QED BY <2>4 DEF Metas, Dumps, Objects
<1>2. CASE ~ RetentionPass
  <2>1. bucket \subseteq bucket'
    BY <1>2 DEF Next, vars, Tick, Failover, ResetVolume, ShipOnce, FullBackup
  <2>2. Metas(bucket) \subseteq Metas(bucket') /\ Dumps(bucket) \subseteq Dumps(bucket')
    BY <2>1, FullsShrink
  <2>3. QED BY <2>2 DEF Metas, Dumps, Objects
<1>3. QED BY <1>1, <1>2

\* NeverUnrestorable: however the clock, the horizon and the minimum stand, whatever metas
\* go unread and whichever deletes fail, a sweep leaves a complete full (plan_retention).
THEOREM SweepsSpareAFull == Spec => NeverUnrestorable
<1>1. Init => ArchiveInv
  BY InvInit
<1>2. ArchiveInv /\ [Next]_vars => ArchiveInv'
  BY InvNext
<1>3. ArchiveInv /\ [Next]_vars
      => [Metas(bucket) \cap Dumps(bucket) # {}
            => (Metas(bucket) \cap Dumps(bucket))' # {}]_vars
  BY StepKeepsFull
<1>4. QED BY <1>1, <1>2, <1>3, PTL DEF Spec, NeverUnrestorable

-----------------------------------------------------------------------------
(* The history behind the objects: when binlogs were opened, what the      *)
(* bucket's objects say of them, and the order of the fulls.               *)

LogInv ==
    /\ shared \in BOOLEAN /\ now \in Nat /\ writer \in Servers
    /\ log \in [Servers -> Seq(Nat)]
    /\ \A l \in Servers : \A i, j \in 1 .. Len(log[l]) : i <= j => log[l][i] <= log[l][j]
    /\ \A l \in Servers : \A i \in 1 .. Len(log[l]) : log[l][i] <= now
    /\ log[writer] # <<>>
    /\ shared => \A l \in Servers : log[l] # <<>> /\ log[l][1] = 0

BinlogOK(o) ==
    /\ o.lin \in Servers /\ o.id \in Closed(o.lin)
    /\ o.put \in Nat /\ LastEvent(o.lin, o.id) <= o.put
FullOK(f) ==
    /\ f.lin \in Servers /\ f.at \in 0 .. now
    /\ f.snap \in f.at .. now /\ f.snap - f.at <= LockWait
    /\ f.seq \in 1 .. Active(f.lin) /\ log[f.lin][f.seq] <= f.snap

ObjectsInv ==
    /\ \A o \in bucket : o.kind = "binlog" => BinlogOK(o)
    /\ \A o \in bucket : o.kind \in {"dump", "meta"} => FullOK(o.id)

Fulls == Metas(bucket) \cup Dumps(bucket)
FullsInOrder ==
    /\ \A f, g \in Fulls : f.at = g.at => f = g
    /\ \A f, g \in Fulls : f.lin = g.lin /\ f.at <= g.at => f.seq <= g.seq
    /\ \A f, g \in Fulls : f.at < g.at => f.snap <= g.at

HistoryInv == LogInv /\ ObjectsInv /\ FullsInOrder

-----------------------------------------------------------------------------
(* Greatest and least elements. *)

LEMMA GreatestOf ==
    ASSUME NEW S \in SUBSET Nat, S # {}, NEW N \in Nat, \A x \in S : x <= N
    PROVE  Max(S) \in S /\ \A y \in S : y <= Max(S)
<1> DEFINE rest == {N - x : x \in S}
<1>1. rest \subseteq Nat /\ rest # {}
  <2>1. \A x \in S : N - x \in Nat
    <3> TAKE x \in S
    <3>1. x \in Nat /\ x <= N
      OBVIOUS
    <3>2. QED BY <3>1
  <2>2. QED BY <2>1
<1>2. PICK r \in rest : \A y \in rest : ~ (<<y, r>> \in OpToRel(<, Nat))
  BY <1>1, NatLessThanWellFounded, WFMin
<1>3. \A y \in rest : ~ (y < r)
  BY <1>1, <1>2 DEF OpToRel
<1>4. PICK x \in S : r = N - x
  BY <1>2
<1>5. ASSUME NEW y \in S PROVE x >= y
  <2>1. N - y \in rest
    OBVIOUS
  <2>2. ~ (N - y < N - x)
    BY <1>3, <1>4, <2>1
  <2>3. x \in Nat /\ y \in Nat
    OBVIOUS
  <2> HIDE DEF rest
  <2>4. QED BY <2>2, <2>3
<1>6. Max(S) \in S /\ \A y \in S : Max(S) >= y
  BY <1>5 DEF Max
<1>7. \A y \in S : y \in Nat
  OBVIOUS
<1>8. QED BY <1>6, <1>7

LEMMA LeastOf ==
    ASSUME NEW S \in SUBSET Nat, S # {}
    PROVE  Min(S) \in S /\ \A y \in S : Min(S) <= y
<1>1. PICK x \in S : \A y \in S : ~ (<<y, x>> \in OpToRel(<, Nat))
  BY NatLessThanWellFounded, WFMin
<1>2. \A y \in S : ~ (y < x)
  BY <1>1 DEF OpToRel
<1>3. ASSUME NEW y \in S PROVE x <= y
  <2>1. x \in Nat /\ y \in Nat
    OBVIOUS
  <2>2. QED BY <1>2, <2>1
<1>4. QED BY <1>3 DEF Min

LEMMA LesserOf ==
    ASSUME NEW a \in Nat, NEW b \in Nat
    PROVE  Min({a, b}) = IF a <= b THEN a ELSE b
<1>1. {a, b} \in SUBSET Nat
  OBVIOUS
<1>2. Min({a, b}) \in {a, b} /\ \A y \in {a, b} : Min({a, b}) <= y
  BY <1>1, LeastOf
<1>3. QED BY <1>2

-----------------------------------------------------------------------------
(* A restore that reports success is complete up to the instant it reports. *)

LEMMA SeqOfNat ==
    ASSUME NEW S \in Seq(Nat)
    PROVE  Len(S) \in Nat /\ \A i \in 1 .. Len(S) : S[i] \in Nat
OBVIOUS

LEMMA LogTypes ==
    ASSUME LogInv, NEW l \in Servers
    PROVE  /\ now \in Nat /\ Len(log[l]) \in Nat
           /\ \A i \in 1 .. Len(log[l]) : log[l][i] \in Nat /\ log[l][i] <= now
<1>1. log[l] \in Seq(Nat) /\ now \in Nat
  BY DEF LogInv
<1>2. Len(log[l]) \in Nat /\ \A i \in 1 .. Len(log[l]) : log[l][i] \in Nat
  BY <1>1, SeqOfNat
<1>3. \A i \in 1 .. Len(log[l]) : log[l][i] <= now
  BY DEF LogInv
<1>4. QED BY <1>1, <1>2, <1>3

\* A closed binlog has a next one.
LEMMA NextIsBinlog ==
    ASSUME NEW l, Len(log[l]) \in Nat, NEW s \in Closed(l)
    PROVE  s \in 1 .. Len(log[l]) /\ s + 1 \in 1 .. Len(log[l]) /\ s <= s + 1
<1> DEFINE n == Len(log[l])
<1>1. n \in Nat /\ s \in 1 .. (n - 1)
  BY DEF Closed, Active
<1> HIDE DEF n
<1>2. s \in 1 .. n /\ s + 1 \in 1 .. n /\ s <= s + 1
  BY <1>1
<1>3. QED BY <1>2 DEF n

\* Rising points leave no second between them out.
LEMMA IntervalsCover ==
    ASSUME NEW L, NEW a \in Nat, NEW b \in Nat, \A s \in a .. b : L[s] \in Nat,
           NEW i \in Nat, a < b, L[a] <= i, i < L[b]
    PROVE  \E s \in a .. (b - 1) : L[s] <= i /\ i < L[s + 1]
<1> DEFINE S == {s \in a .. (b - 1) : L[s] <= i}
           top == Max(S)
<1>1. a \in S /\ S \in SUBSET Nat /\ \A x \in S : x <= b
  OBVIOUS
<1>2. top \in S /\ \A y \in S : y <= top
  <2>1. S # {}
    BY <1>1
  <2> HIDE DEF S
  <2>2. QED BY <1>1, <2>1, GreatestOf
<1> HIDE DEF top
<1>3. top \in a .. (b - 1) /\ L[top] <= i
  BY <1>2
<1>4. i < L[top + 1]
  <2>1. CASE top + 1 = b
    BY <2>1
  <2>2. CASE top + 1 # b
    <3>1. top + 1 \in a .. (b - 1)
      BY <1>3, <2>2
    <3>2. top + 1 \notin S
      BY <1>2, <1>3
    <3>3. ~ (L[top + 1] <= i) /\ L[top + 1] \in Nat
      BY <3>1, <3>2
    <3>4. QED BY <3>3
  <2>3. QED BY <2>1, <2>2
<1>5. QED BY <1>3, <1>4

LEMMA LogRises ==
    ASSUME LogInv, NEW l \in Servers,
           NEW i \in 1 .. Len(log[l]), NEW j \in 1 .. Len(log[l]), i <= j
    PROVE  log[l][i] <= log[l][j]
BY DEF LogInv

LEMMA BinlogsCover ==
    ASSUME LogInv, NEW l \in Servers, NEW a \in 1 .. Len(log[l]), NEW b \in 1 .. Len(log[l]),
           NEW i \in Nat, log[l][a] <= i, i < log[l][b]
    PROVE  \E s \in a .. (b - 1) : i \in Holds(l, s)
<1>1. /\ Len(log[l]) \in Nat /\ a \in Nat /\ b \in Nat
      /\ \A s \in a .. b : s \in 1 .. Len(log[l]) /\ log[l][s] \in Nat
  <2> DEFINE n == Len(log[l])
  <2>1. n \in Nat /\ a \in 1 .. n /\ b \in 1 .. n
    BY LogTypes
  <2>2. a \in Nat /\ b \in Nat /\ \A s \in a .. b : s \in 1 .. n
    <3> HIDE DEF n
    <3>1. QED BY <2>1
  <2>3. \A s \in a .. b : log[l][s] \in Nat
    BY <2>2, LogTypes
  <2>4. QED BY <2>1, <2>2, <2>3
<1>2. a < b
  <2>1. ASSUME b <= a PROVE FALSE
    <3>1. log[l][b] <= log[l][a]
      BY <2>1, LogRises
    <3>2. log[l][b] \in Nat /\ log[l][a] \in Nat
      BY LogTypes
    <3> DEFINE x == log[l][a]
               y == log[l][b]
    <3>3. x \in Nat /\ y \in Nat /\ y <= x /\ x <= i /\ i < y
      BY <3>1, <3>2
    <3> HIDE DEF x, y
    <3>4. QED BY <3>3
  <2>2. QED BY <1>1, <2>1
<1>3. PICK s \in a .. (b - 1) : log[l][s] <= i /\ i < log[l][s + 1]
  <2> DEFINE L == log[l]
  <2>1. \A s \in a .. b : L[s] \in Nat
    BY <1>1
  <2>2. L[a] <= i /\ i < L[b]
    OBVIOUS
  <2> HIDE DEF L
  <2>3. \E s \in a .. (b - 1) : L[s] <= i /\ i < L[s + 1]
    BY <1>1, <1>2, <2>1, <2>2, IntervalsCover
  <2>4. QED BY <2>3 DEF L
<1>4. log[l][s] \in Nat /\ log[l][s + 1] \in Nat
  <2>1. s \in a .. (b - 1) /\ a \in Nat /\ b \in Nat
    BY <1>1
  <2>2. s \in a .. b /\ s + 1 \in a .. b
    BY <2>1
  <2>3. QED BY <1>1, <2>2
<1>5. i \in log[l][s] .. (log[l][s + 1] - 1)
  <2> DEFINE from == log[l][s]
             to == log[l][s + 1]
  <2>1. from \in Nat /\ to \in Nat /\ from <= i /\ i < to
    BY <1>3, <1>4
  <2> HIDE DEF from, to
  <2>2. i \in from .. (to - 1)
    BY <2>1
  <2>3. QED BY <2>2 DEF from, to
<1>6. QED BY <1>5 DEF Holds, LastEvent

LEMMA ShippedOK ==
    ASSUME ObjectsInv, NEW l \in Servers, NEW s \in Shipped(bucket, l)
    PROVE  s \in Closed(l)
BY DEF ObjectsInv, Shipped, Objects, BinlogOK

LEMMA FullsOK ==
    ASSUME ObjectsInv, NEW f \in Fulls
    PROVE  FullOK(f)
BY DEF ObjectsInv, Fulls, Metas, Dumps, Objects

LEMMA Completed ==
    ASSUME NEW applied, NEW achieved, NEW target,
           VerifyAchievedPoint(applied, achieved, target).verdict = "completed"
    PROVE  /\ VerifyAchievedPoint(applied, achieved, target).applied = applied
           /\ VerifyAchievedPoint(applied, achieved, target).achieved = achieved
BY DEF VerifyAchievedPoint, Refused

LEMMA ReplayStays ==
    ASSUME LogInv, NEW f, FullOK(f), NEW files, NEW t \in Nat, NEW i \in Replay(f, files, t)
    PROVE  i < f.snap \/ i < t
BY LogTypes DEF Replay, Born, FullOK

LEMMA IndependentHonest ==
    ASSUME LogInv, ObjectsInv, NEW f, FullOK(f), NEW t \in Nat, f.at <= t,
           ReplayBinlogs(bucket, f, t).verdict = "completed"
    PROVE  LET r == ReplayBinlogs(bucket, f, t)
           IN  /\ Owed(f, r.achieved) \subseteq r.applied
               /\ \A i \in r.applied : i < f.snap \/ i < t
<1> DEFINE files == Shipped(bucket, f.lin)
           run == GapFreeRun(files, f.seq)
           last == IF run = {} THEN f.at ELSE LastEvent(f.lin, Max(run))
           applied == Replay(f, {f.lin} \X run, t)
           achieved == Min({last, t})
           r == ReplayBinlogs(bucket, f, t)
<1>1. r = VerifyAchievedPoint(applied, achieved, t)
  <2>1. r = IF PastGap(files, f.seq) # {} /\ last < t THEN Refused("binlog-gap")
            ELSE VerifyAchievedPoint(applied, achieved, t)
    BY DEF ReplayBinlogs
  <2>2. Refused("binlog-gap").verdict # "completed"
    BY DEF Refused
  <2> HIDE DEF files, run, last, applied, achieved
  <2>3. QED BY <2>1, <2>2
<1>2. r.applied = applied /\ r.achieved = achieved
  <2> HIDE DEF applied, achieved
  <2>1. QED BY <1>1, Completed
<1>3. /\ f.lin \in Servers /\ f.at \in Nat /\ f.snap \in Nat /\ f.at <= f.snap
      /\ f.seq \in 1 .. Len(log[f.lin]) /\ log[f.lin][f.seq] <= f.snap
  BY DEF FullOK, Active
<1>4. run \in SUBSET Closed(f.lin) /\ \A s \in run : f.seq .. s \subseteq run
  <2>1. run \subseteq files /\ \A s \in run : f.seq .. s \subseteq files
    BY DEF GapFreeRun
  <2>2. files \subseteq Closed(f.lin) /\ files \subseteq Int
    <3>1. files \subseteq Closed(f.lin)
      BY <1>3, ShippedOK
    <3>2. Closed(f.lin) \subseteq Int
      BY DEF Closed
    <3>3. QED BY <3>1, <3>2
  <2>3. ASSUME NEW s \in run, NEW u \in f.seq .. s PROVE u \in run
    <3>1. f.seq \in Int /\ s \in Int /\ u \in Int /\ f.seq <= u /\ u <= s
      BY <1>3, <2>1, <2>2
    <3>2. f.seq .. u \subseteq f.seq .. s
      BY <3>1
    <3>3. QED BY <2>1, <3>1, <3>2 DEF GapFreeRun
  <2>4. QED BY <2>1, <2>2, <2>3
<1>5. last \in Nat /\ \A i \in f.snap .. (last - 1) : \E s \in run : i \in Holds(f.lin, s)
  <2>1. CASE run = {}
    <3> DEFINE x == f.at
               y == f.snap
    <3>1. last = x /\ x \in Nat /\ y \in Nat /\ x <= y
      BY <1>3, <2>1
    <3> HIDE DEF last, x, y
    <3>2. last \in Nat /\ y .. (last - 1) = {}
      BY <3>1
    <3>3. QED BY <3>2 DEF y
  <2>2. CASE run # {}
    <3> DEFINE top == Max(run)
    <3>1. top \in run
      <4> DEFINE n == Len(log[f.lin])
      <4>1. run \subseteq 1 .. (n - 1) /\ n \in Nat
        BY <1>3, <1>4, LogTypes DEF Closed, Active
      <4> HIDE DEF run, n
      <4>2. run \in SUBSET Nat /\ \A x \in run : x <= n
        BY <4>1
      <4>3. QED BY <2>2, <4>1, <4>2, GreatestOf
    <3>2. last = log[f.lin][top + 1]
      BY <2>2 DEF LastEvent
    <3> HIDE DEF top, last, run
    <3>3. top \in 1 .. (Len(log[f.lin]) - 1) /\ top + 1 \in 1 .. Len(log[f.lin])
      <4>1. Len(log[f.lin]) \in Nat /\ top \in Closed(f.lin)
        BY <1>3, <1>4, <3>1, LogTypes
      <4>2. QED BY <4>1 DEF Closed, Active
    <3>4. last \in Nat
      <4>1. log[f.lin][top + 1] \in Nat
        BY <1>3, <3>3, LogTypes DEF LogInv
      <4>2. QED BY <3>2, <4>1
    <3> DEFINE opened == log[f.lin][f.seq]
    <3>5. opened \in Nat /\ opened <= f.snap
      <4>1. opened \in Nat
        BY <1>3, LogTypes DEF LogInv
      <4>2. QED BY <1>3, <4>1
    <3>6. ASSUME NEW i \in f.snap .. (last - 1) PROVE \E s \in run : i \in Holds(f.lin, s)
      <4>1. i \in Nat /\ log[f.lin][f.seq] <= i /\ i < log[f.lin][top + 1]
        <5> HIDE DEF opened
        <5>1. i \in Nat /\ opened <= i /\ i < last
          BY <1>3, <3>4, <3>5
        <5>2. QED BY <3>2, <5>1 DEF opened
      <4>2. PICK s \in f.seq .. ((top + 1) - 1) : i \in Holds(f.lin, s)
        BY <1>3, <3>3, <4>1, BinlogsCover
      <4>3. s \in f.seq .. top
        BY <1>3, <3>3
      <4>4. QED BY <1>4, <3>1, <4>2, <4>3
    <3>7. QED BY <3>4, <3>6
  <2>3. QED BY <2>1, <2>2
<1> HIDE DEF last, run
<1>6. achieved \in Nat /\ achieved <= last /\ achieved <= t
  BY <1>5, LesserOf
<1>7. ASSUME NEW i \in Owed(f, achieved) PROVE i \in applied
  <2>1. CASE i < f.snap
    BY <1>3, <2>1, LogTypes DEF Owed, Born, Replay
  <2>2. CASE ~ (i < f.snap)
    <3>1. i \in f.snap .. (last - 1) /\ i < t
      <4>1. i \in Int /\ i <= achieved - 1
        <5>1. Born(f.lin) \in Int /\ i \in Born(f.lin) .. (achieved - 1)
          <6> HIDE DEF achieved
          <6>1. i \in Born(f.lin) .. (achieved - 1)
            BY DEF Owed
          <6>2. 1 \in 1 .. Len(log[f.lin])
            BY <1>3, LogTypes
          <6>3. Born(f.lin) \in Nat
            BY <1>3, <6>2, LogTypes DEF Born
          <6>4. QED BY <6>1, <6>3
        <5> HIDE DEF achieved
        <5>2. QED BY <1>6, <5>1
      <4> DEFINE from == f.snap
      <4>2. from \in Nat /\ ~ (i < from) /\ last \in Nat /\ achieved \in Nat
            /\ achieved <= last /\ achieved <= t
        BY <1>3, <1>5, <1>6, <2>2
      <4> HIDE DEF achieved, from
      <4>3. i \in from .. (last - 1) /\ i < t
        BY <4>1, <4>2
      <4>4. QED BY <4>3 DEF from
    <3>2. PICK s \in run : i \in Holds(f.lin, s)
      BY <1>5, <3>1
    <3>3. <<f.lin, s>> \in {f.lin} \X run
      BY <3>2
    <3>4. QED BY <3>1, <3>2, <3>3 DEF Replay
  <2>3. QED BY <2>1, <2>2
<1>8. \A i \in applied : i < f.snap \/ i < t
  BY ReplayStays
<1>9. QED BY <1>2, <1>7, <1>8

\* A binlog of the bucket that was opened after the target vouches, with no hole across the
\* target, for one that holds the target's last second: unless the full itself reaches it.
LEMMA TargetCovered ==
    ASSUME LogInv, ObjectsInv, shared, NEW f, FullOK(f), NEW t \in 0 .. now, f.snap < t,
           ~ HoleAcross(t), NEW l \in Servers, NEW s \in Shipped(bucket, l),
           l = f.lin => s >= f.seq, log[l][s] >= t
    PROVE  \E u \in Shipped(bucket, l) :
               /\ l = f.lin => u >= f.seq
               /\ log[l][u] < t /\ t <= LastEvent(l, u)
<1>1. /\ Len(log[l]) \in Nat /\ s \in 1 .. (Len(log[l]) - 1) /\ t \in Nat /\ 1 \in 1 .. Len(log[l])
      /\ log[l][1] = 0 /\ t - 1 \in Nat
  <2>1. Len(log[l]) \in Nat /\ s \in 1 .. (Len(log[l]) - 1)
    BY LogTypes, ShippedOK DEF Closed, Active
  <2>2. f.snap \in Nat /\ now \in Nat
    BY LogTypes DEF FullOK
  <2> DEFINE x == f.snap
  <2> HIDE DEF x
  <2>3. t \in Nat /\ t - 1 \in Nat
    <3>1. x \in Nat /\ x < t /\ t \in 0 .. now /\ now \in Nat
      BY <2>2 DEF x
    <3>2. QED BY <3>1
  <2>4. log[l][1] = 0
    BY DEF LogInv
  <2>5. QED BY <2>1, <2>3, <2>4
<1>2. s \in 1 .. Len(log[l]) /\ log[l][s] \in Nat
  <2>1. s \in 1 .. Len(log[l])
    BY <1>1
  <2>2. QED BY <2>1, LogTypes
<1>3. PICK u \in 1 .. (s - 1) : t - 1 \in Holds(l, u)
  <2>1. log[l][1] <= t - 1 /\ t - 1 < log[l][s]
    <3> DEFINE x == log[l][s]
    <3>1. x \in Nat /\ x >= t /\ t \in Nat /\ t - 1 \in Nat
      BY <1>1, <1>2
    <3> HIDE DEF x
    <3>2. 0 <= t - 1 /\ t - 1 < x
      BY <3>1
    <3>3. QED BY <1>1, <3>2 DEF x
  <2>2. QED BY <1>1, <1>2, <2>1, BinlogsCover
<1>4. u \in Closed(l) /\ u \in 1 .. Len(log[l]) /\ u + 1 \in 1 .. Len(log[l]) /\ u < s
  <2> DEFINE n == Len(log[l])
  <2>1. n \in Nat /\ s \in 1 .. (n - 1) /\ u \in 1 .. (s - 1)
    BY <1>1, <1>3
  <2> HIDE DEF n
  <2>2. u \in 1 .. (n - 1) /\ u \in 1 .. n /\ u + 1 \in 1 .. n /\ u < s
    BY <2>1
  <2>3. QED BY <2>2 DEF n, Closed, Active
<1>5. log[l][u] \in Nat /\ log[l][u + 1] \in Nat
  BY <1>4, LogTypes
<1>6. log[l][u] < t /\ t <= log[l][u + 1]
  <2> DEFINE x == log[l][u]
             y == log[l][u + 1]
  <2>1. t - 1 \in x .. (y - 1) /\ x \in Nat /\ y \in Nat /\ t \in Nat
    BY <1>1, <1>3, <1>5 DEF Holds, LastEvent
  <2> HIDE DEF x, y
  <2>2. x < t /\ t <= y
    BY <2>1
  <2>3. QED BY <2>2 DEF x, y
<1>7. u \in Shipped(bucket, l)
  BY <1>4, <1>6 DEF HoleAcross
<1>8. ASSUME l = f.lin PROVE u >= f.seq
  <2> SUFFICES ASSUME ~ (u >= f.seq) PROVE FALSE
    OBVIOUS
  <2>1. f.seq \in 1 .. Len(log[l]) /\ log[l][f.seq] <= f.snap /\ f.snap \in Int
    <3>1. f.seq \in 1 .. Len(log[f.lin]) /\ log[f.lin][f.seq] <= f.snap /\ f.snap \in Int
      BY DEF FullOK, Active
    <3>2. QED BY <1>8, <3>1
  <2>2. u + 1 <= f.seq
    <3> DEFINE q == f.seq
               n == Len(log[l])
    <3>1. u \in Nat /\ q \in 1 .. n /\ n \in Nat /\ ~ (u >= q)
      BY <1>4, <2>1, LogTypes
    <3> HIDE DEF q, n
    <3>2. u + 1 <= q
      BY <3>1
    <3>3. QED BY <3>2 DEF q
  <2>3. log[l][u + 1] <= log[l][f.seq]
    BY <1>4, <2>1, <2>2, LogRises
  <2>4. log[l][f.seq] \in Nat
    BY <2>1, LogTypes
  <2> DEFINE x == log[l][f.seq]
             y == log[l][u + 1]
  <2>5. x \in Nat /\ y \in Nat /\ y <= x /\ x <= f.snap /\ t <= y /\ f.snap \in Int /\ t \in Int
    BY <1>1, <1>5, <1>6, <2>1, <2>3, <2>4
  <2> HIDE DEF x, y
  <2>6. QED BY <2>5
<1>9. QED BY <1>6, <1>7, <1>8 DEF LastEvent

LEMMA SharedHonest ==
    ASSUME LogInv, ObjectsInv, shared, NEW f, FullOK(f), NEW t \in 0 .. now, f.at <= t,
           ReplaySharedHistory(bucket, f, t).verdict = "completed"
    PROVE  LET r == ReplaySharedHistory(bucket, f, t)
           IN  /\ HoleAcross(t) \/ Owed(f, r.achieved) \subseteq r.applied
               /\ \A i \in r.applied : i < f.snap \/ i < t
<1> DEFINE own == {f.lin} \X {s \in Shipped(bucket, f.lin) : s >= f.seq}
           others == UNION {{l} \X Shipped(bucket, l) : l \in Servers \ {f.lin}}
           files == own \cup others
           applied == Replay(f, files, t)
           witnesses == {p \in files : log[p[1]][p[2]] < t}
           ends == {Min({LastEvent(p[1], p[2]), t}) : p \in files}
           achieved == Max({f.at} \cup ends)
           r == ReplaySharedHistory(bucket, f, t)
<1>1. /\ r = VerifyAchievedPoint(applied, achieved, t)
      /\ \A p \in witnesses : PreviousGtids(p[1], p[2]) \subseteq applied
  <2>1. r = IF \E p \in witnesses : ~ (PreviousGtids(p[1], p[2]) \subseteq applied)
            THEN Refused("gtid-hole") ELSE VerifyAchievedPoint(applied, achieved, t)
    BY DEF ReplaySharedHistory
  <2>2. Refused("gtid-hole").verdict # "completed"
    BY DEF Refused
  <2> HIDE DEF files, applied, witnesses, achieved
  <2>3. QED BY <2>1, <2>2
<1>2. r.applied = applied /\ r.achieved = achieved
  <2> HIDE DEF applied, achieved
  <2>1. QED BY <1>1, Completed
<1>3. f.lin \in Servers /\ f.at \in Nat /\ f.snap \in Nat /\ f.at <= f.snap /\ now \in Nat /\ t \in Nat /\ Born(f.lin) = 0
  <2>1. f.lin \in Servers /\ f.at \in 0 .. now /\ f.snap \in f.at .. now
    BY DEF FullOK
  <2>2. now \in Nat
    BY DEF LogInv
  <2>3. Born(f.lin) = 0
    BY <2>1 DEF LogInv, Born
  <2>4. QED BY <2>1, <2>2, <2>3
<1>4. ASSUME NEW p \in files
      PROVE  /\ p[1] \in Servers /\ p[2] \in Shipped(bucket, p[1]) /\ p = <<p[1], p[2]>>
             /\ p[1] = f.lin => p[2] >= f.seq
             /\ p[2] \in 1 .. Len(log[p[1]]) /\ p[2] + 1 \in 1 .. Len(log[p[1]])
             /\ log[p[1]][p[2]] \in Nat /\ LastEvent(p[1], p[2]) \in Nat
             /\ Born(p[1]) = 0
  <2>1. /\ p[1] \in Servers /\ p[2] \in Shipped(bucket, p[1]) /\ p = <<p[1], p[2]>>
        /\ p[1] = f.lin => p[2] >= f.seq
    BY <1>3, <1>4
  <2>2. p[2] \in Closed(p[1]) /\ Len(log[p[1]]) \in Nat
    BY <2>1, ShippedOK, LogTypes
  <2>3. p[2] \in 1 .. Len(log[p[1]]) /\ p[2] + 1 \in 1 .. Len(log[p[1]])
    BY <2>2, NextIsBinlog
  <2>4. log[p[1]][p[2]] \in Nat /\ log[p[1]][p[2] + 1] \in Nat
    BY <2>1, <2>3, LogTypes
  <2>5. Born(p[1]) = 0
    BY <2>1 DEF LogInv, Born
  <2>6. QED BY <2>1, <2>3, <2>4, <2>5 DEF LastEvent
<1>5. /\ achieved \in Nat
      /\ achieved = f.at \/ \E p \in files : achieved = Min({LastEvent(p[1], p[2]), t})
  <2>1. \A p \in files : Min({LastEvent(p[1], p[2]), t}) \in 0 .. t
    <3> TAKE p \in files
    <3> DEFINE e == LastEvent(p[1], p[2])
    <3>1. e \in Nat /\ t \in Nat
      BY <1>3, <1>4
    <3> HIDE DEF e, files
    <3>2. Min({e, t}) \in 0 .. t
      BY <3>1, LesserOf
    <3>3. QED BY <3>2 DEF e
  <2> DEFINE S == {f.at} \cup ends
  <2>2. S \in SUBSET Nat /\ S # {} /\ \A x \in S : x <= t
    <3>1. \A x \in ends : x \in Nat /\ x <= t
      <4> TAKE x \in ends
      <4>1. x \in 0 .. t
        BY <2>1
      <4> HIDE DEF ends
      <4>2. QED BY <1>3, <4>1
    <3> HIDE DEF ends
    <3>2. QED BY <1>3, <3>1
  <2>3. Max(S) \in S
    <3> HIDE DEF S
    <3>1. QED BY <1>3, <2>2, GreatestOf
  <2>4. achieved \in S
    BY <2>3
  <2> HIDE DEF achieved, files
  <2>5. achieved \in Nat
    <3> HIDE DEF S
    <3>1. QED BY <2>2, <2>4
  <2>6. QED BY <2>4, <2>5

\* A witness brings everything before it, and itself.
<1>6. ASSUME NEW p \in witnesses, NEW i \in Nat, i < t, i < LastEvent(p[1], p[2])
      PROVE  i \in applied
  <2>1. p \in files
    OBVIOUS
  <2> DEFINE from == log[p[1]][p[2]]
             to == LastEvent(p[1], p[2])
  <2>2. from \in Nat /\ to \in Nat /\ i < to /\ Born(p[1]) = 0
    <3> HIDE DEF files
    <3>1. QED BY <1>4, <1>6, <2>1
  <2> HIDE DEF from, to, files, witnesses
  <2>3. CASE i < from
    <3>1. i \in 0 .. (from - 1)
      BY <2>2, <2>3
    <3>2. i \in PreviousGtids(p[1], p[2])
      BY <2>2, <3>1 DEF PreviousGtids, from
    <3> HIDE DEF applied
    <3>3. QED BY <1>1, <1>6, <3>2
  <2>4. CASE ~ (i < from)
    <3>1. i \in from .. (to - 1)
      BY <2>2, <2>4
    <3>2. i \in Holds(p[1], p[2])
      BY <3>1 DEF Holds, from, to
    <3>3. QED BY <1>6, <2>1, <3>2 DEF Replay
  <2>5. QED BY <2>3, <2>4
<1>7. ASSUME ~ HoleAcross(t), NEW i \in Owed(f, achieved) PROVE i \in applied
  <2>1. i \in Nat /\ i < achieved
    <3> HIDE DEF achieved
    <3>1. QED BY <1>3, <1>5, <1>7 DEF Owed
  <2>2. CASE i < f.snap
    <3> HIDE DEF files
    <3>1. QED BY <1>3, <2>1, <2>2 DEF Replay
  <2>3. CASE ~ (i < f.snap)
    <3>1. PICK p \in files : achieved = Min({LastEvent(p[1], p[2]), t})
      <4> HIDE DEF achieved, files
      <4>1. QED BY <1>3, <1>5, <2>1, <2>3
    <3> HIDE DEF achieved, files
    <3>2. i < t /\ i < LastEvent(p[1], p[2])
      <4> DEFINE e == LastEvent(p[1], p[2])
      <4>1. e \in Nat /\ t \in Nat /\ i \in Nat /\ i < achieved /\ achieved = Min({e, t})
        BY <1>3, <1>4, <2>1, <3>1
      <4> HIDE DEF e
      <4>2. i < t /\ i < e
        BY <4>1, LesserOf
      <4>3. QED BY <4>2 DEF e
    <3>3. CASE log[p[1]][p[2]] < t
      <4>1. p \in witnesses
        BY <3>1, <3>3
      <4> HIDE DEF witnesses, applied
      <4>2. QED BY <1>6, <2>1, <3>2, <4>1
    <3>4. CASE ~ (log[p[1]][p[2]] < t)
      <4>1. log[p[1]][p[2]] >= t /\ f.snap < t
        <5> DEFINE x == log[p[1]][p[2]]
        <5>1. x \in Nat /\ ~ (x < t) /\ t \in Nat /\ f.snap \in Nat /\ i \in Nat /\ ~ (i < f.snap) /\ i < t
          BY <1>3, <1>4, <2>1, <2>3, <3>1, <3>2, <3>4
        <5> HIDE DEF x
        <5>2. x >= t /\ f.snap < t
          BY <5>1
        <5>3. QED BY <5>2 DEF x
      <4>2. PICK u \in Shipped(bucket, p[1]) :
                /\ p[1] = f.lin => u >= f.seq
                /\ log[p[1]][u] < t /\ t <= LastEvent(p[1], u)
        BY <1>4, <1>7, <3>1, <4>1, TargetCovered
      <4> DEFINE q == <<p[1], u>>
      <4>3. q \in witnesses
        <5>1. p[1] \in Servers
          BY <1>4, <3>1
        <5>2. q \in files
          BY <4>2, <5>1 DEF files
        <5>3. QED BY <4>2, <5>2
      <4>4. i < LastEvent(q[1], q[2])
        <5>1. u \in Closed(p[1]) /\ Len(log[p[1]]) \in Nat
          BY <1>4, <3>1, <4>2, ShippedOK, LogTypes
        <5>2. u + 1 \in 1 .. Len(log[p[1]])
          BY <5>1 DEF Closed, Active
        <5>3. LastEvent(p[1], u) \in Nat
          BY <1>4, <3>1, <5>2, LogTypes DEF LastEvent
        <5>4. QED BY <1>3, <2>1, <3>2, <4>2, <5>3
      <4> HIDE DEF witnesses, applied, q
      <4>5. QED BY <1>6, <2>1, <3>2, <4>3, <4>4
    <3>5. QED BY <3>3, <3>4
  <2>4. QED BY <2>2, <2>3
<1>8. \A i \in applied : i < f.snap \/ i < t
  <2> HIDE DEF files
  <2>1. QED BY <1>3, ReplayStays
<1> HIDE DEF applied, achieved, r
<1>9. QED BY <1>2, <1>7, <1>8 DEF r

\* The base is the only one of its instant, so "newest" names it.
LEMMA Base ==
    ASSUME LogInv, ObjectsInv, FullsInOrder, NEW ms \in SUBSET Metas(bucket), NEW t \in 0 .. now,
           \E f \in ms : f.at <= t
    PROVE  LET f == NewestQualifyingFull(ms, t)
           IN  f \in ms /\ f.at <= t /\ \A g \in ms : g.at <= t => g.at <= f.at
<1> DEFINE ok == {f \in ms : f.at <= t}
           ages == {f.at : f \in ok}
<1>1. now \in Nat /\ t \in Nat /\ \A f \in ms : f \in Fulls /\ f.at \in Nat /\ f.lin \in Servers
  <2>1. now \in Nat
    BY DEF LogInv
  <2>2. \A f \in ms : f \in Fulls /\ FullOK(f)
    BY FullsOK DEF Fulls
  <2>3. QED BY <2>1, <2>2 DEF FullOK
<1>2. ok # {}
  OBVIOUS
<1>3. ages \in SUBSET Nat /\ ages # {} /\ \A x \in ages : x <= t
  BY <1>1, <1>2
<1>4. Max(ages) \in ages /\ \A y \in ages : y <= Max(ages)
  <2> HIDE DEF ages
  <2>1. QED BY <1>1, <1>3, GreatestOf
<1>5. PICK f \in ok : \A g \in ok : g.at <= f.at
  BY <1>4
<1>6. \A g \in ok : g.at < f.at \/ (g.at = f.at /\ g.lin <= f.lin)
  <2> TAKE g \in ok
  <2>1. g.at \in Nat /\ f.at \in Nat /\ g.at <= f.at /\ f.lin \in Int
    <3>1. g \in ms /\ f \in ms /\ g.at <= f.at
      BY <1>5
    <3>2. g.at \in Nat /\ f.at \in Nat /\ f.lin \in Servers
      BY <1>1, <3>1
    <3>3. f.lin \in Int
      <4>1. Servers \subseteq Nat
        OBVIOUS
      <4>2. f.lin \in Nat
        BY <3>2, <4>1
      <4>3. QED BY <4>2
    <3>4. QED BY <3>1, <3>2, <3>3
  <2>2. CASE g.at = f.at
    <3>1. g = f
      BY <1>1, <2>2 DEF FullsInOrder
    <3>2. QED BY <2>1, <2>2, <3>1
  <2>3. CASE g.at # f.at
    BY <2>1, <2>3
  <2>4. QED BY <2>2, <2>3
<1> DEFINE h == NewestQualifyingFull(ms, t)
<1>7. h \in ok /\ \A g \in ok : g.at < h.at \/ (g.at = h.at /\ g.lin <= h.lin)
  <2>1. h = CHOOSE x \in ok : \A g \in ok : g.at < x.at \/ (g.at = x.at /\ g.lin <= x.lin)
    BY <1>2 DEF NewestQualifyingFull
  <2> HIDE DEF ok, h
  <2>2. QED BY <1>6, <2>1
<1> HIDE DEF h
<1>8. \A g \in ok : g.at <= h.at
  <2> TAKE g \in ok
  <2>1. g.at \in Nat /\ h.at \in Nat
    BY <1>1, <1>7
  <2>2. QED BY <1>7, <2>1
<1>9. QED BY <1>7, <1>8 DEF h

LEMMA HonestNow == ASSUME HistoryInv PROVE RestoreHonest
<1> USE DEF HistoryInv
<1> SUFFICES ASSUME NEW t \in 0 .. now,
                    Restore(bucket, t).verdict = "completed"
             PROVE  LET r == Restore(bucket, t)
                        f == NewestQualifyingFull(Metas(bucket), t)
                    IN  /\ (shared /\ HoleAcross(t)) \/ Owed(f, r.achieved) \subseteq r.applied
                        /\ \A i \in r.applied : i < t \/ (i < f.snap /\ f.snap - f.at <= LockWait)
  BY DEF RestoreHonest
<1> DEFINE f == NewestQualifyingFull(Metas(bucket), t)
<1>1. f # None /\ f \in Dumps(bucket)
  BY DEF Restore, Refused
<1>2. f \in Metas(bucket) /\ f.at <= t
  <2>1. \E g \in Metas(bucket) : g.at <= t
    BY <1>1 DEF NewestQualifyingFull
  <2>2. QED BY <2>1, Base
<1>3. FullOK(f)
  BY <1>2, FullsOK DEF Fulls
<1>4. t \in Nat /\ f.snap - f.at <= LockWait
  BY <1>3 DEF LogInv, FullOK
<1> HIDE DEF f
<1>5. CASE shared
  <2>1. Restore(bucket, t) = ReplaySharedHistory(bucket, f, t)
    BY <1>1, <1>5 DEF Restore, f
  <2>2. QED BY <1>2, <1>3, <1>4, <1>5, <2>1, SharedHonest DEF f
<1>6. CASE ~ shared
  <2>1. Restore(bucket, t) = ReplayBinlogs(bucket, f, t)
    BY <1>1, <1>6 DEF Restore, f
  <2>2. QED BY <1>2, <1>3, <1>4, <2>1, IndependentHonest DEF f
<1>7. QED BY <1>5, <1>6

-----------------------------------------------------------------------------
(* The steps keep the history. *)

LEMMA HistoryInit == ASSUME Init PROVE HistoryInv
<1>1. writer \in Servers
  BY InvInit DEF ArchiveInv
<1>2. LogInv
  <2>1. \A l \in Servers : log[l] = <<0>> \/ log[l] = <<>>
    BY DEF Init
  <2>2. \A l \in Servers : \A i \in 1 .. Len(log[l]) : log[l][i] = 0
    BY <2>1
  <2>3. log \in [Servers -> Seq(Nat)]
    BY DEF Init
  <2>4. log[writer] # <<>> /\ (shared => \A l \in Servers : log[l] # <<>> /\ log[l][1] = 0)
    BY <1>1 DEF Init
  <2>5. now = 0 /\ shared \in BOOLEAN
    BY DEF Init
  <2>6. \A l \in Servers : \A i, j \in 1 .. Len(log[l]) : i <= j => log[l][i] <= log[l][j]
    <3>1. 0 <= 0
      OBVIOUS
    <3>2. QED BY <2>2, <3>1
  <2>7. \A l \in Servers : \A i \in 1 .. Len(log[l]) : log[l][i] <= now
    <3>1. 0 <= now
      BY <2>5
    <3>2. QED BY <2>2, <3>1
  <2>8. QED BY <1>1, <2>3, <2>4, <2>5, <2>6, <2>7 DEF LogInv
<1>3. ObjectsInv /\ FullsInOrder
  BY DEF Init, ObjectsInv, FullsInOrder, Fulls, Metas, Dumps, Objects
<1>4. QED BY <1>2, <1>3 DEF HistoryInv

\* Logs that only grow keep what the objects say of them.
LEMMA LogsGrow ==
    ASSUME LogInv, ObjectsInv, bucket' = bucket, now' \in Nat, now <= now',
           \A l \in Servers : /\ Len(log'[l]) \in Nat /\ Len(log[l]) <= Len(log'[l])
                              /\ \A i \in 1 .. Len(log[l]) : log'[l][i] = log[l][i]
    PROVE  ObjectsInv'
<1>1. ASSUME NEW o, BinlogOK(o) PROVE BinlogOK(o)'
  <2> DEFINE n == Len(log[o.lin])
             m == Len(log'[o.lin])
  <2>1. o.lin \in Servers /\ o.id \in 1 .. (n - 1) /\ o.put \in Nat /\ log[o.lin][o.id + 1] <= o.put
    BY <1>1 DEF BinlogOK, Closed, Active, LastEvent
  <2>2. n \in Nat /\ m \in Nat /\ n <= m
    BY <2>1, LogTypes
  <2>3. \A i \in 1 .. n : log'[o.lin][i] = log[o.lin][i]
    BY <2>1
  <2> HIDE DEF n, m
  <2>4. o.id \in 1 .. (m - 1) /\ o.id + 1 \in 1 .. n
    <3> DEFINE i == o.id
    <3>1. i \in 1 .. (n - 1)
      BY <2>1
    <3> HIDE DEF i
    <3>2. i \in 1 .. (m - 1) /\ i + 1 \in 1 .. n
      BY <2>2, <3>1
    <3>3. QED BY <3>2 DEF i
  <2>5. log'[o.lin][o.id + 1] <= o.put
    BY <2>1, <2>3, <2>4
  <2>6. QED BY <2>1, <2>4, <2>5 DEF BinlogOK, Closed, Active, LastEvent, m
<1>2. ASSUME NEW f, FullOK(f) PROVE FullOK(f)'
  <2> DEFINE n == Len(log[f.lin])
             m == Len(log'[f.lin])
  <2>1. /\ f.lin \in Servers /\ f.at \in 0 .. now /\ f.snap \in f.at .. now /\ f.snap - f.at <= LockWait
        /\ f.seq \in 1 .. n /\ log[f.lin][f.seq] <= f.snap
    BY <1>2 DEF FullOK, Active
  <2>2. n \in Nat /\ m \in Nat /\ n <= m /\ now \in Nat
    BY <2>1, LogTypes
  <2>3. log'[f.lin][f.seq] <= f.snap
    BY <2>1
  <2> HIDE DEF n, m
  <2>4. f.at \in 0 .. now' /\ f.snap \in f.at .. now' /\ f.seq \in 1 .. m
    <3> DEFINE i == f.seq
               x == f.at
               y == f.snap
    <3>1. x \in 0 .. now /\ y \in x .. now /\ i \in 1 .. n
      BY <2>1
    <3> HIDE DEF i, x, y
    <3>2. x \in 0 .. now' /\ y \in x .. now' /\ i \in 1 .. m
      BY <2>2, <3>1
    <3>3. QED BY <3>2 DEF i, x, y
  <2>5. QED BY <2>1, <2>3, <2>4 DEF FullOK, Active, m
<1>3. QED BY <1>1, <1>2 DEF ObjectsInv

\* A log that gained the current second, or nothing.
LEMMA LogGains ==
    ASSUME LogInv, NEW l \in Servers, now' \in Nat, now <= now',
           log'[l] = log[l] \/ log'[l] = Append(log[l], now')
    PROVE  /\ log'[l] \in Seq(Nat)
           /\ Len(log'[l]) \in Nat /\ Len(log[l]) <= Len(log'[l])
           /\ \A i \in 1 .. Len(log[l]) : log'[l][i] = log[l][i]
           /\ \A i \in 1 .. Len(log'[l]) : log'[l][i] <= now'
           /\ \A i, j \in 1 .. Len(log'[l]) : i <= j => log'[l][i] <= log'[l][j]
<1> DEFINE L == log[l]
           M == log'[l]
           n == Len(L)
<1>1. L \in Seq(Nat) /\ n \in Nat /\ now \in Nat
  BY LogTypes DEF LogInv
<1>2. \A i \in 1 .. n : L[i] \in Nat /\ L[i] <= now
  BY LogTypes
<1>3. \A i, j \in 1 .. n : i <= j => L[i] <= L[j]
  BY LogRises
<1>4. M = L \/ M = Append(L, now')
  OBVIOUS
<1> HIDE DEF L, M
<1>5. CASE M = L
  <2>1. \A i \in 1 .. Len(M) : M[i] <= now'
    <3> TAKE i \in 1 .. Len(M)
    <3> DEFINE x == M[i]
    <3>1. x \in Nat /\ x <= now
      BY <1>2, <1>5 DEF n
    <3> HIDE DEF x
    <3>2. x <= now'
      BY <1>1, <3>1
    <3>3. QED BY <3>2 DEF x
  <2>2. \A i, j \in 1 .. Len(M) : i <= j => M[i] <= M[j]
    BY <1>3, <1>5
  <2>3. M \in Seq(Nat) /\ Len(M) \in Nat /\ n <= Len(M) /\ \A i \in 1 .. n : M[i] = L[i]
    BY <1>1, <1>5
  <2>4. QED BY <2>1, <2>2, <2>3 DEF L, M
<1>6. CASE M = Append(L, now')
  <2>1. /\ M \in Seq(Nat) /\ Len(M) = n + 1 /\ M[n + 1] = now'
        /\ \A i \in 1 .. n : M[i] = L[i]
    BY <1>1, <1>6
  <2>2. \A i \in 1 .. Len(M) : i \in 1 .. n \/ i = n + 1
    BY <1>1, <2>1
  <2>3. \A i \in 1 .. Len(M) : M[i] \in Nat /\ M[i] <= now'
    <3> TAKE i \in 1 .. Len(M)
    <3>1. CASE i \in 1 .. n
      <4> DEFINE x == L[i]
      <4>1. x \in Nat /\ x <= now /\ M[i] = x
        BY <1>2, <2>1, <3>1
      <4> HIDE DEF x
      <4>2. QED BY <1>1, <4>1
    <3>2. CASE i = n + 1
      BY <2>1, <3>2
    <3>3. QED BY <2>2, <3>1, <3>2
  <2>4. ASSUME NEW i \in 1 .. Len(M), NEW j \in 1 .. Len(M), i <= j PROVE M[i] <= M[j]
    <3>1. CASE j = n + 1
      BY <2>1, <2>3, <3>1
    <3>2. CASE j \in 1 .. n
      <4>1. i \in 1 .. n
        BY <1>1, <2>4, <3>2
      <4>2. QED BY <1>3, <2>1, <2>4, <3>2, <4>1
    <3>3. QED BY <2>2, <3>1, <3>2
  <2>5. Len(M) \in Nat /\ n <= Len(M)
    BY <1>1, <2>1
  <2>6. QED BY <2>1, <2>3, <2>4, <2>5 DEF L, M
<1>7. QED BY <1>4, <1>5, <1>6

LEMMA FullsKept ==
    ASSUME FullsInOrder, Metas(bucket') = Metas(bucket), Dumps(bucket') = Dumps(bucket)
    PROVE  FullsInOrder'
<1>1. Fulls' = Fulls /\ Metas(bucket)' = Metas(bucket) /\ Dumps(bucket)' = Dumps(bucket)
  BY DEF Fulls, Metas, Dumps, Objects
<1>2. QED BY <1>1 DEF FullsInOrder

LEMMA HistoryTick == ASSUME HistoryInv, Tick PROVE HistoryInv'
<1> USE DEF HistoryInv
<1>1. now \in Nat /\ now' = now + 1 /\ bucket' = bucket /\ shared' = shared /\ writer' = writer /\ step' = 0
  BY DEF Tick, LogInv
<1>2. \A l \in Servers : log'[l] = log[l] \/ log'[l] = Append(log[l], now')
  BY DEF Tick
<1>3. ASSUME NEW l \in Servers
      PROVE  /\ log'[l] \in Seq(Nat)
             /\ Len(log'[l]) \in Nat /\ Len(log[l]) <= Len(log'[l])
             /\ \A i \in 1 .. Len(log[l]) : log'[l][i] = log[l][i]
             /\ \A i \in 1 .. Len(log'[l]) : log'[l][i] <= now'
             /\ \A i, j \in 1 .. Len(log'[l]) : i <= j => log'[l][i] <= log'[l][j]
  <2>1. now' \in Nat /\ now <= now'
    BY <1>1
  <2> HIDE DEF HistoryInv
  <2>2. LogInv
    BY DEF HistoryInv
  <2>3. QED BY <1>2, <1>3, <2>1, <2>2, LogGains
<1>4. LogInv'
  <2>1. log' \in [Servers -> Seq(Nat)]
    <3>1. log' = [l \in Servers |-> log'[l]]
      BY DEF Tick
    <3>2. QED BY <1>3, <3>1
  <2>2. \A l \in Servers : log[l] # <<>> => log'[l] # <<>> /\ log'[l][1] = log[l][1]
    <3> TAKE l \in Servers
    <3>1. HAVE log[l] # <<>>
    <3>2. log[l] \in Seq(Nat)
      BY DEF LogInv
    <3>3. Len(log[l]) # 0 /\ Len(log[l]) \in Nat
      BY <3>1, <3>2
    <3>4. 1 \in 1 .. Len(log[l]) /\ Len(log'[l]) # 0
      BY <1>3, <3>3
    <3>5. QED BY <1>3, <3>4
  <2>3. now' \in Nat /\ shared' \in BOOLEAN /\ writer' \in Servers
    BY <1>1 DEF LogInv
  <2>4. log'[writer'] # <<>> /\ (shared' => \A l \in Servers : log'[l] # <<>> /\ log'[l][1] = 0)
    BY <1>1, <2>2 DEF LogInv
  <2>5. QED BY <1>3, <2>1, <2>3, <2>4 DEF LogInv
<1>5. ObjectsInv'
  BY <1>1, <1>3, LogsGrow
<1>6. FullsInOrder'
  BY <1>1, FullsKept
<1>7. QED BY <1>4, <1>5, <1>6

LEMMA HistoryReset ==
    ASSUME HistoryInv, NEW l \in Servers, Failover(l) \/ ResetVolume(l) PROVE HistoryInv'
<1> USE DEF HistoryInv
<1>1. /\ now \in Nat /\ now' = now /\ bucket' = bucket /\ shared' = shared /\ writer' = l
  BY DEF Failover, ResetVolume, LogInv
<1>2. FullsInOrder'
  BY <1>1, FullsKept
<1>3. CASE Failover(l)
  <2>1. log' = log /\ log[l] # <<>>
    BY <1>3 DEF Failover, LogInv
  <2>2. LogInv'
    BY <1>1, <2>1 DEF LogInv
  <2>3. ObjectsInv'
    BY <1>1, <2>1 DEF ObjectsInv, BinlogOK, FullOK, Active, Closed, LastEvent
  <2>4. QED BY <1>2, <2>2, <2>3
<1>4. CASE ResetVolume(l)
  <2>1. /\ log' = [log EXCEPT ![l] = <<now>>] /\ log[l] = <<>> /\ ~ shared
        /\ log \in [Servers -> Seq(Nat)]
    BY <1>4 DEF ResetVolume, LogInv
  <2>2. \A k \in Servers : log'[k] = log[k] \/ log'[k] = Append(log[k], now')
    <3>1. <<now>> = Append(<<>>, now)
      OBVIOUS
    <3>2. log'[l] = Append(log[l], now')
      BY <1>1, <2>1, <3>1
    <3>3. \A k \in Servers \ {l} : log'[k] = log[k]
      BY <2>1
    <3>4. QED BY <3>2, <3>3
  <2>3. ASSUME NEW k \in Servers
        PROVE  /\ log'[k] \in Seq(Nat)
               /\ Len(log'[k]) \in Nat /\ Len(log[k]) <= Len(log'[k])
               /\ \A i \in 1 .. Len(log[k]) : log'[k][i] = log[k][i]
               /\ \A i \in 1 .. Len(log'[k]) : log'[k][i] <= now'
               /\ \A i, j \in 1 .. Len(log'[k]) : i <= j => log'[k][i] <= log'[k][j]
    <3>1. now' \in Nat /\ now <= now'
      BY <1>1
    <3> HIDE DEF HistoryInv
    <3>2. LogInv
      BY DEF HistoryInv
    <3>3. QED BY <2>2, <2>3, <3>1, <3>2, LogGains
  <2>4. LogInv'
    <3>1. log' \in [Servers -> Seq(Nat)] /\ log'[writer'] # <<>>
      BY <1>1, <2>1
    <3>2. now' \in Nat /\ shared' \in BOOLEAN /\ ~ shared' /\ writer' \in Servers
      BY <1>1, <2>1 DEF LogInv
    <3>3. QED BY <2>3, <3>1, <3>2 DEF LogInv
  <2>5. ObjectsInv'
    BY <1>1, <2>3, LogsGrow
  <2>6. QED BY <1>2, <2>4, <2>5
<1>5. QED BY <1>3, <1>4

LEMMA HistoryShips == ASSUME HistoryInv, ShipOnce PROVE HistoryInv'
<1> USE DEF HistoryInv
<1>1. PICK taken \in SUBSET Closed(writer) :
          bucket' = bucket \cup {Binlog(writer, s, now) : s \in taken}
  BY DEF ShipOnce
<1>2. now \in Nat /\ now' = now /\ shared' = shared /\ writer' = writer /\ log' = log
  BY DEF ShipOnce, LogInv
<1> DEFINE new == {Binlog(writer, s, now) : s \in taken}
<1>3. \A o \in new : o.kind = "binlog" /\ BinlogOK(o)
  <2>1. ASSUME NEW s \in taken PROVE BinlogOK(Binlog(writer, s, now))
    <3>1. writer \in Servers /\ s \in Closed(writer) /\ Len(log[writer]) \in Nat
      BY LogTypes DEF LogInv
    <3>2. s + 1 \in 1 .. Len(log[writer])
      BY <3>1 DEF Closed, Active
    <3>3. LastEvent(writer, s) <= now
      BY <3>1, <3>2, LogTypes DEF LastEvent
    <3>4. QED BY <1>2, <3>1, <3>3 DEF BinlogOK, Binlog
  <2>2. QED BY <2>1 DEF Binlog
<1> HIDE DEF new
<1>4. bucket' = bucket \cup new
  BY <1>1 DEF new
<1>5. Metas(bucket') = Metas(bucket) /\ Dumps(bucket') = Dumps(bucket)
  BY <1>3, <1>4 DEF Metas, Dumps, Objects
<1>6. ObjectsInv'
  BY <1>2, <1>3, <1>4 DEF ObjectsInv, BinlogOK, FullOK, Active, Closed, LastEvent
<1>7. LogInv'
  BY <1>2 DEF LogInv
<1>8. FullsInOrder'
  BY <1>2, <1>5, FullsKept
<1>9. QED BY <1>6, <1>7, <1>8

LEMMA HistoryBacksUp == ASSUME HistoryInv, ArchiveInv, FullBackup PROVE HistoryInv'
<1> USE DEF HistoryInv
<1>1. now \in Nat /\ now' = now /\ shared' = shared /\ writer' = writer /\ log' = log
  BY DEF FullBackup, LogInv
<1>2. PICK begun \in (now - held) .. now :
        /\ \A g \in Metas(bucket) \cup Dumps(bucket) : g.at < begun /\ g.snap <= begun
        /\ LET f == [lin |-> writer, at |-> begun, seq |-> Active(writer), snap |-> now]
           IN  \/ bucket' = bucket \cup {Dump(f, now)}
               \/ bucket' = bucket \cup {Dump(f, now), Meta(f, now)}
  BY DEF FullBackup
<1> DEFINE f == [lin |-> writer, at |-> begun, seq |-> Active(writer), snap |-> now]
<1>3. /\ begun \in 0 .. now /\ now \in begun .. now /\ now - begun <= LockWait /\ begun \in Int
      /\ \A g \in Fulls : FullOK(g) /\ g.at \in Nat /\ g.at < begun /\ g.snap <= begun
  <2>1. held \in 0 .. now /\ held <= LockWait /\ LockWait \in Nat
    BY DEF ArchiveInv
  <2>2. /\ begun \in 0 .. now /\ now \in begun .. now /\ now - begun <= LockWait /\ begun \in Int
    BY <1>1, <1>2, <2>1
  <2>3. ASSUME NEW g \in Fulls PROVE FullOK(g) /\ g.at \in Nat /\ g.at < begun /\ g.snap <= begun
    <3>1. FullOK(g)
      BY FullsOK
    <3>2. g.at \in Nat
      BY <3>1 DEF FullOK
    <3>3. g.at < begun /\ g.snap <= begun
      BY <1>2 DEF Fulls
    <3>4. QED BY <3>1, <3>2, <3>3
  <2>4. QED BY <2>2, <2>3
<1>4. PICK new : /\ bucket' = bucket \cup new /\ Dump(f, now) \in new
                 /\ \A o \in new : o = Dump(f, now) \/ o = Meta(f, now)
  <2>1. \/ bucket' = bucket \cup {Dump(f, now)}
        \/ bucket' = bucket \cup {Dump(f, now), Meta(f, now)}
    BY <1>2
  <2> DEFINE D == Dump(f, now)
             E == Meta(f, now)
  <2> HIDE DEF f
  <2>2. CASE bucket' = bucket \cup {D}
    <3> WITNESS {D}
    <3> QED BY <2>2
  <2>3. CASE bucket' = bucket \cup {D, E}
    <3> WITNESS {D, E}
    <3> QED BY <2>3
  <2>4. QED BY <2>1, <2>2, <2>3
<1>5. /\ \A o \in new : o.kind \in {"dump", "meta"} /\ o.id = f
      /\ \E o \in new : o.kind = "dump" /\ o.id = f
  BY <1>4 DEF Dump, Meta
<1>6. FullOK(f)
  <2>1. writer \in Servers /\ Len(log[writer]) \in Nat /\ log[writer] \in Seq(Nat) /\ log[writer] # <<>>
    BY LogTypes DEF LogInv
  <2>2. Len(log[writer]) \in 1 .. Len(log[writer])
    BY <2>1
  <2>3. log[writer][Len(log[writer])] <= now
    BY <2>1, <2>2, LogTypes
  <2>4. QED BY <1>1, <1>3, <2>1, <2>2, <2>3 DEF FullOK, Active
<1>7. \A g \in Fulls : g.lin = f.lin => g.seq <= f.seq
  <2> TAKE g \in Fulls
  <2>1. HAVE g.lin = f.lin
  <2>2. g.seq \in 1 .. Active(f.lin) /\ f.seq = Active(f.lin)
    BY <1>3, <2>1 DEF FullOK
  <2>3. Active(f.lin) \in Nat
    BY LogTypes DEF LogInv, Active
  <2> HIDE DEF f
  <2>4. QED BY <2>2, <2>3
<1>8. f.at = begun /\ f.snap = now
  OBVIOUS
<1> HIDE DEF f
<1>9. ObjectsInv'
  <2>1. \A g : FullOK(g) => FullOK(g)'
    BY <1>1 DEF FullOK, Active
  <2>2. \A o : BinlogOK(o) => BinlogOK(o)'
    BY <1>1 DEF BinlogOK, Active, Closed, LastEvent
  <2>3. QED BY <1>4, <1>5, <1>6, <2>1, <2>2 DEF ObjectsInv
<1>10. FullsInOrder'
  <2>1. /\ Fulls' = Fulls \cup {f} /\ Dumps(bucket)' = Dumps(bucket) \cup {f}
        /\ Metas(bucket)' \subseteq Metas(bucket) \cup {f}
    BY <1>4, <1>5 DEF Fulls, Metas, Dumps, Objects
  <2>2. \A g, h \in Fulls \cup {f} : g.at = h.at => g = h
    BY <1>1, <1>3, <1>8 DEF FullsInOrder
  <2>3. \A g, h \in Fulls \cup {f} : g.lin = h.lin /\ g.at <= h.at => g.seq <= h.seq
    <3> TAKE g, h \in Fulls \cup {f}
    <3>1. f.seq <= f.seq
      BY <1>6 DEF FullOK
    <3>2. QED BY <1>1, <1>3, <1>7, <1>8, <3>1 DEF FullsInOrder
  <2>4. \A g, h \in Fulls \cup {f} : g.at < h.at => g.snap <= h.at
    BY <1>1, <1>3, <1>8 DEF FullsInOrder
  <2>5. QED BY <2>1, <2>2, <2>3, <2>4 DEF FullsInOrder
<1>11. LogInv'
  BY <1>1 DEF LogInv
<1>12. QED BY <1>9, <1>10, <1>11

LEMMA HistorySweeps == ASSUME HistoryInv, RetentionPass PROVE HistoryInv'
<1> USE DEF HistoryInv
<1>1. /\ now' = now /\ shared' = shared /\ writer' = writer /\ log' = log
      /\ bucket' \subseteq bucket
  BY DEF RetentionPass
<1>2. Fulls' \subseteq Fulls
  BY <1>1, FullsShrink DEF Fulls
<1>3. FullsInOrder'
  BY <1>1, <1>2 DEF FullsInOrder
<1>4. ObjectsInv'
  BY <1>1 DEF ObjectsInv, BinlogOK, FullOK, Active, Closed, LastEvent
<1>5. LogInv'
  BY <1>1 DEF LogInv
<1>6. QED BY <1>3, <1>4, <1>5

LEMMA HistoryHolds == Spec => []HistoryInv
<1>1. ASSUME HistoryInv, ArchiveInv, [Next]_vars PROVE HistoryInv'
  <2>1. CASE UNCHANGED vars
    BY <1>1, <2>1 DEF vars, HistoryInv, LogInv, ObjectsInv, FullsInOrder, Fulls, Metas, Dumps,
          Objects, BinlogOK, FullOK, Active, Closed, LastEvent
  <2>2. QED BY <1>1, <2>1, HistoryTick, HistoryReset, HistoryShips, HistoryBacksUp,
               HistorySweeps DEF Next
<1>2. Init => ArchiveInv /\ HistoryInv
  BY InvInit, HistoryInit
<1>3. (ArchiveInv /\ HistoryInv) /\ [Next]_vars => (ArchiveInv /\ HistoryInv)'
  BY <1>1, InvNext
<1>4. QED BY <1>2, <1>3, PTL DEF Spec

\* RestoreHonest: a restore that reports success holds every commit up to the instant it
\* reports, whatever was lost, expired or never shipped, and none past its target but what
\* its base took up while it waited for the read lock (replay_binlogs,
\* replay_shared_history), for any lag bound and lock wait.
THEOREM RestoresAreHonest == Spec => []RestoreHonest
<1>1. QED BY HistoryHolds, HonestNow, PTL

-----------------------------------------------------------------------------
(* What a sweep may take and a restore does not miss. *)

LEMMA KeepCount ==
    ASSUME now \in Nat, NEW fulls, Considered(fulls), fulls # {},
           NEW cutoff \in Int, NEW minKept \in Nat
    PROVE  LET inside == Cardinality({f \in fulls : f.at >= cutoff})
               n == Min({Max({inside, minKept, 1}), Cardinality(fulls)})
           IN  /\ inside \in Nat /\ n \in Nat /\ Cardinality(fulls) \in Nat
               /\ n >= 1 /\ n >= inside
<1> DEFINE inside == Cardinality({f \in fulls : f.at >= cutoff})
           wanted == Max({inside, minKept, 1})
           card == Cardinality(fulls)
           n == Min({wanted, card})
<1>1. inside \in Nat /\ card \in Nat /\ card >= 1 /\ inside <= card
  <2>1. IsFiniteSet({f \in fulls : f.at >= cutoff})
    BY FS_Subset DEF Considered
  <2>2. inside <= card
    BY FS_Subset DEF Considered
  <2>3. QED BY <2>1, <2>2, FS_CardinalityType, FS_EmptySet DEF Considered
<1> HIDE DEF inside, card
<1>2. wanted \in Nat /\ wanted >= 1 /\ wanted >= inside
  <2>1. \E x \in {inside, minKept, 1} : \A y \in {inside, minKept, 1} : x >= y
    BY <1>1
  <2>2. wanted \in {inside, minKept, 1} /\ \A y \in {inside, minKept, 1} : wanted >= y
    BY <2>1 DEF Max
  <2>3. QED BY <1>1, <2>2
<1> HIDE DEF wanted
<1>3. n \in Nat /\ n >= 1 /\ n >= inside
  BY <1>1, <1>2, LesserOf
<1>4. QED BY <1>1, <1>3 DEF n, wanted, inside, card

\* The full that serves a target inside the horizon is kept.
LEMMA KeepsServing ==
    ASSUME now \in Nat, NEW fulls, Considered(fulls), NEW cutoff \in Int, NEW minKept \in Nat,
           NEW t \in Int, cutoff <= t, NEW f \in fulls, f.at <= t,
           \A g \in fulls : g.at <= t => g.at <= f.at
    PROVE  f \in FullsToKeep(fulls, cutoff, minKept)
<1> DEFINE within == {g \in fulls : g.at >= cutoff}
           inside == Cardinality(within)
           card == Cardinality(fulls)
           n == Min({Max({inside, minKept, 1}), card})
           newer == {g \in fulls : g.at > f.at}
           c == Cardinality(newer)
           oldest == Min({g.at : g \in Newest(fulls, n)})
<1>1. inside \in Nat /\ n \in Nat /\ card \in Nat /\ n >= 1 /\ n >= inside
  BY KeepCount
<1>2. /\ IsFiniteSet(fulls) /\ IsFiniteSet(within) /\ IsFiniteSet(newer) /\ c \in Nat
      /\ \A g \in fulls : g.at \in Nat
  <2>1. IsFiniteSet(fulls) /\ \A g \in fulls : g.at \in Nat
    BY DEF Considered
  <2>2. IsFiniteSet(within) /\ IsFiniteSet(newer)
    BY <2>1, FS_Subset
  <2>3. QED BY <2>1, <2>2, FS_CardinalityType
<1>3. \A g \in newer : g.at > t /\ g \in within
  <2> TAKE g \in newer
  <2>1. g.at \in Nat /\ g.at > f.at /\ f.at \in Nat
    BY <1>2
  <2>2. QED BY <2>1
<1>4. f \notin newer
  BY <1>2
<1>5. IsFiniteSet(newer \cup {f}) /\ Cardinality(newer \cup {f}) = c + 1
  BY <1>2, <1>4, FS_AddElement
<1>6. c <= inside
  <2>1. newer \subseteq within
    BY <1>3
  <2> HIDE DEF newer, within
  <2>2. QED BY <1>2, <2>1, FS_Subset
<1>7. c + 1 <= card
  <2>1. newer \cup {f} \subseteq fulls
    OBVIOUS
  <2> HIDE DEF newer
  <2>2. QED BY <1>2, <1>5, <2>1, FS_Subset
<1>8. \A k \in Nat : c < k => f \in Newest(fulls, k)
  BY DEF Newest
<1>9. FullsToKeep(fulls, cutoff, minKept) =
          IF n < card /\ oldest > cutoff THEN Newest(fulls, n + 1) ELSE Newest(fulls, n)
  BY DEF FullsToKeep
<1>10. CASE c < n
  <2> HIDE DEF c, n, oldest, card
  <2>1. c < n + 1 /\ n + 1 \in Nat
    BY <1>1, <1>2, <1>10
  <2>2. QED BY <1>1, <1>8, <1>9, <1>10, <2>1
<1>11. CASE ~ (c < n)
  <2>1. c = n /\ n < card /\ c < n + 1 /\ n + 1 \in Nat
    <3> HIDE DEF c, n, inside, card
    <3>1. QED BY <1>1, <1>2, <1>6, <1>7, <1>11
  <2>2. ASSUME NEW g \in Newest(fulls, n) PROVE g.at \in Nat /\ g.at > cutoff
    <3> DEFINE above == {h \in fulls : h.at > g.at}
               d == Cardinality(above)
    <3>1. g \in fulls /\ d < n
      BY <2>2 DEF Newest
    <3>2. g.at \in Nat /\ f.at \in Nat
      BY <1>2, <3>1
    <3>3. g.at > f.at
      <4> SUFFICES ASSUME g.at <= f.at PROVE FALSE
        BY <3>2
      <4>1. newer \subseteq above
        <5>1. ASSUME NEW h \in newer PROVE h \in above
          <6>1. h \in fulls /\ h.at > f.at /\ h.at \in Nat
            BY <1>2
          <6>2. QED BY <3>2, <6>1
        <5>2. QED BY <5>1
      <4>2. IsFiniteSet(above)
        BY <1>2, FS_Subset
      <4> HIDE DEF newer, above
      <4>3. c <= d /\ d \in Nat
        BY <4>1, <4>2, FS_Subset, FS_CardinalityType
      <4> HIDE DEF c, d, n
      <4>4. QED BY <1>1, <1>2, <2>1, <3>1, <4>3
    <3>4. QED BY <1>3, <3>1, <3>2, <3>3
  <2>3. oldest > cutoff
    <3> DEFINE ages == {g.at : g \in Newest(fulls, n)}
    <3>1. Newest(fulls, n) # {}
      <4>1. PICK h \in fulls : \A g \in fulls : ~ (g.at > h.at)
        BY NewestExists
      <4> HIDE DEF n
      <4>2. n \in Int /\ n >= 1
        BY <1>1
      <4>3. QED BY <4>1, <4>2, NewestIsFirst
    <3> HIDE DEF n
    <3>2. ages \in SUBSET Nat /\ ages # {} /\ \A x \in ages : x > cutoff
      BY <2>2, <3>1
    <3>3. Min(ages) \in ages
      <4> HIDE DEF ages
      <4>1. QED BY <3>2, LeastOf
    <3>4. Min(ages) > cutoff
      <4> HIDE DEF ages
      <4>1. QED BY <3>2, <3>3
    <3>5. QED BY <3>4
  <2> HIDE DEF c, n, oldest, card
  <2>4. QED BY <1>8, <1>9, <2>1, <2>3
<1>12. QED BY <1>10, <1>11

LEMMA OldestOf ==
    ASSUME NEW fulls, fulls # {}, \A f \in fulls : f.at \in Nat
    PROVE  Oldest(fulls) \in fulls /\ \A g \in fulls : Oldest(fulls).at <= g.at
<1> DEFINE ages == {f.at : f \in fulls}
<1>1. ages \in SUBSET Nat /\ ages # {}
  OBVIOUS
<1>2. Min(ages) \in ages /\ \A y \in ages : Min(ages) <= y
  <2> HIDE DEF ages
  <2>1. QED BY <1>1, LeastOf
<1>3. PICK f \in fulls : \A g \in fulls : f.at <= g.at
  BY <1>2
<1>4. QED BY <1>3 DEF Oldest

\* Elements that do not exceed another one do not change the greatest.
LEMMA GreatestSame ==
    ASSUME NEW T \in SUBSET Nat, NEW N \in Nat, \A x \in T : x <= N,
           NEW S \in SUBSET T, NEW m \in S, \A x \in T \ S : x <= m
    PROVE  Max(S) = Max(T)
<1>1. S \in SUBSET Nat /\ S # {} /\ T # {} /\ \A x \in S : x <= N
  OBVIOUS
<1>2. Max(S) \in S /\ \A y \in S : y <= Max(S)
  BY <1>1, GreatestOf
<1>3. Max(T) \in T /\ \A y \in T : y <= Max(T)
  BY <1>1, GreatestOf
<1>4. Max(S) \in Nat /\ Max(T) \in Nat /\ m \in Nat
  BY <1>1, <1>2, <1>3
<1>5. Max(S) <= Max(T) /\ m <= Max(S)
  BY <1>2, <1>3
<1>6. Max(T) <= Max(S)
  <2>1. CASE Max(T) \in S
    BY <1>2, <2>1
  <2>2. CASE Max(T) \notin S
    <3>1. Max(T) <= m
      BY <1>3, <2>2
    <3>2. QED BY <1>4, <1>5, <3>1
  <2>3. QED BY <2>1, <2>2
<1>7. QED BY <1>4, <1>5, <1>6

\* An independent replay looks at its lineage from the full's coordinate on.
LEMMA IndependentUnmoved ==
    ASSUME NEW f, f.seq \in Int, NEW t, NEW gone,
           \A s \in Shipped(bucket, f.lin) : s \in Int,
           \A o \in gone : o.kind = "binlog" /\ o.lin = f.lin => o.id < f.seq
    PROVE  ReplayBinlogs(bucket \ gone, f, t) = ReplayBinlogs(bucket, f, t)
<1> DEFINE all == Shipped(bucket, f.lin)
           left == Shipped(bucket \ gone, f.lin)
<1>1. left \subseteq all
  BY DEF Shipped, Objects
<1>2. \A s \in all : s >= f.seq => s \in left
  <2> TAKE s \in all
  <2>1. HAVE s >= f.seq
  <2>2. PICK o \in bucket : o.kind = "binlog" /\ o.lin = f.lin /\ o.id = s
    BY DEF Shipped, Objects
  <2>3. ~ (o.id < f.seq)
    BY <2>1, <2>2
  <2>4. o \notin gone
    BY <2>2, <2>3
  <2>5. QED BY <2>2, <2>4 DEF Shipped, Objects
<1>3. \A s \in all : s \in Int
  OBVIOUS
<1> HIDE DEF all, left
<1>4. GapFreeRun(left, f.seq) = GapFreeRun(all, f.seq)
  <2>1. \A s \in all : s >= f.seq => (f.seq .. s \subseteq left <=> f.seq .. s \subseteq all)
    BY <1>1, <1>2, <1>3
  <2>2. QED BY <1>1, <1>2, <2>1 DEF GapFreeRun
<1>5. PastGap(left, f.seq) = PastGap(all, f.seq)
  <2>1. {s \in left : s > f.seq} = {s \in all : s > f.seq}
    BY <1>1, <1>2, <1>3
  <2>2. QED BY <1>4, <2>1 DEF PastGap
<1>6. QED BY <1>4, <1>5 DEF ReplayBinlogs, all, left

\* A binlog whose last event is not past the base, or which the base's own lineage closed
\* before its snapshot, adds nothing to a shared replay.
Unmissed(o, f) ==
    o.kind = "binlog" => LastEvent(o.lin, o.id) <= f.at \/ (o.lin = f.lin /\ o.id < f.seq)

LEMMA SharedUnmoved ==
    ASSUME LogInv, ObjectsInv, shared, NEW f, FullOK(f), NEW t \in 0 .. now, f.at <= t, NEW gone,
           \A o \in bucket \cap gone : Unmissed(o, f)
    PROVE  ReplaySharedHistory(bucket \ gone, f, t) = ReplaySharedHistory(bucket, f, t)
<1> DEFINE Files(b) == ({f.lin} \X {s \in Shipped(b, f.lin) : s >= f.seq}) \cup
                       UNION {{l} \X Shipped(b, l) : l \in Servers \ {f.lin}}
           Ends(b) == {Min({LastEvent(p[1], p[2]), t}) : p \in Files(b)}
           Base0(b) == {f.at} \cup Ends(b)
           Unmet(b, applied) ==
               \E p \in {q \in Files(b) : log[q[1]][q[2]] < t} :
                   ~ (PreviousGtids(p[1], p[2]) \subseteq applied)
           all == Files(bucket)
           left == Files(bucket \ gone)
<1>1. f.lin \in Servers /\ f.at \in Nat /\ f.snap \in Nat /\ f.at <= f.snap /\ now \in Nat /\ t \in Nat /\ Born(f.lin) = 0
  <2>1. f.lin \in Servers /\ f.at \in 0 .. now /\ f.snap \in f.at .. now /\ now \in Nat
    <3>1. now \in Nat
      BY DEF LogInv
    <3>2. f.lin \in Servers /\ f.at \in 0 .. now /\ f.snap \in f.at .. now
      BY DEF FullOK
    <3>3. QED BY <3>1, <3>2
  <2>2. Born(f.lin) = 0
    BY <2>1 DEF LogInv, Born
  <2>3. QED BY <2>1, <2>2
<1>2. left \subseteq all
  <2>1. \A l : Shipped(bucket \ gone, l) \subseteq Shipped(bucket, l)
    BY DEF Shipped, Objects
  <2>2. QED BY <2>1
<1>3. ASSUME NEW p \in all
      PROVE  /\ log[p[1]][p[2]] \in Nat /\ LastEvent(p[1], p[2]) \in Nat
             /\ log[p[1]][p[2]] <= LastEvent(p[1], p[2]) /\ Born(p[1]) = 0
  <2>1. p[1] \in Servers /\ p[2] \in Shipped(bucket, p[1])
    BY <1>1, <1>3
  <2>2. p[2] \in Closed(p[1]) /\ Len(log[p[1]]) \in Nat
    BY <2>1, ShippedOK, LogTypes
  <2>3. p[2] \in 1 .. Len(log[p[1]]) /\ p[2] + 1 \in 1 .. Len(log[p[1]]) /\ p[2] <= p[2] + 1
    BY <2>2, NextIsBinlog
  <2>4. /\ log[p[1]][p[2]] \in Nat /\ log[p[1]][p[2] + 1] \in Nat
        /\ log[p[1]][p[2]] <= log[p[1]][p[2] + 1]
    BY <2>1, <2>3, LogTypes, LogRises
  <2>5. Born(p[1]) = 0
    BY <2>1 DEF LogInv, Born
  <2>6. QED BY <2>4, <2>5 DEF LastEvent
<1>4. ASSUME NEW p \in all, p \notin left PROVE LastEvent(p[1], p[2]) <= f.at
  <2>1. /\ p[1] \in Servers /\ p[2] \in Shipped(bucket, p[1]) /\ p = <<p[1], p[2]>>
        /\ p[1] = f.lin => p[2] >= f.seq
    BY <1>1, <1>4
  <2>2. p[2] \notin Shipped(bucket \ gone, p[1])
    BY <1>4, <2>1
  <2>3. PICK o \in bucket : o.kind = "binlog" /\ o.lin = p[1] /\ o.id = p[2]
    BY <2>1 DEF Shipped, Objects
  <2>4. o \in gone
    BY <2>2, <2>3 DEF Shipped, Objects
  <2>5. p[2] \in Int /\ f.seq \in Int
    <3>1. p[2] \in Closed(p[1])
      BY <2>1, ShippedOK
    <3>2. QED BY <3>1 DEF Closed, FullOK
  <2>6. ~ (o.lin = f.lin /\ o.id < f.seq)
    BY <2>1, <2>3, <2>5
  <2>7. QED BY <2>3, <2>4, <2>6 DEF Unmissed
<1> HIDE DEF all, left
<1>5. Replay(f, left, t) = Replay(f, all, t)
  <2>1. ASSUME NEW p \in all, p \notin left, NEW i \in Holds(p[1], p[2])
        PROVE  i \in Born(f.lin) .. (f.snap - 1)
    <3> DEFINE from == log[p[1]][p[2]]
               to == LastEvent(p[1], p[2])
    <3>1. from \in Nat /\ to \in Nat /\ to <= f.at /\ i \in from .. (to - 1)
      BY <1>3, <1>4, <2>1 DEF Holds
    <3> HIDE DEF from, to
    <3>2. i \in 0 .. (f.snap - 1)
      BY <1>1, <3>1
    <3>3. QED BY <1>1, <3>2
  <2>2. QED BY <1>2, <2>1 DEF Replay
<1> DEFINE applied == Replay(f, all, t)
<1>6. Unmet(bucket \ gone, applied) <=> Unmet(bucket, applied)
  <2>1. ASSUME NEW p \in all, p \notin left PROVE PreviousGtids(p[1], p[2]) \subseteq applied
    <3> DEFINE from == log[p[1]][p[2]]
               to == LastEvent(p[1], p[2])
    <3>1. from \in Nat /\ to \in Nat /\ to <= f.at /\ from <= to
      BY <1>3, <1>4, <2>1
    <3>2. PreviousGtids(p[1], p[2]) = 0 .. (from - 1)
      BY <1>3, <2>1 DEF PreviousGtids
    <3> HIDE DEF from, to
    <3>3. 0 .. (from - 1) \subseteq 0 .. (f.snap - 1)
      BY <1>1, <3>1
    <3>4. QED BY <1>1, <3>2, <3>3 DEF Replay
  <2> HIDE DEF applied
  <2>2. QED BY <1>2, <2>1 DEF all, left
<1>7. Max(Base0(bucket \ gone)) = Max(Base0(bucket))
  <2> DEFINE End(p) == Min({LastEvent(p[1], p[2]), t})
  <2>1. ASSUME NEW p \in all
        PROVE  End(p) \in Nat /\ End(p) <= t /\ (p \notin left => End(p) <= f.at)
    <3> DEFINE e == LastEvent(p[1], p[2])
    <3>1. e \in Nat /\ (p \notin left => e <= f.at)
      BY <1>3, <1>4, <2>1
    <3> HIDE DEF e
    <3>2. Min({e, t}) \in Nat /\ Min({e, t}) <= t /\ Min({e, t}) <= e
      BY <1>1, <3>1, LesserOf
    <3>3. Min({e, t}) \in Nat /\ Min({e, t}) <= t /\ (p \notin left => Min({e, t}) <= f.at)
      BY <1>1, <3>1, <3>2
    <3>4. QED BY <3>3 DEF e
  <2> DEFINE S == Base0(bucket \ gone)
             T == Base0(bucket)
  <2>2. S = {f.at} \cup {End(p) : p \in left} /\ T = {f.at} \cup {End(p) : p \in all}
    BY DEF all, left
  <2> HIDE DEF S, T, End
  <2>3. T \in SUBSET Nat /\ \A x \in T : x <= t
    BY <1>1, <2>1, <2>2
  <2>4. S \in SUBSET T /\ f.at \in S
    BY <1>2, <2>2
  <2>5. \A x \in T \ S : x <= f.at
    BY <2>1, <2>2
  <2>6. Max(S) = Max(T)
    BY <1>1, <2>3, <2>4, <2>5, GreatestSame
  <2>7. QED BY <2>6 DEF S, T
<1>8. ReplaySharedHistory(bucket, f, t) =
          IF Unmet(bucket, applied) THEN Refused("gtid-hole")
          ELSE VerifyAchievedPoint(applied, Max(Base0(bucket)), t)
  BY DEF ReplaySharedHistory, all
<1>9. ReplaySharedHistory(bucket \ gone, f, t) =
          IF Unmet(bucket \ gone, applied) THEN Refused("gtid-hole")
          ELSE VerifyAchievedPoint(applied, Max(Base0(bucket \ gone)), t)
  <2>1. ReplaySharedHistory(bucket \ gone, f, t) =
            IF Unmet(bucket \ gone, Replay(f, left, t)) THEN Refused("gtid-hole")
            ELSE VerifyAchievedPoint(Replay(f, left, t), Max(Base0(bucket \ gone)), t)
    BY DEF ReplaySharedHistory, left
  <2>2. QED BY <1>5, <2>1
<1> HIDE DEF Unmet, Base0, applied
<1>10. QED BY <1>6, <1>7, <1>8, <1>9

-----------------------------------------------------------------------------
(* The plan against the full that serves a target inside the horizon.      *)

Serves(f, t) ==
    f \in Metas(bucket) /\ f.at <= t /\ \A g \in Metas(bucket) : g.at <= t => g.at <= f.at

LEMMA ServingKept ==
    ASSUME FullsInv, NEW fulls \in SUBSET Metas(bucket), NEW cutoff \in Int, NEW minKept \in Nat,
           NEW t \in Int, cutoff <= t, NEW f \in fulls, Serves(f, t)
    PROVE  LET kept == FullsToKeep(fulls, cutoff, minKept)
           IN  f \in kept /\ Oldest(kept) \in fulls /\ Oldest(kept).at <= f.at
<1> DEFINE kept == FullsToKeep(fulls, cutoff, minKept)
<1>1. Considered(fulls) /\ now \in Nat
  BY FS_Subset DEF FullsInv, Considered
<1>2. f \in kept
  BY <1>1, KeepsServing DEF Serves
<1>3. kept \subseteq fulls
  BY DEF FullsToKeep, Newest
<1>4. \A g \in kept : g.at \in Nat
  BY <1>1, <1>3 DEF Considered
<1> HIDE DEF kept
<1>5. Oldest(kept) \in kept /\ \A g \in kept : Oldest(kept).at <= g.at
  BY <1>2, <1>4, OldestOf
<1>6. QED BY <1>2, <1>3, <1>5 DEF kept

LEMMA SharedTakes ==
    ASSUME HistoryInv, FullsInv, NEW unread, NEW cutoff \in Int,
           NEW t \in Int, cutoff <= t, NEW f, Serves(f, t)
    PROVE  /\ Spares(PlanSharedHistory(bucket, unread, cutoff), f)
           /\ \A o \in PlanSharedHistory(bucket, unread, cutoff) : Unmissed(o, f)
<1> DEFINE fulls == Readable(bucket, unread, Servers)
           kept == FullsToKeep(fulls, cutoff, MinFulls)
           floor == Oldest(kept)
<1>1. /\ f \in Metas(bucket) /\ Spares(OrphanDumps(bucket), f)
      /\ \A o \in OrphanDumps(bucket) : o.kind = "dump"
  BY OrphansSpare DEF Serves, OrphanDumps, Objects
<1>2. CASE fulls # Metas(bucket) \/ fulls = {}
  BY <1>1, <1>2 DEF PlanSharedHistory, Unmissed
<1>3. CASE ~ (fulls # Metas(bucket) \/ fulls = {})
  <2>1. f \in fulls /\ fulls \in SUBSET Metas(bucket) /\ MinFulls \in Nat
    BY <1>1, <1>3
  <2>2. f \in kept /\ floor \in fulls /\ floor.at <= f.at
    <3> HIDE DEF fulls
    <3>1. QED BY <2>1, ServingKept
  <2> DEFINE due == {o \in Objects(bucket, "binlog") :
                        IF o.lin = floor.lin THEN o.id < floor.seq ELSE o.put < floor.at}
             outworn == ObjectsOf(bucket, fulls \ kept)
  <2>3. PlanSharedHistory(bucket, unread, cutoff) = OrphanDumps(bucket) \cup (outworn \cup due)
    BY <1>3 DEF PlanSharedHistory
  <2> HIDE DEF kept, floor
  <2>4. Spares(outworn, f) /\ \A o \in outworn : o.kind # "binlog"
    <3>1. f \notin fulls \ kept
      BY <2>2
    <3> HIDE DEF fulls
    <3>2. Spares(outworn, f)
      BY <3>1, OthersSpare
    <3>3. QED BY <3>2 DEF ObjectsOf
  <2>5. Spares(due, f)
    BY BinlogsSpare
  <2>6. ASSUME NEW o \in due PROVE Unmissed(o, f)
    <3>1. FullOK(floor) /\ FullOK(f) /\ BinlogOK(o) /\ LogInv
      BY <1>1, <2>1, <2>2, FullsOK DEF HistoryInv, Fulls, ObjectsInv, Objects
    <3>2. /\ o.lin \in Servers /\ Len(log[o.lin]) \in Nat
          /\ o.id + 1 \in 1 .. Len(log[o.lin]) /\ o.id \in Nat
      <4>1. o.lin \in Servers /\ o.id \in Closed(o.lin)
        BY <3>1 DEF BinlogOK
      <4>2. Len(log[o.lin]) \in Nat
        BY <3>1, <4>1, LogTypes
      <4> DEFINE n == Len(log[o.lin])
      <4>3. o.id \in 1 .. (n - 1) /\ n \in Nat
        BY <4>1, <4>2 DEF Closed, Active
      <4> HIDE DEF n
      <4>4. o.id + 1 \in 1 .. n /\ o.id \in Nat
        BY <4>3
      <4>5. QED BY <4>1, <4>2, <4>4 DEF n
    <3> DEFINE last == LastEvent(o.lin, o.id)
    <3>3. last \in Nat /\ last <= o.put /\ o.put \in Nat /\ last = log[o.lin][o.id + 1]
      BY <3>1, <3>2, LogTypes DEF LastEvent, BinlogOK
    <3>4. floor.at \in Nat /\ f.at \in Nat /\ floor.snap \in Nat
      BY <3>1 DEF FullOK
    <3>5. CASE o.lin = floor.lin
      <4>1. /\ o.id < floor.seq /\ floor.seq \in 1 .. Len(log[o.lin])
            /\ log[o.lin][floor.seq] <= floor.snap
        <5>1. o.id < floor.seq
          BY <3>5
        <5>2. floor.seq \in 1 .. Len(log[floor.lin]) /\ log[floor.lin][floor.seq] <= floor.snap
          BY <3>1 DEF FullOK, Active
        <5>3. QED BY <3>5, <5>1, <5>2
      <4>2. o.id + 1 <= floor.seq
        <5>1. floor.seq \in Int
          BY <4>1
        <5>2. o.id \in Int
          BY <3>2
        <5>3. o.id < floor.seq
          BY <4>1
        <5>4. QED BY <5>1, <5>2, <5>3
      <4> DEFINE base == log[o.lin][floor.seq]
      <4>3. last <= base
        <5>1. log[o.lin][o.id + 1] <= log[o.lin][floor.seq]
          BY <3>1, <3>2, <4>1, <4>2, LogRises
        <5>2. QED BY <3>3, <5>1
      <4>4. base \in Nat /\ base <= floor.snap
        BY <3>1, <3>2, <4>1, LogTypes
      <4> HIDE DEF last, base
      <4>5. CASE floor = f
        BY <3>5, <4>1, <4>5 DEF Unmissed
      <4>6. CASE floor # f
        <5>1. floor \in Fulls /\ f \in Fulls
          BY <1>1, <2>1, <2>2 DEF Fulls
        <5>2. floor.snap <= f.at
          BY <2>2, <3>4, <4>6, <5>1 DEF HistoryInv, FullsInOrder
        <5>3. last <= f.at
          BY <3>3, <3>4, <4>3, <4>4, <5>2
        <5>4. QED BY <5>3 DEF last, Unmissed
      <4>7. QED BY <4>5, <4>6
    <3>6. CASE o.lin # floor.lin
      <4>1. o.put < floor.at
        BY <3>6
      <4> HIDE DEF last
      <4>2. last <= f.at
        BY <2>2, <3>3, <3>4, <4>1
      <4>3. QED BY <4>2 DEF last, Unmissed
    <3>7. QED BY <3>5, <3>6
  <2> HIDE DEF due, outworn
  <2>7. \A o \in outworn \cup OrphanDumps(bucket) : Unmissed(o, f)
    BY <1>1, <2>4 DEF Unmissed
  <2>8. QED BY <1>1, <2>3, <2>4, <2>5, <2>6, <2>7 DEF Spares
<1>4. QED BY <1>2, <1>3

LEMMA LineageTakes ==
    ASSUME HistoryInv, FullsInv, NEW cutoff \in Int, NEW t \in Int, cutoff <= t,
           NEW f, Serves(f, t), ~ Retired(bucket, {}, f.lin, cutoff), NEW l \in Servers
    PROVE  /\ Spares(PlanLineage(bucket, {}, l, cutoff), f)
           /\ \A o \in PlanLineage(bucket, {}, l, cutoff) :
                  f \in Dumps(bucket) /\ o.kind = "binlog" /\ o.lin = f.lin => o.id < f.seq
<1> DEFINE fulls == Readable(bucket, {}, {l})
           minKept == IF l = writer THEN MinFulls ELSE 1
           kept == FullsToKeep(fulls, cutoff, minKept)
           due == {o \in BinlogsOf(bucket, l) : o.id < Oldest(kept).seq}
           outworn == ObjectsOf(bucket, fulls \ kept)
           plan == PlanLineage(bucket, {}, l, cutoff)
<1>1. fulls \in SUBSET Metas(bucket) /\ minKept \in Nat /\ \A g \in fulls : g.lin = l
  BY DEF Readable
<1>2. plan \subseteq ObjectsOf(bucket, fulls) \cup BinlogsOf(bucket, l)
  <2>1. outworn \subseteq ObjectsOf(bucket, fulls)
    BY DEF ObjectsOf
  <2> HIDE DEF kept
  <2>2. QED BY <2>1 DEF PlanLineage, kept
<1>3. CASE l # f.lin
  <2>1. f \notin fulls /\ \A o \in BinlogsOf(bucket, l) : o.lin # f.lin
    BY <1>1, <1>3 DEF BinlogsOf
  <2>2. Spares(ObjectsOf(bucket, fulls), f) /\ Spares(BinlogsOf(bucket, l), f)
    BY <2>1, OthersSpare, BinlogsSpare DEF BinlogsOf
  <2>3. \A o \in ObjectsOf(bucket, fulls) : o.kind # "binlog"
    BY DEF ObjectsOf
  <2> HIDE DEF plan, fulls
  <2>4. QED BY <1>2, <2>1, <2>2, <2>3 DEF Spares, plan
<1>4. CASE l = f.lin
  <2>1. plan \subseteq outworn \cup due
    BY <1>4 DEF PlanLineage
  <2>2. f \in fulls => f \in kept /\ Oldest(kept) \in fulls /\ Oldest(kept).at <= f.at
    <3> HIDE DEF fulls, minKept
    <3>1. QED BY <1>1, ServingKept
  <2>3. Spares(outworn, f) /\ \A o \in outworn : o.kind # "binlog"
    <3>1. f \notin fulls \ kept
      BY <2>2
    <3> HIDE DEF kept, fulls
    <3>2. QED BY <3>1, OthersSpare DEF ObjectsOf
  <2>4. Spares(due, f)
    BY BinlogsSpare DEF BinlogsOf
  <2>5. ASSUME NEW o \in due, f \in Dumps(bucket) PROVE o.id < f.seq
    <3>1. f \in fulls
      BY <1>4, <2>5 DEF Readable, Serves
    <3> DEFINE floor == Oldest(kept)
    <3>2. floor \in fulls /\ floor.at <= f.at /\ o.id < floor.seq
      BY <2>2, <2>5, <3>1
    <3> HIDE DEF floor
    <3>3. floor \in Fulls /\ f \in Fulls /\ floor.lin = f.lin
      BY <1>1, <1>4, <3>1, <3>2 DEF Fulls
    <3>4. floor.seq <= f.seq
      BY <3>2, <3>3 DEF HistoryInv, FullsInOrder
    <3>5. floor.seq \in Int /\ f.seq \in Int /\ o.id \in Int
      <4>1. FullOK(floor) /\ FullOK(f) /\ BinlogOK(o)
        BY <2>5, <3>3, FullsOK DEF HistoryInv, ObjectsInv, BinlogsOf, Objects
      <4>2. QED BY <4>1 DEF FullOK, BinlogOK, Closed
    <3>6. QED BY <3>2, <3>4, <3>5
  <2> HIDE DEF plan, due, outworn
  <2>6. QED BY <2>1, <2>3, <2>4, <2>5 DEF Spares, plan
<1>5. QED BY <1>3, <1>4

LEMMA IndependentTakes ==
    ASSUME HistoryInv, FullsInv, NEW cutoff \in Int, NEW t \in Int, cutoff <= t,
           NEW f, Serves(f, t), ~ Retired(bucket, {}, f.lin, cutoff)
    PROVE  /\ Spares(PlanIndependent(bucket, {}, cutoff), f)
           /\ \A o \in PlanIndependent(bucket, {}, cutoff) :
                  f \in Dumps(bucket) /\ o.kind = "binlog" /\ o.lin = f.lin => o.id < f.seq
<1>1. /\ f \in Metas(bucket) /\ Spares(OrphanDumps(bucket), f)
      /\ \A o \in OrphanDumps(bucket) : o.kind = "dump"
  BY OrphansSpare DEF Serves, OrphanDumps, Objects
<1>2. \A o \in PlanIndependent(bucket, {}, cutoff) :
         o \in OrphanDumps(bucket) \/ \E l \in Servers : o \in PlanLineage(bucket, {}, l, cutoff)
  BY DEF PlanIndependent
<1>3. QED BY <1>1, <1>2, LineageTakes DEF Spares

-----------------------------------------------------------------------------
(* The sweep against a restore. *)

LEMMA RestoreUnmoved ==
    ASSUME HistoryInv, NEW t \in 0 .. now, NEW f,
           f = NewestQualifyingFull(Metas(bucket), t), Serves(f, t), NEW gone, Spares(gone, f),
           f \in Dumps(bucket) =>
             /\ shared => \A o \in gone : Unmissed(o, f)
             /\ ~ shared => \A o \in gone : o.kind = "binlog" /\ o.lin = f.lin => o.id < f.seq
    PROVE  Restore(bucket \ gone, t) = Restore(bucket, t)
<1> USE DEF HistoryInv
<1> DEFINE left == bucket \ gone
<1>1. Metas(left) \in SUBSET Metas(bucket) /\ Dumps(left) \subseteq Dumps(bucket)
  BY FullsShrink
<1>2. f \in Metas(bucket) /\ f \in Fulls /\ FullOK(f) /\ f.at <= t
  BY FullsOK DEF Serves, Fulls
<1>3. f \in Metas(left) /\ (f \in Dumps(bucket) => f \in Dumps(left))
  BY <1>2 DEF Metas, Dumps, Objects, Spares
<1>4. NewestQualifyingFull(Metas(left), t) = f
  <2> DEFINE g == NewestQualifyingFull(Metas(left), t)
  <2> HIDE DEF left
  <2>1. g \in Metas(left) /\ g.at <= t /\ \A h \in Metas(left) : h.at <= t => h.at <= g.at
    BY <1>1, <1>2, <1>3, Base
  <2> HIDE DEF g
  <2>2. g \in Fulls /\ g.at <= f.at /\ f.at <= g.at
    BY <1>1, <1>2, <1>3, <2>1 DEF Serves, Fulls
  <2>3. g.at \in Int /\ f.at \in Int
    BY <1>2, <2>2, FullsOK DEF FullOK
  <2>4. g = f
    BY <1>2, <2>2, <2>3 DEF FullsInOrder
  <2>5. QED BY <2>4 DEF g
<1>5. f # None
  <2>1. f.at \in Nat
    BY <1>2 DEF FullOK
  <2>2. QED BY <2>1 DEF None
<1>6. CASE f \notin Dumps(bucket)
  BY <1>1, <1>4, <1>5, <1>6 DEF Restore
<1>7. CASE f \in Dumps(bucket) /\ shared
  <2>1. ReplaySharedHistory(left, f, t) = ReplaySharedHistory(bucket, f, t)
    BY <1>2, <1>7, SharedUnmoved
  <2>2. QED BY <1>3, <1>4, <1>5, <1>7, <2>1 DEF Restore
<1>8. CASE f \in Dumps(bucket) /\ ~ shared
  <2>1. f.seq \in Int /\ \A s \in Shipped(bucket, f.lin) : s \in Int
    <3>1. f.lin \in Servers /\ f.seq \in Int
      BY <1>2 DEF FullOK
    <3>2. \A s \in Shipped(bucket, f.lin) : s \in Closed(f.lin)
      BY <3>1, ShippedOK
    <3>3. QED BY <3>1, <3>2 DEF Closed
  <2>2. ReplayBinlogs(left, f, t) = ReplayBinlogs(bucket, f, t)
    BY <1>8, <2>1, IndependentUnmoved
  <2>3. QED BY <1>3, <1>4, <1>5, <1>8, <2>2 DEF Restore
<1>9. QED BY <1>6, <1>7, <1>8

LEMMA KeptNow == ASSUME HistoryInv, ArchiveInv PROVE SweepKeepsWindow
<1> DEFINE cutoff == now - Horizon
<1> SUFFICES ASSUME NEW unread, NEW t \in Max({0, cutoff}) .. now,
                    NEW f, f = NewestQualifyingFull(Metas(bucket), t), f # None,
                    shared \/ (unread = {} /\ ~ Retired(bucket, {}, f.lin, cutoff)),
                    NEW gone \in Attempts(PlanRetention(bucket, unread))
             PROVE  Restore(bucket \ gone, t) = Restore(bucket, t)
  BY DEF SweepKeepsWindow
<1>1. now \in Nat /\ Horizon \in Nat /\ cutoff \in Int
  BY DEF HistoryInv, LogInv
<1>2. t \in 0 .. now /\ cutoff <= t
  <2> HIDE DEF cutoff
  <2>1. \E x \in {0, cutoff} : \A y \in {0, cutoff} : x >= y
    BY <1>1
  <2>2. Max({0, cutoff}) \in {0, cutoff} /\ Max({0, cutoff}) >= 0 /\ Max({0, cutoff}) >= cutoff
    BY <2>1 DEF Max
  <2> DEFINE m == Max({0, cutoff})
  <2>3. m \in Int /\ m >= 0 /\ m >= cutoff /\ t \in m .. now
    BY <1>1, <2>2
  <2> HIDE DEF m
  <2>4. QED BY <1>1, <2>3
<1> HIDE DEF cutoff
<1>3. Serves(f, t)
  <2>1. \E g \in Metas(bucket) : g.at <= t
    BY DEF NewestQualifyingFull
  <2>2. QED BY <1>2, <2>1, Base DEF Serves, HistoryInv
<1>4. gone \subseteq PlanRetention(bucket, unread)
  BY SweepTakesPlanned
<1>5. CASE Horizon = 0
  <2>1. bucket \ gone = bucket
    BY <1>4, <1>5 DEF PlanRetention
  <2>2. QED BY <2>1
<1>6. CASE Horizon # 0 /\ shared
  <2>1. gone \subseteq PlanSharedHistory(bucket, unread, cutoff)
    BY <1>4, <1>6 DEF PlanRetention, cutoff
  <2>2. /\ Spares(PlanSharedHistory(bucket, unread, cutoff), f)
        /\ \A o \in PlanSharedHistory(bucket, unread, cutoff) : Unmissed(o, f)
    BY <1>1, <1>2, <1>3, SharedTakes DEF ArchiveInv
  <2>3. Spares(gone, f) /\ \A o \in gone : Unmissed(o, f)
    BY <2>1, <2>2 DEF Spares
  <2>4. QED BY <1>2, <1>3, <1>6, <2>3, RestoreUnmoved
<1>7. CASE Horizon # 0 /\ ~ shared
  <2>1. unread = {} /\ ~ Retired(bucket, {}, f.lin, cutoff)
    BY <1>7
  <2>2. gone \subseteq PlanIndependent(bucket, {}, cutoff)
    BY <1>4, <1>7, <2>1 DEF PlanRetention, cutoff
  <2>3. /\ Spares(PlanIndependent(bucket, {}, cutoff), f)
        /\ \A o \in PlanIndependent(bucket, {}, cutoff) :
              f \in Dumps(bucket) /\ o.kind = "binlog" /\ o.lin = f.lin => o.id < f.seq
    BY <1>1, <1>2, <1>3, <2>1, IndependentTakes DEF ArchiveInv
  <2>4. /\ Spares(gone, f)
        /\ f \in Dumps(bucket) =>
              \A o \in gone : o.kind = "binlog" /\ o.lin = f.lin => o.id < f.seq
    BY <2>2, <2>3 DEF Spares
  <2>5. QED BY <1>2, <1>3, <1>7, <2>4, RestoreUnmoved
<1>8. QED BY <1>5, <1>6, <1>7

\* SweepKeepsWindow: however many deletes of a sweep fail, no restore to a target inside the
\* horizon changes, for any horizon, minimum and lag bound (plan_retention).
THEOREM SweepsKeepWindow == Spec => []SweepKeepsWindow
<1>1. Init => ArchiveInv
  BY InvInit
<1>2. ArchiveInv /\ [Next]_vars => ArchiveInv'
  BY InvNext
<1>3. QED BY <1>1, <1>2, HistoryHolds, KeptNow, PTL DEF Spec
=============================================================================

------------------------ MODULE MajorityGroupProofs ------------------------
(***************************************************************************)
(* Re-forming a group never forks it and loses no acknowledged             *)
(* transaction: the two safety invariants of MajorityWatch, for at most    *)
(* three declared seeds and every dwell and bound.  With four seeds the    *)
(* first one is false: the group may go on with a member that the view of  *)
(* a survivor cut off earlier does not list.                               *)
(***************************************************************************)
EXTENDS MajorityWatchProofs

USE NodeAssumption, DwellAssumption, BoundAssumption

AtMostThree  == Configured <= 3
PromptRounds == "slow_reform" \notin Troubles /\ "slow_round" \notin Troubles

-----------------------------------------------------------------------------
(* Majorities of at most three. *)

LEMMA NoFourSeeds ==
    ASSUME AtMostThree, NEW w \in Node, NEW x \in Node, NEW y \in Node, NEW z \in Node
    PROVE  w = x \/ w = y \/ w = z \/ x = y \/ x = z \/ y = z
<1> SUFFICES ASSUME ~ (w = x \/ w = y \/ w = z \/ x = y \/ x = z \/ y = z)
             PROVE  FALSE
  OBVIOUS
<1>1. IsFiniteSet({w}) /\ Cardinality({w}) = 1
  BY FS_Singleton
<1>2. IsFiniteSet({w, x}) /\ Cardinality({w, x}) = 2
  <2>1. {w, x} = {w} \cup {x} /\ x \notin {w}
    OBVIOUS
  <2>2. QED BY <1>1, <2>1, FS_AddElement
<1>3. IsFiniteSet({w, x, y}) /\ Cardinality({w, x, y}) = 3
  <2>1. {w, x, y} = {w, x} \cup {y} /\ y \notin {w, x}
    OBVIOUS
  <2>2. QED BY <1>2, <2>1, FS_AddElement
<1>4. Cardinality({w, x, y, z}) = 4
  <2>1. {w, x, y, z} = {w, x, y} \cup {z} /\ z \notin {w, x, y}
    OBVIOUS
  <2>2. QED BY <1>3, <2>1, FS_AddElement
<1>5. Cardinality({w, x, y, z}) \in 0 .. Configured
  BY CardinalityOfSeeds
<1>6. QED BY <1>4, <1>5, CardinalityOfSeeds DEF AtMostThree

(* A majority is not one member of several. *)
LEMMA MajorityIsNotOne ==
    ASSUME NEW V \in SUBSET Node, NEW D \in SUBSET V,
           2 * Cardinality(D) > Cardinality(V), NEW n \in V
    PROVE  V = {n} \/ \E m \in D : m # n
<1> SUFFICES ASSUME \A m \in D : m = n PROVE V = {n}
  OBVIOUS
<1>1. IsFiniteSet(V) /\ IsFiniteSet(D) /\ Cardinality(V) \in Nat /\ Cardinality(D) \in Nat
  <2>1. D \in SUBSET Node
    OBVIOUS
  <2>2. QED BY <2>1, CardinalityOfSeeds
<1>2. D \in SUBSET {n} /\ IsFiniteSet({n}) /\ Cardinality({n}) = 1
  BY FS_Singleton
<1>3. Cardinality(D) <= 1
  <2>1. Cardinality(D) <= Cardinality({n})
    BY <1>2, FS_Subset
  <2>2. QED BY <1>2, <2>1
<1>4. Cardinality(V) <= 1
  BY <1>1, <1>3
<1>5. {n} \subseteq V /\ Cardinality({n}) = 1
  BY FS_Singleton
<1>6. Cardinality({n}) = Cardinality(V)
  BY <1>1, <1>4, <1>5, FS_Subset
<1>7. QED BY <1>1, <1>5, <1>6, FS_Subset

(* Of two members of at most three, a majority has one. *)
LEMMA MajorityHasOneOfTwo ==
    ASSUME AtMostThree, NEW V \in SUBSET Node, NEW D \in SUBSET V,
           2 * Cardinality(D) > Cardinality(V), NEW x \in V, NEW y \in V, x # y
    PROVE  x \in D \/ y \in D
<1> SUFFICES ASSUME x \notin D, y \notin D PROVE FALSE
  OBVIOUS
<1>1. /\ IsFiniteSet(V) /\ IsFiniteSet(D)
      /\ Cardinality(V) \in Nat /\ Cardinality(D) \in Nat /\ Cardinality(V) <= 3
  <2>1. D \in SUBSET Node
    OBVIOUS
  <2>2. QED BY <2>1, CardinalityOfSeeds DEF AtMostThree
<1>2. IsFiniteSet(V \ {x}) /\ Cardinality(V \ {x}) = Cardinality(V) - 1
  BY <1>1, FS_RemoveElement
<1>3. IsFiniteSet((V \ {x}) \ {y}) /\ Cardinality((V \ {x}) \ {y}) = Cardinality(V) - 2
  <2> DEFINE W == V \ {x}
  <2>1. IsFiniteSet(W) /\ Cardinality(W) = Cardinality(V) - 1 /\ y \in W
    BY <1>2
  <2> HIDE DEF W
  <2>2. IsFiniteSet(W \ {y}) /\ Cardinality(W \ {y}) = Cardinality(W) - 1
    BY <2>1, FS_RemoveElement
  <2>3. Cardinality(W \ {y}) = Cardinality(V) - 2
    BY <1>1, <2>1, <2>2
  <2>4. QED BY <2>2, <2>3 DEF W
<1>4. D \subseteq (V \ {x}) \ {y}
  OBVIOUS
<1>5. Cardinality(D) <= Cardinality(V) - 2
  BY <1>3, <1>4, FS_Subset
<1>6. QED BY <1>1, <1>5

(* Two majorities of one view meet. *)
LEMMA MajoritiesMeet ==
    ASSUME NEW V \in SUBSET Node, NEW C \in SUBSET V, NEW D \in SUBSET V,
           2 * Cardinality(C) > Cardinality(V), 2 * Cardinality(D) > Cardinality(V)
    PROVE  \E k \in V : k \in C /\ k \in D
<1> SUFFICES ASSUME C \cap D = {} PROVE FALSE
  OBVIOUS
<1>1. /\ IsFiniteSet(V) /\ IsFiniteSet(C) /\ IsFiniteSet(D)
      /\ Cardinality(V) \in Nat /\ Cardinality(C) \in Nat /\ Cardinality(D) \in Nat
  <2>1. C \in SUBSET Node /\ D \in SUBSET Node
    OBVIOUS
  <2>2. QED BY <2>1, CardinalityOfSeeds
<1>2. Cardinality(C \cup D) = Cardinality(C) + Cardinality(D)
  <2>1. Cardinality(C \cap D) = 0
    BY FS_EmptySet
  <2>2. Cardinality(C \cup D) = Cardinality(C) + Cardinality(D) - Cardinality(C \cap D)
    BY <1>1, FS_Union
  <2>3. QED BY <1>1, <2>1, <2>2
<1>3. Cardinality(C \cup D) <= Cardinality(V)
  BY <1>1, FS_Subset
<1>4. QED BY <1>1, <1>2, <1>3

-----------------------------------------------------------------------------
(* The inductive invariant. *)

Member(n) == view[n] # {}

SelfListed == \A n \in Node : Member(n) => n \in view[n]

(* A group that went on without some seed has left at most one member behind,
   alone with the view of everyone. *)
OldViewLone ==
    \A n, m, k \in Node :
        Member(n) /\ Member(m) /\ view[n] # Node /\ view[m] # view[n] =>
            view[m] = Node /\ (view[k] = Node => k = m)

JudgedUnhealthy == \A n \in Node : At(n, "judge") => ~ SnapshotHealthy(n)

(* A survivor that is about to stop is the last of its view, and none of the
   others is about to form a group. *)
StopsLast ==
    \A n \in Node : At(n, "stop") =>
        /\ n \in view[n] /\ view[n] # {n}
        /\ \A m \in view[n] : m # n =>
              ~ Member(m) /\ ~ At(m, "stop") /\ ~ At(m, "reform")

(* One that is about to re-form has at most one other member around it, which
   is alone with the view of everyone. *)
ReformsAlone ==
    \A n \in Node : At(n, "reform") =>
        /\ ~ Member(n)
        /\ \A m \in Node : Member(m) =>
              view[m] = Node /\ \A k \in Node : Member(k) => k = m
        /\ \A m \in Node : At(m, "reform") => m = n

ViewInv  == SelfListed /\ OldViewLone
ForceInv == JudgedUnhealthy /\ StopsLast /\ ReformsAlone
GroupInv == ViewInv /\ ForceInv

LEMMA OperatingIsNotAlone ==
    ASSUME TypeOK, SelfListed, NEW n \in Node, Member(n), Operating(n)
    PROVE  view[n] = {n} \/ \E m \in Reachable(n) : m # n
BY MajorityIsNotOne DEF Operating, Reachable, TypeOK, SelfListed

(* No group operates while a survivor stops and re-forms. *)
LEMMA NothingOperatesBesides ==
    ASSUME AtMostThree, TypeOK, GroupInv, NEW n \in Node, At(n, "stop") \/ At(n, "reform")
    PROVE  /\ \A m \in Node : Member(m) => ~ Operating(m)
           /\ \A m \in Node : Member(m) => Reachable(m) = {m} /\ view[m] # {m}
<1> USE DEF GroupInv, ViewInv, ForceInv
<1>1. ASSUME NEW m \in Node, Member(m) PROVE Reachable(m) = {m} /\ view[m] # {m}
  <2>1. CASE At(n, "stop")
    <3>1. CASE m = n
      BY <1>1, <2>1, <3>1 DEF StopsLast, Reachable, SameSide, Member
    <3>2. CASE m # n /\ view[m] # view[n]
      BY <1>1, <2>1, <3>2 DEF StopsLast, OldViewLone, Reachable, SameSide, Member,
                              SelfListed, TypeOK
    <3>3. CASE m # n /\ view[m] = view[n]
      BY <1>1, <2>1, <3>3 DEF StopsLast, SelfListed, Member
    <3>4. QED BY <3>1, <3>2, <3>3
  <2>2. CASE At(n, "reform")
    BY <1>1, <2>2 DEF ReformsAlone, Reachable, SameSide, Member, SelfListed, TypeOK
  <2>3. QED BY <2>1, <2>2
<1>2. QED BY <1>1, OperatingIsNotAlone

-----------------------------------------------------------------------------
(* Every step keeps the views of one group. *)

LEMMA ExpelViews ==
    ASSUME AtMostThree, TypeOK, ViewInv, NEW n \in Node, Expel(n) PROVE ViewInv'
<1> USE DEF ViewInv, Member
<1> DEFINE S == Reachable(n)
<1>1. PICK p \in S : p # n
  BY OperatingIsNotAlone DEF Expel, SelfListed, Reachable, SameSide, TypeOK
<1>2. S \subseteq view[n] /\ view[n] \subseteq Node /\ n \in S
  BY DEF Expel, SelfListed, Reachable, SameSide, TypeOK
<1>3. PICK o \in view[n] : o \notin S
  BY <1>2 DEF Expel
<1>4. \A m \in Node : m \in {n, p, o}
  BY <1>1, <1>2, <1>3, NoFourSeeds
<1>5. view[n] = Node /\ view[p] = Node /\ S = {n, p}
  BY <1>1, <1>2, <1>3, <1>4 DEF Reachable
<1>6. view'[n] = S /\ view'[p] = S /\ view'[o] = view[o]
  BY <1>2, <1>3, <1>5 DEF Expel, InstallView
<1>7. view[o] = Node \/ view[o] = {}
  BY <1>1, <1>2, <1>3, <1>5 DEF OldViewLone
<1>8. SelfListed'
  BY <1>4, <1>5, <1>6, <1>7 DEF SelfListed
<1>9. OldViewLone'
  BY <1>3, <1>4, <1>5, <1>6, <1>7 DEF OldViewLone
<1>10. QED BY <1>8, <1>9

LEMMA CatchUpViews ==
    ASSUME AtMostThree, TypeOK, ViewInv, NEW n \in Node, CatchUp(n) PROVE ViewInv'
<1> USE DEF ViewInv, Member
<1>1. PICK m \in view[n] :
        /\ SameSide(n, m) /\ n \in view[m]
        /\ view[m] \subseteq view[n] /\ view[m] # view[n]
        /\ InstallView(Reachable(m) \cup {n}, view[m], Reachable(m) \cup {n})
  BY DEF CatchUp
<1>2. m \in Node /\ view[m] # {} /\ view[n] # {} /\ view[m] # Node
  BY <1>1 DEF TypeOK
<1>3. \A k \in Node : view'[k] = IF k = n THEN view[m] ELSE view[k]
  BY <1>1 DEF InstallView, Reachable
<1>4. QED BY <1>1, <1>2, <1>3 DEF SelfListed, OldViewLone

LEMMA JoinViews ==
    ASSUME AtMostThree, TypeOK, ViewInv, NEW n \in Node, JoinGroup(n) PROVE ViewInv'
<1> USE DEF ViewInv, Member
<1>1. PICK p \in Node :
        /\ view[p] # {} /\ Reachable(p) = view[p] /\ SameSide(n, p)
        /\ InstallView(view[p] \cup {n}, view[p] \cup {n}, view[p])
  BY DEF JoinGroup
<1>2. \A k \in view[p] : k \in Node /\ view[k] = view[p]
  BY <1>1 DEF Reachable, TypeOK
<1>3. n \notin view[p] /\ view[p] # Node /\ p \in view[p] /\ view[n] = {}
  BY <1>1, <1>2 DEF JoinGroup, SelfListed
<1>4. \A k \in Node : view'[k] = IF k \in view[p] \cup {n} THEN view[p] \cup {n} ELSE view[k]
  BY <1>1 DEF InstallView
<1>5. \A k \in Node : k \notin view[p] => view[k] = {} \/ view[k] = Node
  BY <1>1, <1>3 DEF OldViewLone, SelfListed
<1>6. \A k, l \in Node : view[k] = Node /\ view[l] = Node => k = l
  BY <1>1, <1>3 DEF OldViewLone
<1>7. SelfListed'
  BY <1>4 DEF SelfListed
<1>8. OldViewLone'
  BY <1>2, <1>3, <1>4, <1>5, <1>6 DEF OldViewLone
<1>9. QED BY <1>7, <1>8

LEMMA LeaveViews ==
    ASSUME AtMostThree, TypeOK, ViewInv, NEW n \in Node, Leave(n) PROVE ViewInv'
<1> USE DEF ViewInv, Member
<1> DEFINE rest == Reachable(n) \ {n}
           V    == view[n] \ {n}
<1>1. n \in view[n] /\ view[n] \subseteq Node /\ n \in Reachable(n)
  BY DEF Leave, SelfListed, Reachable, SameSide, TypeOK
<1>2. \A k \in Node : view'[k] = IF k \in rest THEN V ELSE IF k = n THEN {} ELSE view[k]
  BY DEF Leave
<1>3. \A k \in rest : k \in Node /\ k \in V /\ view[k] = view[n]
  BY <1>1 DEF Reachable
<1>4. view[n] = {n} \/ \E k \in rest : TRUE
  BY OperatingIsNotAlone DEF Leave
<1>5. V # Node
  BY <1>1
<1>6. SelfListed'
  BY <1>1, <1>2, <1>3 DEF SelfListed
<1> SUFFICES OldViewLone'
  BY <1>6
<1>7. CASE view[n] = {n}
  BY <1>1, <1>2, <1>3, <1>7 DEF OldViewLone
<1>8. CASE view[n] # {n} /\ view[n] # Node
  <2>1. PICK r \in rest : TRUE
    BY <1>4, <1>8
  <2>2. view[n] = {n, r}
    BY <1>1, <1>3, <1>8, <2>1, NoFourSeeds
  <2>3. \A k \in Node : k # n /\ k # r => view[k] = {} \/ view[k] = Node
    BY <1>1, <1>8, <2>2 DEF OldViewLone, SelfListed
  <2>4. \A k \in Node : view'[k] = IF k = n THEN {} ELSE IF k = r THEN {r} ELSE view[k]
    BY <1>1, <1>2, <1>3, <2>1, <2>2
  <2>5. \A k, l \in Node : view[k] = Node /\ view[l] = Node => k = l
    BY <1>1, <1>8 DEF OldViewLone
  <2>6. QED BY <1>1, <1>8, <2>2, <2>3, <2>4, <2>5 DEF OldViewLone
<1>9. CASE view[n] # {n} /\ view[n] = Node
  <2>1. PICK r \in rest : TRUE
    BY <1>4, <1>9
  <2>2. \A k \in Node : view[k] = Node \/ view[k] = {}
    BY <1>1, <1>3, <1>9, <2>1 DEF OldViewLone
  <2>3. \A k, l \in Node : k \notin rest /\ k # n /\ l \notin rest /\ l # n => k = l
    BY <1>3, <2>1, NoFourSeeds
  <2>4. QED BY <1>2, <1>3, <1>5, <2>2, <2>3 DEF OldViewLone
<1>10. QED BY <1>7, <1>8, <1>9

(* The steps after which no view has another member. *)
LEMMA LossViews ==
    ASSUME TypeOK, ViewInv, NEW n \in Node,
           StopPlugin(n) \/ NoticeExpulsion(n) \/ Crash(n)
    PROVE  ViewInv'
<1>1. view' = [view EXCEPT ![n] = {}]
  BY DEF StopPlugin, NoticeExpulsion, Crash
<1>2. \A k \in Node : view'[k] = IF k = n THEN {} ELSE view[k]
  BY <1>1 DEF TypeOK
<1>3. QED BY <1>2 DEF ViewInv, SelfListed, OldViewLone, Member

(* A group of one is formed when nobody else has a group. *)
LEMMA FormedViews ==
    ASSUME TypeOK, GroupInv, NEW n \in Node, Reform(n) \/ ColdStart(n) PROVE ViewInv'
<1>1. \A k \in Node : view'[k] = IF k = n THEN {n} ELSE view[k]
  BY DEF Reform, ColdStart, TypeOK
<1>2. \A m \in Node : Member(m) => view[m] = Node /\ \A k \in Node : Member(k) => k = m
  BY DEF GroupInv, ForceInv, ReformsAlone, Reform, ColdStart, Member
<1>3. QED BY <1>1, <1>2 DEF GroupInv, ViewInv, SelfListed, OldViewLone, Member

KeepsViews == UNCHANGED view

LEMMA WatchKeepsViews ==
    ASSUME NEW n \in Node,
           \/ StartWatch(n) \/ Look(n) \/ LookAway(n)
           \/ RaiseFence(n) \/ LiftFence(n) \/ LiftFenceFails(n)
           \/ Judge(n) \/ StopFails(n) \/ ReformFails(n)
    PROVE  KeepsViews
BY DEF StartWatch, Look, LookAway, RaiseFence, LiftFence, LiftFenceFails, Judge, StopFails,
       ReformFails, world, KeepsViews

LEMMA WorldKeepsViews ==
    ASSUME NEW n \in Node,
           ClientWrite(n) \/ Deliver(n) \/ Boot(n) \/ Tear(n) \/ Split \/ Heal \/ Tick
    PROVE  KeepsViews
BY DEF ClientWrite, Deliver, Boot, Tear, Split, Heal, Tick, world, KeepsViews

LEMMA NextViews ==
    ASSUME AtMostThree, TypeOK, GroupInv, Next PROVE ViewInv'
<1>1. ASSUME KeepsViews PROVE ViewInv'
  BY <1>1 DEF KeepsViews, GroupInv, ViewInv, SelfListed, OldViewLone, Member
<1>2. ASSUME NEW n \in Node, Watch(n) PROVE ViewInv'
  BY <1>1, <1>2, WatchKeepsViews, LossViews, FormedViews DEF Watch, GroupInv
<1>3. ASSUME NEW n \in Node, GroupReplication(n) PROVE ViewInv'
  BY <1>1, <1>3, WorldKeepsViews, LossViews, FormedViews, ExpelViews, CatchUpViews, JoinViews
     DEF GroupReplication, GroupInv
<1>4. ASSUME NEW n \in Node, Platform(n) PROVE ViewInv'
  BY <1>1, <1>4, WorldKeepsViews, LossViews, LeaveViews DEF Platform, GroupInv
<1>5. CASE Split \/ Heal \/ Tick
  BY <1>1, <1>5 DEF Split, Heal, Tick, world, KeepsViews
<1>6. QED BY <1>2, <1>3, <1>4, <1>5 DEF Next

-----------------------------------------------------------------------------
(* What a survivor proved before it stopped stays true until it re-forms. *)

(* The watch moves to no deciding place, except in the steps named. *)
DecidesNothing ==
    \A m \in Node : /\ At(m, "judge")' => At(m, "judge") /\ SnapshotHealthy(m)' = SnapshotHealthy(m)
                    /\ At(m, "stop")' => At(m, "stop")
                    /\ At(m, "reform")' => At(m, "reform")

LEMMA RoundOverFields ==
    ASSUME NEW w \in WatchSet
    PROVE  /\ RoundOver(w).pc = "look"
           /\ [RoundOver(w) EXCEPT !.streak = 0].pc = "look"
           /\ \A k \in 0 .. ForceDwell : [RoundOver(w) EXCEPT !.streak = k].pc = "look"
           /\ \A g \in [Node -> NoClock .. GoneDwell] :
                 [RoundOver(w) EXCEPT !.gone = g].pc = "look"
BY DEF RoundOver, WatchSet

(* One watch whose new place decides nothing. *)
LEMMA OneMoves ==
    ASSUME TypeOK, NEW n \in Node, NEW w, w.pc \notin {"judge", "stop", "reform"},
           watch' = [watch EXCEPT ![n] = w]
    PROVE  DecidesNothing
<1>1. \A m \in Node : watch'[m] = IF m = n THEN w ELSE watch[m]
  BY DEF TypeOK
<1>2. QED BY <1>1 DEF DecidesNothing, At, SnapshotHealthy

LEMMA SameWatches == ASSUME UNCHANGED watch PROVE DecidesNothing
BY DEF DecidesNothing, At, SnapshotHealthy

LEMMA RoundsDecideNothing ==
    ASSUME TypeOK, NEW n \in Node,
           \/ StartWatch(n) \/ Look(n) \/ LookAway(n) \/ LiftFenceFails(n)
           \/ StopFails(n) \/ Reform(n) \/ ReformFails(n)
    PROVE  DecidesNothing
<1>1. watch[n] \in WatchSet /\ 0 \in 0 .. ForceDwell
  BY DEF TypeOK
<1>2. CASE StartWatch(n)
  <2>1. Watching(highWater[n]).pc = "look"
    BY DEF Watching, Unwatched
  <2>2. QED BY <1>2, <2>1, OneMoves DEF StartWatch
<1>3. CASE Look(n)
  <2>1. Seen(n).pc = "fence"
    BY <1>1 DEF Seen, WatchSet
  <2>2. QED BY <1>3, <2>1, OneMoves DEF Look
<1>4. CASE LookAway(n)
  <2>1. [watch[n] EXCEPT !.streak = 0].pc = "look"
    BY <1>1, <1>4 DEF LookAway, At, WatchSet
  <2>2. QED BY <1>4, <2>1, OneMoves DEF LookAway
<1>5. CASE LiftFenceFails(n)
  BY <1>1, <1>5, ProbedType, RoundOverFields, OneMoves DEF LiftFenceFails
<1>6. CASE StopFails(n)
  BY <1>1, <1>6, RoundOverFields, OneMoves DEF StopFails
<1>7. CASE Reform(n)
  BY <1>1, <1>7, RoundOverFields, OneMoves DEF Reform
<1>8. CASE ReformFails(n)
  BY <1>8, OneMoves DEF ReformFails, Unwatched
<1>9. QED BY <1>2, <1>3, <1>4, <1>5, <1>6, <1>7, <1>8

LEMMA EndsDecideNothing ==
    ASSUME TypeOK, NEW n \in Node, Leave(n) \/ Crash(n) PROVE DecidesNothing
BY OneMoves DEF Leave, Crash, Stopped, Unwatched

LEMMA TickDecidesNothing == ASSUME TypeOK, Tick PROVE DecidesNothing
<1>1. \A m \in Node : /\ watch'[m].pc = watch[m].pc
                      /\ watch'[m].online = watch[m].online /\ watch'[m].lost = watch[m].lost
  BY DEF Tick, TypeOK, WatchSet
<1>2. QED BY <1>1 DEF DecidesNothing, At, SnapshotHealthy

LEMMA WorldDecidesNothing ==
    ASSUME NEW n \in Node, \/ GroupReplication(n) \/ Boot(n) \/ Tear(n)
    PROVE  DecidesNothing
BY SameWatches DEF GroupReplication, Expel, NoticeExpulsion, CatchUp, JoinGroup, ColdStart,
                   ClientWrite, Deliver, Boot, Tear

(* While a survivor stops and re-forms nobody is expelled, nobody joins, no
   other group forms and no transaction commits. *)
LEMMA GroupsWait ==
    ASSUME AtMostThree, TypeOK, GroupInv, NEW n \in Node, At(n, "stop") \/ At(n, "reform"),
           NEW m \in Node
    PROVE  /\ ~ Expel(m) /\ ~ CatchUp(m) /\ ~ JoinGroup(m) /\ ~ ColdStart(m)
           /\ ~ ClientWrite(m) /\ ~ Deliver(m) /\ ~ Leave(m)
<1>1. ~ Expel(m) /\ ~ ClientWrite(m) /\ ~ Deliver(m) /\ ~ Leave(m)
  BY NothingOperatesBesides DEF Expel, ClientWrite, Deliver, Leave, Member
<1>2. ~ JoinGroup(m)
  BY NothingOperatesBesides DEF JoinGroup, Member
<1>3. ~ ColdStart(m)
  BY DEF ColdStart
<1>4. ~ CatchUp(m)
  <2>1. SUFFICES ASSUME NEW k \in view[m], m \in view[k],
                        view[k] \subseteq view[m], view[k] # view[m]
                 PROVE  FALSE
    BY DEF CatchUp
  <2>2. k \in Node /\ view[k] # Node /\ Member(k) /\ Member(m) /\ view[m] = Node
    <3>1. k \in Node /\ view[m] \subseteq Node
      BY <2>1 DEF TypeOK
    <3>2. Member(k) /\ Member(m) /\ view[k] # Node
      BY <2>1, <3>1 DEF Member
    <3>3. QED BY <2>1, <3>1, <3>2 DEF GroupInv, ViewInv, OldViewLone
  <2>3. CASE At(n, "stop")
    <3>1. Member(n) /\ \A j \in view[n] : j # n => ~ Member(j)
      BY <2>3 DEF GroupInv, ForceInv, StopsLast, Member
    <3>2. CASE n = m
      BY <2>1, <2>2, <3>1, <3>2
    <3>3. CASE n # m
      <4>1. view[n] # Node /\ m \notin view[n]
        BY <2>2, <3>1, <3>3
      <4>2. view[k] # view[n]
        BY <2>1, <4>1
      <4>3. view[k] = Node
        BY <2>2, <3>1, <4>1, <4>2 DEF GroupInv, ViewInv, OldViewLone
      <4>4. QED BY <2>2, <4>3
    <3>4. QED BY <3>2, <3>3
  <2>4. CASE At(n, "reform")
    BY <2>1, <2>2, <2>4 DEF GroupInv, ForceInv, ReformsAlone
  <2>5. QED BY <2>3, <2>4
<1>5. QED BY <1>1, <1>2, <1>3, <1>4

OnlyLosses ==
    \A k \in Node : view'[k] = view[k] \/ (view'[k] = {} /\ ~ At(k, "stop")')

(* Otherwise views are only lost, except by the survivor itself. *)
LEMMA ViewsWait ==
    ASSUME AtMostThree, TypeOK, GroupInv, Next,
           NEW n \in Node, At(n, "stop") \/ At(n, "reform")
    PROVE  \/ OnlyLosses
           \/ \E m \in Node : /\ Reform(m) /\ m = n
                              /\ \A k \in Node : view'[k] = IF k = m THEN {m} ELSE view[k]
<1>1. ASSUME KeepsViews PROVE OnlyLosses
  BY <1>1 DEF KeepsViews, OnlyLosses
<1>2. ASSUME NEW m \in Node, StopPlugin(m) \/ NoticeExpulsion(m) \/ Crash(m)
      PROVE  OnlyLosses
  <2>1. \A k \in Node : view'[k] = IF k = m THEN {} ELSE view[k]
    BY <1>2 DEF StopPlugin, NoticeExpulsion, Crash, TypeOK
  <2>2. ASSUME StopPlugin(m) PROVE ~ At(m, "stop")'
    BY <2>2 DEF StopPlugin, TypeOK, WatchSet, At
  <2>3. ASSUME Crash(m) PROVE ~ At(m, "stop")'
    BY <2>3 DEF Crash, Stopped, Unwatched, TypeOK, At
  <2>4. ASSUME NoticeExpulsion(m) PROVE ~ At(m, "stop")'
    BY <2>4 DEF NoticeExpulsion, At, GroupInv, ForceInv, StopsLast, Member
  <2>5. QED BY <1>2, <2>1, <2>2, <2>3, <2>4 DEF OnlyLosses
<1>3. ASSUME NEW m \in Node, Reform(m)
      PROVE  /\ m = n
             /\ \A k \in Node : view'[k] = IF k = m THEN {m} ELSE view[k]
  <2>1. m = n
    BY <1>3 DEF Reform, GroupInv, ForceInv, ReformsAlone, StopsLast, Member, At
  <2>2. QED BY <1>3, <2>1 DEF Reform, TypeOK
<1>4. QED
  BY <1>1, <1>2, <1>3, GroupsWait, WatchKeepsViews, WorldKeepsViews
     DEF Next, Watch, GroupReplication, Platform, Split, Heal, Tick, world, KeepsViews

LEMMA ForceKept ==
    ASSUME AtMostThree, TypeOK, GroupInv, Next, DecidesNothing PROVE ForceInv'
<1> USE DEF GroupInv, ForceInv
<1>1. JudgedUnhealthy'
  BY DEF DecidesNothing, JudgedUnhealthy
<1>2. ASSUME NEW n \in Node, At(n, "stop") \/ At(n, "reform"),
             NEW m \in Node, Reform(m), m = n
      PROVE  ~ At(n, "stop")' /\ ~ At(n, "reform")'
  BY <1>2, RoundOverFields DEF Reform, TypeOK, At
<1>3. ASSUME NEW n \in Node, At(n, "stop")'
      PROVE  /\ n \in view'[n] /\ view'[n] # {n}
             /\ \A m \in view'[n] : m # n =>
                   view'[m] = {} /\ ~ At(m, "stop")' /\ ~ At(m, "reform")'
  <2>1. At(n, "stop")
    BY <1>3 DEF DecidesNothing
  <2>2. OnlyLosses
    BY <1>2, <1>3, <2>1, ViewsWait
  <2>3. view'[n] = view[n] /\ view[n] \subseteq Node
    BY <1>3, <2>2 DEF OnlyLosses, TypeOK
  <2>4. QED BY <2>1, <2>2, <2>3 DEF OnlyLosses, StopsLast, DecidesNothing, Member
<1>4. ASSUME NEW n \in Node, At(n, "reform")'
      PROVE  /\ view'[n] = {}
             /\ \A m \in Node : view'[m] # {} =>
                   view'[m] = Node /\ \A k \in Node : view'[k] # {} => k = m
             /\ \A m \in Node : At(m, "reform")' => m = n
  <2>1. At(n, "reform")
    BY <1>4 DEF DecidesNothing
  <2>2. OnlyLosses
    BY <1>2, <1>4, <2>1, ViewsWait
  <2>3. QED BY <2>1, <2>2 DEF OnlyLosses, ReformsAlone, DecidesNothing, Member
<1>5. QED BY <1>1, <1>3, <1>4 DEF StopsLast, ReformsAlone, Member

(* The fence leaves a round to the verdict only on an unhealthy view. *)
LEMMA FenceForce ==
    ASSUME TypeOK, GroupInv, NEW n \in Node, RaiseFence(n) \/ LiftFence(n) PROVE ForceInv'
<1> USE DEF GroupInv, ForceInv
<1>1. PICK raised \in BOOLEAN : watch' = [watch EXCEPT ![n] = Fenced(n, raised)]
  BY DEF RaiseFence, LiftFence
<1>2. \A m \in Node : watch'[m] = IF m = n THEN Fenced(n, raised) ELSE watch[m]
  BY <1>1 DEF TypeOK
<1> DEFINE w == [watch[n] EXCEPT !.gone = Probed(n), !.fenced = raised]
<1>3. w \in WatchSet /\ w.online = watch[n].online /\ w.lost = watch[n].lost
  <2>1. watch[n] \in WatchSet /\ Probed(n) \in [Node -> NoClock .. GoneDwell]
    BY ProbedType DEF TypeOK
  <2>2. QED BY <2>1 DEF WatchSet
<1>4. [w EXCEPT !.pc = "judge"].pc = "judge"
      /\ [w EXCEPT !.pc = "judge"].online = watch[n].online
      /\ [w EXCEPT !.pc = "judge"].lost = watch[n].lost
  BY <1>3 DEF WatchSet
<1>5. Fenced(n, raised) = IF SnapshotHealthy(n) THEN [RoundOver(w) EXCEPT !.streak = 0]
                                                ELSE [w EXCEPT !.pc = "judge"]
  BY DEF Fenced
<1> HIDE DEF w
<1>6. \/ Fenced(n, raised).pc = "look"
      \/ /\ Fenced(n, raised).pc = "judge" /\ ~ SnapshotHealthy(n)
         /\ Fenced(n, raised).online = watch[n].online /\ Fenced(n, raised).lost = watch[n].lost
  BY <1>3, <1>4, <1>5, RoundOverFields
<1>7. view' = view
  BY WatchKeepsViews DEF KeepsViews
<1>8. \A m \in Node : At(m, "stop")' => At(m, "stop")
  BY <1>2, <1>6 DEF At
<1>9. \A m \in Node : At(m, "reform")' => At(m, "reform")
  BY <1>2, <1>6 DEF At
<1>10. JudgedUnhealthy'
  BY <1>2, <1>6 DEF At, JudgedUnhealthy, SnapshotHealthy
<1>11. StopsLast' /\ ReformsAlone'
  BY <1>7, <1>8, <1>9 DEF StopsLast, ReformsAlone, Member, TypeOK
<1>12. QED BY <1>10, <1>11

(* The verdict that leads on: this member is the last of its view. *)
Forces(n) ==
    /\ At(n, "judge") /\ view[n] = watch[n].online \cup watch[n].lost
    /\ Cardinality(watch[n].online) = 1
    /\ \A m \in watch[n].lost : ~ Member(m) /\ ~ At(m, "reform") /\ txns[m] \subseteq txns[n]
    /\ \E w : w.pc = "stop" /\ watch' = [watch EXCEPT ![n] = w]

LEMMA VerdictCases ==
    ASSUME PromptRounds, TypeOK, NEW n \in Node, Judge(n)
    PROVE  DecidesNothing \/ Forces(n)
<1>1. PICK heard \in SUBSET watch[n].lost :
        \/ Hold(n, heard) \/ Dwell(n, heard) \/ RefuseToForce(n, heard)
        \/ Exhausted(n, heard) \/ StartForcing(n, heard)
  BY DEF Judge
<1>2. watch[n] \in WatchSet /\ 0 \in 0 .. ForceDwell /\ OneMore(n) \in 0 .. ForceDwell
  BY OneMoreType DEF TypeOK
<1>3. ASSUME \/ Hold(n, heard) \/ Dwell(n, heard) \/ RefuseToForce(n, heard)
             \/ Exhausted(n, heard)
      PROVE  DecidesNothing
  <2>1. PICK streak \in 0 .. ForceDwell :
          watch' = [watch EXCEPT ![n] = [RoundOver(watch[n]) EXCEPT !.streak = streak]]
    BY <1>2, <1>3 DEF Hold, Dwell, RefuseToForce, Exhausted
  <2>2. [RoundOver(watch[n]) EXCEPT !.streak = streak].pc = "look"
    BY <1>2, RoundOverFields
  <2>3. QED BY <2>1, <2>2, OneMoves
<1>4. ASSUME StartForcing(n, heard) PROVE Forces(n)
  <2>1. MayForce(n, heard) /\ HoldsAllOf(n)
    BY <1>4 DEF StartForcing
  <2> DEFINE w == [watch[n] EXCEPT !.pc = "stop", !.streak = OneMore(n),
                                   !.attempts = watch[n].attempts + 1]
  <2>2. w.pc = "stop"
    BY <1>2 DEF WatchSet
  <2>3. watch' = [watch EXCEPT ![n] = w]
    BY <1>4 DEF StartForcing
  <2> HIDE DEF w
  <2>4. At(n, "judge")
    BY DEF Judge
  <2>5. QED BY <2>1, <2>2, <2>3, <2>4 DEF Forces, MayForce, ProvablyDeparted, HoldsAllOf,
                DwellOutlastsReform, RoundOutrunsView, PromptRounds, Member
<1>5. QED BY <1>1, <1>3, <1>4

LEMMA ForcesAlone ==
    ASSUME TypeOK, GroupInv, NEW n \in Node, Forces(n)
    PROVE  /\ n \in view[n] /\ view[n] # {n}
           /\ \A m \in view[n] : m # n => m \in watch[n].lost
<1> USE DEF GroupInv, ForceInv, ViewInv
<1>1. watch[n].online \in SUBSET Node /\ watch[n].lost \in SUBSET Node
  BY DEF TypeOK, WatchSet
<1>2. PICK o : watch[n].online = {o}
  <2>1. IsFiniteSet(watch[n].online)
    BY <1>1, CardinalityOfSeeds
  <2>2. QED BY <2>1, FS_Singleton DEF Forces
<1>3. n \in view[n]
  BY <1>2 DEF Forces, SelfListed, Member
<1>4. n \notin watch[n].lost
  BY <1>3 DEF Forces, Member
<1>5. watch[n].lost # {}
  <2>1. ~ (Cardinality(watch[n].online) > Cardinality(watch[n].lost))
    BY DEF Forces, JudgedUnhealthy, SnapshotHealthy
  <2>2. ASSUME watch[n].lost = {} PROVE FALSE
    <3>1. Cardinality(watch[n].lost) = 0
      BY <2>2, FS_EmptySet
    <3>2. QED BY <2>1, <3>1 DEF Forces
  <2>3. QED BY <2>2
<1>6. QED BY <1>2, <1>3, <1>4, <1>5 DEF Forces

LEMMA ForcesForce ==
    ASSUME TypeOK, GroupInv, NEW n \in Node, Forces(n), UNCHANGED view PROVE ForceInv'
<1> USE DEF GroupInv, ForceInv
<1>1. PICK w : w.pc = "stop" /\ watch' = [watch EXCEPT ![n] = w]
  BY DEF Forces
<1>2. \A m \in Node : watch'[m] = IF m = n THEN w ELSE watch[m]
  BY <1>1 DEF TypeOK
<1>3. JudgedUnhealthy'
  BY <1>1, <1>2 DEF JudgedUnhealthy, At, SnapshotHealthy
<1>4. \A m \in watch[n].lost : m \in Node /\ ~ At(m, "stop") /\ m # n
  BY ForcesAlone DEF Forces, StopsLast, Member, TypeOK, WatchSet
<1>5. n \in view[n] /\ view[n] # {n} /\ view[n] \subseteq Node
      /\ \A m \in view[n] : m # n => ~ Member(m) /\ ~ At(m, "stop") /\ ~ At(m, "reform")
  BY <1>4, ForcesAlone DEF Forces, TypeOK
<1>6. StopsLast'
  <2>1. ASSUME NEW k \in Node, At(k, "stop"), k # n PROVE n \notin view[k]
    BY <1>5, <2>1 DEF StopsLast, Member
  <2>2. \A k \in Node : view[k] \subseteq Node
    BY DEF TypeOK
  <2>3. QED BY <1>1, <1>2, <1>5, <2>1, <2>2 DEF StopsLast, At, Member
<1>7. ReformsAlone'
  BY <1>1, <1>2 DEF ReformsAlone, At, Member
<1>8. QED BY <1>3, <1>6, <1>7

LEMMA StopForce ==
    ASSUME AtMostThree, TypeOK, GroupInv, NEW n \in Node, StopPlugin(n) PROVE ForceInv'
<1> USE DEF GroupInv, ForceInv, ViewInv
<1>1. At(n, "stop") /\ \A m \in Node : view'[m] = IF m = n THEN {} ELSE view[m]
  BY DEF StopPlugin, TypeOK
<1>2. [watch[n] EXCEPT !.pc = "reform"].pc = "reform"
  BY DEF TypeOK, WatchSet
<1>3. \A m \in Node : m # n => watch'[m] = watch[m]
  BY DEF StopPlugin, TypeOK
<1>4. watch'[n].pc = "reform"
  BY <1>2 DEF StopPlugin, TypeOK
<1>5. n \in view[n] /\ view[n] # {n} /\ view[n] \subseteq Node
      /\ \A m \in view[n] : m # n => ~ Member(m) /\ ~ At(m, "stop") /\ ~ At(m, "reform")
  BY <1>1 DEF StopsLast, TypeOK
<1>6. ASSUME NEW m \in Node, At(m, "reform") PROVE FALSE
  BY <1>1, <1>5, <1>6 DEF ReformsAlone, Member, At
<1>7. ASSUME NEW m \in Node, Member(m), m # n
      PROVE  view[m] = Node /\ \A k \in Node : Member(k) /\ k # n => k = m
  <2>1. m \notin view[n] /\ view[n] # Node /\ view[m] # view[n]
    BY <1>5, <1>7 DEF SelfListed
  <2>2. view[m] = Node
    BY <1>5, <1>7, <2>1 DEF OldViewLone, Member
  <2>3. ASSUME NEW k \in Node, Member(k), k # n PROVE k = m
    <3>1. k \notin view[n] /\ view[k] # view[n]
      BY <1>5, <2>3 DEF SelfListed
    <3>2. view[k] = Node
      BY <1>5, <2>1, <2>3, <3>1 DEF OldViewLone, Member
    <3>3. QED BY <1>5, <1>7, <2>1, <2>2, <3>2 DEF OldViewLone, Member
  <2>4. QED BY <2>2, <2>3
<1>8. JudgedUnhealthy'
  BY <1>3, <1>4 DEF JudgedUnhealthy, At, SnapshotHealthy
<1>9. StopsLast'
  <2>1. ASSUME NEW k \in Node, At(k, "stop"), k # n PROVE n \notin view[k]
    BY <1>1, <1>5, <2>1 DEF StopsLast, Member
  <2>2. \A k \in Node : view[k] \subseteq Node
    BY DEF TypeOK
  <2>3. QED BY <1>1, <1>3, <1>4, <2>1, <2>2 DEF StopsLast, At, Member
<1>10. ReformsAlone'
  BY <1>1, <1>3, <1>4, <1>6, <1>7 DEF ReformsAlone, At, Member
<1>11. QED BY <1>8, <1>9, <1>10

LEMMA NextForce ==
    ASSUME AtMostThree, PromptRounds, TypeOK, GroupInv, Next PROVE ForceInv'
<1>1. ASSUME NEW n \in Node, Judge(n) PROVE ForceInv'
  <2>1. UNCHANGED view
    BY <1>1 DEF Judge, world
  <2>2. QED BY <1>1, <2>1, VerdictCases, ForcesForce, ForceKept
<1>2. ASSUME NEW n \in Node, Watch(n) PROVE ForceInv'
  BY <1>1, <1>2, ForceKept, FenceForce, StopForce, RoundsDecideNothing DEF Watch
<1>3. ASSUME NEW n \in Node, GroupReplication(n) \/ Platform(n) PROVE ForceInv'
  BY <1>3, ForceKept, WorldDecidesNothing, EndsDecideNothing DEF Platform
<1>4. CASE Split \/ Heal \/ Tick
  BY <1>4, ForceKept, SameWatches, TickDecidesNothing DEF Split, Heal
<1>5. QED BY <1>2, <1>3, <1>4 DEF Next

LEMMA InitGroup == Init => GroupInv
BY DEF Init, GroupInv, ViewInv, ForceInv, SelfListed, OldViewLone, JudgedUnhealthy, StopsLast,
       ReformsAlone, Member, At, Unwatched

LEMMA GroupInvariance ==
    ASSUME AtMostThree, PromptRounds PROVE Spec => []GroupInv
<1>1. ASSUME TypeOK, GroupInv, [Next]_vars PROVE GroupInv'
  <2>1. CASE Next
    BY <1>1, <2>1, NextViews, NextForce DEF GroupInv
  <2>2. CASE UNCHANGED vars
    BY <1>1, <2>2 DEF vars, world, GroupInv, ViewInv, ForceInv, SelfListed, OldViewLone,
          JudgedUnhealthy, SnapshotHealthy, StopsLast, ReformsAlone, Member, At
  <2>3. QED BY <1>1, <2>1, <2>2
<1>2. QED BY <1>1, InitGroup, WatchTypeCorrect, PTL DEF Spec

(* Whatever leaves, crashes, is cut off or answers late: two members that can
   commit are in one group. *)
THEOREM OneGroupHolds ==
    ASSUME AtMostThree, PromptRounds PROVE Spec => []OneOperatingGroup
<1>1. ASSUME TypeOK, GroupInv, NEW n \in Node, NEW m \in Node,
             Member(n), Member(m), Operating(n), Operating(m)
      PROVE  view[n] = view[m] /\ SameSide(n, m)
  <2> USE DEF GroupInv, ViewInv
  <2>1. n \in view[n] /\ m \in view[m] /\ view[n] \subseteq Node /\ view[m] \subseteq Node
    BY <1>1 DEF SelfListed, TypeOK
  <2>2. view[n] = view[m]
    <3>1. ASSUME NEW x \in Node, NEW y \in Node, Member(x), Member(y), Operating(y),
                 view[x] # Node, view[y] # view[x]
          PROVE  FALSE
      <4>1. \A k \in Reachable(y) : k = y
        BY <1>1, <3>1 DEF OldViewLone, Reachable, TypeOK
      <4>2. view[y] = {y} /\ view[y] = Node
        BY <1>1, <3>1, <4>1, OperatingIsNotAlone DEF OldViewLone
      <4>3. QED BY <3>1, <4>2
    <3>2. QED BY <1>1, <3>1
  <2>3. PICK k \in view[n] : k \in Reachable(n) /\ k \in Reachable(m)
    BY <1>1, <2>1, <2>2, MajoritiesMeet DEF Operating, Reachable
  <2>4. QED BY <2>2, <2>3 DEF Reachable, SameSide
<1>2. TypeOK /\ GroupInv => OneOperatingGroup
  BY <1>1 DEF OneOperatingGroup, Member
<1>3. QED BY <1>2, WatchTypeCorrect, GroupInvariance, PTL

(* With at most three seeds the answers of the lost members do prove that no
   group is left that could commit. *)
THEOREM ForcedAloneHolds ==
    ASSUME AtMostThree, PromptRounds PROVE Spec => ForcedAlone
<1> DEFINE Alone ==
        \A n, m \in Node : At(n, "judge") /\ At(n, "stop")' /\ m # n /\ view[m] # {} =>
            ~ Operating(m)
<1>1. ASSUME TypeOK, GroupInv, Next, NEW n \in Node, At(n, "judge"), At(n, "stop")'
      PROVE  Judge(n) /\ ~ DecidesNothing
  <2>1. ~ DecidesNothing
    BY <1>1 DEF DecidesNothing, At
  <2>2. ASSUME NEW k \in Node, Watch(k), k # n PROVE watch'[n] = watch[n]
    BY <2>2, <1>1 DEF TypeOK, Watch, StartWatch, Look, LookAway, RaiseFence, LiftFence,
          LiftFenceFails, Judge, Hold, Dwell, RefuseToForce, Exhausted, StartForcing,
          StopPlugin, StopFails, Reform, ReformFails
  <2>3. ASSUME NEW k \in Node, Watch(k) PROVE Judge(n)
    BY <1>1, <2>1, <2>2, <2>3, RoundsDecideNothing DEF Watch, At, RaiseFence, LiftFence, StopPlugin
  <2>4. QED
    BY <1>1, <2>1, <2>3, WorldDecidesNothing, EndsDecideNothing, TickDecidesNothing, SameWatches
       DEF Next, Platform, Split, Heal
<1>2. ASSUME TypeOK, GroupInv, Next PROVE Alone
  <2>1. SUFFICES ASSUME NEW n \in Node, NEW m \in Node, At(n, "judge"), At(n, "stop")', m # n,
                        Member(m)
                 PROVE  ~ Operating(m)
    BY DEF Member
  <2> USE DEF GroupInv, ViewInv
  <2>2. Forces(n)
    BY <1>1, <1>2, <2>1, VerdictCases
  <2>3. n \in view[n] /\ m \notin view[n] /\ view[n] \subseteq Node /\ Member(n)
    BY <1>2, <2>1, <2>2, ForcesAlone DEF Forces, TypeOK, Member
  <2>4. m \in view[m] /\ view[m] # view[n] /\ view[n] # Node
    BY <1>2, <2>1, <2>3 DEF SelfListed
  <2>5. view[m] = Node /\ \A k \in Reachable(m) : k = m
    BY <1>2, <2>1, <2>3, <2>4 DEF OldViewLone, Reachable, TypeOK
  <2>6. QED BY <1>2, <2>1, <2>3, <2>4, <2>5, OperatingIsNotAlone
<1>3. QED BY <1>2, WatchTypeCorrect, GroupInvariance, PTL DEF Spec, ForcedAlone

-----------------------------------------------------------------------------
(* Where an acknowledged transaction is. *)

AckedSomewhere == acked \subseteq Flushed(Node)
AckedInView    == \A n \in Node : Member(n) => acked \subseteq Flushed(view[n])

(* While two members share a view at most one of all its members lacks it. *)
AckedByMost ==
    \A n, m \in Node : Member(n) /\ n # m /\ view[m] = view[n] =>
        \A x, y \in view[n] : x # y => acked \subseteq txns[x] \cup txns[y]

AckedByForcing == \A n \in Node : At(n, "stop") \/ At(n, "reform") => acked \subseteq txns[n]

AckInv == AckedSomewhere /\ AckedInView /\ AckedByMost /\ AckedByForcing

LEMMA OperatingHoldsAcked ==
    ASSUME TypeOK, ViewInv, AckInv, NEW n \in Node, Member(n), Operating(n)
    PROVE  acked \subseteq Flushed(Reachable(n))
<1>1. n \in view[n] /\ n \in Reachable(n)
  BY DEF ViewInv, SelfListed, Reachable, SameSide
<1>2. CASE view[n] = {n}
  BY <1>1, <1>2 DEF AckInv, AckedInView, Flushed
<1>3. ASSUME NEW m \in Reachable(n), m # n PROVE acked \subseteq Flushed(Reachable(n))
  <2>1. m \in Node /\ m \in view[n] /\ view[m] = view[n]
    BY DEF Reachable, TypeOK
  <2>2. acked \subseteq txns[n] \cup txns[m]
    BY <1>1, <1>3, <2>1 DEF AckInv, AckedByMost
  <2>3. QED BY <1>1, <2>2 DEF Flushed
<1>4. QED BY <1>2, <1>3, OperatingIsNotAlone DEF ViewInv

(* No copy of an acknowledged transaction is lost, and a new view has it. *)
KeepsAcked ==
    acked' = acked /\ \A k \in Node : acked \cap txns[k] \subseteq txns'[k]
NewViewsHold ==
    \A n \in Node : view'[n] # {} /\ view'[n] # view[n] =>
        /\ n \in view'[n] /\ acked \subseteq txns'[n]
        /\ \A m \in Node : m # n /\ view'[m] = view'[n] =>
              \A x, y \in view'[n] : x # y => acked \subseteq txns'[x] \cup txns'[y]

LEMMA AckedViewsKept ==
    ASSUME TypeOK, TypeOK', AckInv, KeepsAcked, NewViewsHold
    PROVE  AckedSomewhere' /\ AckedInView' /\ AckedByMost'
<1> USE DEF AckInv, KeepsAcked
<1>1. AckedSomewhere'
  BY DEF AckedSomewhere, Flushed
<1>2. AckedInView'
  <2>1. ASSUME NEW n \in Node, view'[n] # {}, view'[n] = view[n]
        PROVE  acked \subseteq UNION {txns'[m] : m \in view'[n]}
    <3>1. view[n] \subseteq Node
      BY DEF TypeOK
    <3>2. QED BY <2>1, <3>1 DEF AckedInView, Flushed, Member
  <2>2. ASSUME NEW n \in Node, view'[n] # {}, view'[n] # view[n]
        PROVE  acked \subseteq UNION {txns'[m] : m \in view'[n]}
    BY <2>2 DEF NewViewsHold
  <2>3. QED BY <2>1, <2>2 DEF AckedInView, Flushed, Member
<1>3. AckedByMost'
  <2>1. ASSUME NEW n \in Node, NEW m \in Node, view'[n] # {}, n # m, view'[m] = view'[n],
               NEW x \in view'[n], NEW y \in view'[n], x # y
        PROVE  acked \subseteq txns'[x] \cup txns'[y]
    <3>1. CASE view'[n] # view[n]
      BY <2>1, <3>1 DEF NewViewsHold
    <3>2. CASE view'[m] # view[m]
      BY <2>1, <3>2 DEF NewViewsHold
    <3>3. CASE view'[n] = view[n] /\ view'[m] = view[m]
      <4>1. x \in Node /\ y \in Node
        BY DEF TypeOK
      <4>2. acked \subseteq txns[x] \cup txns[y]
        BY <2>1, <3>3 DEF AckedByMost, Member
      <4>3. QED BY <4>1, <4>2
    <3>4. QED BY <3>1, <3>2, <3>3
  <2>2. QED BY <2>1 DEF AckedByMost, Member
<1>4. QED BY <1>1, <1>2, <1>3

LEMMA AckedForcingKept ==
    ASSUME AckInv, KeepsAcked, DecidesNothing PROVE AckedByForcing'
BY DEF AckInv, KeepsAcked, DecidesNothing, AckedByForcing

(* Steps that change no transaction and give nobody a view. *)
LEMMA QuietAcked ==
    ASSUME TypeOK, TypeOK', AckInv, UNCHANGED <<txns, acked>>,
           \A k \in Node : view'[k] = view[k] \/ view'[k] = {}
    PROVE  /\ KeepsAcked
           /\ AckedSomewhere' /\ AckedInView' /\ AckedByMost'
<1>1. KeepsAcked /\ NewViewsHold
  BY DEF KeepsAcked, NewViewsHold
<1>2. QED BY <1>1, AckedViewsKept

LEMMA ExpelAcked ==
    ASSUME TypeOK, TypeOK', ViewInv, AckInv, NEW n \in Node, Expel(n) PROVE AckInv'
<1> DEFINE S == Reachable(n)
<1>1. acked \subseteq Flushed(S)
  BY OperatingHoldsAcked DEF Expel, Member
<1>2. \A k \in Node : view'[k] = IF k \in S THEN S ELSE view[k]
  BY DEF Expel, InstallView
<1>3. \A k \in Node : txns'[k] = IF k \in S THEN Flushed(S) ELSE txns[k]
  BY DEF Expel, InstallView
<1>4. S \subseteq Node
  BY DEF Reachable, TypeOK
<1> HIDE DEF S
<1>5. KeepsAcked
  BY <1>1, <1>3 DEF KeepsAcked, Expel
<1>6. NewViewsHold
  BY <1>1, <1>2, <1>3, <1>4 DEF NewViewsHold
<1>7. DecidesNothing
  BY SameWatches DEF Expel
<1>8. QED BY <1>5, <1>6, <1>7, AckedViewsKept, AckedForcingKept DEF AckInv

LEMMA CatchUpAcked ==
    ASSUME AtMostThree, TypeOK, TypeOK', ViewInv, AckInv, NEW n \in Node, CatchUp(n)
    PROVE  AckInv'
<1>1. PICK m \in view[n] :
        /\ n \in view[m] /\ view[m] \subseteq view[n] /\ view[m] # view[n]
        /\ InstallView(Reachable(m) \cup {n}, view[m], Reachable(m) \cup {n})
  BY DEF CatchUp
<1> DEFINE S == Reachable(m) \cup {n}
<1>2. m \in Node /\ Member(m) /\ m \in view[m] /\ m \in S /\ n \in S /\ m # n
  BY <1>1 DEF TypeOK, Member, ViewInv, SelfListed, Reachable, SameSide
<1>3. \A x \in view[m] : x \in S
  <2>1. PICK o \in Node : o \notin view[m]
    BY <1>1 DEF TypeOK
  <2>2. ASSUME NEW x \in view[m] PROVE x = n \/ x = m
    <3>1. x \in Node /\ n \in view[m] /\ m \in view[m]
      BY <1>1, <1>2 DEF TypeOK
    <3>2. QED BY <1>2, <2>1, <3>1, NoFourSeeds
  <2>3. QED BY <1>2, <2>2
<1>4. acked \subseteq Flushed(S)
  <2>1. acked \subseteq Flushed(view[m])
    BY <1>2 DEF AckInv, AckedInView
  <2>2. QED BY <1>3, <2>1 DEF Flushed
<1>5. \A k \in Node : view'[k] = IF k \in S THEN view[m] ELSE view[k]
  BY <1>1 DEF InstallView
<1>6. \A k \in Node : txns'[k] = IF k \in S THEN Flushed(S) ELSE txns[k]
  BY <1>1 DEF InstallView
<1>7. S \subseteq Node /\ \A k \in S : k \in view[m]
  BY <1>1 DEF Reachable, TypeOK
<1> HIDE DEF S
<1>8. KeepsAcked
  BY <1>4, <1>6 DEF KeepsAcked, CatchUp
<1>9. NewViewsHold
  BY <1>3, <1>4, <1>5, <1>6, <1>7 DEF NewViewsHold
<1>10. DecidesNothing
  BY SameWatches DEF CatchUp
<1>11. QED BY <1>8, <1>9, <1>10, AckedViewsKept, AckedForcingKept DEF AckInv

LEMMA JoinAcked ==
    ASSUME TypeOK, TypeOK', AckInv, NEW n \in Node, JoinGroup(n) PROVE AckInv'
<1>1. PICK p \in Node :
        view[p] # {} /\ InstallView(view[p] \cup {n}, view[p] \cup {n}, view[p])
  BY DEF JoinGroup
<1> DEFINE S == view[p] \cup {n}
<1>2. acked \subseteq Flushed(view[p])
  BY <1>1 DEF AckInv, AckedInView, Member
<1>3. \A k \in Node : view'[k] = IF k \in S THEN S ELSE view[k]
  BY <1>1 DEF InstallView
<1>4. \A k \in Node : txns'[k] = IF k \in S THEN Flushed(view[p]) ELSE txns[k]
  BY <1>1 DEF InstallView
<1>5. S \subseteq Node
  BY DEF TypeOK
<1> HIDE DEF S
<1>6. KeepsAcked
  BY <1>2, <1>4 DEF KeepsAcked, JoinGroup
<1>7. NewViewsHold
  BY <1>2, <1>3, <1>4, <1>5 DEF NewViewsHold
<1>8. DecidesNothing
  BY SameWatches DEF JoinGroup
<1>9. QED BY <1>6, <1>7, <1>8, AckedViewsKept, AckedForcingKept DEF AckInv

LEMMA LeaveAcked ==
    ASSUME AtMostThree, TypeOK, TypeOK', ViewInv, AckInv, NEW n \in Node, Leave(n)
    PROVE  AckInv'
<1> DEFINE rest == Reachable(n) \ {n}
           V    == view[n] \ {n}
<1>1. acked \subseteq Flushed(Reachable(n))
  BY OperatingHoldsAcked DEF Leave, Member
<1>2. n \in view[n] /\ view[n] \subseteq Node /\ n \in Reachable(n) /\ Member(n)
  BY DEF Leave, ViewInv, SelfListed, Reachable, SameSide, TypeOK, Member
<1>3. \A k \in Node : view'[k] = IF k \in rest THEN V ELSE IF k = n THEN {} ELSE view[k]
  BY DEF Leave
<1>4. \A k \in Node : txns'[k] = IF k \in rest THEN Flushed(Reachable(n)) ELSE txns[k]
  BY DEF Leave
<1>5. \A k \in rest : k \in Node /\ k \in V /\ view[k] = view[n] /\ k # n
  BY <1>2 DEF Reachable
<1>6. ASSUME NEW r \in rest, NEW m \in Node, m # r, view'[m] = V,
             NEW x \in V, NEW y \in V, x # y
      PROVE  x \in rest \/ y \in rest
  <2>1. m # n
    BY <1>3, <1>5, <1>6
  <2>2. CASE m \in rest
    <3>1. \A z \in V : z \in {r, m}
      BY <1>2, <1>5, <1>6, <2>1, <2>2, NoFourSeeds
    <3>2. QED BY <1>6, <2>2, <3>1
  <2>3. CASE m \notin rest
    <3>1. view[m] = V /\ Member(m) /\ V # Node /\ V # view[n]
      BY <1>2, <1>3, <1>5, <1>6, <2>1, <2>3 DEF Member
    <3>2. view[n] = Node /\ r = n
      BY <1>2, <1>5, <3>1 DEF ViewInv, OldViewLone
    <3>3. QED BY <1>5, <3>2
  <2>4. QED BY <2>2, <2>3
<1> HIDE DEF rest, V
<1>7. KeepsAcked
  BY <1>1, <1>4 DEF KeepsAcked, Leave, Stopped
<1>8. NewViewsHold
  <2>1. ASSUME NEW r \in Node, view'[r] # {}, view'[r] # view[r] PROVE r \in rest
    BY <1>3, <2>1
  <2>2. \A r \in rest : r \in V /\ r \in Node /\ view'[r] = V /\ acked \subseteq txns'[r]
    BY <1>1, <1>3, <1>4, <1>5
  <2>3. QED BY <1>6, <2>1, <2>2 DEF NewViewsHold
<1>9. QED
  BY <1>7, <1>8, EndsDecideNothing, AckedViewsKept, AckedForcingKept DEF AckInv

LEMMA FormedAcked ==
    ASSUME TypeOK, TypeOK', ViewInv', AckInv, NEW n \in Node, Reform(n) \/ ColdStart(n)
    PROVE  AckInv'
<1>1. \A k \in Node : view'[k] = IF k = n THEN {n} ELSE view[k]
  BY DEF Reform, ColdStart, TypeOK
<1>2. acked \subseteq txns[n]
  <2>1. CASE Reform(n)
    BY <2>1 DEF Reform, AckInv, AckedByForcing
  <2>2. CASE ColdStart(n)
    BY <2>2 DEF ColdStart, AckInv, AckedSomewhere, Flushed
  <2>3. QED BY <2>1, <2>2
<1>3. txns' = txns /\ acked' = acked
  BY DEF Reform, ColdStart
<1>4. KeepsAcked
  BY <1>3 DEF KeepsAcked
<1>5. NewViewsHold
  BY <1>1, <1>2, <1>3 DEF NewViewsHold
<1>6. DecidesNothing
  BY RoundsDecideNothing, WorldDecidesNothing DEF GroupReplication
<1>7. QED BY <1>4, <1>5, <1>6, AckedViewsKept, AckedForcingKept DEF AckInv

LEMMA WriteAcked ==
    ASSUME AtMostThree, TypeOK, GroupInv, AckInv, NEW n \in Node, ClientWrite(n) PROVE AckInv'
<1> DEFINE t == Cardinality(acked) + 1
<1>1. PICK D \in SUBSET Reachable(n) :
        /\ n \in D /\ 2 * Cardinality(D) > Cardinality(view[n])
        /\ txns' = [m \in Node |-> IF m \in D THEN txns[m] \cup {t} ELSE txns[m]]
  BY DEF ClientWrite
<1>2. \A m \in Node : txns'[m] = IF m \in D THEN txns[m] \cup {t} ELSE txns[m]
  BY <1>1
<1>3. acked' = acked \cup {t} /\ view' = view /\ watch' = watch
  BY DEF ClientWrite, world
<1> HIDE DEF t
<1>4. n \in view[n] /\ Member(n) /\ D \subseteq view[n] /\ view[n] \subseteq Node
      /\ \A m \in Node : view[m] \subseteq Node
  BY <1>1 DEF ClientWrite, Member, GroupInv, ViewInv, SelfListed, Reachable, TypeOK
<1>5. ASSUME NEW m \in Node, Member(m), view[m] # view[n]
      PROVE  view[m] = Node /\ \A k \in Node : view[k] = view[m] => k = m
  <2>1. view[n] # Node
    <3>1. ASSUME view[n] = Node PROVE FALSE
      <4>1. \A k \in Reachable(n) : k = n
        BY <1>4, <1>5, <3>1 DEF GroupInv, ViewInv, OldViewLone, Reachable
      <4>2. view[n] = {n}
        BY <1>4, <4>1, OperatingIsNotAlone DEF ClientWrite, GroupInv, ViewInv
      <4>3. QED BY <1>4, <1>5, <3>1, <4>2 DEF Member
    <3>2. QED BY <3>1
  <2>2. QED BY <1>4, <1>5, <2>1 DEF GroupInv, ViewInv, OldViewLone
<1>6. AckedSomewhere'
  BY <1>1, <1>2, <1>3, <1>4 DEF AckInv, AckedSomewhere, Flushed
<1>7. AckedInView'
  <2>1. ASSUME NEW m \in Node, Member(m)
        PROVE  acked \cup {t} \subseteq UNION {txns'[k] : k \in view[m]}
    <3>1. n \in view[m]
      BY <1>4, <1>5, <2>1
    <3>2. QED BY <1>1, <1>2, <1>4, <2>1, <3>1 DEF AckInv, AckedInView, Flushed
  <2>2. QED BY <1>3, <2>1 DEF AckedInView, Flushed, Member
<1>8. AckedByMost'
  <2>1. ASSUME NEW m \in Node, NEW k \in Node, Member(m), k # m, view[k] = view[m],
               NEW x \in view[m], NEW y \in view[m], x # y
        PROVE  acked \cup {t} \subseteq txns'[x] \cup txns'[y]
    <3>1. view[m] = view[n]
      BY <1>5, <2>1
    <3>2. x \in D \/ y \in D
      BY <1>1, <1>4, <2>1, <3>1, MajorityHasOneOfTwo
    <3>3. acked \subseteq txns[x] \cup txns[y] /\ x \in Node /\ y \in Node
      BY <1>4, <2>1 DEF AckInv, AckedByMost
    <3>4. QED BY <1>2, <3>2, <3>3
  <2>2. QED BY <1>3, <2>1 DEF AckedByMost, Member
<1>9. AckedByForcing'
  BY <1>3, GroupsWait DEF AckedByForcing, At
<1>10. QED BY <1>6, <1>7, <1>8, <1>9 DEF AckInv

LEMMA DeliverAcked ==
    ASSUME TypeOK, TypeOK', ViewInv, AckInv, NEW n \in Node, Deliver(n) PROVE AckInv'
<1>1. \A k \in Node : txns'[k] = IF k = n THEN Flushed(Reachable(n)) ELSE txns[k]
  BY DEF Deliver, TypeOK
<1>2. n \in Reachable(n)
  BY DEF Deliver, Reachable, SameSide, ViewInv, SelfListed, Member
<1>3. KeepsAcked /\ NewViewsHold
  BY <1>1, <1>2 DEF KeepsAcked, NewViewsHold, Flushed, Deliver, world
<1>4. DecidesNothing
  BY SameWatches DEF Deliver
<1>5. QED BY <1>3, <1>4, AckedViewsKept, AckedForcingKept DEF AckInv

LEMMA StopAcked ==
    ASSUME TypeOK, TypeOK', AckInv, NEW n \in Node, StopPlugin(n) PROVE AckInv'
<1>1. /\ \A k \in Node : view'[k] = view[k] \/ view'[k] = {}
      /\ UNCHANGED <<txns, acked>>
  BY DEF StopPlugin, TypeOK
<1>2. \A m \in Node : m # n => watch'[m] = watch[m]
  BY DEF StopPlugin, TypeOK
<1>3. AckedByForcing'
  BY <1>1, <1>2 DEF AckInv, AckedByForcing, At, StopPlugin
<1>4. QED BY <1>1, <1>3, QuietAcked DEF AckInv

LEMMA ForcesAcked ==
    ASSUME TypeOK, TypeOK', GroupInv, AckInv, NEW n \in Node, Judge(n), Forces(n) PROVE AckInv'
<1>1. UNCHANGED <<view, txns, acked>>
  BY DEF Judge, world
<1>2. acked \subseteq txns[n]
  <2>1. \A m \in view[n] : txns[m] \subseteq txns[n]
    BY ForcesAlone DEF Forces
  <2>2. acked \subseteq Flushed(view[n])
    BY ForcesAlone DEF AckInv, AckedInView, Member
  <2>3. QED BY <2>1, <2>2 DEF Flushed
<1>3. \A m \in Node : m # n => watch'[m] = watch[m]
  BY DEF Forces, TypeOK
<1>4. AckedByForcing'
  BY <1>1, <1>2, <1>3 DEF AckInv, AckedByForcing, At
<1>5. QED BY <1>1, <1>4, QuietAcked DEF AckInv

(* Steps that change no transaction, give nobody a view and decide nothing. *)
LEMMA DullAcked ==
    ASSUME TypeOK, TypeOK', AckInv, DecidesNothing, UNCHANGED <<txns, acked>>,
           \A k \in Node : view'[k] = view[k] \/ view'[k] = {}
    PROVE  AckInv'
BY QuietAcked, AckedForcingKept DEF AckInv

LEMMA FenceDecides ==
    ASSUME TypeOK, NEW n \in Node, RaiseFence(n) \/ LiftFence(n)
    PROVE  \A m \in Node : /\ At(m, "stop")' => At(m, "stop")
                           /\ At(m, "reform")' => At(m, "reform")
<1>1. PICK raised \in BOOLEAN : watch' = [watch EXCEPT ![n] = Fenced(n, raised)]
  BY DEF RaiseFence, LiftFence
<1>2. \A m \in Node : watch'[m] = IF m = n THEN Fenced(n, raised) ELSE watch[m]
  BY <1>1 DEF TypeOK
<1> DEFINE w == [watch[n] EXCEPT !.gone = Probed(n), !.fenced = raised]
<1>3. w \in WatchSet
  <2>1. watch[n] \in WatchSet /\ Probed(n) \in [Node -> NoClock .. GoneDwell]
    BY ProbedType DEF TypeOK
  <2>2. QED BY <2>1 DEF WatchSet
<1>4. [w EXCEPT !.pc = "judge"].pc = "judge"
  BY <1>3 DEF WatchSet
<1>5. Fenced(n, raised) = IF SnapshotHealthy(n) THEN [RoundOver(w) EXCEPT !.streak = 0]
                                                ELSE [w EXCEPT !.pc = "judge"]
  BY DEF Fenced
<1> HIDE DEF w
<1>6. Fenced(n, raised).pc \in {"look", "judge"}
  BY <1>3, <1>4, <1>5, RoundOverFields
<1>7. QED BY <1>2, <1>6 DEF At

LEMMA FenceAcked ==
    ASSUME TypeOK, TypeOK', AckInv, NEW n \in Node, RaiseFence(n) \/ LiftFence(n)
    PROVE  AckInv'
<1>1. UNCHANGED <<view, txns, acked>>
  BY DEF RaiseFence, LiftFence, world
<1>2. AckedByForcing'
  BY <1>1, FenceDecides DEF AckInv, AckedByForcing
<1>3. QED BY <1>1, <1>2, QuietAcked DEF AckInv

LEMMA NextAcked ==
    ASSUME AtMostThree, PromptRounds, TypeOK, TypeOK', GroupInv, ViewInv', AckInv, Next
    PROVE  AckInv'
<1> USE DEF GroupInv
<1>1. ASSUME NEW n \in Node, Judge(n) PROVE AckInv'
  <2>1. UNCHANGED <<view, txns, acked>>
    BY <1>1 DEF Judge, world
  <2>2. QED BY <1>1, <2>1, VerdictCases, ForcesAcked, DullAcked
<1>2. ASSUME NEW n \in Node,
             \/ StartWatch(n) \/ Look(n) \/ LookAway(n) \/ LiftFenceFails(n)
             \/ StopFails(n) \/ ReformFails(n)
      PROVE  AckInv'
  <2>1. UNCHANGED <<view, txns, acked>>
    BY <1>2 DEF StartWatch, Look, LookAway, LiftFenceFails, StopFails, ReformFails, world
  <2>2. QED BY <1>2, <2>1, RoundsDecideNothing, DullAcked
<1>3. ASSUME NEW n \in Node, Watch(n) PROVE AckInv'
  BY <1>1, <1>2, <1>3, FenceAcked, StopAcked, FormedAcked DEF Watch
<1>4. ASSUME NEW n \in Node, NoticeExpulsion(n) \/ Crash(n) PROVE AckInv'
  <2>1. /\ \A k \in Node : view'[k] = view[k] \/ view'[k] = {}
        /\ UNCHANGED <<txns, acked>>
    BY <1>4 DEF NoticeExpulsion, Crash, Stopped, TypeOK
  <2>2. DecidesNothing
    BY <1>4, WorldDecidesNothing, EndsDecideNothing DEF GroupReplication
  <2>3. QED BY <2>1, <2>2, DullAcked
<1>5. ASSUME NEW n \in Node, GroupReplication(n) PROVE AckInv'
  BY <1>4, <1>5, ExpelAcked, CatchUpAcked, JoinAcked, FormedAcked, WriteAcked, DeliverAcked
     DEF GroupReplication
<1>6. ASSUME NEW n \in Node, Boot(n) \/ Tear(n) PROVE AckInv'
  <2>1. UNCHANGED <<view, txns, acked>>
    BY <1>6 DEF Boot, Tear, world
  <2>2. QED BY <1>6, <2>1, WorldDecidesNothing, DullAcked
<1>7. ASSUME NEW n \in Node, Platform(n) PROVE AckInv'
  BY <1>4, <1>6, <1>7, LeaveAcked DEF Platform
<1>8. CASE Split \/ Heal \/ Tick
  <2>1. UNCHANGED <<view, txns, acked>>
    BY <1>8 DEF Split, Heal, Tick, world
  <2>2. DecidesNothing
    BY <1>8, SameWatches, TickDecidesNothing DEF Split, Heal
  <2>3. QED BY <2>1, <2>2, DullAcked
<1>9. QED BY <1>3, <1>5, <1>7, <1>8 DEF Next

LEMMA InitAcked == Init => AckInv
BY DEF Init, AckInv, AckedSomewhere, AckedInView, AckedByMost, AckedByForcing, At, Unwatched,
       Member

LEMMA AckedInvariance ==
    ASSUME AtMostThree, PromptRounds PROVE Spec => []AckInv
<1>1. ASSUME TypeOK, TypeOK', GroupInv, GroupInv', AckInv, [Next]_vars PROVE AckInv'
  <2>1. CASE Next
    BY <1>1, <2>1, NextAcked DEF GroupInv
  <2>2. CASE UNCHANGED vars
    BY <1>1, <2>2 DEF vars, world, AckInv, AckedSomewhere, AckedInView, AckedByMost,
          AckedByForcing, Flushed, Member, At
  <2>3. QED BY <1>1, <2>1, <2>2
<1>2. QED BY <1>1, InitAcked, WatchTypeCorrect, GroupInvariance, PTL DEF Spec

(* A transaction a client was told is committed is in whatever group can
   commit, a re-formed one included. *)
THEOREM AckedHeld ==
    ASSUME AtMostThree, PromptRounds PROVE Spec => []AckedKept
<1>1. TypeOK /\ GroupInv /\ AckInv => AckedKept
  BY OperatingHoldsAcked DEF AckedKept, GroupInv, Member
<1>2. QED BY <1>1, WatchTypeCorrect, GroupInvariance, AckedInvariance, PTL
=============================================================================

------------------------ MODULE MajorityWatchProofs ------------------------
(***************************************************************************)
(* Theorems about MajorityWatch, for every set of seeds, every dwell and   *)
(* every bound.                                                            *)
(***************************************************************************)
EXTENDS MajorityWatch, FiniteSetTheorems, TLAPS

USE NodeAssumption, DwellAssumption, BoundAssumption

-----------------------------------------------------------------------------
(* What the helpers return. *)

LEMMA CardinalityOfSeeds ==
    /\ Configured \in Nat
    /\ \A S \in SUBSET Node : IsFiniteSet(S) /\ Cardinality(S) \in 0 .. Configured
<1>1. Configured \in Nat
  BY FS_CardinalityType DEF Configured
<1>2. ASSUME NEW S \in SUBSET Node
      PROVE  IsFiniteSet(S) /\ Cardinality(S) \in 0 .. Configured
  <2>1. IsFiniteSet(S) /\ Cardinality(S) <= Configured
    BY FS_Subset DEF Configured
  <2>2. Cardinality(S) \in Nat
    BY <2>1, FS_CardinalityType
  <2>3. QED BY <1>1, <2>1, <2>2
<1>3. QED BY <1>1, <1>2

LEMMA RoundOverType == ASSUME NEW w \in WatchSet PROVE RoundOver(w) \in WatchSet
BY DEF RoundOver, WatchSet

LEMMA UnwatchedType == Unwatched \in WatchSet
BY CardinalityOfSeeds DEF Unwatched, WatchSet, NoClock

LEMMA ProbedType ==
    ASSUME TypeOK, NEW n \in Node
    PROVE  Probed(n) \in [Node -> NoClock .. GoneDwell]
BY DEF TypeOK, Probed, WatchSet, NoClock

LEMMA FencedType ==
    ASSUME TypeOK, NEW n \in Node, NEW raised \in BOOLEAN
    PROVE  Fenced(n, raised) \in WatchSet
<1> DEFINE w == [watch[n] EXCEPT !.gone = Probed(n), !.fenced = raised]
<1>1. w \in WatchSet
  <2>1. watch[n] \in WatchSet
    BY DEF TypeOK
  <2>2. Probed(n) \in [Node -> NoClock .. GoneDwell]
    BY ProbedType
  <2>3. QED BY <2>1, <2>2 DEF WatchSet
<1>2. RoundOver(w) \in WatchSet
  BY <1>1, RoundOverType
<1>3. [RoundOver(w) EXCEPT !.streak = 0] \in WatchSet
  BY <1>2 DEF WatchSet
<1>4. [w EXCEPT !.pc = "judge"] \in WatchSet
  BY <1>1 DEF WatchSet
<1>5. QED BY <1>3, <1>4 DEF Fenced

-----------------------------------------------------------------------------
(* Type correctness. *)

LEMMA InitTypeOK == Init => TypeOK
BY UnwatchedType, CardinalityOfSeeds DEF Init, TypeOK, Unreadable

LEMMA WatchUpdate ==
    ASSUME TypeOK, NEW n \in Node, NEW w \in WatchSet, watch' = [watch EXCEPT ![n] = w]
    PROVE  watch' \in [Node -> WatchSet]
BY DEF TypeOK

LEMMA WatchingType ==
    ASSUME NEW marker \in Unreadable .. Configured
    PROVE  Watching(marker) \in WatchSet
<1> DEFINE torn == marker = Unreadable
           peak == IF marker = Unreadable THEN 0 ELSE marker
<1>1. torn \in BOOLEAN /\ peak \in 0 .. Configured
  BY CardinalityOfSeeds DEF Unreadable
<1>2. Watching(marker) = [Unwatched EXCEPT !.pc = "look", !.torn = torn, !.peak = peak]
  BY DEF Watching
<1> HIDE DEF torn, peak
<1>3. QED BY <1>1, <1>2, UnwatchedType DEF WatchSet

LEMMA StartWatchType == ASSUME TypeOK, NEW n \in Node, StartWatch(n) PROVE TypeOK'
<1>1. Watching(highWater[n]) \in WatchSet
  BY WatchingType DEF TypeOK
<1>2. watch' \in [Node -> WatchSet]
  BY <1>1, WatchUpdate DEF StartWatch
<1>3. QED BY <1>2 DEF TypeOK, StartWatch, world

LEMMA CountType ==
    ASSUME TypeOK, NEW n \in Node PROVE Count(n) \in 0 .. Configured
BY CardinalityOfSeeds DEF Count, Reachable, TypeOK

LEMMA SeenType == ASSUME TypeOK, NEW n \in Node PROVE Seen(n) \in WatchSet
<1> DEFINE peak == IF Higher(n) THEN Count(n) ELSE watch[n].peak
<1>1. Reachable(n) \in SUBSET Node /\ view[n] \ Reachable(n) \in SUBSET Node
  BY DEF TypeOK, Reachable
<1>2. watch[n] \in WatchSet /\ primary[n] \in BOOLEAN
  BY DEF TypeOK
<1>3. peak \in 0 .. Configured
  BY <1>2, CountType DEF WatchSet
<1>4. Seen(n) = [watch[n] EXCEPT !.pc = "fence", !.online = Reachable(n),
                     !.lost = view[n] \ Reachable(n), !.primary = primary[n], !.peak = peak]
  BY DEF Seen
<1> HIDE DEF peak
<1>5. QED BY <1>1, <1>2, <1>3, <1>4 DEF WatchSet

LEMMA LookType == ASSUME TypeOK, NEW n \in Node, Look(n) PROVE TypeOK'
<1>1. watch' \in [Node -> WatchSet]
  BY SeenType, WatchUpdate DEF Look
<1>2. highWater' \in [Node -> Unreadable .. Configured] /\ reached' \in [Node -> BOOLEAN]
  BY CountType, CardinalityOfSeeds DEF Look, TypeOK, Unreadable
<1>3. trouble' \in 0 .. MaxTrouble
  BY DEF Look, Spend, TypeOK
<1>4. QED BY <1>1, <1>2, <1>3 DEF TypeOK, Look, world

LEMMA LookAwayType == ASSUME TypeOK, NEW n \in Node, LookAway(n) PROVE TypeOK'
<1>1. watch[n] \in WatchSet /\ 0 \in 0 .. ForceDwell
  BY DEF TypeOK
<1>2. [watch[n] EXCEPT !.streak = 0] \in WatchSet
  BY <1>1 DEF WatchSet
<1>3. watch' \in [Node -> WatchSet]
  BY <1>2, WatchUpdate DEF LookAway
<1>4. trouble' \in 0 .. MaxTrouble
  BY DEF TypeOK, LookAway, Spend
<1>5. QED BY <1>3, <1>4 DEF TypeOK, LookAway, world

LEMMA FenceType ==
    ASSUME TypeOK, NEW n \in Node, RaiseFence(n) \/ LiftFence(n) \/ LiftFenceFails(n)
    PROVE  TypeOK'
<1>1. CASE RaiseFence(n)
  <2>1. Fenced(n, TRUE) \in WatchSet
    BY FencedType
  <2>2. watch' \in [Node -> WatchSet]
    BY <1>1, <2>1, WatchUpdate DEF RaiseFence
  <2>3. readOnly' \in [Node -> BOOLEAN]
    BY <1>1 DEF RaiseFence, TypeOK
  <2>4. trouble' \in 0 .. MaxTrouble
    BY <1>1 DEF RaiseFence, TypeOK, Spend
  <2>5. QED BY <1>1, <2>2, <2>3, <2>4 DEF RaiseFence, TypeOK, world
<1>2. CASE LiftFence(n)
  <2>1. Fenced(n, FALSE) \in WatchSet
    BY FencedType
  <2>2. watch' \in [Node -> WatchSet]
    BY <1>2, <2>1, WatchUpdate DEF LiftFence
  <2>3. readOnly' \in [Node -> BOOLEAN]
    BY <1>2 DEF LiftFence, TypeOK
  <2>4. QED BY <1>2, <2>2, <2>3 DEF LiftFence, TypeOK, world
<1>3. CASE LiftFenceFails(n)
  <2>1. RoundOver(watch[n]) \in WatchSet
    BY RoundOverType DEF TypeOK
  <2>2. [RoundOver(watch[n]) EXCEPT !.gone = Probed(n)] \in WatchSet
    BY <2>1, ProbedType DEF WatchSet
  <2>3. watch' \in [Node -> WatchSet]
    BY <1>3, <2>2, WatchUpdate DEF LiftFenceFails
  <2>4. trouble' \in 0 .. MaxTrouble
    BY <1>3 DEF LiftFenceFails, TypeOK, Spend
  <2>5. QED BY <1>3, <2>3, <2>4 DEF LiftFenceFails, TypeOK, world
<1>4. QED BY <1>1, <1>2, <1>3

LEMMA OneMoreType ==
    ASSUME TypeOK, NEW n \in Node PROVE OneMore(n) \in 0 .. ForceDwell
BY DEF TypeOK, WatchSet, OneMore, Dwelt

LEMMA RestedType ==
    ASSUME TypeOK, NEW n \in Node, NEW streak \in 0 .. ForceDwell
    PROVE  [RoundOver(watch[n]) EXCEPT !.streak = streak] \in WatchSet
<1>1. RoundOver(watch[n]) \in WatchSet
  BY RoundOverType DEF TypeOK
<1>2. QED BY <1>1 DEF WatchSet

LEMMA ResetType ==
    ASSUME TypeOK, NEW n \in Node,
           watch' = [watch EXCEPT ![n] = [RoundOver(@) EXCEPT !.streak = 0]]
    PROVE  watch' \in [Node -> WatchSet]
<1>1. [RoundOver(watch[n]) EXCEPT !.streak = 0] \in WatchSet
  <2>1. 0 \in 0 .. ForceDwell
    OBVIOUS
  <2>2. QED BY <2>1, RestedType
<1>2. QED BY <1>1, WatchUpdate

LEMMA JudgeType == ASSUME TypeOK, NEW n \in Node, Judge(n) PROVE TypeOK'
<1>1. PICK heard \in SUBSET watch[n].lost :
        /\ HeardFrom(n, heard)
        /\ \/ Hold(n, heard) \/ Dwell(n, heard) \/ RefuseToForce(n, heard)
           \/ Exhausted(n, heard) \/ StartForcing(n, heard)
  BY DEF Judge
<1>2. trouble' \in 0 .. MaxTrouble
  BY <1>1 DEF HeardFrom, Spend, TypeOK
<1>3. 0 \in 0 .. ForceDwell /\ OneMore(n) \in 0 .. ForceDwell
  BY OneMoreType
<1>4. ASSUME \/ Hold(n, heard) \/ Dwell(n, heard) \/ RefuseToForce(n, heard)
             \/ Exhausted(n, heard)
      PROVE  watch' \in [Node -> WatchSet]
  <2>1. PICK streak \in 0 .. ForceDwell :
          watch' = [watch EXCEPT ![n] = [RoundOver(watch[n]) EXCEPT !.streak = streak]]
    BY <1>3, <1>4 DEF Hold, Dwell, RefuseToForce, Exhausted
  <2>2. [RoundOver(watch[n]) EXCEPT !.streak = streak] \in WatchSet
    BY RestedType
  <2>3. QED BY <2>1, <2>2, WatchUpdate
<1>5. ASSUME StartForcing(n, heard) PROVE watch' \in [Node -> WatchSet]
  <2>1. watch[n] \in WatchSet /\ watch[n].attempts + 1 \in 0 .. MaxAttempts
    BY <1>5 DEF TypeOK, WatchSet, StartForcing
  <2>2. [watch[n] EXCEPT !.pc = "stop", !.streak = OneMore(n),
                         !.attempts = watch[n].attempts + 1] \in WatchSet
    BY <1>3, <2>1 DEF WatchSet
  <2>3. QED BY <1>5, <2>2, WatchUpdate DEF StartForcing
<1>6. watch' \in [Node -> WatchSet]
  BY <1>1, <1>4, <1>5
<1>7. QED BY <1>2, <1>6 DEF TypeOK, Judge, world

LEMMA StopType ==
    ASSUME TypeOK, NEW n \in Node, StopPlugin(n) \/ StopFails(n) PROVE TypeOK'
<1>1. CASE StopPlugin(n)
  <2>1. watch[n] \in WatchSet
    BY DEF TypeOK
  <2>2. [watch[n] EXCEPT !.pc = "reform"] \in WatchSet
    BY <2>1 DEF WatchSet
  <2>3. watch' \in [Node -> WatchSet]
    BY <1>1, <2>2, WatchUpdate DEF StopPlugin
  <2>4. QED BY <1>1, <2>3 DEF TypeOK, StopPlugin
<1>2. CASE StopFails(n)
  <2>1. watch' \in [Node -> WatchSet]
    BY <1>2, ResetType DEF StopFails
  <2>2. trouble' \in 0 .. MaxTrouble
    BY <1>2 DEF StopFails, Spend, TypeOK
  <2>3. QED BY <1>2, <2>1, <2>2 DEF TypeOK, StopFails, world
<1>3. QED BY <1>1, <1>2

LEMMA ReformType ==
    ASSUME TypeOK, NEW n \in Node, Reform(n) \/ ReformFails(n) PROVE TypeOK'
<1>1. CASE Reform(n)
  <2>1. watch' \in [Node -> WatchSet]
    BY <1>1, ResetType DEF Reform
  <2>2. watch[n].fenced \in BOOLEAN
    BY DEF TypeOK, WatchSet
  <2>3. readOnly' \in [Node -> BOOLEAN]
    <3>1. \/ readOnly' = [readOnly EXCEPT ![n] = watch[n].fenced]
          \/ readOnly' = [readOnly EXCEPT ![n] = FALSE]
      BY <1>1 DEF Reform
    <3>2. QED BY <2>2, <3>1 DEF TypeOK
  <2>4. trouble' \in 0 .. MaxTrouble
    BY <1>1 DEF Reform, Spend, TypeOK
  <2>5. view' \in [Node -> SUBSET Node] /\ primary' \in [Node -> BOOLEAN]
    BY <1>1 DEF Reform, TypeOK
  <2>6. QED BY <1>1, <2>1, <2>3, <2>4, <2>5 DEF TypeOK, Reform
<1>2. CASE ReformFails(n)
  <2>1. watch' \in [Node -> WatchSet]
    BY <1>2, UnwatchedType, WatchUpdate DEF ReformFails
  <2>2. trouble' \in 0 .. MaxTrouble
    BY <1>2 DEF ReformFails, Spend, TypeOK
  <2>3. QED BY <1>2, <2>1, <2>2 DEF TypeOK, ReformFails
<1>3. QED BY <1>1, <1>2

LEMMA InstallViewType ==
    ASSUME TypeOK, NEW S \in SUBSET Node, NEW V \in SUBSET Node, NEW from \in SUBSET Node,
           InstallView(S, V, from)
    PROVE  /\ view' \in [Node -> SUBSET Node] /\ txns' \in [Node -> SUBSET (1 .. MaxWrites)]
           /\ primary' \in [Node -> BOOLEAN] /\ readOnly' \in [Node -> BOOLEAN]
<1>1. Flushed(from) \in SUBSET (1 .. MaxWrites)
  BY DEF Flushed, TypeOK
<1>2. view' \in [Node -> SUBSET Node] /\ txns' \in [Node -> SUBSET (1 .. MaxWrites)]
  BY <1>1 DEF InstallView, TypeOK
<1>3. primary' \in [Node -> BOOLEAN] /\ readOnly' \in [Node -> BOOLEAN]
  BY DEF InstallView, TypeOK
<1>4. QED BY <1>2, <1>3

LEMMA ViewType ==
    ASSUME TypeOK, NEW n \in Node,
           Expel(n) \/ NoticeExpulsion(n) \/ CatchUp(n) \/ JoinGroup(n) \/ ColdStart(n)
    PROVE  TypeOK'
<1>1. \A m \in Node : Reachable(m) \in SUBSET Node /\ view[m] \in SUBSET Node
  BY DEF Reachable, TypeOK
<1> DEFINE Moved == /\ view' \in [Node -> SUBSET Node]
                    /\ txns' \in [Node -> SUBSET (1 .. MaxWrites)]
                    /\ primary' \in [Node -> BOOLEAN] /\ readOnly' \in [Node -> BOOLEAN]
<1>2. ASSUME Moved, UNCHANGED <<up, split, highWater, watch, acked, reached, trouble>>
      PROVE  TypeOK'
  BY <1>2 DEF TypeOK
<1>3. CASE Expel(n)
  <2>1. Moved
    <3>1. InstallView(Reachable(n), Reachable(n), Reachable(n))
      BY <1>3 DEF Expel
    <3>2. QED BY <1>1, <3>1, InstallViewType
  <2>2. QED BY <1>2, <1>3, <2>1 DEF Expel
<1>4. CASE CatchUp(n)
  <2>1. PICK m \in view[n] :
          InstallView(Reachable(m) \cup {n}, view[m], Reachable(m) \cup {n})
    BY <1>4 DEF CatchUp
  <2>2. Reachable(m) \cup {n} \in SUBSET Node /\ view[m] \in SUBSET Node
    BY <2>1, <1>1
  <2>3. Moved
    BY <2>1, <2>2, InstallViewType
  <2>4. QED BY <1>2, <1>4, <2>3 DEF CatchUp
<1>5. CASE JoinGroup(n)
  <2>1. PICK p \in Node : InstallView(view[p] \cup {n}, view[p] \cup {n}, view[p])
    BY <1>5 DEF JoinGroup
  <2>2. view[p] \cup {n} \in SUBSET Node /\ view[p] \in SUBSET Node
    BY <1>1
  <2>3. Moved
    BY <2>1, <2>2, InstallViewType
  <2>4. QED BY <1>2, <1>5, <2>3 DEF JoinGroup
<1>6. CASE NoticeExpulsion(n)
  BY <1>6 DEF TypeOK, NoticeExpulsion
<1>7. CASE ColdStart(n)
  BY <1>7 DEF TypeOK, ColdStart
<1>8. QED BY <1>3, <1>4, <1>5, <1>6, <1>7

LEMMA WriteType ==
    ASSUME TypeOK, NEW n \in Node, ClientWrite(n) \/ Deliver(n) PROVE TypeOK'
<1>1. CASE ClientWrite(n)
  <2>1. IsFiniteSet(acked)
    <3>1. IsFiniteSet(1 .. MaxWrites)
      BY FS_Interval
    <3>2. QED BY <3>1, FS_Subset DEF TypeOK
  <2>2. Cardinality(acked) + 1 \in 1 .. MaxWrites
    BY <1>1, <2>1, FS_CardinalityType DEF ClientWrite
  <2>3. acked' \in SUBSET (1 .. MaxWrites)
    BY <1>1, <2>2 DEF ClientWrite, TypeOK
  <2>4. txns' \in [Node -> SUBSET (1 .. MaxWrites)]
    BY <1>1, <2>2 DEF ClientWrite, TypeOK
  <2>5. QED BY <1>1, <2>3, <2>4 DEF TypeOK, ClientWrite, world
<1>2. CASE Deliver(n)
  <2>1. Flushed(Reachable(n)) \in SUBSET (1 .. MaxWrites)
    BY DEF Flushed, Reachable, TypeOK
  <2>2. QED BY <1>2, <2>1 DEF TypeOK, Deliver, world
<1>3. QED BY <1>1, <1>2

LEMMA StoppedType ==
    ASSUME TypeOK, NEW n \in Node, Stopped(n)
    PROVE  up' \in [Node -> BOOLEAN] /\ watch' \in [Node -> WatchSet]
BY UnwatchedType, WatchUpdate DEF Stopped, TypeOK

LEMMA LeaveType ==
    ASSUME TypeOK, NEW n \in Node, Leave(n) \/ Crash(n) PROVE TypeOK'
<1>1. CASE Leave(n)
  <2>1. Reachable(n) \in SUBSET Node /\ view[n] \in SUBSET Node
    BY DEF Reachable, TypeOK
  <2>2. Flushed(Reachable(n)) \in SUBSET (1 .. MaxWrites)
    BY <2>1 DEF Flushed, TypeOK
  <2>3. view' \in [Node -> SUBSET Node] /\ txns' \in [Node -> SUBSET (1 .. MaxWrites)]
    BY <1>1, <2>1, <2>2 DEF Leave, TypeOK
  <2>4. PICK p \in Node : /\ primary' = [primary EXCEPT ![n] = FALSE, ![p] = p # n]
                          /\ readOnly' = [readOnly EXCEPT ![n] = TRUE, ![p] = p = n]
    BY <1>1, <2>1 DEF Leave
  <2>5. primary' \in [Node -> BOOLEAN] /\ readOnly' \in [Node -> BOOLEAN]
    BY <2>4 DEF TypeOK
  <2>6. trouble' \in 0 .. MaxTrouble
    BY <1>1 DEF Leave, Spend, TypeOK
  <2>7. QED BY <1>1, <2>3, <2>5, <2>6, StoppedType DEF TypeOK, Leave, Stopped
<1>2. CASE Crash(n)
  <2>1. trouble' \in 0 .. MaxTrouble
    BY <1>2 DEF Crash, Spend, TypeOK
  <2>2. QED BY <1>2, <2>1, StoppedType DEF TypeOK, Crash, Stopped
<1>3. QED BY <1>1, <1>2

LEMMA PlatformType ==
    ASSUME TypeOK, (\E n \in Node : Boot(n) \/ Tear(n)) \/ Split \/ Heal
    PROVE  TypeOK'
<1>1. ASSUME NEW n \in Node, Boot(n) PROVE TypeOK'
  BY <1>1 DEF TypeOK, Boot
<1>2. ASSUME NEW n \in Node, Tear(n) PROVE TypeOK'
  BY <1>2, CardinalityOfSeeds DEF TypeOK, Tear, Spend, Unreadable, world
<1>3. CASE Split
  BY <1>3 DEF TypeOK, Split, Spend
<1>4. CASE Heal
  BY <1>4 DEF TypeOK, Heal
<1>5. QED BY <1>1, <1>2, <1>3, <1>4

LEMMA TickType == ASSUME TypeOK, Tick PROVE TypeOK'
<1>1. ASSUME NEW n \in Node
      PROVE  [watch[n] EXCEPT !.gone = [s \in Node |-> Older(watch[n].gone[s])]] \in WatchSet
  <2>1. watch[n] \in WatchSet
    BY DEF TypeOK
  <2>2. [s \in Node |-> Older(watch[n].gone[s])] \in [Node -> NoClock .. GoneDwell]
    BY <2>1 DEF WatchSet, Older, NoClock
  <2>3. QED BY <2>1, <2>2 DEF WatchSet
<1>2. watch' \in [Node -> WatchSet]
  BY <1>1 DEF Tick
<1>3. QED BY <1>2 DEF TypeOK, Tick, world

LEMMA NextType == ASSUME TypeOK, Next PROVE TypeOK'
<1>1. ASSUME NEW n \in Node, Watch(n) PROVE TypeOK'
  BY <1>1, StartWatchType, LookType, LookAwayType, FenceType, JudgeType, StopType,
     ReformType DEF Watch
<1>2. ASSUME NEW n \in Node, GroupReplication(n) PROVE TypeOK'
  BY <1>2, ViewType, WriteType DEF GroupReplication
<1>3. ASSUME NEW n \in Node, Platform(n) PROVE TypeOK'
  BY <1>3, LeaveType, PlatformType DEF Platform
<1>4. QED BY <1>1, <1>2, <1>3, PlatformType, TickType DEF Next

(* Every variable of MajorityWatch keeps its type: for any number of seeds,
   dwells and troubles no streak, attempt or gone-clock leaves its range. *)
THEOREM WatchTypeCorrect == Spec => []TypeOK
<1>1. TypeOK /\ [Next]_vars => TypeOK'
  <2>1. ASSUME TypeOK, UNCHANGED vars PROVE TypeOK'
    BY <2>1 DEF TypeOK, vars, world
  <2>2. QED BY <2>1, NextType
<1>2. QED BY <1>1, InitTypeOK, PTL DEF Spec

-----------------------------------------------------------------------------
(* The membership fence, for markers that are written and stay readable: with
   one torn or never written a restart can disarm the fence. *)

MarkersKept == "marker_torn" \notin Troubles /\ "marker_unwritten" \notin Troubles

MarkerInv == MarkerRemembers /\ \A n \in Node : highWater[n] \in 0 .. Configured

(* A step that leaves the marker and the history alone, and of each watch
   its peak, its torn flag and whether it runs, or ends the watch. *)
KeepsMarks ==
    /\ highWater' = highWater /\ reached' = reached
    /\ \A n \in Node : \/ /\ watch'[n].torn = watch[n].torn
                          /\ watch'[n].peak = watch[n].peak
                          /\ watch'[n].pc = "off" <=> watch[n].pc = "off"
                       \/ watch'[n] = Unwatched

LEMMA KeepsMarksKeeps == ASSUME MarkerInv, KeepsMarks PROVE MarkerInv'
<1>1. ASSUME NEW n \in Node
      PROVE  /\ ~ watch'[n].torn
             /\ watch'[n].pc # "off" => watch'[n].peak = highWater'[n]
             /\ reached'[n] => 2 * highWater'[n] > Configured
  <2>1. CASE watch'[n] = Unwatched
    BY <2>1 DEF MarkerInv, MarkerRemembers, KeepsMarks, Unwatched, At
  <2>2. CASE /\ watch'[n].torn = watch[n].torn
             /\ watch'[n].peak = watch[n].peak
             /\ watch'[n].pc = "off" <=> watch[n].pc = "off"
    BY <2>2 DEF MarkerInv, MarkerRemembers, KeepsMarks, At
  <2>3. QED BY <2>1, <2>2 DEF KeepsMarks
<1>2. \A n \in Node : highWater'[n] \in 0 .. Configured
  BY DEF MarkerInv, KeepsMarks
<1>3. QED BY <1>1, <1>2 DEF MarkerInv, MarkerRemembers, At

LEMMA StartWatchMarks ==
    ASSUME TypeOK, MarkerInv, NEW n \in Node, StartWatch(n) PROVE MarkerInv'
<1>1. highWater[n] # Unreadable
  BY CardinalityOfSeeds DEF MarkerInv, Unreadable
<1>2. Watching(highWater[n]) = [Unwatched EXCEPT !.pc = "look", !.torn = FALSE,
                                                 !.peak = highWater[n]]
  BY <1>1 DEF Watching
<1>3. /\ ~ Watching(highWater[n]).torn
      /\ Watching(highWater[n]).peak = highWater[n]
  BY <1>2 DEF Unwatched
<1>4. watch' = [watch EXCEPT ![n] = Watching(highWater[n])]
  BY DEF StartWatch
<1>5. watch'[n] = Watching(highWater[n]) /\ \A m \in Node \ {n} : watch'[m] = watch[m]
  BY <1>4 DEF TypeOK
<1>6. highWater' = highWater /\ reached' = reached
  BY DEF StartWatch
<1>7. QED BY <1>3, <1>5, <1>6 DEF MarkerInv, MarkerRemembers, At

LEMMA LookMarks ==
    ASSUME MarkersKept, TypeOK, MarkerInv, NEW n \in Node, Look(n) PROVE MarkerInv'
<1>1. watch'[n] = Seen(n) /\ \A m \in Node \ {n} : watch'[m] = watch[m]
  BY DEF TypeOK, Look
<1>2. highWater' = [highWater EXCEPT ![n] = IF Higher(n) THEN Count(n) ELSE highWater[n]]
  BY DEF Look, MarkersKept, Spend
<1>3. reached' = [reached EXCEPT ![n] = reached[n] \/ 2 * Count(n) > Configured]
  BY DEF Look
<1>4. watch[n].peak = highWater[n]
  BY DEF MarkerInv, MarkerRemembers, Look, At
<1>5. /\ watch'[n].torn = watch[n].torn
      /\ watch'[n].peak = IF Higher(n) THEN Count(n) ELSE watch[n].peak
  BY <1>1 DEF Seen, TypeOK, WatchSet
<1>6. highWater'[n] \in 0 .. Configured /\ highWater'[n] = watch'[n].peak
  BY <1>2, <1>4, <1>5, CountType DEF MarkerInv, TypeOK
<1>7. reached'[n] => 2 * highWater'[n] > Configured
  <2>1. highWater'[n] >= highWater[n] /\ highWater'[n] >= Count(n)
    BY <1>2, <1>4, CountType, CardinalityOfSeeds DEF MarkerInv, Higher, TypeOK
  <2>2. reached'[n] => reached[n] \/ 2 * Count(n) > Configured
    BY <1>3 DEF TypeOK
  <2>3. reached[n] => 2 * highWater[n] > Configured
    BY DEF MarkerInv, MarkerRemembers
  <2>4. Count(n) \in Nat /\ highWater[n] \in Nat /\ highWater'[n] \in Nat /\ Configured \in Nat
    BY <1>6, CountType, CardinalityOfSeeds DEF MarkerInv
  <2>5. QED BY <2>1, <2>2, <2>3, <2>4
<1>8. \A m \in Node \ {n} : highWater'[m] = highWater[m] /\ reached'[m] = reached[m]
  BY <1>2, <1>3 DEF TypeOK
<1>9. QED BY <1>1, <1>5, <1>6, <1>7, <1>8 DEF MarkerInv, MarkerRemembers, At

LEMMA OneWatchKeeps ==
    ASSUME TypeOK, NEW n \in Node, NEW w, watch' = [watch EXCEPT ![n] = w],
           highWater' = highWater, reached' = reached,
           \/ w = Unwatched
           \/ /\ w.torn = watch[n].torn /\ w.peak = watch[n].peak
              /\ w.pc # "off" /\ watch[n].pc # "off"
    PROVE  KeepsMarks
<1>1. watch'[n] = w /\ \A m \in Node \ {n} : watch'[m] = watch[m]
  BY DEF TypeOK
<1>2. QED BY <1>1 DEF KeepsMarks

LEMMA FencedKeeps ==
    ASSUME TypeOK, NEW n \in Node, NEW raised \in BOOLEAN
    PROVE  /\ Fenced(n, raised).torn = watch[n].torn
           /\ Fenced(n, raised).peak = watch[n].peak
           /\ Fenced(n, raised).pc # "off" /\ Fenced(n, raised).pc # "fence"
           /\ Fenced(n, raised).fenced = raised
<1> DEFINE w == [watch[n] EXCEPT !.gone = Probed(n), !.fenced = raised]
<1>1. watch[n] \in WatchSet
  BY DEF TypeOK
<1>2. /\ w.torn = watch[n].torn /\ w.peak = watch[n].peak /\ w.fenced = raised
      /\ w \in WatchSet
  BY <1>1, ProbedType DEF WatchSet
<1> HIDE DEF w
<1>3. /\ [RoundOver(w) EXCEPT !.streak = 0].torn = w.torn
      /\ [RoundOver(w) EXCEPT !.streak = 0].peak = w.peak
      /\ [RoundOver(w) EXCEPT !.streak = 0].fenced = w.fenced
      /\ [RoundOver(w) EXCEPT !.streak = 0].pc = "look"
  BY <1>2 DEF RoundOver, WatchSet
<1>4. /\ [w EXCEPT !.pc = "judge"].torn = w.torn
      /\ [w EXCEPT !.pc = "judge"].peak = w.peak
      /\ [w EXCEPT !.pc = "judge"].fenced = w.fenced
      /\ [w EXCEPT !.pc = "judge"].pc = "judge"
  BY <1>2 DEF WatchSet
<1>5. \/ Fenced(n, raised) = [RoundOver(w) EXCEPT !.streak = 0]
      \/ Fenced(n, raised) = [w EXCEPT !.pc = "judge"]
  BY DEF Fenced, w
<1>6. QED BY <1>2, <1>3, <1>4, <1>5

LEMMA RestedKeeps ==
    ASSUME TypeOK, NEW n \in Node, NEW streak
    PROVE  /\ [RoundOver(watch[n]) EXCEPT !.streak = streak].torn = watch[n].torn
           /\ [RoundOver(watch[n]) EXCEPT !.streak = streak].peak = watch[n].peak
           /\ [RoundOver(watch[n]) EXCEPT !.streak = streak].pc = "look"
<1>1. watch[n] \in WatchSet
  BY DEF TypeOK
<1>2. QED BY <1>1 DEF RoundOver, WatchSet

LEMMA RoundMarks ==
    ASSUME TypeOK, NEW n \in Node,
           \/ LookAway(n) \/ RaiseFence(n) \/ LiftFence(n) \/ LiftFenceFails(n)
           \/ Judge(n) \/ StopPlugin(n) \/ StopFails(n) \/ Reform(n) \/ ReformFails(n)
    PROVE  KeepsMarks
<1> DEFINE rested(streak) == [RoundOver(watch[n]) EXCEPT !.streak = streak]
<1>1. watch[n] \in WatchSet
  BY DEF TypeOK
<1>2. highWater' = highWater /\ reached' = reached
  BY DEF LookAway, RaiseFence, LiftFence, LiftFenceFails, Judge, StopPlugin, StopFails,
         Reform, ReformFails
<1>3. CASE LookAway(n)
  <2>1. watch' = [watch EXCEPT ![n] = [watch[n] EXCEPT !.streak = 0]]
    BY <1>3 DEF LookAway
  <2>2. /\ [watch[n] EXCEPT !.streak = 0].torn = watch[n].torn
        /\ [watch[n] EXCEPT !.streak = 0].peak = watch[n].peak
        /\ [watch[n] EXCEPT !.streak = 0].pc = "look" /\ watch[n].pc = "look"
    BY <1>1, <1>3 DEF LookAway, At, WatchSet
  <2>3. QED BY <1>2, <2>1, <2>2, OneWatchKeeps
<1>4. CASE RaiseFence(n) \/ LiftFence(n)
  <2>1. PICK raised \in BOOLEAN : watch' = [watch EXCEPT ![n] = Fenced(n, raised)]
    BY <1>4 DEF RaiseFence, LiftFence
  <2>2. watch[n].pc # "off"
    BY <1>4 DEF RaiseFence, LiftFence, At
  <2>3. QED BY <1>2, <2>1, <2>2, FencedKeeps, OneWatchKeeps
<1>5. CASE LiftFenceFails(n)
  <2>1. watch' = [watch EXCEPT ![n] = [RoundOver(watch[n]) EXCEPT !.gone = Probed(n)]]
    BY <1>5 DEF LiftFenceFails
  <2>2. /\ [RoundOver(watch[n]) EXCEPT !.gone = Probed(n)].torn = watch[n].torn
        /\ [RoundOver(watch[n]) EXCEPT !.gone = Probed(n)].peak = watch[n].peak
        /\ [RoundOver(watch[n]) EXCEPT !.gone = Probed(n)].pc = "look"
    BY <1>1 DEF RoundOver, WatchSet
  <2>3. watch[n].pc # "off"
    BY <1>5 DEF LiftFenceFails, At
  <2>4. QED BY <1>2, <2>1, <2>2, <2>3, OneWatchKeeps
<1>6. CASE Judge(n)
  <2>1. PICK heard \in SUBSET watch[n].lost :
          \/ Hold(n, heard) \/ Dwell(n, heard) \/ RefuseToForce(n, heard)
          \/ Exhausted(n, heard) \/ StartForcing(n, heard)
    BY <1>6 DEF Judge
  <2>2. watch[n].pc # "off"
    BY <1>6 DEF Judge, At
  <2>3. CASE \/ Hold(n, heard) \/ Dwell(n, heard) \/ RefuseToForce(n, heard)
             \/ Exhausted(n, heard)
    <3>1. watch' = [watch EXCEPT ![n] = rested(0)]
          \/ watch' = [watch EXCEPT ![n] = rested(OneMore(n))]
      BY <2>3 DEF Hold, Dwell, RefuseToForce, Exhausted
    <3>2. \A streak : /\ rested(streak).torn = watch[n].torn
                      /\ rested(streak).peak = watch[n].peak
                      /\ rested(streak).pc # "off"
      BY RestedKeeps
    <3> HIDE DEF rested
    <3>3. QED BY <1>2, <2>2, <3>1, <3>2, OneWatchKeeps
  <2>4. CASE StartForcing(n, heard)
    <3> DEFINE w == [watch[n] EXCEPT !.pc = "stop", !.streak = OneMore(n),
                                     !.attempts = watch[n].attempts + 1]
    <3>1. watch' = [watch EXCEPT ![n] = w]
      BY <2>4 DEF StartForcing
    <3>2. w.torn = watch[n].torn /\ w.peak = watch[n].peak /\ w.pc = "stop"
      BY <1>1 DEF WatchSet
    <3> HIDE DEF w
    <3>3. QED BY <1>2, <2>2, <3>1, <3>2, OneWatchKeeps
  <2>5. QED BY <2>1, <2>3, <2>4
<1>7. CASE StopPlugin(n)
  <2>1. watch' = [watch EXCEPT ![n] = [watch[n] EXCEPT !.pc = "reform"]]
    BY <1>7 DEF StopPlugin
  <2>2. /\ [watch[n] EXCEPT !.pc = "reform"].torn = watch[n].torn
        /\ [watch[n] EXCEPT !.pc = "reform"].peak = watch[n].peak
        /\ [watch[n] EXCEPT !.pc = "reform"].pc = "reform" /\ watch[n].pc # "off"
    BY <1>1, <1>7 DEF StopPlugin, At, WatchSet
  <2>3. QED BY <1>2, <2>1, <2>2, OneWatchKeeps
<1>8. CASE StopFails(n) \/ Reform(n)
  <2>1. watch' = [watch EXCEPT ![n] = [RoundOver(watch[n]) EXCEPT !.streak = 0]]
    BY <1>8 DEF StopFails, Reform
  <2>2. watch[n].pc # "off"
    BY <1>8 DEF StopFails, Reform, At
  <2>3. QED BY <1>2, <2>1, <2>2, RestedKeeps, OneWatchKeeps
<1>9. CASE ReformFails(n)
  BY <1>2, <1>9, OneWatchKeeps DEF ReformFails
<1>10. QED BY <1>3, <1>4, <1>5, <1>6, <1>7, <1>8, <1>9

LEMMA WorldMarks ==
    ASSUME TypeOK, NEW n \in Node,
           \/ Expel(n) \/ NoticeExpulsion(n) \/ CatchUp(n) \/ JoinGroup(n)
           \/ ColdStart(n) \/ ClientWrite(n) \/ Deliver(n) \/ Boot(n) \/ Split \/ Heal
    PROVE  KeepsMarks /\ watch' = watch
<1>1. watch' = watch /\ highWater' = highWater /\ reached' = reached
  BY DEF Expel, NoticeExpulsion, CatchUp, JoinGroup, ColdStart, ClientWrite, Deliver,
         Boot, Split, Heal
<1>2. QED BY <1>1 DEF KeepsMarks

LEMMA EndMarks ==
    ASSUME TypeOK, NEW n \in Node, Leave(n) \/ Crash(n)
    PROVE  /\ KeepsMarks
           /\ ~ up'[n] /\ \A m \in Node \ {n} : watch'[m] = watch[m]
<1>1. Stopped(n)
  BY DEF Leave, Crash
<1>2. watch' = [watch EXCEPT ![n] = Unwatched] /\ highWater' = highWater /\ reached' = reached
  BY <1>1 DEF Stopped
<1>3. KeepsMarks
  BY <1>2, OneWatchKeeps
<1>4. ~ up'[n]
  BY <1>1 DEF Stopped, TypeOK
<1>5. QED BY <1>2, <1>3, <1>4 DEF TypeOK

LEMMA TickMarks ==
    ASSUME TypeOK, Tick
    PROVE  KeepsMarks /\ \A n \in Node : watch[n].pc # "fence"
<1>1. highWater' = highWater /\ reached' = reached
  BY DEF Tick
<1>2. ASSUME NEW n \in Node
      PROVE  /\ watch'[n].torn = watch[n].torn
             /\ watch'[n].peak = watch[n].peak
             /\ watch'[n].pc = watch[n].pc
  <2>1. watch[n] \in WatchSet
    BY DEF TypeOK
  <2>2. watch'[n] = [watch[n] EXCEPT !.gone = [s \in Node |-> Older(watch[n].gone[s])]]
    BY DEF Tick
  <2>3. QED BY <2>1, <2>2 DEF WatchSet
<1>3. QED BY <1>1, <1>2 DEF KeepsMarks, Tick, At

LEMMA NextMarks ==
    ASSUME MarkersKept, TypeOK, MarkerInv, Next PROVE MarkerInv'
<1>1. ASSUME NEW n \in Node, Watch(n) PROVE MarkerInv'
  BY <1>1, StartWatchMarks, LookMarks, RoundMarks, KeepsMarksKeeps DEF Watch
<1>2. ASSUME NEW n \in Node, GroupReplication(n) \/ Platform(n) PROVE MarkerInv'
  <2>1. ~ Tear(n)
    BY DEF MarkersKept, Tear, Spend
  <2>2. QED BY <1>2, <2>1, WorldMarks, EndMarks, KeepsMarksKeeps DEF GroupReplication, Platform
<1>3. ASSUME Split \/ Heal PROVE MarkerInv'
  <2>1. watch' = watch /\ highWater' = highWater /\ reached' = reached
    BY <1>3 DEF Split, Heal
  <2>2. QED BY <2>1, KeepsMarksKeeps DEF KeepsMarks
<1>4. ASSUME Tick PROVE MarkerInv'
  BY <1>4, TickMarks, KeepsMarksKeeps
<1>5. QED BY <1>1, <1>2, <1>3, <1>4 DEF Next

LEMMA InitMarks == Init => MarkerInv
<1>1. Configured \in Nat
  BY CardinalityOfSeeds
<1>2. QED BY <1>1 DEF Init, MarkerInv, MarkerRemembers, Unwatched, At

(* The high-water marker (persist_membership_high_water) and the watch never
   disagree, and a volume whose group has reached a declared majority always
   says so, through every crash and restart. *)
THEOREM MarkersRemembered ==
    ASSUME MarkersKept PROVE Spec => []MarkerRemembers
<1>1. TypeOK /\ MarkerInv /\ [Next]_vars => MarkerInv'
  <2>1. ASSUME MarkerInv, UNCHANGED vars PROVE MarkerInv'
    BY <2>1 DEF MarkerInv, MarkerRemembers, At, vars, world
  <2>2. QED BY <2>1, NextMarks
<1>2. MarkerInv => MarkerRemembers
  BY DEF MarkerInv
<1>3. QED BY <1>1, <1>2, InitMarks, WatchTypeCorrect, PTL DEF Spec

(* Only a lift leaves the fence step without the fence. *)
LEMMA OnlyLiftPasses ==
    ASSUME MarkersKept, TypeOK, Next, NEW n \in Node, FencePassed(n)
    PROVE  LiftFence(n)
<1>1. /\ watch[n].pc = "fence" /\ up'[n] /\ watch'[n] # watch[n]
      /\ watch'[n].pc # "fence" /\ ~ watch'[n].fenced
  BY DEF FencePassed, At
<1>2. ASSUME NEW m \in Node, Watch(m) PROVE LiftFence(n)
  <2>1. m = n
    BY <1>1, <1>2 DEF TypeOK, Watch, StartWatch, Look, LookAway, RaiseFence, LiftFence,
                      LiftFenceFails, Judge, Hold, Dwell, RefuseToForce, Exhausted,
                      StartForcing, StopPlugin, StopFails, Reform, ReformFails
  <2>2. RaiseFence(n) \/ LiftFence(n) \/ LiftFenceFails(n)
    BY <1>1, <1>2, <2>1 DEF Watch, StartWatch, Look, LookAway, Judge, StopPlugin,
                            StopFails, Reform, ReformFails, At
  <2>3. ~ RaiseFence(n)
    <3>1. ASSUME RaiseFence(n) PROVE watch'[n] = Fenced(n, TRUE)
      BY <3>1 DEF RaiseFence, TypeOK
    <3>2. QED BY <1>1, <3>1, FencedKeeps
  <2>4. ~ LiftFenceFails(n)
    <3>1. ASSUME LiftFenceFails(n)
          PROVE  /\ watch[n].fenced
                 /\ watch'[n] = [RoundOver(watch[n]) EXCEPT !.gone = Probed(n)]
      BY <3>1 DEF LiftFenceFails, TypeOK
    <3>2. watch[n] \in WatchSet
      BY DEF TypeOK
    <3>3. [RoundOver(watch[n]) EXCEPT !.gone = Probed(n)].fenced = watch[n].fenced
      BY <3>2 DEF RoundOver, WatchSet
    <3>4. QED BY <1>1, <3>1, <3>3
  <2>5. QED BY <2>2, <2>3, <2>4
<1>3. ASSUME NEW m \in Node, GroupReplication(m) \/ Platform(m) PROVE FALSE
  <2>1. ~ Tear(m)
    BY DEF MarkersKept, Tear, Spend
  <2>2. QED BY <1>1, <1>3, <2>1, WorldMarks, EndMarks DEF GroupReplication, Platform
<1>4. ~ Split /\ ~ Heal
  BY <1>1 DEF Split, Heal
<1>5. ~ Tick
  BY <1>1, TickMarks
<1>6. QED BY <1>2, <1>3, <1>4, <1>5 DEF Next

(* A lift by an armed watch counts more than half of the seeds that are
   ONLINE or running. *)
LEMMA LiftCounts ==
    ASSUME TypeOK, NEW n \in Node, Armed(n), ~ WantFence(n)
    PROVE  2 * Cardinality(watch[n].online) >
               Cardinality({s \in Node : s \in watch[n].online \/ up[s]})
<1> DEFINE S == {s \in Node : s \in watch[n].online \/ up[s]}
<1> DEFINE k == Cardinality(watch[n].online)
<1>1. watch[n].online \in SUBSET Node
  BY DEF TypeOK, WatchSet
<1>2. k \in Nat /\ Configured \in Nat /\ Cardinality(S) \in Nat /\ Cardinality(S) <= Configured
  BY <1>1, CardinalityOfSeeds
<1>3. CASE ~ Low(n)
  <2>1. 2 * k > Configured
    BY <1>2, <1>3 DEF Low
  <2>2. QED BY <1>2, <2>1
<1>4. CASE Low(n)
  <2>1. Waived(n) \in SUBSET Node /\ Waived(n) \cap S = {}
    BY <1>4 DEF Waived, Probed, NoClock
  <2>2. Cardinality(Node \ Waived(n)) = Effective(n)
    <3>1. IsFiniteSet(Node) /\ IsFiniteSet(Waived(n))
      BY <2>1, CardinalityOfSeeds
    <3>2. Cardinality(Node \ Waived(n)) = Cardinality(Node) - Cardinality(Node \cap Waived(n))
      BY <3>1, FS_Difference
    <3>3. Node \cap Waived(n) = Waived(n)
      BY <2>1
    <3>4. QED BY <3>2, <3>3 DEF Effective, Configured
  <2>3. Cardinality(S) <= Cardinality(Node \ Waived(n))
    <3>1. S \subseteq Node \ Waived(n) /\ IsFiniteSet(Node \ Waived(n))
      BY <2>1, CardinalityOfSeeds
    <3>2. QED BY <3>1, FS_Subset
  <2>4. Effective(n) \in Int
    BY <1>2, <2>1, CardinalityOfSeeds DEF Effective
  <2>5. 2 * k > IF Effective(n) > 1 THEN Effective(n) ELSE 1
    BY <1>2, <1>4, <2>4 DEF WantFence
  <2>6. QED BY <1>2, <2>2, <2>3, <2>4, <2>5
<1>5. QED BY <1>3, <1>4

(* Issue #33: whatever crashes, restarts, partitions and failed statements
   come between, a volume that has seen its declared majority opens writes
   only on more than half of the seeds that are ONLINE or running. *)
THEOREM FenceHolds ==
    ASSUME MarkersKept PROVE Spec => LiftJustified
<1> DEFINE Justified ==
        \A n \in Node : FencePassed(n) =>
            2 * Cardinality(watch[n].online) >
                Cardinality({s \in Node : s \in watch[n].online \/ up[s]})
<1>1. TypeOK /\ MarkerRemembers /\ [Next]_vars => [Justified]_vars
  <2>1. ASSUME TypeOK, MarkerRemembers, Next, NEW n \in Node, FencePassed(n)
        PROVE  2 * Cardinality(watch[n].online) >
                   Cardinality({s \in Node : s \in watch[n].online \/ up[s]})
    <3>1. ~ WantFence(n)
      BY <2>1, OnlyLiftPasses DEF LiftFence
    <3>2. Armed(n)
      BY <2>1 DEF MarkerRemembers, FencePassed, Armed, At
    <3>3. QED BY <2>1, <3>1, <3>2, LiftCounts
  <2>2. QED BY <2>1
<1>2. QED BY <1>1, WatchTypeCorrect, MarkersRemembered, PTL DEF Spec, LiftJustified
=============================================================================

------------------------ MODULE NodeBootRecordProofs ------------------------
(***************************************************************************)
(* Theorems about what the records on NodeBoot's volume say of what was    *)
(* done to it: the restore marker, the boot-attempt marker, the versions.  *)
(***************************************************************************)
EXTENDS NodeBootProofs

USE NodeBootAssumption

-----------------------------------------------------------------------------
(* One container acts at a time: while no overlap is on record, the others *)
(* are off or wait for the lock.                                           *)

Idle(c) == box[c].pc \in {"off", "waiting"}

\* The steps of a container past the lock.
Acts(c) ==
    /\ Inside(c)
    /\ \/ Refuse(c) \/ ResetRestore(c) \/ Proceed(c) \/ CountBoot(c) \/ Heal(c)
       \/ BeginRestore(c) \/ MarkRestore(c) \/ LoadFull(c) \/ ReplayAndStop(c)
       \/ CompleteRestore(c) \/ RestoreEnds(c) \/ RestoreEndsUnmarked(c)
       \/ BeginPass(c) \/ EndPass(c) \/ Spawn(c) \/ InitDone(c) \/ Answer(c)
       \/ BootFails(c) \/ OverBudget(c) \/ LandLedger(c) \/ Ready(c) \/ RecordServed(c)
       \/ JoinClone(c) \/ StuckHeal(c) \/ CloneLands(c) \/ CloneEnds(c) \/ HandBack(c)
       \/ HealthyHour(c)
       \/ Kill(c) \/ Stop(c)

\* The steps at the lock: they leave the volume's records alone.
AtLock(c) == Start(c) \/ Acquire(c) \/ GiveUpWaiting(c) \/ (Idle(c) /\ Kill(c))

LEMMA OwnBox ==
    ASSUME TypeOK, NEW c \in Box, Acts(c)
    PROVE  \A d \in Box \ {c} : box'[d] = box[d]
<1> USE TypeParts
<1>1. CASE Refuse(c)
  BY <1>1 DEF Refuse, Ends
<1>2. CASE ResetRestore(c)
  BY <1>2 DEF ResetRestore, Moves
<1>3. CASE Proceed(c)
  BY <1>3 DEF Proceed, Moves
<1>4. CASE CountBoot(c)
  BY <1>4 DEF CountBoot
<1>5. CASE Heal(c)
  BY <1>5 DEF Heal
<1>6. CASE BeginRestore(c)
  BY <1>6 DEF BeginRestore
<1>7. CASE MarkRestore(c)
  BY <1>7 DEF MarkRestore, Moves
<1>8. CASE LoadFull(c)
  BY <1>8 DEF LoadFull
<1>9. CASE ReplayAndStop(c)
  BY <1>9 DEF ReplayAndStop, Moves
<1>10. CASE CompleteRestore(c)
  BY <1>10 DEF CompleteRestore, Moves
<1>11. CASE RestoreEnds(c)
  BY <1>11 DEF RestoreEnds
<1>12. CASE RestoreEndsUnmarked(c)
  BY <1>12 DEF RestoreEndsUnmarked, Ends
<1>13. CASE BeginPass(c)
  BY <1>13 DEF BeginPass, Moves
<1>14. CASE EndPass(c)
  BY <1>14 DEF EndPass, Moves
<1>15. CASE Spawn(c)
  BY <1>15 DEF Spawn
<1>16. CASE InitDone(c)
  BY <1>16 DEF InitDone
<1>17. CASE Answer(c)
  BY <1>17 DEF Answer, Moves
<1>18. CASE BootFails(c)
  BY <1>18 DEF BootFails, Ends
<1>19. CASE OverBudget(c)
  BY <1>19 DEF OverBudget, Ends
<1>20. CASE LandLedger(c)
  BY <1>20 DEF LandLedger
<1>21. CASE Ready(c)
  BY <1>21 DEF Ready
<1>22. CASE RecordServed(c)
  BY <1>22 DEF RecordServed
<1>23. CASE JoinClone(c)
  BY <1>23 DEF JoinClone, Moves
<1>24. CASE StuckHeal(c)
  BY <1>24 DEF StuckHeal
<1>25. CASE CloneLands(c)
  BY <1>25 DEF CloneLands, Moves
<1>26. CASE HandBack(c)
  BY <1>26 DEF HandBack
<1>27. CASE HealthyHour(c)
  BY <1>27 DEF HealthyHour
<1>28. CASE Kill(c)
  BY <1>28 DEF Kill, Ends
<1>29. CASE Stop(c)
  BY <1>29 DEF Stop, Ends
<1>30. CASE CloneEnds(c)
  BY <1>30 DEF CloneEnds
<1>31. QED
  BY <1>1, <1>2, <1>3, <1>4, <1>5, <1>6, <1>7, <1>8, <1>9, <1>10, <1>11, <1>12, <1>13, <1>14,
     <1>15, <1>16, <1>17, <1>18, <1>19, <1>20, <1>21, <1>22, <1>23, <1>24, <1>25, <1>26, <1>27,
     <1>28, <1>29, <1>30 DEF Acts

LEMMA OthersIdle ==
    ASSUME BudgetInv, ~ past.overlap, NEW c \in Box, Inside(c)
    PROVE  \A d \in Box \ {c} : Idle(d)
BY DEF BudgetInv, Inside, Idle

LEMMA OverlapStays == ASSUME TypeOK, [Next]_vars, past.overlap PROVE past'.overlap
<1>1. ASSUME NEW c \in Box, QuietBoot(c) PROVE past'.overlap
  BY <1>1, QuietKeepsLock DEF KeepsLock
<1>2. ASSUME NEW c \in Box, Start(c) \/ Acquire(c) \/ Heal(c) \/ CloneLands(c)
      PROVE  past'.overlap
  BY <1>2, TypeParts DEF Start, Acquire, Heal, CloneLands, PastSet
<1>3. CASE Wedge \/ Decay \/ Surroundings \/ BackoffOver
  BY <1>3, AroundKeepsLock DEF KeepsLock
<1>4. CASE UNCHANGED vars
  BY <1>4 DEF vars
<1>5. QED BY <1>1, <1>2, <1>3, <1>4 DEF Next, Boots, QuietBoot

\* Every step is one container's past the lock, one at the lock, or the surroundings'.
LEMMA StepSplit ==
    ASSUME [Next]_vars
    PROVE  \/ \E c \in Box : Acts(c) \/ AtLock(c)
           \/ Wedge \/ Decay \/ Surroundings \/ BackoffOver \/ UNCHANGED vars
<1>1. ASSUME NEW c \in Box, Boots(c) PROVE Acts(c) \/ AtLock(c)
  BY <1>1 DEF Boots, Acts, AtLock, Inside, Refuse, ResetRestore, Proceed, CountBoot, Heal,
     BeginRestore, MarkRestore, LoadFull, ReplayAndStop, CompleteRestore, RestoreEnds,
     RestoreEndsUnmarked, BeginPass, EndPass, Booted, Spawn, InitDone, Answer, BootFails,
     OverBudget, LandLedger, Ready, RecordServed, Answered, JoinClone, StuckHeal, Stuck,
     CloneLands, CloneEnds, HandBack, HealthyHour
<1>2. ASSUME NEW c \in Box, Kill(c) \/ Stop(c) PROVE Acts(c) \/ AtLock(c)
  BY <1>2 DEF Acts, AtLock, Inside, Idle, Kill, Stop
<1>3. QED BY <1>1, <1>2 DEF Next

-----------------------------------------------------------------------------
(* What the records say. *)

Serving == {"pass", "passed", "booting", "up", "cloning", "cloned"}
Unfinished == marker.status \in {"in_progress", "refused", "failed"}
Open(c) == box[c].counted /\ ~ box[c].ready

\* The restore marker and the data directory.
MarkedVolume ==
    /\ data = "partial" => Crashed
    /\ marker.status = "none" => marker.tries = 0
    /\ marker.status = "completed" => Initialised
    /\ marker.tries <= MaxRestores
    /\ Unfinished \/ ~ Initialised => version.served = 0

MarkedBox(c) ==
    /\ box[c].pc \in {"restoring", "loading"} => data \in {"debris", "partial"}
    /\ box[c].pc = "restoring" => data = "debris"
    /\ box[c].pc = "loading" => Crashed /\ version.served = 0
    /\ box[c].pc = "restored" => data = "whole"
    /\ box[c].pc \in Restoring => box[c].try <= MaxRestores
    /\ box[c].pc \in Serving => data # "partial" /\ ~ Unfinished
    /\ box[c].pc \in {"up", "cloning", "cloned"} => Initialised
    /\ box[c].pc = "clear" => /\ data # "partial"
                              /\ Initialised \/ marker.tries < MaxRestores
                              /\ Unfinished => box[c].mode = "fork" /\ ~ Initialised

\* The versions: served is never ahead of the server step, nor that of the dictionary.
VersionedVolume ==
    /\ version.served <= version.stepped /\ version.stepped <= version.opened
    /\ version.by => version.stepped = version.opened

VersionedBox(c) ==
    LET done == version.opened = box[c].image /\ version.stepped = box[c].image
    IN  /\ box[c].pc \in {"up", "cloning"} => done
        /\ box[c].pc = "booting" /\ box[c].init => data = "debris" \/ done

\* The counts: at most the boot under way is ahead of them.
Counted(c) ==
    /\ past.restores <= marker.tries
    /\ attempts <= past.failed + (IF Open(c) THEN 1 ELSE 0)

CountedVolume ==
    /\ env.kind # "fork" => past.restores <= 0
    /\ (\A c \in Box : ~ Inside(c)) => past.restores <= marker.tries /\ attempts <= past.failed

CountedBox(c) ==
    /\ Inside(c) => Counted(c)
    /\ box[c].counted => box[c].mode = "ha" /\ box[c].pc \notin {"off", "waiting", "locked"}
    /\ box[c].pc = "restoring" => past.restores < box[c].try
    /\ box[c].pc \in {"loading", "restored"} => past.restores <= box[c].try

OfVolume == MarkedVolume /\ VersionedVolume /\ CountedVolume
OfBox(c) == MarkedBox(c) /\ VersionedBox(c) /\ CountedBox(c)

RecordInv == ~ past.overlap => OfVolume /\ \A c \in Box : OfBox(c)

LEMMA IdleBox ==
    ASSUME NEW c \in Box, Idle(c), ~ box[c].counted PROVE OfBox(c)
BY DEF Idle, OfBox, MarkedBox, VersionedBox, CountedBox, Inside, Restoring, Serving

LEMMA ActsMarks ==
    ASSUME TypeOK, BudgetInv, MarkedVolume, NEW c \in Box, MarkedBox(c), Acts(c)
    PROVE  MarkedVolume' /\ MarkedBox(c)'
<1> USE TypeParts, ConstantsType DEF MarkedVolume, MarkedBox, Crashed, Unfinished, Initialised,
        VolumeOK, BoxSet, Serving, Restoring, BudgetInv
<1>1. CASE Refuse(c)
  BY <1>1 DEF Refuse, Ends, Off
<1>2. CASE ResetRestore(c)
  BY <1>2 DEF ResetRestore, Moves, Unopened
<1>3. CASE Proceed(c)
  BY <1>3 DEF Proceed, Moves
<1>4. CASE CountBoot(c)
  BY <1>4 DEF CountBoot
<1>5. CASE Heal(c)
  BY <1>5 DEF Heal, NoMarker, Unopened
<1>6. CASE BeginRestore(c)
  BY <1>6 DEF BeginRestore
<1>7. CASE MarkRestore(c)
  BY <1>7 DEF MarkRestore, Moves
<1>8. CASE LoadFull(c)
  BY <1>8 DEF LoadFull, Unopened
<1>9. CASE ReplayAndStop(c)
  BY <1>9 DEF ReplayAndStop, Moves
<1>10. CASE CompleteRestore(c)
  BY <1>10 DEF CompleteRestore, Moves
<1>11. CASE RestoreEnds(c)
  BY <1>11 DEF RestoreEnds, Off
<1>12. CASE RestoreEndsUnmarked(c)
  BY <1>12 DEF RestoreEndsUnmarked, Ends, Off
<1>13. CASE BeginPass(c)
  BY <1>13 DEF BeginPass, Moves, Booted
<1>14. CASE EndPass(c)
  BY <1>14 DEF EndPass, Moves
<1>15. CASE Spawn(c)
  BY <1>15 DEF Spawn, Booted
<1>16. CASE InitDone(c)
  BY <1>16 DEF InitDone
<1>17. CASE Answer(c)
  BY <1>17 DEF Answer, Moves
<1>18. CASE BootFails(c)
  BY <1>18 DEF BootFails, Ends, Off
<1>19. CASE OverBudget(c)
  BY <1>19 DEF OverBudget, StepCut, Ends, Off
<1>20. CASE LandLedger(c)
  BY <1>20 DEF LandLedger
<1>21. CASE Ready(c)
  BY <1>21 DEF Ready
<1>22. CASE RecordServed(c)
  BY <1>22 DEF RecordServed, Answered
<1>23. CASE JoinClone(c)
  BY <1>23 DEF JoinClone, Moves
<1>24. CASE StuckHeal(c)
  BY <1>24 DEF StuckHeal, Stuck
<1>25. CASE CloneLands(c)
  BY <1>25 DEF CloneLands, Moves
<1>26. CASE HandBack(c)
  BY <1>26 DEF HandBack
<1>27. CASE HealthyHour(c)
  BY <1>27 DEF HealthyHour
<1>28. CASE Kill(c)
  BY <1>28 DEF Kill, Broken, CloneCut, StepCut, Ends, Off
<1>29. CASE Stop(c)
  <2>1. (\E planned \in BOOLEAN : Ends(c, planned)) /\ Broken(c) /\ UNCHANGED marker
    BY <1>29 DEF Stop
  <2>2. box'[c] = Off /\ Off.pc = "off" /\ ~ Off.init
    BY <2>1 DEF Ends, Off
  <2>3. QED BY <1>29, <2>1, <2>2 DEF Stop, Broken, CloneCut, StepCut
<1>30. CASE CloneEnds(c)
  BY <1>30 DEF CloneEnds, Off
<1>31. QED
  BY <1>1, <1>2, <1>3, <1>4, <1>5, <1>6, <1>7, <1>8, <1>9, <1>10, <1>11, <1>12, <1>13, <1>14,
     <1>15, <1>16, <1>17, <1>18, <1>19, <1>20, <1>21, <1>22, <1>23, <1>24, <1>25, <1>26, <1>27,
     <1>28, <1>29, <1>30 DEF Acts

LEMMA ActsVersions ==
    ASSUME TypeOK, VersionedVolume, NEW c \in Box, MarkedBox(c), VersionedBox(c), Acts(c)
    PROVE  VersionedVolume' /\ VersionedBox(c)'
<1> USE TypeParts DEF VersionedVolume, VersionedBox, MarkedBox, Initialised, VolumeOK, BoxSet
<1>1. CASE Refuse(c)
  BY <1>1 DEF Refuse, Ends, Off
<1>2. CASE ResetRestore(c)
  BY <1>2 DEF ResetRestore, Moves, Unopened
<1>3. CASE Proceed(c)
  BY <1>3 DEF Proceed, Moves
<1>4. CASE CountBoot(c)
  BY <1>4 DEF CountBoot
<1>5. CASE Heal(c)
  BY <1>5 DEF Heal, Unopened
<1>6. CASE BeginRestore(c)
  BY <1>6 DEF BeginRestore
<1>7. CASE MarkRestore(c)
  BY <1>7 DEF MarkRestore, Moves
<1>8. CASE LoadFull(c)
  BY <1>8 DEF LoadFull, Unopened
<1>9. CASE ReplayAndStop(c)
  BY <1>9 DEF ReplayAndStop, Moves
<1>10. CASE CompleteRestore(c)
  BY <1>10 DEF CompleteRestore, Moves
<1>11. CASE RestoreEnds(c)
  BY <1>11 DEF RestoreEnds, Off
<1>12. CASE RestoreEndsUnmarked(c)
  BY <1>12 DEF RestoreEndsUnmarked, Ends, Off
<1>13. CASE BeginPass(c)
  BY <1>13 DEF BeginPass, Moves
<1>14. CASE EndPass(c)
  BY <1>14 DEF EndPass, Moves
<1>15. CASE Spawn(c)
  <2>1. /\ box'[c].pc = "booting" /\ box'[c].image = box[c].image
        /\ box'[c].init => data' = "debris"
    <3>1. box' = [box EXCEPT ![c].pc = "booting", ![c].init = (data = "none")]
      BY <1>15 DEF Spawn
    <3>2. box'[c].pc = "booting" /\ box'[c].image = box[c].image
      BY <3>1
    <3>3. CASE data # "none"
      <4>1. (data = "none") = FALSE
        BY <3>3
      <4>2. box' = [box EXCEPT ![c].pc = "booting", ![c].init = FALSE]
        BY ONLY <3>1, <4>1
      <4>3. QED BY <3>2, <4>2
    <3>4. QED BY <1>15, <3>2, <3>3 DEF Spawn
  <2>2. \/ version' = version
        \/ /\ version'.opened \in Nat /\ version'.opened > version.opened /\ ~ version'.by
           /\ version'.stepped = version.stepped /\ version'.served = version.served
    <3>1. box[c].image \in Nat
      OBVIOUS
    <3>2. \/ version' = version
          \/ /\ version.opened < box[c].image
             /\ version' = [version EXCEPT !.opened = box[c].image, !.by = FALSE]
      BY <1>15 DEF Spawn
    <3>3. QED BY <3>1, <3>2
  <2>3. QED BY <2>1, <2>2
<1>16. CASE InitDone(c)
  BY <1>16 DEF InitDone, Unopened
<1>17. CASE Answer(c)
  BY <1>17 DEF Answer, Moves
<1>18. CASE BootFails(c)
  BY <1>18 DEF BootFails, Ends, Off
<1>19. CASE OverBudget(c)
  BY <1>19 DEF OverBudget, StepCut, Ends, Off
<1>20. CASE LandLedger(c)
  BY <1>20 DEF LandLedger
<1>21. CASE Ready(c)
  BY <1>21 DEF Ready
<1>22. CASE RecordServed(c)
  BY <1>22 DEF RecordServed, Answered
<1>23. CASE JoinClone(c)
  BY <1>23 DEF JoinClone, Moves
<1>24. CASE StuckHeal(c)
  BY <1>24 DEF StuckHeal, Stuck
<1>25. CASE CloneLands(c)
  <2>1. box'[c].pc = "cloned"
    BY <1>25 DEF CloneLands, Moves
  <2>2. /\ version'.opened = version.opened /\ version'.by = version.by
        /\ version'.stepped = version.opened /\ version'.served \in {version.served, 0}
    BY <1>25 DEF CloneLands
  <2>3. QED BY <2>1, <2>2
<1>26. CASE HandBack(c)
  BY <1>26 DEF HandBack
<1>27. CASE HealthyHour(c)
  BY <1>27 DEF HealthyHour
<1>28. CASE Kill(c)
  BY <1>28 DEF Kill, Broken, CloneCut, StepCut, Ends, Off
<1>29. CASE Stop(c)
  <2>1. (\E planned \in BOOLEAN : Ends(c, planned)) /\ Broken(c) /\ UNCHANGED marker
    BY <1>29 DEF Stop
  <2>2. box'[c] = Off /\ Off.pc = "off" /\ ~ Off.init
    BY <2>1 DEF Ends, Off
  <2>3. QED BY <1>29, <2>1, <2>2 DEF Stop, Broken, CloneCut, StepCut
<1>30. CASE CloneEnds(c)
  BY <1>30 DEF CloneEnds, Off
<1>31. QED
  BY <1>1, <1>2, <1>3, <1>4, <1>5, <1>6, <1>7, <1>8, <1>9, <1>10, <1>11, <1>12, <1>13, <1>14,
     <1>15, <1>16, <1>17, <1>18, <1>19, <1>20, <1>21, <1>22, <1>23, <1>24, <1>25, <1>26, <1>27,
     <1>28, <1>29, <1>30 DEF Acts

LEMMA ActsCounts ==
    ASSUME TypeOK, BudgetInv, MarkedVolume, NEW c \in Box, MarkedBox(c), Counted(c),
           CountedBox(c), env.kind # "fork" => past.restores <= 0, Acts(c)
    PROVE  /\ Counted(c)' /\ CountedBox(c)'
           /\ env'.kind # "fork" => past'.restores <= 0
<1> USE TypeParts, ConstantsType DEF Counted, CountedBox, MarkedVolume, MarkedBox, Open, Inside,
        VolumeOK, BoxSet, PastSet, TypedWorld, Restoring, BudgetInv, HoldersInv, Holder
<1>1. CASE Refuse(c)
  BY <1>1 DEF Refuse, Ends, Off, Remembered
<1>2. CASE ResetRestore(c)
  BY <1>2 DEF ResetRestore, Moves
<1>3. CASE Proceed(c)
  BY <1>3 DEF Proceed, Moves
<1>4. CASE CountBoot(c)
  BY <1>4 DEF CountBoot
<1>5. CASE Heal(c)
  BY <1>5 DEF Heal, NoMarker
<1>6. CASE BeginRestore(c)
  <2>1. UNCHANGED <<past, attempts, marker, env>>
    BY <1>6 DEF BeginRestore
  <2>2. /\ box'[c].pc = "restoring" /\ box'[c].try = marker.tries + 1
        /\ box'[c].counted = box[c].counted /\ box'[c].ready = box[c].ready
        /\ box'[c].mode = box[c].mode
    BY <1>6 DEF BeginRestore
  <2>3. box[c].pc = "clear" /\ env.kind = "fork"
    BY <1>6 DEF BeginRestore
  <2>4. QED BY <2>1, <2>2, <2>3
<1>7. CASE MarkRestore(c)
  BY <1>7 DEF MarkRestore, Moves
<1>8. CASE LoadFull(c)
  BY <1>8 DEF LoadFull
<1>9. CASE ReplayAndStop(c)
  BY <1>9 DEF ReplayAndStop, Moves
<1>10. CASE CompleteRestore(c)
  BY <1>10 DEF CompleteRestore, Moves
<1>11. CASE RestoreEnds(c)
  BY <1>11 DEF RestoreEnds, Tried, Off
<1>12. CASE RestoreEndsUnmarked(c)
  BY <1>12 DEF RestoreEndsUnmarked, Ends, Off, Remembered
<1>13. CASE BeginPass(c)
  BY <1>13 DEF BeginPass, Moves, Booted
<1>14. CASE EndPass(c)
  BY <1>14 DEF EndPass, Moves
<1>15. CASE Spawn(c)
  BY <1>15 DEF Spawn, Booted
<1>16. CASE InitDone(c)
  BY <1>16 DEF InitDone
<1>17. CASE Answer(c)
  BY <1>17 DEF Answer, Moves
<1>18. CASE BootFails(c)
  BY <1>18 DEF BootFails, Ends, Off, Remembered, Up
<1>19. CASE OverBudget(c)
  BY <1>19 DEF OverBudget, Ends, Off, Remembered, Up
<1>20. CASE LandLedger(c)
  BY <1>20 DEF LandLedger
<1>21. CASE Ready(c)
  BY <1>21 DEF Ready, Up
<1>22. CASE RecordServed(c)
  BY <1>22 DEF RecordServed
<1>23. CASE JoinClone(c)
  BY <1>23 DEF JoinClone, Moves
<1>24. CASE StuckHeal(c)
  BY <1>24 DEF StuckHeal, Stuck
<1>25. CASE CloneLands(c)
  <2>1. /\ box'[c].pc = "cloned" /\ box'[c].counted = box[c].counted
        /\ box'[c].ready = box[c].ready /\ box'[c].mode = box[c].mode
    BY <1>25 DEF CloneLands, Moves
  <2>2. /\ past'.restores = past.restores /\ past'.failed = past.failed
        /\ attempts' \in {attempts, 0} /\ UNCHANGED <<marker, env>>
    BY <1>25 DEF CloneLands
  <2>3. box[c].pc = "cloning"
    BY <1>25 DEF CloneLands
  <2>4. QED BY <2>1, <2>2, <2>3
<1>26. CASE HandBack(c)
  BY <1>26 DEF HandBack
<1>27. CASE HealthyHour(c)
  BY <1>27 DEF HealthyHour
<1>28. CASE Kill(c)
  BY <1>28 DEF Kill, Ends, Off, Remembered, Up
<1>29. CASE Stop(c)
  BY <1>29 DEF Stop, Ends, Off, Remembered, Up
<1>30. CASE CloneEnds(c)
  BY <1>30 DEF CloneEnds, Off, Remembered, Up
<1>31. QED
  BY <1>1, <1>2, <1>3, <1>4, <1>5, <1>6, <1>7, <1>8, <1>9, <1>10, <1>11, <1>12, <1>13, <1>14,
     <1>15, <1>16, <1>17, <1>18, <1>19, <1>20, <1>21, <1>22, <1>23, <1>24, <1>25, <1>26, <1>27,
     <1>28, <1>29, <1>30 DEF Acts

\* A container past the lock answers for the volume as well as for itself.
LEMMA ActsRecord ==
    ASSUME TypeOK, TypeOK', BudgetInv, ~ past.overlap, RecordInv, NEW c \in Box, Acts(c)
    PROVE  RecordInv'
<1>1. /\ MarkedVolume /\ VersionedVolume /\ CountedVolume
      /\ MarkedBox(c) /\ VersionedBox(c) /\ CountedBox(c)
  BY DEF RecordInv, OfVolume, OfBox
<1>2. Inside(c) /\ Counted(c)
  BY <1>1 DEF Acts, CountedBox
<1>3. MarkedVolume' /\ MarkedBox(c)'
  BY <1>1, ActsMarks
<1>4. VersionedVolume' /\ VersionedBox(c)'
  BY <1>1, ActsVersions
<1>5. Counted(c)' /\ CountedBox(c)' /\ (env'.kind # "fork" => past'.restores <= 0)
  BY <1>1, <1>2, ActsCounts DEF CountedVolume
<1>6. ASSUME NEW d \in Box, d # c PROVE OfBox(d)'
  <2>1. box'[d] = box[d] /\ Idle(d)
    BY <1>2, <1>6, OwnBox, OthersIdle
  <2>2. ~ box[d].counted
    BY <2>1 DEF RecordInv, OfBox, CountedBox, Idle
  <2>3. QED BY <2>1, <2>2, IdleBox DEF Idle, OfBox, MarkedBox, VersionedBox, CountedBox, Inside,
     Restoring, Serving
<1>7. CountedVolume'
  <2>1. ~ Inside(c)' => past'.restores <= marker'.tries /\ attempts' <= past'.failed
    <3>1. attempts' \in Nat /\ past'.failed \in Nat /\ past'.restores \in Int /\ marker'.tries \in Nat
      BY ConstantsType DEF TypeOK, VolumeOK, WorldOK
    <3>2. ~ Inside(c)' => box'[c].pc # "restoring" /\ ~ box'[c].counted
      BY <1>5 DEF CountedBox, Inside
    <3>3. QED BY <1>5, <3>1, <3>2 DEF Counted, Open
  <2>2. QED BY <1>5, <2>1 DEF CountedVolume
<1>8. QED BY <1>3, <1>4, <1>5, <1>6, <1>7 DEF RecordInv, OfVolume, OfBox

\* At the lock nothing on the volume changes but the lock file.
LEMMA AtLockFrame ==
    ASSUME TypeOK, NEW c \in Box, AtLock(c)
    PROVE  /\ UNCHANGED <<data, attempts, marker, version, env>>
           /\ \A d \in Box \ {c} : box'[d] = box[d]
           /\ Idle(c) /\ box'[c].pc \in {"off", "waiting", "locked"}
           /\ box'[c].counted => box[c].counted
           /\ ~ box[c].counted =>
                past'.restores = past.restores /\ past'.failed = past.failed
           /\ past'.overlap <=> (past.overlap \/ (box'[c].pc = "locked" /\ Together(c)))
<1> USE TypeParts DEF BoxSet, PastSet
<1>1. CASE Start(c)
  <2> DEFINE boot == [Off EXCEPT !.mode = Deployed, !.image = env.image]
             ino == IF lockfile = 0 THEN NewInode ELSE lockfile
  <2>1. (\A d \in Box \ {c} : box'[d] = box[d]) /\ box[c].pc = "off"
    BY <1>1 DEF Start
  <2>2. CASE /\ box' = [box EXCEPT ![c] = [boot EXCEPT !.pc = "waiting", !.lock = ino]]
             /\ past' = past
    <3>1. box'[c] = [boot EXCEPT !.pc = "waiting", !.lock = ino]
      BY <2>2
    <3>2. box'[c].pc = "waiting" /\ ~ box'[c].counted
      BY <3>1 DEF Off
    <3>3. QED BY <1>1, <2>1, <2>2, <3>2 DEF Start, Idle
  <2>3. CASE /\ box' = [box EXCEPT ![c] = [boot EXCEPT !.pc = "locked"]]
             /\ past' = [past EXCEPT !.unlocked = TRUE, !.overlap = past.overlap \/ Together(c)]
    <3>1. box'[c] = [boot EXCEPT !.pc = "locked"]
      BY <2>3
    <3>2. box'[c].pc = "locked" /\ ~ box'[c].counted
      BY <3>1 DEF Off
    <3>3. /\ past'.restores = past.restores /\ past'.failed = past.failed
          /\ past'.overlap <=> past.overlap \/ Together(c)
      BY <2>3
    <3>4. QED BY <1>1, <2>1, <3>2, <3>3 DEF Start, Idle
  <2>4. QED BY <1>1, <2>2, <2>3 DEF Start
<1>2. CASE Acquire(c)
  BY <1>2 DEF Acquire, Moves, Idle
<1>3. CASE GiveUpWaiting(c)
  BY <1>3 DEF GiveUpWaiting, Ends, Off, Remembered, Idle
<1>4. CASE Idle(c) /\ Kill(c)
  BY <1>4 DEF Kill, Ends, Off, Remembered, Idle, Broken, StepCut, CloneCut
<1>5. QED BY <1>1, <1>2, <1>3, <1>4 DEF AtLock

LEMMA AtLockRecord ==
    ASSUME TypeOK, RecordInv, NEW c \in Box, AtLock(c)
    PROVE  RecordInv'
<1> SUFFICES ASSUME ~ past'.overlap PROVE RecordInv'
  BY DEF RecordInv
<1>1. ~ past.overlap /\ (box'[c].pc = "locked" => ~ Together(c))
  BY AtLockFrame, TypeParts DEF PastSet
<1>2. OfVolume /\ \A d \in Box : OfBox(d)
  BY <1>1 DEF RecordInv
<1>3. ~ box[c].counted /\ ~ box'[c].counted
  BY <1>2, AtLockFrame DEF OfBox, CountedBox, Idle
<1>4. past'.restores = past.restores /\ past'.failed = past.failed
  BY <1>3, AtLockFrame
<1>5. MarkedVolume' /\ VersionedVolume'
  BY <1>2, AtLockFrame DEF OfVolume, MarkedVolume, VersionedVolume, Crashed, Unfinished, Initialised
<1>6. \A d \in Box \ {c} : OfBox(d)'
  <2>1. SUFFICES ASSUME NEW d \in Box \ {c} PROVE OfBox(d)'
    OBVIOUS
  <2>2. box'[d] = box[d] /\ OfBox(d)
    BY <1>2, AtLockFrame
  <2>3. QED
    BY <1>4, <2>2, AtLockFrame DEF OfBox, MarkedBox, VersionedBox, CountedBox, Counted, Open,
       Inside, Crashed, Unfinished, Initialised
<1>7. box'[c].pc = "locked" => Counted(c)'
  <2>1. SUFFICES ASSUME box'[c].pc = "locked" PROVE Counted(c)'
    OBVIOUS
  <2>2. \A d \in Box : ~ Inside(d)
    BY <1>1, <2>1, AtLockFrame DEF Together, Idle, Inside
  <2>3. past.restores <= marker.tries /\ attempts <= past.failed
    BY <1>2, <2>2 DEF OfVolume, CountedVolume
  <2>4. QED
    BY <1>3, <1>4, <2>1, <2>3, AtLockFrame, TypeParts, ConstantsType
       DEF Counted, Open, VolumeOK, PastSet
<1>8. OfBox(c)'
  BY <1>3, <1>7, AtLockFrame DEF OfBox, MarkedBox, VersionedBox, CountedBox, Inside, Restoring, Serving
<1>9. CountedVolume'
  <2>1. SUFFICES ASSUME \A d \in Box : ~ Inside(d)'
                 PROVE  past.restores <= marker.tries /\ attempts <= past.failed
    BY <1>2, <1>4, AtLockFrame DEF OfVolume, CountedVolume
  <2>2. \A d \in Box : ~ Inside(d)
    BY <2>1, AtLockFrame DEF Inside, Idle
  <2>3. QED BY <1>2, <2>2 DEF OfVolume, CountedVolume
<1>10. QED BY <1>5, <1>6, <1>8, <1>9 DEF RecordInv, OfVolume

LEMMA AroundRecord ==
    ASSUME TypeOK, RecordInv, Wedge \/ Decay \/ Surroundings \/ BackoffOver \/ UNCHANGED vars
    PROVE  RecordInv'
<1> USE TypeParts, ConstantsType DEF RecordInv, OfVolume, OfBox, MarkedVolume, VersionedVolume,
        CountedVolume, MarkedBox, VersionedBox, CountedBox, Counted, Open, Inside, Crashed,
        Unfinished, Initialised, VolumeOK, PastSet, TypedWorld, BoxSet, Restoring, Serving
<1>1. CASE Wedge
  BY <1>1 DEF Wedge
<1>2. CASE Decay
  <2>1. CASE UNCHANGED <<marker, past>>
    BY <1>2, <2>1 DEF Decay
  <2>2. CASE marker' = [status |-> "torn", tries |-> 0] /\ past' = [past EXCEPT !.restores = 0]
    BY <1>2, <2>2 DEF Decay
  <2>3. QED BY <1>2, <2>1, <2>2 DEF Decay
<1>3. CASE Surroundings \/ BackoffOver
  BY <1>3 DEF Surroundings, BackoffOver
<1>4. CASE UNCHANGED vars
  BY <1>4 DEF vars
<1>5. QED BY <1>1, <1>2, <1>3, <1>4

LEMMA InitRecord == Init => RecordInv
BY ConstantsType DEF Init, RecordInv, OfVolume, OfBox, MarkedVolume, VersionedVolume,
   CountedVolume, MarkedBox, VersionedBox, CountedBox, Inside, Crashed, Unfinished,
   Initialised, Restoring, Serving, Off, NoMarker, Unopened

LEMMA NextRecord ==
    ASSUME TypeOK, BudgetInv, RecordInv, [Next]_vars
    PROVE  RecordInv'
<1> SUFFICES ASSUME ~ past'.overlap PROVE RecordInv'
  BY DEF RecordInv
<1>1. ~ past.overlap /\ TypeOK'
  BY OverlapStays, NextType
<1>2. QED BY <1>1, StepSplit, ActsRecord, AtLockRecord, AroundRecord

LEMMA RecordsHold == Spec => [](TypeOK /\ BudgetInv /\ RecordInv)
<1>1. Init => BudgetInv
  BY ConstantsType DEF Init, BudgetInv, HoldersInv, Holder, CountInv, Pending, Inside, Off, Restoring
<1>2. TypeOK /\ BudgetInv /\ [Next]_vars => BudgetInv'
  BY NextBudget
<1>3. TypeOK /\ BudgetInv /\ RecordInv /\ [Next]_vars => RecordInv'
  BY NextRecord
<1>4. QED BY <1>1, <1>2, <1>3, InitRecord, TypeCorrect, PTL DEF Spec

-----------------------------------------------------------------------------
(* The theorems. *)

\* AttemptsHonest: the boot-attempt marker counts boots that failed, and the one under way.
\* A kill, a planned stop or an unwritten ledger never makes it claim more; an answer or a
\* planned stop that could not be written to the marker stays in it as a failed boot.
THEOREM AttemptsAreHonest == Spec => []AttemptsHonest
<1>1. TypeOK /\ BudgetInv /\ RecordInv => AttemptsHonest
  <2> SUFFICES ASSUME TypeOK, BudgetInv, RecordInv, ~ past.overlap PROVE AttemptsHonest
    BY DEF AttemptsHonest
  <2> DEFINE open == {c \in Box : Open(c)}
  <2>1. IsFiniteSet(open) /\ Cardinality(open) \in Nat
    BY FS_Subset, FS_CardinalityType
  <2>2. attempts \in Nat /\ past.failed \in Nat
    BY TypeParts, ConstantsType DEF VolumeOK, PastSet
  <2>3. CASE \A c \in Box : ~ Inside(c)
    <3>1. attempts <= past.failed
      BY <2>3 DEF RecordInv, OfVolume, CountedVolume
    <3>2. QED BY <2>1, <2>2, <3>1 DEF AttemptsHonest, Open
  <2>4. ASSUME NEW c \in Box, Inside(c) PROVE AttemptsHonest
    <3>1. attempts <= past.failed + (IF Open(c) THEN 1 ELSE 0)
      BY <2>4 DEF RecordInv, OfBox, CountedBox, Counted
    <3>2. Open(c) => Cardinality(open) # 0
      BY <2>1, FS_EmptySet
    <3>3. QED BY <2>1, <2>2, <3>1, <3>2 DEF AttemptsHonest, Open
  <2>5. QED BY <2>3, <2>4
<1>2. QED BY <1>1, RecordsHold, PTL

\* RestoresBounded: the marker carries the number of every attempt that has marked the
\* volume or ended with a verdict, so the limit in reset_partial_restore bounds those.  An
\* attempt killed before its first mark is not among them.
THEOREM RestoresAreBounded == Spec => []RestoresBounded
<1>1. TypeOK /\ BudgetInv /\ RecordInv => RestoresBounded
  <2> SUFFICES ASSUME TypeOK, RecordInv, ~ past.overlap PROVE past.restores <= MaxRestores
    BY DEF RestoresBounded
  <2>1. past.restores \in Nat /\ marker.tries \in Nat /\ marker.tries <= MaxRestores
    BY TypeParts DEF VolumeOK, PastSet, RecordInv, OfVolume, MarkedVolume
  <2>2. past.restores <= marker.tries
    BY DEF RecordInv, OfVolume, OfBox, CountedVolume, CountedBox, Counted
  <2>3. QED BY <2>1, <2>2, ConstantsType
<1>2. QED BY <1>1, RecordsHold, PTL

\* NoHalfRestoreServed: a data directory with half a restore in it is marked as such, and
\* no boot gets past the marker with it.
THEOREM HalfRestoreNeverServed == Spec => []NoHalfRestoreServed
<1>1. RecordInv => NoHalfRestoreServed
  BY DEF RecordInv, OfBox, MarkedBox, Serving, NoHalfRestoreServed
<1>2. QED BY <1>1, RecordsHold, PTL

\* OwedIsPending: served stays behind the server step and the server step behind the
\* dictionary's, so decide sees the step that is owed.
THEOREM OwedStaysPending == Spec => []OwedIsPending
<1>1. TypeOK /\ RecordInv => OwedIsPending
  BY TypeParts DEF RecordInv, OfVolume, VersionedVolume, OwedIsPending, PassPending, VolumeOK
<1>2. QED BY <1>1, RecordsHold, PTL

\* DerivedUnlessTorn: a marker that says a restore is unfinished says so of data that never
\* served, so what ResetRestore wipes is derived, unless the marker itself decayed.
THEOREM WipesDerivedOnly == Spec => DerivedUnlessTorn
<1>1. RecordInv => \A c \in Box : ResetRestore(c) =>
          past.overlap \/ version.served = 0 \/ marker.status = "torn"
  BY DEF RecordInv, OfVolume, MarkedVolume, Unfinished, ResetRestore, Crashed
<1>2. QED BY <1>1, RecordsHold, PTL DEF DerivedUnlessTorn
=============================================================================

--------------------------- MODULE NodeBootProofs ---------------------------
(***************************************************************************)
(* Theorems about NodeBoot, for every finite set of containers, every      *)
(* threshold and cap, and every bound.                                     *)
(***************************************************************************)
EXTENDS NodeBoot, FiniteSetTheorems, TLAPS

USE NodeBootAssumption

-----------------------------------------------------------------------------
(* What the helpers return. *)

BoxSet == [pc : Phases, lock : Nat, mode : AllModes, image : Nat, pend : Nat, heal : Nat,
           counted : BOOLEAN, ready : BOOLEAN, init : BOOLEAN, try : Nat]

PastSet == [discards : Nat, restores : Nat, failed : 0 .. Top, unlocked : BOOLEAN,
            overlap : BOOLEAN]

LEMMA ConstantsType ==
    /\ Threshold \in Nat \ {0} /\ HealCap \in Nat \ {0} /\ MaxRestores \in Nat \ {0}
    /\ MaxImage \in Nat \ {0} /\ MaxTrouble \in Nat /\ Top \in Nat
BY DEF Top

LEMMA UpType == ASSUME NEW n \in 0 .. Top PROVE Up(n) \in 0 .. Top
BY ConstantsType DEF Up

LEMMA OffType == Off \in BoxSet
BY DEF Off, BoxSet, Phases, AllModes

\* There are fewer containers than candidates for an inode nobody holds.
LEMMA NewInodeIsNew ==
    ASSUME BoxOK
    PROVE  NewInode \in Nat /\ NewInode # 0 /\ \A c \in Box : box[c].lock # NewInode
<1> DEFINE held == {box[c].lock : c \in Box}
           slots == 1 .. (Cardinality(Box) + 1)
<1>1. IsFiniteSet(held) /\ Cardinality(held) <= Cardinality(Box)
  <2> DEFINE f == [c \in Box |-> box[c].lock]
  <2>1. f \in Surjection(Box, held)
    BY DEF Surjection
  <2>2. QED BY <2>1, FS_Surjection
<1>2. Cardinality(Box) \in Nat /\ Cardinality(held) \in Nat
  BY <1>1, FS_CardinalityType
<1>3. IsFiniteSet(slots) /\ Cardinality(slots) = Cardinality(Box) + 1
  <2>1. Cardinality(Box) + 1 >= 1
    BY <1>2
  <2>2. QED BY <1>2, <2>1, FS_Interval
<1>4. PICK i \in slots : i \notin held
  <2>1. SUFFICES ASSUME slots \subseteq held PROVE FALSE
    OBVIOUS
  <2>2. Cardinality(slots) <= Cardinality(held)
    BY <1>1, <2>1, FS_Subset
  <2>3. QED BY <1>1, <1>2, <1>3, <2>2
<1>5. \A c \in Box : box[c].lock # i
  BY <1>4
<1>6. NewInode \in slots /\ \A c \in Box : box[c].lock # NewInode
  BY <1>4, <1>5 DEF NewInode
<1>7. QED BY <1>2, <1>6

LEMMA RememberedType ==
    ASSUME TypeOK, NEW c \in Box, NEW planned \in BOOLEAN
    PROVE  Remembered(c, planned) \in PastSet
<1>1. past \in PastSet /\ box[c] \in BoxSet
  BY DEF TypeOK, WorldOK, BoxOK, PastSet, BoxSet
<1>2. Up(past.failed) \in 0 .. Top
  BY <1>1, UpType DEF PastSet
<1>3. QED BY <1>1, <1>2 DEF Remembered, PastSet, BoxSet

-----------------------------------------------------------------------------
(* Type correctness. *)

TypedWorld == /\ env \in [kind : {"ha", "fork"}, reverted : BOOLEAN, image : Nat,
                           peer : BOOLEAN, backoff : BOOLEAN]
              /\ trouble \in 0 .. MaxTrouble

\* TypeOK in the parts the steps disturb.
LEMMA TypeParts ==
    TypeOK <=> /\ box \in [Box -> BoxSet]
               /\ VolumeOK
               /\ past \in PastSet
               /\ TypedWorld
BY DEF TypeOK, BoxOK, BoxSet, WorldOK, PastSet, TypedWorld

LEMMA TypeNext ==
    ASSUME box' \in [Box -> BoxSet], VolumeOK', past' \in PastSet, TypedWorld'
    PROVE  TypeOK'
BY DEF TypeOK, BoxOK, BoxSet, WorldOK, PastSet, TypedWorld

LEMMA EndsType ==
    ASSUME TypeOK, NEW c \in Box, NEW planned \in BOOLEAN, Ends(c, planned)
    PROVE  box' \in [Box -> BoxSet] /\ past' \in PastSet
BY RememberedType, OffType, TypeParts DEF Ends

LEMMA MovesType ==
    ASSUME TypeOK, NEW c \in Box, NEW pc \in Phases, Moves(c, pc)
    PROVE  box' \in [Box -> BoxSet]
BY TypeParts DEF Moves, BoxSet

LEMMA UpdateType ==
    ASSUME TypeOK, NEW c \in Box, NEW b \in BoxSet, box' = [box EXCEPT ![c] = b]
    PROVE  box' \in [Box -> BoxSet]
BY TypeParts

LEMMA TroubleType ==
    ASSUME TypeOK, NEW what, Happens(what) \/ UNCHANGED trouble
    PROVE  trouble' \in 0 .. MaxTrouble
BY TypeParts DEF Happens, TypedWorld

LEMMA BrokenType ==
    ASSUME TypeOK, NEW c \in Box, Broken(c)
    PROVE  /\ data' \in {"none", "debris", "fresh", "partial", "whole", "wedged"}
           /\ version' \in [opened : Nat, by : BOOLEAN, stepped : Nat, blocked : BOOLEAN,
                             served : Nat]
BY TypeParts DEF Broken, StepCut, CloneCut, VolumeOK

LEMMA InitTypeOK == Init => TypeOK
<1> SUFFICES ASSUME Init PROVE TypeOK
  OBVIOUS
<1>1. box \in [Box -> BoxSet]
  BY OffType DEF Init
<1>2. VolumeOK
  <2>1. /\ lockfile \in Nat /\ attempts \in 0 .. Top /\ ledger \in Nat \cup {Torn}
        /\ marker \in [status : {"none", "in_progress", "refused", "failed", "completed", "torn"},
                       tries : Nat]
    BY ConstantsType DEF Init, NoMarker
  <2>2. version \in [opened : Nat, by : BOOLEAN, stepped : Nat, blocked : BOOLEAN, served : Nat]
    <3>1. CASE version = Unopened
      BY <3>1 DEF Unopened
    <3>2. CASE \E by \in BOOLEAN, s \in {0, 1} :
            version = [opened |-> 1, by |-> by, stepped |-> 1, blocked |-> FALSE, served |-> s]
      BY <3>2
    <3>3. QED BY <3>1, <3>2 DEF Init
  <2>3. data \in {"none", "debris", "fresh", "partial", "whole", "wedged"}
    BY DEF Init
  <2>4. QED BY <2>1, <2>2, <2>3 DEF VolumeOK
<1>3. past \in PastSet
  BY ConstantsType DEF Init, PastSet
<1>4. TypedWorld
  BY ConstantsType DEF Init, TypedWorld
<1>5. QED BY <1>1, <1>2, <1>3, <1>4, TypeParts

LEMMA StartType == ASSUME TypeOK, NEW c \in Box, Start(c) PROVE TypeOK'
<1> DEFINE boot == [Off EXCEPT !.mode = Deployed, !.image = env.image]
           ino == IF lockfile = 0 THEN NewInode ELSE lockfile
<1>1. ino \in Nat
  BY NewInodeIsNew DEF TypeOK, VolumeOK
<1>2. boot \in BoxSet
  BY TypeParts, OffType DEF BoxSet, Deployed, TypedWorld, AllModes
<1>3. CASE /\ lockfile' = ino
           /\ box' = [box EXCEPT ![c] = [boot EXCEPT !.pc = "waiting", !.lock = ino]]
           /\ UNCHANGED <<past, trouble>>
  <2>1. [boot EXCEPT !.pc = "waiting", !.lock = ino] \in BoxSet
    BY <1>1, <1>2 DEF BoxSet, Phases
  <2>2. box' \in [Box -> BoxSet]
    BY <1>3, <2>1, TypeParts
  <2>3. QED BY <1>1, <1>3, <2>2, TypeParts, TypeNext DEF Start, VolumeOK, TypedWorld
<1>4. CASE /\ Happens("no_lock")
           /\ box' = [box EXCEPT ![c] = [boot EXCEPT !.pc = "locked"]]
           /\ past' = [past EXCEPT !.unlocked = TRUE, !.overlap = past.overlap \/ Together(c)]
           /\ UNCHANGED lockfile
  <2>1. [boot EXCEPT !.pc = "locked"] \in BoxSet
    BY <1>2 DEF BoxSet, Phases
  <2>2. box' \in [Box -> BoxSet]
    BY <1>4, <2>1, TypeParts
  <2>3. past' \in PastSet
    <3>1. (past.overlap \/ Together(c)) \in BOOLEAN
      BY TypeParts DEF PastSet
    <3>2. QED BY <1>4, <3>1, TypeParts DEF PastSet
  <2>4. trouble' \in 0 .. MaxTrouble
    BY <1>4, TroubleType
  <2>5. QED BY <1>4, <2>2, <2>3, <2>4, TypeParts, TypeNext DEF Start, VolumeOK, TypedWorld
<1>5. QED BY <1>3, <1>4 DEF Start

\* A step that touches neither the volume nor the world keeps their types.
LEMMA SameVolumeType ==
    ASSUME TypeOK, UNCHANGED <<lockfile, data, attempts, ledger, marker, version>>
    PROVE  VolumeOK'
BY TypeParts DEF VolumeOK

LEMMA SameWorldType ==
    ASSUME TypeOK, UNCHANGED env, trouble' \in 0 .. MaxTrouble
    PROVE  TypedWorld'
BY TypeParts DEF TypedWorld

LEMMA PassiveMoveType ==
    ASSUME TypeOK, NEW c \in Box, NEW pc \in Phases, Moves(c, pc),
           UNCHANGED <<lockfile, data, attempts, ledger, marker, version, env, past, trouble>>
    PROVE  TypeOK'
<1>1. box' \in [Box -> BoxSet]
  BY MovesType
<1>2. VolumeOK'
  BY SameVolumeType
<1>3. trouble' \in 0 .. MaxTrouble
  BY TroubleType
<1>4. TypedWorld'
  BY <1>3, SameWorldType
<1>5. past' \in PastSet
  BY TypeParts
<1>6. QED BY <1>1, <1>2, <1>4, <1>5, TypeNext

LEMMA PassiveEndType ==
    ASSUME TypeOK, NEW c \in Box, Ends(c, FALSE), trouble' \in 0 .. MaxTrouble,
           UNCHANGED <<lockfile, data, attempts, ledger, marker, version, env>>
    PROVE  TypeOK'
<1>1. box' \in [Box -> BoxSet] /\ past' \in PastSet
  BY EndsType
<1>2. VolumeOK'
  BY SameVolumeType
<1>3. TypedWorld'
  BY SameWorldType
<1>4. QED BY <1>1, <1>2, <1>3, TypeNext

LEMMA ProceedType == ASSUME TypeOK, NEW c \in Box, Proceed(c) PROVE TypeOK'
<1>1. "clear" \in Phases
  BY DEF Phases
<1>2. QED BY <1>1, PassiveMoveType DEF Proceed

LEMMA BeginPassType == ASSUME TypeOK, NEW c \in Box, BeginPass(c) PROVE TypeOK'
<1>1. "pass" \in Phases
  BY DEF Phases
<1>2. QED BY <1>1, PassiveMoveType DEF BeginPass

LEMMA HandBackType == ASSUME TypeOK, NEW c \in Box, HandBack(c) PROVE TypeOK'
<1>1. box' \in [Box -> BoxSet]
  <2> DEFINE b == [box[c] EXCEPT !.pc = "up", !.heal = 0,
                                 !.pend = IF box[c].heal # 0 THEN 0 ELSE box[c].pend]
  <2>1. b \in BoxSet
    <3>1. box[c] \in BoxSet
      BY TypeParts
    <3>2. (IF box[c].heal # 0 THEN 0 ELSE box[c].pend) \in Nat
      BY <3>1 DEF BoxSet
    <3>3. QED BY <3>1, <3>2 DEF BoxSet, Phases
  <2>2. box' = [box EXCEPT ![c] = b]
    BY TypeParts DEF HandBack, BoxSet
  <2>3. QED BY <2>1, <2>2, UpdateType
<1>2. past' \in PastSet
  BY TypeParts DEF HandBack, PastSet
<1>3. QED BY <1>1, <1>2, TypeParts, TypeNext DEF HandBack, VolumeOK, TypedWorld

LEMMA JoinCloneType == ASSUME TypeOK, NEW c \in Box, JoinClone(c) PROVE TypeOK'
<1>1. "cloning" \in Phases
  BY DEF Phases
<1>2. QED BY <1>1, PassiveMoveType DEF JoinClone

LEMMA GiveUpWaitingType == ASSUME TypeOK, NEW c \in Box, GiveUpWaiting(c) PROVE TypeOK'
<1>1. trouble' \in 0 .. MaxTrouble
  BY TroubleType DEF GiveUpWaiting
<1>2. QED BY <1>1, PassiveEndType DEF GiveUpWaiting

LEMMA RefuseType == ASSUME TypeOK, NEW c \in Box, Refuse(c) PROVE TypeOK'
<1>1. trouble' \in 0 .. MaxTrouble
  BY TroubleType DEF Refuse
<1>2. QED BY <1>1, PassiveEndType DEF Refuse

LEMMA BootFailsType == ASSUME TypeOK, NEW c \in Box, BootFails(c) PROVE TypeOK'
<1>1. trouble' \in 0 .. MaxTrouble
  BY TroubleType DEF BootFails
<1>2. QED BY <1>1, PassiveEndType DEF BootFails

LEMMA RestoreEndsUnmarkedType == ASSUME TypeOK, NEW c \in Box, RestoreEndsUnmarked(c) PROVE TypeOK'
<1>1. trouble' \in 0 .. MaxTrouble
  BY TroubleType DEF RestoreEndsUnmarked
<1>2. QED BY <1>1, PassiveEndType DEF RestoreEndsUnmarked

LEMMA KillType == ASSUME TypeOK, NEW c \in Box, Kill(c) PROVE TypeOK'
<1>1. box' \in [Box -> BoxSet] /\ past' \in PastSet
  BY EndsType DEF Kill
<1>2. trouble' \in 0 .. MaxTrouble
  BY TroubleType DEF Kill
<1>3. TypedWorld'
  BY <1>2, SameWorldType DEF Kill
<1>4. /\ data' \in {"none", "debris", "fresh", "partial", "whole", "wedged"}
      /\ version' \in [opened : Nat, by : BOOLEAN, stepped : Nat, blocked : BOOLEAN, served : Nat]
  BY BrokenType DEF Kill
<1>5. VolumeOK'
  BY <1>4, TypeParts DEF Kill, VolumeOK
<1>6. QED BY <1>1, <1>3, <1>5, TypeNext

LEMMA OverBudgetType == ASSUME TypeOK, NEW c \in Box, OverBudget(c) PROVE TypeOK'
<1>1. box' \in [Box -> BoxSet] /\ past' \in PastSet
  BY EndsType DEF OverBudget
<1>2. trouble' \in 0 .. MaxTrouble
  BY TroubleType DEF OverBudget
<1>3. TypedWorld'
  BY <1>2, SameWorldType DEF OverBudget
<1>4. /\ data' \in {"none", "debris", "fresh", "partial", "whole", "wedged"}
      /\ version' \in [opened : Nat, by : BOOLEAN, stepped : Nat, blocked : BOOLEAN, served : Nat]
  <2>1. CASE UNCHANGED <<data, version>>
    BY <2>1, TypeParts DEF VolumeOK
  <2>2. CASE StepCut(c)
    BY <2>2, BrokenType DEF Broken
  <2>3. QED BY <2>1, <2>2 DEF OverBudget
<1>5. VolumeOK'
  BY <1>4, TypeParts DEF OverBudget, VolumeOK
<1>6. QED BY <1>1, <1>3, <1>5, TypeNext

LEMMA StopType == ASSUME TypeOK, NEW c \in Box, Stop(c) PROVE TypeOK'
<1>1. attempts' \in 0 .. Top
  <2>1. attempts \in 0 .. Top /\ (attempts > 0 => attempts - 1 \in 0 .. Top)
    BY ConstantsType, TypeParts DEF VolumeOK
  <2>2. attempts' = attempts \/ (attempts > 0 /\ attempts' = attempts - 1)
    BY DEF Stop
  <2>3. QED BY <2>1, <2>2
<1>2. box' \in [Box -> BoxSet] /\ past' \in PastSet
  BY EndsType DEF Stop
<1>3. trouble' \in 0 .. MaxTrouble
  BY TroubleType DEF Stop
<1>4. Broken(c) /\ UNCHANGED <<lockfile, ledger, marker, env>>
  BY DEF Stop
<1>5. QED BY <1>1, <1>2, <1>3, <1>4, BrokenType, TypeParts, TypeNext DEF VolumeOK, TypedWorld

LEMMA AcquireType == ASSUME TypeOK, NEW c \in Box, Acquire(c) PROVE TypeOK'
<1>1. box' \in [Box -> BoxSet]
  BY MovesType DEF Acquire, Phases
<1>2. past' \in PastSet
  BY TypeParts DEF Acquire, PastSet
<1>3. QED BY <1>1, <1>2, TypeParts, TypeNext DEF Acquire, VolumeOK, TypedWorld

LEMMA ResetRestoreType == ASSUME TypeOK, NEW c \in Box, ResetRestore(c) PROVE TypeOK'
<1>1. box' \in [Box -> BoxSet]
  BY MovesType DEF ResetRestore, Phases
<1>2. VolumeOK'
  BY TypeParts, ConstantsType DEF ResetRestore, VolumeOK, Unopened
<1>3. QED BY <1>1, <1>2, TypeParts, TypeNext DEF ResetRestore, VolumeOK, TypedWorld

LEMMA CountBootType == ASSUME TypeOK, NEW c \in Box, CountBoot(c) PROVE TypeOK'
<1>1. box' \in [Box -> BoxSet]
  <2>1. PICK counts \in BOOLEAN : box' = [box EXCEPT ![c].pc = "clear", ![c].counted = counts]
    BY DEF CountBoot
  <2> DEFINE b == [box[c] EXCEPT !.pc = "clear", !.counted = counts]
  <2>2. b \in BoxSet
    BY TypeParts DEF BoxSet, Phases
  <2>3. box' = [box EXCEPT ![c] = b]
    BY <2>1, TypeParts DEF BoxSet
  <2>4. QED BY <2>2, <2>3, UpdateType
<1>2. VolumeOK'
  BY TypeParts, UpType DEF CountBoot, VolumeOK
<1>3. trouble' \in 0 .. MaxTrouble
  BY TroubleType DEF CountBoot
<1>4. QED BY <1>1, <1>2, <1>3, TypeParts, TypeNext DEF CountBoot, VolumeOK, TypedWorld

LEMMA HealType == ASSUME TypeOK, NEW c \in Box, Heal(c) PROVE TypeOK'
<1>1. box' \in [Box -> BoxSet]
  <2> DEFINE b == [box[c] EXCEPT !.pc = "clear", !.pend = ledger + 1]
  <2>1. box[c] \in BoxSet
    BY TypeParts
  <2>2. b \in BoxSet
    <3>1. ledger \in Nat
      BY TypeParts DEF Heal, HealDue, Spent, VolumeOK
    <3>2. ledger + 1 \in Nat
      BY <3>1
    <3>3. QED BY <2>1, <3>2 DEF BoxSet, Phases
  <2>3. box' = [box EXCEPT ![c] = b]
    BY TypeParts DEF Heal, BoxSet
  <2>4. QED BY <2>2, <2>3, UpdateType
<1>2. VolumeOK'
  BY TypeParts, ConstantsType DEF Heal, VolumeOK, Unopened, NoMarker
<1>3. past' \in PastSet
  <2>1. past' = [past EXCEPT !.discards = past.discards + 1, !.unlocked = TRUE]
    BY DEF Heal
  <2>2. past.discards + 1 \in Nat
    BY TypeParts DEF PastSet
  <2>3. QED BY <2>1, <2>2, TypeParts DEF PastSet
<1>4. QED BY <1>1, <1>2, <1>3, TypeParts, TypeNext DEF Heal, VolumeOK, TypedWorld

LEMMA BeginRestoreType == ASSUME TypeOK, NEW c \in Box, BeginRestore(c) PROVE TypeOK'
<1>1. box' \in [Box -> BoxSet]
  <2> DEFINE b == [box[c] EXCEPT !.pc = "restoring", !.init = (data = "none"), !.try = marker.tries + 1]
  <2>1. box[c] \in BoxSet
    BY TypeParts
  <2>2. b \in BoxSet
    <3>1. marker.tries + 1 \in Nat
      BY TypeParts DEF VolumeOK
    <3>2. QED BY <2>1, <3>1 DEF BoxSet, Phases
  <2>3. box' = [box EXCEPT ![c] = b]
    BY TypeParts DEF BeginRestore, BoxSet
  <2>4. QED BY <2>2, <2>3, UpdateType
<1>2. VolumeOK'
  BY TypeParts DEF BeginRestore, VolumeOK
<1>3. past' \in PastSet
  BY TypeParts DEF BeginRestore
<1>4. QED BY <1>1, <1>2, <1>3, TypeParts, TypeNext DEF BeginRestore, VolumeOK, TypedWorld

LEMMA MarkRestoreType == ASSUME TypeOK, NEW c \in Box, MarkRestore(c) PROVE TypeOK'
<1>1. box' \in [Box -> BoxSet]
  BY MovesType DEF MarkRestore, Phases
<1>2. VolumeOK'
  BY TypeParts DEF MarkRestore, VolumeOK, BoxSet
<1>3. past' \in PastSet
  BY TypeParts DEF MarkRestore, PastSet
<1>4. QED BY <1>1, <1>2, <1>3, TypeParts, TypeNext DEF MarkRestore, VolumeOK, TypedWorld

LEMMA LoadFullType == ASSUME TypeOK, NEW c \in Box, LoadFull(c) PROVE TypeOK'
<1>1. box' \in [Box -> BoxSet]
  BY TypeParts DEF LoadFull
<1>2. VolumeOK'
  BY TypeParts DEF LoadFull, VolumeOK, BoxSet, Unopened
<1>3. QED BY <1>1, <1>2, TypeParts, TypeNext DEF LoadFull, VolumeOK, TypedWorld

LEMMA ReplayAndStopType == ASSUME TypeOK, NEW c \in Box, ReplayAndStop(c) PROVE TypeOK'
<1>1. box' \in [Box -> BoxSet]
  BY MovesType DEF ReplayAndStop, Phases
<1>2. VolumeOK'
  BY TypeParts DEF ReplayAndStop, VolumeOK
<1>3. QED BY <1>1, <1>2, TypeParts, TypeNext DEF ReplayAndStop, VolumeOK, TypedWorld

LEMMA CompleteRestoreType == ASSUME TypeOK, NEW c \in Box, CompleteRestore(c) PROVE TypeOK'
<1>1. box' \in [Box -> BoxSet]
  BY MovesType DEF CompleteRestore, Phases
<1>2. VolumeOK'
  BY TypeParts DEF CompleteRestore, VolumeOK, BoxSet
<1>3. QED BY <1>1, <1>2, TypeParts, TypeNext DEF CompleteRestore, VolumeOK, TypedWorld

LEMMA RestoreEndsType == ASSUME TypeOK, NEW c \in Box, RestoreEnds(c) PROVE TypeOK'
<1>1. box' \in [Box -> BoxSet]
  BY TypeParts, OffType DEF RestoreEnds
<1>2. VolumeOK'
  BY TypeParts DEF RestoreEnds, VolumeOK, BoxSet
<1>3. trouble' \in 0 .. MaxTrouble
  BY TroubleType DEF RestoreEnds
<1>4. past' \in PastSet
  BY TypeParts DEF RestoreEnds, Tried, PastSet
<1>5. QED BY <1>1, <1>2, <1>3, <1>4, TypeParts, TypeNext DEF RestoreEnds, VolumeOK, TypedWorld

LEMMA EndPassType == ASSUME TypeOK, NEW c \in Box, EndPass(c) PROVE TypeOK'
<1>1. box' \in [Box -> BoxSet]
  BY MovesType DEF EndPass, Phases
<1>2. VolumeOK'
  BY TypeParts DEF EndPass, VolumeOK
<1>3. trouble' \in 0 .. MaxTrouble
  BY TroubleType DEF EndPass
<1>4. QED BY <1>1, <1>2, <1>3, TypeParts, TypeNext DEF EndPass, VolumeOK, TypedWorld

LEMMA SpawnType == ASSUME TypeOK, NEW c \in Box, Spawn(c) PROVE TypeOK'
<1>1. box' \in [Box -> BoxSet]
  <2> DEFINE b == [box[c] EXCEPT !.pc = "booting", !.init = (data = "none")]
  <2>1. box[c] \in BoxSet
    BY TypeParts
  <2>2. b \in BoxSet
    BY <2>1, TypeParts DEF BoxSet, Phases
  <2>3. box' = [box EXCEPT ![c] = b]
    BY TypeParts DEF Spawn, BoxSet
  <2>4. QED BY <2>2, <2>3, UpdateType
<1>2. VolumeOK'
  <2>1. box[c].image \in Nat
    BY TypeParts DEF BoxSet
  <2>2. version' \in [opened : Nat, by : BOOLEAN, stepped : Nat, blocked : BOOLEAN, served : Nat]
    BY <2>1, TypeParts DEF Spawn, VolumeOK
  <2>3. data' \in {data, "debris"}
    BY DEF Spawn
  <2>4. QED BY <2>2, <2>3, TypeParts DEF Spawn, VolumeOK
<1>3. QED BY <1>1, <1>2, TypeParts, TypeNext DEF Spawn, VolumeOK, TypedWorld

LEMMA InitDoneType == ASSUME TypeOK, NEW c \in Box, InitDone(c) PROVE TypeOK'
<1>1. box' \in [Box -> BoxSet]
  BY TypeParts DEF InitDone
<1>2. VolumeOK'
  BY TypeParts DEF InitDone, VolumeOK, BoxSet, Unopened
<1>3. QED BY <1>1, <1>2, TypeParts, TypeNext DEF InitDone, VolumeOK, TypedWorld

LEMMA AnswerType == ASSUME TypeOK, NEW c \in Box, Answer(c) PROVE TypeOK'
<1>1. box' \in [Box -> BoxSet]
  BY MovesType DEF Answer, Phases
<1>2. VolumeOK'
  BY TypeParts DEF Answer, VolumeOK, BoxSet
<1>3. QED BY <1>1, <1>2, TypeParts, TypeNext DEF Answer, VolumeOK, TypedWorld

LEMMA LandLedgerType == ASSUME TypeOK, NEW c \in Box, LandLedger(c) PROVE TypeOK'
<1>1. box' \in [Box -> BoxSet]
  BY TypeParts DEF LandLedger, BoxSet
<1>2. VolumeOK'
  BY TypeParts DEF LandLedger, VolumeOK, BoxSet
<1>3. QED BY <1>1, <1>2, TypeParts, TypeNext DEF LandLedger, VolumeOK, TypedWorld

LEMMA ReadyType == ASSUME TypeOK, NEW c \in Box, Ready(c) PROVE TypeOK'
<1>1. box' \in [Box -> BoxSet]
  <2> DEFINE b == [box[c] EXCEPT !.ready = TRUE, !.pend = 0]
  <2>1. box[c] \in BoxSet
    BY TypeParts
  <2>2. b \in BoxSet
    BY <2>1, TypeParts DEF BoxSet
  <2>3. box' = [box EXCEPT ![c] = b]
    BY TypeParts DEF Ready, BoxSet
  <2>4. QED BY <2>2, <2>3, UpdateType
<1>2. VolumeOK'
  BY TypeParts, ConstantsType DEF Ready, VolumeOK, BoxSet
<1>3. past' \in PastSet
  <2>1. PICK f \in {0, past.failed, Up(past.failed)}, d \in {0, past.discards} :
           past' = [past EXCEPT !.failed = f, !.discards = d]
    BY DEF Ready
  <2>2. f \in 0 .. Top /\ d \in Nat
    BY TypeParts, ConstantsType, UpType DEF PastSet
  <2>3. QED BY <2>1, <2>2, TypeParts DEF PastSet
<1>4. trouble' \in 0 .. MaxTrouble
  BY TroubleType DEF Ready
<1>5. QED BY <1>1, <1>2, <1>3, <1>4, TypeParts, TypeNext DEF Ready, VolumeOK, TypedWorld

LEMMA RecordServedType == ASSUME TypeOK, NEW c \in Box, RecordServed(c) PROVE TypeOK'
<1>1. box' \in [Box -> BoxSet]
  BY TypeParts DEF RecordServed
<1>2. VolumeOK'
  BY TypeParts DEF RecordServed, VolumeOK, BoxSet
<1>3. QED BY <1>1, <1>2, TypeParts, TypeNext DEF RecordServed, VolumeOK, TypedWorld

LEMMA StuckHealType == ASSUME TypeOK, NEW c \in Box, StuckHeal(c) PROVE TypeOK'
<1>1. ledger \in Nat /\ ledger + 1 \in Nat
  BY TypeParts DEF StuckHeal, Stuck, Spent, VolumeOK
<1>2. box' \in [Box -> BoxSet]
  <2>1. PICK p \in {box[c].pend, ledger + 1} :
           \/ box' = [box EXCEPT ![c] = [box[c] EXCEPT !.pc = "cloning", !.heal = ledger + 1,
                                                        !.pend = p]]
           \/ UNCHANGED box
    BY TypeParts DEF StuckHeal, BoxSet
  <2>2. box[c] \in BoxSet /\ p \in Nat
    BY <1>1, TypeParts DEF BoxSet
  <2>3. [box[c] EXCEPT !.pc = "cloning", !.heal = ledger + 1, !.pend = p] \in BoxSet
    BY <1>1, <2>2 DEF BoxSet, Phases
  <2>4. QED BY <2>1, <2>3, TypeParts, UpdateType
<1>3. VolumeOK'
  BY <1>1, TypeParts DEF StuckHeal, VolumeOK
<1>4. past' \in PastSet
  BY TypeParts DEF StuckHeal, PastSet
<1>5. TypedWorld'
  <2>1. trouble' \in 0 .. MaxTrouble
    BY TroubleType DEF StuckHeal
  <2>2. QED BY <2>1, TypeParts DEF StuckHeal, TypedWorld
<1>6. QED BY <1>2, <1>3, <1>4, <1>5, TypeNext

LEMMA CloneLandsType == ASSUME TypeOK, NEW c \in Box, CloneLands(c) PROVE TypeOK'
<1>1. box' \in [Box -> BoxSet]
  <2>1. PICK p \in {box[c].pend, box[c].heal} :
           box' = [box EXCEPT ![c] = [box[c] EXCEPT !.pc = "cloned", !.pend = p]]
    BY TypeParts DEF CloneLands, Moves, BoxSet
  <2>2. [box[c] EXCEPT !.pc = "cloned", !.pend = p] \in BoxSet
    <3>1. box[c] \in BoxSet
      BY TypeParts
    <3>2. p \in Nat
      BY <3>1 DEF BoxSet
    <3>3. QED BY <3>1, <3>2 DEF BoxSet, Phases
  <2>3. QED BY <2>1, <2>2, UpdateType
<1>2. VolumeOK'
  <2>1. ledger' \in Nat \cup {Torn} /\ attempts' \in 0 .. Top /\ lockfile' \in Nat
    BY TypeParts, ConstantsType DEF CloneLands, VolumeOK
  <2>2. version' \in [opened : Nat, by : BOOLEAN, stepped : Nat, blocked : BOOLEAN,
                      served : Nat]
    <3>1. CASE version' = [version EXCEPT !.blocked = FALSE, !.stepped = version.opened]
      BY <3>1, TypeParts DEF VolumeOK
    <3>2. CASE version' = [version EXCEPT !.blocked = FALSE, !.stepped = version.opened,
                                          !.served = 0]
      BY <3>2, TypeParts DEF VolumeOK
    <3>3. QED BY <3>1, <3>2 DEF CloneLands
  <2>3. QED BY <2>1, <2>2, TypeParts DEF CloneLands, VolumeOK
<1>3. past' \in PastSet
  <2>1. CASE past' = past
    BY <2>1, TypeParts
  <2>2. CASE \E d \in {0, past.discards} : past' = [past EXCEPT !.unlocked = TRUE, !.discards = d]
    <3>1. past.discards \in Nat /\ past \in PastSet
      BY TypeParts DEF PastSet
    <3>2. PICK d \in Nat : past' = [past EXCEPT !.unlocked = TRUE, !.discards = d]
      BY <2>2, <3>1
    <3>3. QED BY <3>1, <3>2 DEF PastSet
  <2>3. QED BY <2>1, <2>2 DEF CloneLands
<1>4. trouble' \in 0 .. MaxTrouble
  BY TroubleType DEF CloneLands
<1>5. QED BY <1>1, <1>2, <1>3, <1>4, TypeParts, TypeNext DEF CloneLands, TypedWorld

LEMMA CloneEndsType == ASSUME TypeOK, NEW c \in Box, CloneEnds(c) PROVE TypeOK'
<1>1. box' \in [Box -> BoxSet]
  BY TypeParts, OffType DEF CloneEnds
<1>2. VolumeOK'
  <2>1. ledger' \in {ledger, box[c].heal} /\ box[c].heal \in Nat
    BY TypeParts DEF CloneEnds, BoxSet
  <2>2. QED BY <2>1, TypeParts DEF CloneEnds, VolumeOK
<1>3. past' \in PastSet
  BY RememberedType, TypeParts DEF CloneEnds, PastSet
<1>4. QED BY <1>1, <1>2, <1>3, TypeParts, TypeNext DEF CloneEnds, TypedWorld

LEMMA HealthyHourType == ASSUME TypeOK, NEW c \in Box, HealthyHour(c) PROVE TypeOK'
<1>1. box' \in [Box -> BoxSet]
  BY TypeParts DEF HealthyHour
<1>2. VolumeOK'
  BY TypeParts DEF HealthyHour, VolumeOK
<1>3. past' \in PastSet
  BY TypeParts DEF HealthyHour, PastSet
<1>4. QED BY <1>1, <1>2, <1>3, TypeParts, TypeNext DEF HealthyHour, VolumeOK, TypedWorld

LEMMA AroundType ==
    ASSUME TypeOK, Wedge \/ Decay \/ Surroundings \/ BackoffOver
    PROVE  TypeOK'
<1>1. CASE Wedge
  BY <1>1, TroubleType, TypeParts, TypeNext DEF Wedge, VolumeOK, TypedWorld
<1>2. CASE Decay
  <2>1. VolumeOK'
    BY <1>2, TypeParts DEF Decay, VolumeOK
  <2>2. past' \in PastSet
    BY <1>2, TypeParts DEF Decay, PastSet
  <2>3. trouble' \in 0 .. MaxTrouble
    BY <1>2, TroubleType DEF Decay
  <2>4. QED BY <1>2, <2>1, <2>2, <2>3, TypeParts, TypeNext DEF Decay, TypedWorld
<1>3. CASE Surroundings
  <2>1. TypedWorld'
    <3>1. trouble' \in 0 .. MaxTrouble
      BY <1>3, TroubleType DEF Surroundings
    <3>2. env' \in [kind : {"ha", "fork"}, reverted : BOOLEAN, image : Nat,
                    peer : BOOLEAN, backoff : BOOLEAN]
      <4>1. \/ env' = [env EXCEPT !.peer = ~ env.peer]
            \/ env' = [env EXCEPT !.reverted = ~ env.reverted]
            \/ env' = [env EXCEPT !.image = env.image + 1]
        BY <1>3 DEF Surroundings
      <4>2. env.image + 1 \in Nat
        BY TypeParts DEF TypedWorld
      <4>3. QED BY <4>1, <4>2, TypeParts DEF TypedWorld
    <3>3. QED BY <3>1, <3>2 DEF TypedWorld
  <2>2. QED BY <1>3, <2>1, TypeParts, TypeNext DEF Surroundings, VolumeOK
<1>4. CASE BackoffOver
  BY <1>4, TypeParts, TypeNext DEF BackoffOver, VolumeOK, TypedWorld
<1>5. QED BY <1>1, <1>2, <1>3, <1>4

LEMMA NextType == ASSUME TypeOK, [Next]_vars PROVE TypeOK'
<1>1. ASSUME NEW c \in Box, Boots(c) PROVE TypeOK'
  BY <1>1, StartType, AcquireType, GiveUpWaitingType, RefuseType, ResetRestoreType, ProceedType,
     CountBootType, HealType, BeginRestoreType, MarkRestoreType, LoadFullType,
     ReplayAndStopType, CompleteRestoreType, RestoreEndsType, RestoreEndsUnmarkedType,
     BeginPassType, EndPassType, SpawnType, InitDoneType, AnswerType, BootFailsType,
     OverBudgetType, LandLedgerType, ReadyType, RecordServedType, JoinCloneType,
     StuckHealType, CloneLandsType, CloneEndsType, HandBackType, HealthyHourType
     DEF Boots
<1>2. ASSUME NEW c \in Box, Kill(c) \/ Stop(c) PROVE TypeOK'
  BY <1>2, KillType, StopType
<1>3. CASE Wedge \/ Decay \/ Surroundings \/ BackoffOver
  BY <1>3, AroundType
<1>4. CASE UNCHANGED vars
  BY <1>4 DEF vars, TypeOK, BoxOK, VolumeOK, WorldOK
<1>5. QED BY <1>1, <1>2, <1>3, <1>4 DEF Next

\* TypeOK, over the records of every boot, wipe, restore and clone.
THEOREM TypeCorrect == Spec => []TypeOK
<1>1. Init => TypeOK
  BY InitTypeOK
<1>2. TypeOK /\ [Next]_vars => TypeOK'
  BY NextType
<1>3. QED BY <1>1, <1>2, PTL DEF Spec

-----------------------------------------------------------------------------
(* The lock.  While every container could open the lock file and no heal   *)
(* has removed it, whoever is past the lock, or waits for it, has opened   *)
(* the one inode at its path.                                              *)

LockInv ==
    ~ past.unlocked =>
        /\ ~ past.overlap
        /\ \A c \in Box : box[c].pc # "off" => box[c].lock = lockfile /\ lockfile # 0
        /\ \A c, d \in Box : Inside(c) /\ Inside(d) => c = d

\* What every step but opening, taking and removing the lock does to it.
KeepsLock ==
    /\ lockfile' = lockfile
    /\ past'.unlocked = past.unlocked /\ past'.overlap = past.overlap
    /\ \A d \in Box : \/ box'[d].pc = "off"
                       \/ /\ box'[d].lock = box[d].lock
                          /\ \/ box'[d].pc = box[d].pc
                             \/ Inside(d) /\ box'[d].pc \notin {"off", "waiting"}

LEMMA KeepsLockInv == ASSUME LockInv, KeepsLock PROVE LockInv'
BY DEF LockInv, KeepsLock, Inside

LEMMA EndsKeepsLock ==
    ASSUME TypeOK, NEW c \in Box, NEW planned \in BOOLEAN, Ends(c, planned), lockfile' = lockfile
    PROVE  KeepsLock
BY TypeParts DEF Ends, Remembered, KeepsLock, Off

LEMMA MovesKeepsLock ==
    ASSUME TypeOK, NEW c \in Box, NEW pc, Moves(c, pc), Inside(c), pc \notin {"off", "waiting"},
           UNCHANGED <<lockfile, past>>
    PROVE  KeepsLock
BY TypeParts DEF Moves, KeepsLock, BoxSet

QuietBoot(c) ==
    \/ GiveUpWaiting(c) \/ Refuse(c) \/ ResetRestore(c) \/ Proceed(c) \/ CountBoot(c)
    \/ BeginRestore(c) \/ MarkRestore(c) \/ LoadFull(c) \/ ReplayAndStop(c)
    \/ CompleteRestore(c) \/ RestoreEnds(c) \/ RestoreEndsUnmarked(c)
    \/ BeginPass(c) \/ EndPass(c) \/ Spawn(c) \/ InitDone(c) \/ Answer(c)
    \/ BootFails(c) \/ OverBudget(c) \/ LandLedger(c) \/ Ready(c) \/ RecordServed(c)
    \/ JoinClone(c) \/ StuckHeal(c) \/ CloneEnds(c) \/ HandBack(c) \/ HealthyHour(c)
    \/ Kill(c) \/ Stop(c)

LEMMA QuietKeepsLock == ASSUME TypeOK, NEW c \in Box, QuietBoot(c) PROVE KeepsLock
<1>1. CASE GiveUpWaiting(c)
  BY <1>1, EndsKeepsLock DEF GiveUpWaiting
<1>2. CASE Refuse(c)
  BY <1>2, EndsKeepsLock DEF Refuse
<1>3. CASE RestoreEndsUnmarked(c)
  BY <1>3, EndsKeepsLock DEF RestoreEndsUnmarked
<1>4. CASE BootFails(c)
  BY <1>4, EndsKeepsLock DEF BootFails
<1>5. CASE OverBudget(c)
  BY <1>5, EndsKeepsLock DEF OverBudget
<1>6. CASE Kill(c)
  BY <1>6, EndsKeepsLock DEF Kill
<1>7. CASE Stop(c)
  BY <1>7, EndsKeepsLock DEF Stop
<1>8. CASE ResetRestore(c)
  BY <1>8, MovesKeepsLock DEF ResetRestore, Inside
<1>9. CASE Proceed(c)
  BY <1>9, MovesKeepsLock DEF Proceed, Inside
<1>10. CASE MarkRestore(c)
  BY <1>10, TypeParts DEF MarkRestore, Moves, KeepsLock, BoxSet, PastSet, Inside
<1>11. CASE ReplayAndStop(c)
  BY <1>11, MovesKeepsLock DEF ReplayAndStop, Inside
<1>12. CASE CompleteRestore(c)
  BY <1>12, MovesKeepsLock DEF CompleteRestore, Inside
<1>13. CASE BeginPass(c)
  BY <1>13, MovesKeepsLock DEF BeginPass, Booted, Inside
<1>14. CASE EndPass(c)
  BY <1>14, MovesKeepsLock DEF EndPass, Inside
<1>15. CASE Answer(c)
  BY <1>15, MovesKeepsLock DEF Answer, Inside
<1>16. CASE JoinClone(c)
  BY <1>16, MovesKeepsLock DEF JoinClone, Inside
<1>17. CASE HandBack(c)
  BY <1>17, TypeParts DEF HandBack, KeepsLock, BoxSet, PastSet, Inside
<1>18. CASE LoadFull(c)
  BY <1>18 DEF LoadFull, KeepsLock
<1>19. CASE InitDone(c)
  BY <1>19 DEF InitDone, KeepsLock
<1>20. CASE RecordServed(c)
  BY <1>20 DEF RecordServed, KeepsLock
<1>21. CASE HealthyHour(c)
  BY <1>21 DEF HealthyHour, KeepsLock
<1>22. CASE CountBoot(c)
  BY <1>22, TypeParts DEF CountBoot, KeepsLock, BoxSet, PastSet, Inside
<1>23. CASE BeginRestore(c)
  BY <1>23, TypeParts DEF BeginRestore, KeepsLock, BoxSet, PastSet, Inside
<1>24. CASE Spawn(c)
  BY <1>24, TypeParts DEF Spawn, KeepsLock, BoxSet, PastSet, Booted, Inside
<1>25. CASE LandLedger(c)
  BY <1>25, TypeParts DEF LandLedger, KeepsLock, BoxSet, PastSet, Inside
<1>26. CASE Ready(c)
  BY <1>26, TypeParts DEF Ready, KeepsLock, BoxSet, PastSet, Answered, Inside
<1>27. CASE StuckHeal(c)
  BY <1>27, TypeParts DEF StuckHeal, Stuck, KeepsLock, BoxSet, PastSet, Inside
<1>28. CASE RestoreEnds(c)
  BY <1>28, TypeParts DEF RestoreEnds, Tried, KeepsLock, PastSet, Off
<1>29. CASE CloneEnds(c)
  BY <1>29, RememberedType, TypeParts DEF CloneEnds, KeepsLock, Remembered, Off, PastSet
<1>30. QED
  BY <1>1, <1>2, <1>3, <1>4, <1>5, <1>6, <1>7, <1>8, <1>9, <1>10, <1>11, <1>12, <1>13, <1>14,
     <1>15, <1>16, <1>17, <1>18, <1>19, <1>20, <1>21, <1>22, <1>23, <1>24, <1>25, <1>26, <1>27, <1>28, <1>29
     DEF QuietBoot

LEMMA StartLock == ASSUME TypeOK, LockInv, NEW c \in Box, Start(c) PROVE LockInv'
<1> SUFFICES ASSUME ~ past'.unlocked PROVE LockInv'
  BY DEF LockInv
<1> DEFINE ino == IF lockfile = 0 THEN NewInode ELSE lockfile
           boot == [Off EXCEPT !.mode = Deployed, !.image = env.image]
           b == [boot EXCEPT !.pc = "waiting", !.lock = ino]
<1>1. /\ lockfile' = ino /\ box' = [box EXCEPT ![c] = b] /\ UNCHANGED past
  BY TypeParts DEF Start, PastSet
<1>2. ino # 0
  BY NewInodeIsNew DEF TypeOK
<1>3. b.pc = "waiting" /\ b.lock = ino
  BY DEF Off
<1>4. \A d \in Box : box[d].pc # "off" => box[d].lock = ino
  BY <1>1 DEF LockInv
<1>5. \A d \in Box : box'[d] = IF d = c THEN b ELSE box[d]
  BY <1>1, TypeParts
<1> HIDE DEF b
<1>6. QED BY <1>1, <1>2, <1>3, <1>4, <1>5 DEF LockInv, Inside

LEMMA AcquireLock == ASSUME TypeOK, LockInv, NEW c \in Box, Acquire(c) PROVE LockInv'
<1> SUFFICES ASSUME ~ past.unlocked PROVE LockInv'
  BY TypeParts DEF LockInv, Acquire, PastSet
<1>1. \A d \in Box : ~ Inside(d)
  BY DEF Acquire, LockInv, LockedBy, Inside
<1>2. ~ Together(c)
  BY <1>1 DEF Together
<1>3. ~ past'.overlap
  BY <1>2, TypeParts DEF Acquire, LockInv, PastSet
<1>4. \A d \in Box : /\ box'[d].lock = box[d].lock
                     /\ box'[d].pc = IF d = c THEN "locked" ELSE box[d].pc
  BY TypeParts DEF Acquire, Moves, BoxSet
<1>5. QED BY <1>1, <1>3, <1>4 DEF Acquire, LockInv, Inside

LEMMA HealLock == ASSUME TypeOK, NEW c \in Box, Heal(c) PROVE LockInv'
BY TypeParts DEF Heal, LockInv, PastSet

LEMMA CloneLandsLock ==
    ASSUME TypeOK, LockInv, NEW c \in Box, CloneLands(c) PROVE LockInv'
<1>1. CASE lockfile' # lockfile \/ past' # past
  BY <1>1, TypeParts DEF CloneLands, LockInv, PastSet
<1>2. CASE lockfile' = lockfile /\ past' = past
  <2>1. KeepsLock
    BY <1>2, TypeParts DEF CloneLands, Moves, KeepsLock, BoxSet, Inside
  <2>2. QED BY <2>1, KeepsLockInv
<1>3. QED BY <1>1, <1>2

LEMMA AroundKeepsLock ==
    ASSUME TypeOK, Wedge \/ Decay \/ Surroundings \/ BackoffOver
    PROVE  KeepsLock
BY TypeParts DEF Wedge, Decay, Surroundings, BackoffOver, KeepsLock, PastSet

LEMMA NextLock == ASSUME TypeOK, LockInv, [Next]_vars PROVE LockInv'
<1>1. ASSUME NEW c \in Box, QuietBoot(c) PROVE LockInv'
  BY <1>1, QuietKeepsLock, KeepsLockInv
<1>2. ASSUME NEW c \in Box, Start(c) \/ Acquire(c) \/ Heal(c) \/ CloneLands(c) PROVE LockInv'
  BY <1>2, StartLock, AcquireLock, HealLock, CloneLandsLock
<1>3. CASE Wedge \/ Decay \/ Surroundings \/ BackoffOver
  BY <1>3, AroundKeepsLock, KeepsLockInv
<1>4. CASE UNCHANGED vars
  BY <1>4 DEF vars, LockInv, Inside
<1>5. QED BY <1>1, <1>2, <1>3, <1>4 DEF Next, Boots, QuietBoot

\* LockSeparates: two supervisors on one volume take a lock file that could not be
\* opened, or one that a heal or a clone removed, whatever else is killed or wiped when.
THEOREM LockHolds == Spec => []LockSeparates
<1>1. Init => LockInv
  BY DEF Init, LockInv, Off, Inside
<1>2. TypeOK /\ LockInv /\ [Next]_vars => LockInv'
  BY NextLock
<1>3. LockInv => LockSeparates
  BY DEF LockInv, LockSeparates
<1>4. QED BY <1>1, <1>2, <1>3, TypeCorrect, PTL DEF Spec

-----------------------------------------------------------------------------
(* The self-heal cap.  The ledger, or the bumped count that a boot or the   *)
(* stuck_watch still remembers, is at least the discards on record.        *)

Restoring == {"restoring", "loading", "restored"}
Pending(c) == box[c].pend # 0

Holder(c) ==
    /\ Pending(c) => box[c].pc \notin {"off", "waiting", "locked"} /\ box[c].mode = "ha"
    /\ box[c].pc # "off" => box[c].mode \in {env.kind, "alone"}
    /\ box[c].pc \in Restoring => box[c].mode = "fork"
    /\ box[c].ready => box[c].pc \notin {"off", "waiting", "locked"}
    /\ Pending(c) /\ box[c].ready => box[c].heal # 0
    /\ box[c].heal # 0 => box[c].pc \in {"cloning", "cloned"} /\ box[c].mode = "ha"

HoldersInv == \A c \in Box : Holder(c)

CountInv ==
    /\ past.discards <= HealCap
    /\ \A c \in Box : /\ Pending(c) => past.discards <= box[c].pend
                      /\ box[c].heal # 0 => past.discards <= box[c].heal
    /\ (\A c \in Box : ~ Pending(c)) => ledger = Torn \/ past.discards <= ledger

BudgetInv ==
    /\ HoldersInv
    /\ env.kind # "ha" => past.discards = 0
    /\ ~ past.overlap => /\ \A c, d \in Box : Inside(c) /\ Inside(d) => c = d
                        /\ CountInv

\* What the steps that neither discard nor count nor take the lock do to it.
KeepsBudget ==
    /\ env'.kind = env.kind /\ past'.overlap = past.overlap
    /\ ledger' \in {ledger, Torn}
    /\ past'.discards \in {past.discards, 0}
    /\ \A d \in Box :
         \/ box'[d] = Off /\ (Pending(d) => past'.discards = 0)
         \/ /\ box'[d].mode = box[d].mode /\ box'[d].pend = box[d].pend
            /\ box'[d].heal = box[d].heal /\ box'[d].ready = box[d].ready
            /\ \/ box'[d].pc = box[d].pc
               \/ /\ Inside(d) /\ box'[d].pc \notin {"off", "waiting", "locked"}
                  /\ box'[d].pc \in Restoring => box[d].mode = "fork"
                  /\ \/ box[d].heal = 0 \/ box[d].pc \notin {"cloning", "cloned"}
                     \/ box'[d].pc = "cloned"

LEMMA KeepsBudgetInv == ASSUME TypeOK, TypeOK', BudgetInv, KeepsBudget PROVE BudgetInv'
<1>1. HoldersInv'
  <2> SUFFICES ASSUME NEW d \in Box PROVE Holder(d)'
    BY DEF HoldersInv
  <2>1. CASE box'[d] = Off
    BY <2>1 DEF Off, Holder, Pending, Restoring
  <2>2. CASE box'[d] # Off
    BY <2>2 DEF BudgetInv, HoldersInv, Holder, KeepsBudget, Pending, Inside
  <2>3. QED BY <2>1, <2>2
<1>2. env'.kind # "ha" => past'.discards = 0
  BY DEF BudgetInv, KeepsBudget
<1>3. ASSUME ~ past'.overlap, NEW c \in Box, NEW d \in Box, Inside(c)', Inside(d)'
      PROVE  c = d
  BY <1>3 DEF BudgetInv, KeepsBudget, Inside, Off
<1>4. ASSUME ~ past'.overlap PROVE CountInv'
  <2>1. CASE past'.discards = 0
    <3>1. ledger' = Torn \/ ledger' \in Nat
      BY DEF TypeOK, VolumeOK
    <3>2. \A c \in Box : box'[c].pend \in Nat /\ box'[c].heal \in Nat
      BY DEF TypeOK, BoxOK
    <3>3. QED BY <2>1, <3>1, <3>2, ConstantsType DEF CountInv
  <2>2. CASE past'.discards = past.discards /\ past'.discards # 0
    <3>1. \A d \in Box : box'[d].pend = box[d].pend /\ box'[d].heal \in {box[d].heal, 0}
      BY <2>2 DEF KeepsBudget, Pending, Off
    <3>2. CountInv
      BY <1>4 DEF BudgetInv, KeepsBudget
    <3>3. QED BY <2>2, <3>1, <3>2 DEF CountInv, KeepsBudget, Pending
  <2>3. QED BY <2>1, <2>2 DEF KeepsBudget
<1>5. QED BY <1>1, <1>2, <1>3, <1>4 DEF BudgetInv

LEMMA EndsKeepsBudget ==
    ASSUME TypeOK, NEW c \in Box, NEW planned \in BOOLEAN, Ends(c, planned),
           UNCHANGED <<ledger, env>>
    PROVE  KeepsBudget
BY TypeParts DEF Ends, Remembered, KeepsBudget, Pending

LEMMA MovesKeepsBudget ==
    ASSUME TypeOK, NEW c \in Box, NEW pc, Moves(c, pc), Inside(c),
           pc \notin {"off", "waiting", "locked"}, pc \in Restoring => box[c].mode = "fork",
           box[c].pc = "cloning" => pc = "cloned", box[c].pc # "cloned",
           UNCHANGED <<ledger, env>>,
           past'.overlap = past.overlap, past'.discards = past.discards
    PROVE  KeepsBudget
BY TypeParts DEF Moves, KeepsBudget, BoxSet

QuietBudget(c) ==
    \/ GiveUpWaiting(c) \/ Refuse(c) \/ RestoreEndsUnmarked(c) \/ BootFails(c)
    \/ OverBudget(c) \/ Kill(c) \/ Stop(c)
    \/ Proceed(c) \/ MarkRestore(c) \/ ReplayAndStop(c) \/ CompleteRestore(c)
    \/ BeginPass(c) \/ EndPass(c) \/ Answer(c) \/ JoinClone(c)
    \/ LoadFull(c) \/ InitDone(c) \/ RecordServed(c)
    \/ CountBoot(c) \/ BeginRestore(c) \/ Spawn(c) \/ RestoreEnds(c)

LEMMA QuietKeepsBudget ==
    ASSUME TypeOK, BudgetInv, NEW c \in Box, QuietBudget(c)
    PROVE  KeepsBudget
<1>1. CASE GiveUpWaiting(c)
  BY <1>1, EndsKeepsBudget DEF GiveUpWaiting
<1>2. CASE Refuse(c)
  BY <1>2, EndsKeepsBudget DEF Refuse
<1>3. CASE RestoreEndsUnmarked(c)
  BY <1>3, EndsKeepsBudget DEF RestoreEndsUnmarked
<1>4. CASE BootFails(c)
  BY <1>4, EndsKeepsBudget DEF BootFails
<1>5. CASE OverBudget(c)
  BY <1>5, EndsKeepsBudget DEF OverBudget, StepCut
<1>6. CASE Kill(c)
  BY <1>6, EndsKeepsBudget DEF Kill, Broken, StepCut, CloneCut
<1>7. CASE Stop(c)
  BY <1>7, EndsKeepsBudget DEF Stop, Broken, StepCut, CloneCut
<1>8. CASE Proceed(c)
  BY <1>8, MovesKeepsBudget DEF Proceed, Inside, Restoring
<1>9. CASE MarkRestore(c)
  BY <1>9, TypeParts, MovesKeepsBudget
     DEF MarkRestore, Inside, Restoring, BudgetInv, HoldersInv, Holder, PastSet
<1>10. CASE CompleteRestore(c)
  BY <1>10, MovesKeepsBudget DEF CompleteRestore, Inside, Restoring
<1>11. CASE BeginPass(c)
  BY <1>11, MovesKeepsBudget DEF BeginPass, Inside, Restoring, Booted
<1>12. CASE EndPass(c)
  BY <1>12, MovesKeepsBudget DEF EndPass, Inside, Restoring
<1>13. CASE Answer(c)
  BY <1>13, MovesKeepsBudget DEF Answer, Inside, Restoring
<1>14. CASE JoinClone(c)
  BY <1>14, MovesKeepsBudget DEF JoinClone, Inside, Restoring
<1>15. CASE ReplayAndStop(c)
  BY <1>15, MovesKeepsBudget DEF ReplayAndStop, Inside, Restoring, BudgetInv, HoldersInv, Holder
<1>16. CASE LoadFull(c)
  BY <1>16 DEF LoadFull, KeepsBudget
<1>17. CASE InitDone(c)
  BY <1>17 DEF InitDone, KeepsBudget
<1>18. CASE RecordServed(c)
  BY <1>18 DEF RecordServed, KeepsBudget
<1>19. CASE CountBoot(c)
  BY <1>19, TypeParts DEF CountBoot, KeepsBudget, BoxSet, PastSet, Inside, Restoring
<1>20. CASE BeginRestore(c)
  BY <1>20, TypeParts DEF BeginRestore, KeepsBudget, BoxSet, PastSet, Inside, Restoring
<1>21. CASE Spawn(c)
  BY <1>21, TypeParts DEF Spawn, KeepsBudget, BoxSet, PastSet, Inside, Restoring, Booted
<1>22. CASE RestoreEnds(c)
  BY <1>22, TypeParts
     DEF RestoreEnds, Tried, KeepsBudget, BudgetInv, HoldersInv, Holder, Restoring, Pending, PastSet
<1>23. QED
  BY <1>1, <1>2, <1>3, <1>4, <1>5, <1>6, <1>7, <1>8, <1>9, <1>10, <1>11, <1>12, <1>13, <1>14,
     <1>15, <1>16, <1>17, <1>18, <1>19, <1>20, <1>21, <1>22
     DEF QuietBudget

LEMMA StartBudget == ASSUME TypeOK, BudgetInv, NEW c \in Box, Start(c) PROVE BudgetInv'
<1> DEFINE boot == [Off EXCEPT !.mode = Deployed, !.image = env.image]
<1>1. PICK b : /\ box' = [box EXCEPT ![c] = b]
               /\ b.pc \in {"waiting", "locked"} /\ b.mode = Deployed /\ b.pend = 0 /\ b.heal = 0
               /\ ~ b.ready
               /\ b.pc = "locked" => past'.overlap = (past.overlap \/ Together(c))
               /\ b.pc = "waiting" => past'.overlap = past.overlap
               /\ past'.discards = past.discards
  <2> DEFINE ino == IF lockfile = 0 THEN NewInode ELSE lockfile
  <2>1. CASE /\ box' = [box EXCEPT ![c] = [boot EXCEPT !.pc = "waiting", !.lock = ino]]
             /\ UNCHANGED past
    <3> DEFINE w == [boot EXCEPT !.pc = "waiting", !.lock = ino]
    <3>1. w.pc = "waiting" /\ w.mode = Deployed /\ w.pend = 0 /\ w.heal = 0 /\ ~ w.ready
      BY DEF Off
    <3> HIDE DEF w
    <3>2. box' = [box EXCEPT ![c] = w]
      BY <2>1 DEF w
    <3>3. QED BY <2>1, <3>1, <3>2
  <2>2. CASE /\ box' = [box EXCEPT ![c] = [boot EXCEPT !.pc = "locked"]]
             /\ past' = [past EXCEPT !.unlocked = TRUE, !.overlap = past.overlap \/ Together(c)]
    <3> DEFINE w == [boot EXCEPT !.pc = "locked"]
    <3>1. w.pc = "locked" /\ w.mode = Deployed /\ w.pend = 0 /\ w.heal = 0 /\ ~ w.ready
      BY DEF Off
    <3>2. past'.overlap = (past.overlap \/ Together(c)) /\ past'.discards = past.discards
      BY <2>2, TypeParts DEF PastSet
    <3> HIDE DEF w
    <3>3. box' = [box EXCEPT ![c] = w]
      BY <2>2 DEF w
    <3>4. QED BY <3>1, <3>2, <3>3
  <2>3. QED BY <2>1, <2>2 DEF Start
<1>2. \A d \in Box : box'[d] = IF d = c THEN b ELSE box[d]
  BY <1>1, TypeParts
<1>3. ~ Pending(c) /\ ~ Inside(c)
  BY DEF Start, BudgetInv, HoldersInv, Holder, Inside
<1>4. UNCHANGED <<env, data, ledger>>
  BY DEF Start
<1>5. HoldersInv'
  BY <1>1, <1>2, <1>4 DEF BudgetInv, HoldersInv, Holder, Pending, Restoring, Deployed
<1>6. ASSUME ~ past'.overlap PROVE ~ past.overlap /\ CountInv'
  <2>1. ~ past.overlap
    BY <1>1, <1>6, TypeParts DEF PastSet
  <2>2. \A d \in Box : box'[d].pend = box[d].pend /\ box'[d].heal \in {box[d].heal, 0}
    BY <1>1, <1>2, <1>3 DEF Pending
  <2>3. QED BY <1>1, <1>4, <2>1, <2>2 DEF BudgetInv, CountInv, Pending
<1>7. ASSUME ~ past'.overlap, NEW d \in Box, NEW e \in Box, Inside(d)', Inside(e)'
      PROVE  d = e
  <2>1. CASE b.pc = "waiting"
    BY <1>2, <1>6, <1>7, <2>1 DEF BudgetInv, Inside
  <2>2. CASE b.pc = "locked"
    <3>1. ~ Together(c)
      BY <1>1, <1>7, <2>2, TypeParts DEF PastSet
    <3>2. \A f \in Box \ {c} : ~ Inside(f)
      BY <3>1 DEF Together
    <3>3. QED BY <1>2, <1>7, <3>2 DEF Inside
  <2>3. QED BY <1>1, <2>1, <2>2
<1>8. QED BY <1>1, <1>4, <1>5, <1>6, <1>7 DEF BudgetInv

LEMMA AcquireBudget == ASSUME TypeOK, BudgetInv, NEW c \in Box, Acquire(c) PROVE BudgetInv'
<1>1. \A d \in Box : /\ box'[d].mode = box[d].mode /\ box'[d].pend = box[d].pend
                     /\ box'[d].heal = box[d].heal /\ box'[d].ready = box[d].ready
                     /\ box'[d].pc = IF d = c THEN "locked" ELSE box[d].pc
  BY TypeParts DEF Acquire, Moves, BoxSet
<1>2. past'.overlap = (past.overlap \/ Together(c)) /\ past'.discards = past.discards
  BY TypeParts DEF Acquire, PastSet
<1>3. UNCHANGED <<env, data, ledger>>
  BY DEF Acquire
<1>4. HoldersInv'
  BY <1>1, <1>3 DEF Acquire, BudgetInv, HoldersInv, Holder, Pending, Restoring
<1>5. ~ past'.overlap => CountInv'
  BY <1>1, <1>2, <1>3 DEF BudgetInv, CountInv, Pending
<1>6. ASSUME ~ past'.overlap, NEW d \in Box, NEW e \in Box, Inside(d)', Inside(e)'
      PROVE  d = e
  <2>1. ~ past.overlap /\ ~ Together(c)
    BY <1>2, <1>6
  <2>2. \A f \in Box \ {c} : ~ Inside(f)
    BY <2>1 DEF Together
  <2>3. \A f \in Box \ {c} : ~ Inside(f)'
    BY <1>1, <2>2 DEF Inside
  <2>4. QED BY <1>6, <2>3
<1>7. QED BY <1>2, <1>3, <1>4, <1>5, <1>6 DEF BudgetInv

\* A fork has no discards on record that its wipe could forget.
LEMMA ResetRestoreBudget ==
    ASSUME TypeOK, BudgetInv, NEW c \in Box, ResetRestore(c) PROVE BudgetInv'
<1>1. \A d \in Box : /\ box'[d].mode = box[d].mode /\ box'[d].pend = box[d].pend
                     /\ box'[d].heal = box[d].heal /\ box'[d].ready = box[d].ready
                     /\ box'[d].pc = IF d = c THEN "clear" ELSE box[d].pc
  BY TypeParts DEF ResetRestore, Moves, BoxSet
<1>2. data' = "none" /\ ledger' = 0 /\ UNCHANGED <<env, past>>
  BY DEF ResetRestore
<1>3. env.kind = "fork" /\ past.discards = 0
  BY DEF ResetRestore, BudgetInv, HoldersInv, Holder
<1>4. HoldersInv'
  BY <1>1, <1>2 DEF ResetRestore, BudgetInv, HoldersInv, Holder, Pending, Restoring
<1>5. CountInv'
  <2>1. \A d \in Box : box'[d].pend \in Nat /\ box'[d].heal \in Nat
    BY <1>1, TypeParts DEF BoxSet
  <2>2. QED BY <1>2, <1>3, <2>1, ConstantsType DEF CountInv
<1>6. ASSUME ~ past.overlap, NEW d \in Box, NEW e \in Box, Inside(d)', Inside(e)'
      PROVE  d = e
  BY <1>1, <1>6 DEF BudgetInv, Inside, ResetRestore
<1>7. QED BY <1>2, <1>3, <1>4, <1>5, <1>6 DEF BudgetInv

\* Only one container is past the lock, so only its count can be pending.
LEMMA NobodyPending ==
    ASSUME BudgetInv, ~ past.overlap, NEW c \in Box, Inside(c)
    PROVE  /\ \A d \in Box \ {c} : ~ Pending(d) /\ box[d].heal = 0
           /\ ~ Pending(c) => \A d \in Box : ~ Pending(d)
BY DEF BudgetInv, HoldersInv, Holder, Inside

LEMMA HealBudget == ASSUME TypeOK, BudgetInv, NEW c \in Box, Heal(c) PROVE BudgetInv'
<1>1. ledger \in Nat /\ ledger < HealCap /\ ledger + 1 \in Nat
  BY TypeParts, ConstantsType DEF Heal, HealDue, Spent, VolumeOK
<1>2. \A d \in Box : /\ box'[d].mode = box[d].mode
                     /\ box'[d].heal = box[d].heal /\ box'[d].ready = box[d].ready
                     /\ box'[d].pend = IF d = c THEN ledger + 1 ELSE box[d].pend
                     /\ box'[d].pc = IF d = c THEN "clear" ELSE box[d].pc
  BY TypeParts DEF Heal, BoxSet
<1>3. /\ past'.overlap = past.overlap /\ past'.discards = past.discards + 1
      /\ env'.kind = env.kind /\ data' = "none"
  BY TypeParts DEF Heal, PastSet, TypedWorld
<1>4. ~ Pending(c) /\ Inside(c) /\ env.kind = "ha" /\ box[c].heal = 0 /\ ~ box[c].ready
  BY DEF Heal, BudgetInv, HoldersInv, Holder, Inside
<1>5. HoldersInv'
  <2>1. box[c].mode = "ha"
    BY DEF Heal
  <2>2. QED BY <1>2, <1>3, <1>4, <2>1 DEF BudgetInv, HoldersInv, Holder, Pending, Restoring
<1>6. ASSUME ~ past.overlap PROVE CountInv'
  <2>1. \A d \in Box : ~ Pending(d) /\ box[d].heal = 0
    BY <1>4, <1>6, NobodyPending
  <2>2. past.discards <= ledger /\ past.discards \in Nat
    BY <1>1, <1>6, <2>1, TypeParts DEF BudgetInv, CountInv, PastSet, Torn
  <2>3. past'.discards <= HealCap /\ past'.discards <= ledger + 1
    BY <1>1, <1>3, <2>2, ConstantsType
  <2>4. Pending(c)'
    BY <1>1, <1>2 DEF Pending
  <2>5. \A d \in Box : (Pending(d)' => box'[d].pend = ledger + 1) /\ box'[d].heal = 0
    BY <1>2, <2>1 DEF Pending
  <2>6. QED BY <1>3, <2>3, <2>4, <2>5 DEF CountInv
<1>7. ASSUME ~ past.overlap, NEW d \in Box, NEW e \in Box, Inside(d)', Inside(e)'
      PROVE  d = e
  BY <1>2, <1>4, <1>7 DEF BudgetInv, Inside
<1>8. QED BY <1>3, <1>4, <1>5, <1>6, <1>7 DEF BudgetInv

\* A record of this much, or none of the discards: what LandLedger, Ready, CloneEnds and
\* HandBack leave behind.
LEMMA RecordedBudget ==
    ASSUME TypeOK, TypeOK', BudgetInv, NEW c \in Box, Inside(c), box[c].pc # "locked",
           env' = env, past'.overlap = past.overlap,
           \A d \in Box \ {c} : box'[d] = box[d],
           \/ box'[c] = Off
           \/ /\ box'[c].pc = box[c].pc /\ box'[c].mode = box[c].mode
              /\ box'[c].heal = box[c].heal
           \/ /\ box'[c].pc = "up" /\ box'[c].mode = box[c].mode /\ box'[c].heal = 0,
           box'[c].pend = 0,
           \/ past'.discards = 0
           \/ /\ past'.discards = past.discards
              /\ ledger' = IF Pending(c) THEN box[c].pend ELSE ledger
           \/ /\ past'.discards = past.discards
              /\ box[c].heal # 0 /\ ledger' = box[c].heal
    PROVE  BudgetInv'
<1>1. box'[c].pend = 0 /\ ~ Pending(c)'
  BY DEF Pending
<1>2. HoldersInv'
  <2> SUFFICES ASSUME NEW d \in Box PROVE Holder(d)'
    BY DEF HoldersInv
  <2>1. CASE d # c
    BY <2>1 DEF BudgetInv, HoldersInv, Holder, Pending
  <2>2. CASE d = c /\ box'[c] = Off
    BY <2>2 DEF Off, Holder, Pending, Restoring
  <2>3. CASE d = c /\ box'[c] # Off
    <3>1. box'[c].ready => box'[c].pc \notin {"off", "waiting", "locked"}
      BY <2>3 DEF BudgetInv, HoldersInv, Holder, Inside
    <3>2. Holder(c) /\ box[c].pc # "off"
      BY DEF BudgetInv, HoldersInv, Inside
    <3>3. QED BY <1>1, <2>3, <3>1, <3>2 DEF Holder, Restoring
  <2>4. QED BY <2>1, <2>2, <2>3
<1>3. env'.kind # "ha" => past'.discards = 0
  BY DEF BudgetInv
<1>4. ASSUME ~ past.overlap PROVE CountInv'
  <2>1. \A d \in Box : ~ Pending(d)'
    <3>1. \A d \in Box \ {c} : ~ Pending(d)
      BY <1>4, NobodyPending
    <3>2. QED BY <1>1, <3>1 DEF Pending
  <2>2. \A d \in Box : box'[d].heal \in {box[d].heal, 0}
    BY DEF Off
  <2>3. CASE past'.discards = 0
    <3>1. ledger' \in Nat \cup {Torn} /\ \A d \in Box : box'[d].heal \in Nat
      BY DEF TypeOK, VolumeOK, BoxOK
    <3>2. QED BY <2>1, <2>3, <3>1, ConstantsType DEF CountInv
  <2>4. CASE past'.discards = past.discards
    <3>1. CountInv
      BY <1>4 DEF BudgetInv
    <3>2. past'.discards <= HealCap /\ \A d \in Box : box'[d].heal # 0 => past'.discards <= box'[d].heal
      BY <2>2, <2>4, <3>1 DEF CountInv
    <3>3. CASE ledger' = IF Pending(c) THEN box[c].pend ELSE ledger
      <4>1. ledger' = Torn \/ past'.discards <= ledger'
        <5>1. CASE Pending(c)
          BY <2>4, <3>1, <3>3, <5>1 DEF CountInv
        <5>2. CASE ~ Pending(c)
          BY <1>4, <2>4, <3>1, <3>3, <5>2, NobodyPending DEF CountInv
        <5>3. QED BY <5>1, <5>2
      <4>2. QED BY <2>1, <3>2, <4>1 DEF CountInv
    <3>4. CASE box[c].heal # 0 /\ ledger' = box[c].heal
      <4>1. past'.discards <= ledger'
        BY <2>4, <3>1, <3>4 DEF CountInv
      <4>2. QED BY <2>1, <3>2, <4>1 DEF CountInv
    <3>5. CASE past'.discards = 0
      BY <2>3, <3>5
    <3>6. QED BY <3>3, <3>4, <3>5
  <2>5. QED BY <2>3, <2>4
<1>5. ASSUME ~ past.overlap, NEW d \in Box, NEW e \in Box, Inside(d)', Inside(e)'
      PROVE  d = e
  BY <1>5 DEF BudgetInv, Inside, Off
<1>6. QED BY <1>2, <1>3, <1>4, <1>5 DEF BudgetInv

LEMMA LandLedgerBudget ==
    ASSUME TypeOK, TypeOK', BudgetInv, NEW c \in Box, LandLedger(c) PROVE BudgetInv'
<1>1. /\ \A d \in Box \ {c} : box'[d] = box[d]
      /\ box'[c].pc = box[c].pc /\ box'[c].mode = box[c].mode
      /\ box'[c].heal = box[c].heal /\ box'[c].pend = 0
  BY TypeParts DEF LandLedger, BoxSet
<1>2. /\ Inside(c) /\ box[c].pc # "locked" /\ env' = env /\ past' = past
      /\ ledger' = IF Pending(c) THEN box[c].pend ELSE ledger
  BY DEF LandLedger, Inside, Pending
<1>3. QED BY <1>1, <1>2, RecordedBudget

LEMMA ReadyBudget ==
    ASSUME TypeOK, TypeOK', BudgetInv, NEW c \in Box, Ready(c) PROVE BudgetInv'
<1>1. /\ \A d \in Box \ {c} : box'[d] = box[d]
      /\ box'[c].pc = box[c].pc /\ box'[c].mode = box[c].mode
      /\ box'[c].heal = box[c].heal /\ box'[c].pend = 0
  BY TypeParts DEF Ready, BoxSet
<1>2. Inside(c) /\ box[c].pc # "locked" /\ env' = env /\ past'.overlap = past.overlap
  BY TypeParts DEF Ready, Answered, Inside, PastSet
<1>3. \/ past'.discards = 0
      \/ /\ past'.discards = past.discards
         /\ ledger' = IF Pending(c) THEN box[c].pend ELSE ledger
  BY TypeParts DEF Ready, PastSet, Pending
<1>4. QED BY <1>1, <1>2, <1>3, RecordedBudget

LEMMA CloneEndsBudget ==
    ASSUME TypeOK, TypeOK', BudgetInv, NEW c \in Box, CloneEnds(c) PROVE BudgetInv'
<1>1. (\A d \in Box \ {c} : box'[d] = box[d]) /\ box'[c] = Off /\ box'[c].pend = 0
  BY TypeParts DEF CloneEnds, Off
<1>2. Inside(c) /\ box[c].pc # "locked" /\ env' = env
  BY DEF CloneEnds, Inside
<1>3. past'.overlap = past.overlap
  BY TypeParts DEF CloneEnds, Remembered, PastSet
<1>4. \/ past'.discards = 0
      \/ past'.discards = past.discards /\ ~ Pending(c) /\ ledger' = ledger
      \/ past'.discards = past.discards /\ box[c].heal # 0 /\ ledger' = box[c].heal
  <2>1. CASE /\ box[c].heal # 0 /\ ledger' = box[c].heal
             /\ past' = [Remembered(c, FALSE) EXCEPT !.discards = past.discards]
    BY <2>1 DEF Remembered
  <2>2. CASE past' = Remembered(c, FALSE) /\ UNCHANGED ledger
    BY <2>2 DEF Remembered, Pending
  <2>3. QED BY <2>1, <2>2 DEF CloneEnds
<1>5. QED BY <1>1, <1>2, <1>3, <1>4, RecordedBudget

LEMMA HandBackBudget ==
    ASSUME TypeOK, TypeOK', BudgetInv, NEW c \in Box, HandBack(c) PROVE BudgetInv'
<1>1. /\ \A d \in Box \ {c} : box'[d] = box[d]
      /\ box'[c].pc = "up" /\ box'[c].mode = box[c].mode /\ box'[c].ready = box[c].ready
      /\ box'[c].heal = 0
      /\ box'[c].pend = IF box[c].heal # 0 THEN 0 ELSE box[c].pend
  BY TypeParts DEF HandBack, BoxSet
<1>2. /\ Inside(c) /\ box[c].pc # "locked" /\ UNCHANGED <<env, ledger>> /\ past'.overlap = past.overlap
      /\ past'.discards = IF box[c].heal # 0 /\ Pending(c) THEN 0 ELSE past.discards
  BY TypeParts DEF HandBack, Inside, PastSet, Pending
<1>3. CASE box'[c].pend = 0
  <2>1. \/ past'.discards = 0
        \/ past'.discards = past.discards /\ ~ Pending(c) /\ ledger' = ledger
    BY <1>1, <1>2, <1>3 DEF Pending
  <2>2. QED BY <1>1, <1>2, <1>3, <2>1, RecordedBudget
<1>4. CASE box'[c].pend # 0
  <2>1. box[c].heal = 0 /\ box'[c].pend = box[c].pend /\ past'.discards = past.discards
    BY <1>1, <1>2, <1>4
  <2>2. box[c].pc = "cloning"
    BY DEF HandBack
  <2>3. KeepsBudget
    BY <1>1, <1>2, <2>1, <2>2 DEF KeepsBudget, Inside, Restoring
  <2>4. QED BY <2>3, KeepsBudgetInv
<1>5. QED BY <1>3, <1>4

LEMMA CloneLandsBudget ==
    ASSUME TypeOK, TypeOK', BudgetInv, NEW c \in Box, CloneLands(c) PROVE BudgetInv'
<1>1. /\ \A d \in Box \ {c} : box'[d] = box[d]
      /\ box'[c].pc = "cloned" /\ box'[c].mode = box[c].mode
      /\ box'[c].heal = box[c].heal /\ box'[c].ready = box[c].ready
  BY TypeParts DEF CloneLands, Moves, BoxSet
<1>2. Inside(c) /\ env' = env /\ box[c].pc = "cloning"
  BY DEF CloneLands, Inside
<1>3. CASE past' = past /\ ledger' = ledger /\ box'[c].pend = box[c].pend
  <2>1. KeepsBudget
    BY <1>1, <1>2, <1>3 DEF KeepsBudget, Restoring
  <2>2. QED BY <2>1, KeepsBudgetInv
<1>4. CASE /\ ledger' = 0 /\ box'[c].pend = box[c].heal
           /\ past'.overlap = past.overlap
           /\ past'.discards = IF box[c].heal = 0 THEN 0 ELSE past.discards
  <2>1. HoldersInv'
    <3>1. SUFFICES ASSUME NEW d \in Box PROVE Holder(d)'
      BY DEF HoldersInv
    <3>2. Holder(d)
      BY DEF BudgetInv, HoldersInv
    <3>3. CASE d = c
      BY <1>1, <1>2, <1>4, <3>2, <3>3 DEF Holder, Pending, Restoring
    <3>4. CASE d # c
      BY <1>1, <1>2, <3>2, <3>4 DEF Holder, Pending
    <3>5. QED BY <3>3, <3>4
  <2>2. ASSUME ~ past.overlap PROVE CountInv'
    <3>1. \A d \in Box \ {c} : ~ Pending(d)' /\ box'[d].heal = 0
      BY <1>1, <1>2, <2>2, NobodyPending DEF Pending
    <3>2. CountInv /\ box[c].heal \in Nat
      BY <2>2, TypeParts DEF BudgetInv, BoxSet
    <3>3. CASE box[c].heal = 0
      BY <1>1, <1>4, <3>1, <3>3, ConstantsType DEF CountInv, Pending
    <3>4. CASE box[c].heal # 0
      BY <1>1, <1>4, <3>1, <3>2, <3>4 DEF CountInv, Pending
    <3>5. QED BY <3>3, <3>4
  <2>3. ASSUME ~ past.overlap, NEW d \in Box, NEW e \in Box, Inside(d)', Inside(e)'
        PROVE  d = e
    BY <1>1, <1>2, <2>3 DEF BudgetInv, Inside
  <2>4. QED BY <1>2, <1>4, <2>1, <2>2, <2>3 DEF BudgetInv
<1>5. \/ past' = past /\ ledger' = ledger /\ box'[c].pend = box[c].pend
      \/ /\ ledger' = 0 /\ box'[c].pend = box[c].heal
         /\ past'.overlap = past.overlap
         /\ past'.discards = IF box[c].heal = 0 THEN 0 ELSE past.discards
  <2>1. CASE Moves(c, "cloned") /\ UNCHANGED <<lockfile, attempts, ledger, past, trouble>>
    BY <2>1, TypeParts DEF Moves, BoxSet
  <2>2. CASE /\ ledger' = 0
             /\ box' = [box EXCEPT ![c].pc = "cloned", ![c].pend = box[c].heal]
             /\ past' = [past EXCEPT !.unlocked = TRUE,
                                     !.discards = IF box[c].heal = 0 THEN 0 ELSE past.discards]
    BY <2>2, TypeParts DEF BoxSet, PastSet
  <2>3. QED BY <2>1, <2>2 DEF CloneLands
<1>6. QED BY <1>3, <1>4, <1>5

LEMMA HealthyHourBudget ==
    ASSUME TypeOK, TypeOK', BudgetInv, NEW c \in Box, HealthyHour(c) PROVE BudgetInv'
<1>1. /\ UNCHANGED <<box, env>> /\ data' = data
      /\ past'.overlap = past.overlap /\ past'.discards = 0
  BY TypeParts DEF HealthyHour, PastSet
<1>2. HoldersInv'
  BY <1>1 DEF BudgetInv, HoldersInv, Holder, Pending
<1>3. ~ past.overlap => CountInv'
  <2>1. /\ ledger' \in Nat \cup {Torn}
        /\ \A d \in Box : box'[d].pend \in Nat /\ box'[d].heal \in Nat
    BY DEF TypeOK, VolumeOK, BoxOK
  <2>2. QED BY <1>1, <2>1, ConstantsType DEF BudgetInv, CountInv, Pending
<1>4. QED BY <1>1, <1>2, <1>3 DEF BudgetInv, Inside

\* The attempt is on the volume before the data goes.
LEMMA StuckHealBudget ==
    ASSUME TypeOK, TypeOK', BudgetInv, NEW c \in Box, StuckHeal(c) PROVE BudgetInv'
<1>1. ledger \in Nat /\ ledger < HealCap /\ ledger + 1 \in Nat
  BY TypeParts, ConstantsType DEF StuckHeal, Stuck, Spent, VolumeOK
<1>2. /\ Inside(c) /\ box[c].pc = "up" /\ box[c].mode = "ha" /\ env.kind = "ha"
      /\ box[c].heal = 0 /\ box[c].ready /\ ~ Pending(c)
  BY DEF StuckHeal, Stuck, BudgetInv, HoldersInv, Holder, Inside
<1>3. env'.kind = env.kind /\ past'.overlap = past.overlap
  BY TypeParts DEF StuckHeal, TypedWorld, PastSet
<1>4. \A d \in Box \ {c} : box'[d] = box[d]
  BY TypeParts DEF StuckHeal
<1>5. /\ box'[c].mode = box[c].mode /\ box'[c].ready = box[c].ready
      /\ \/ /\ box' = box /\ past' = past /\ ledger' = ledger + 1
         \/ /\ box'[c].pc = "cloning" /\ box'[c].heal = ledger + 1
            /\ past'.discards = past.discards + 1
            /\ \/ box'[c].pend = 0 /\ ledger' = ledger + 1
               \/ box'[c].pend = ledger + 1 /\ ledger' = ledger
  <2>1. CASE UNCHANGED <<box, past>> /\ ledger' = ledger + 1
    BY <2>1
  <2>2. CASE /\ box' = [box EXCEPT ![c].pc = "cloning", ![c].heal = ledger + 1]
             /\ ledger' = ledger + 1 /\ past' = [past EXCEPT !.discards = past.discards + 1]
    <3>1. past'.discards = past.discards + 1
      BY <2>2, TypeParts DEF PastSet
    <3>2. /\ box'[c].pc = "cloning" /\ box'[c].heal = ledger + 1 /\ box'[c].pend = box[c].pend
          /\ box'[c].mode = box[c].mode /\ box'[c].ready = box[c].ready
      BY <2>2, TypeParts DEF BoxSet
    <3>3. QED BY <1>2, <2>2, <3>1, <3>2 DEF Pending
  <2>3. CASE /\ box' = [box EXCEPT ![c].pc = "cloning", ![c].heal = ledger + 1,
                                   ![c].pend = ledger + 1]
             /\ ledger' = ledger /\ past' = [past EXCEPT !.discards = past.discards + 1]
    <3>1. past'.discards = past.discards + 1
      BY <2>3, TypeParts DEF PastSet
    <3>2. QED BY <2>3, <3>1, TypeParts DEF BoxSet
  <2>4. QED BY <2>1, <2>2, <2>3 DEF StuckHeal
<1>6. HoldersInv'
  <2>1. ledger + 1 # 0
    BY <1>1
  <2>2. QED BY <1>2, <1>3, <1>4, <1>5, <2>1 DEF BudgetInv, HoldersInv, Holder, Pending, Restoring
<1>7. ASSUME ~ past.overlap PROVE CountInv'
  <2>1. \A d \in Box : ~ Pending(d) /\ box[d].heal = 0
    BY <1>2, <1>7, NobodyPending
  <2>2. past.discards <= ledger /\ past.discards \in Nat
    BY <1>1, <1>7, <2>1, TypeParts DEF BudgetInv, CountInv, PastSet, Torn
  <2>3. past'.discards <= HealCap /\ past'.discards <= ledger + 1
    BY <1>1, <1>5, <2>2, ConstantsType
  <2>4. \A d \in Box \ {c} : ~ Pending(d)' /\ box'[d].heal = 0
    BY <1>4, <2>1 DEF Pending
  <2>5. CASE box' = box /\ past' = past /\ ledger' = ledger + 1
    BY <2>1, <2>3, <2>5 DEF CountInv, Pending
  <2>6. CASE box'[c].heal = ledger + 1 /\ box'[c].pend = 0 /\ ledger' = ledger + 1
    BY <2>3, <2>4, <2>6 DEF CountInv, Pending
  <2>7. CASE box'[c].heal = ledger + 1 /\ box'[c].pend = ledger + 1
    <3>1. Pending(c)'
      BY <1>1, <2>7 DEF Pending
    <3>2. QED BY <2>3, <2>4, <2>7, <3>1 DEF CountInv
  <2>8. QED BY <1>5, <2>5, <2>6, <2>7
<1>8. ASSUME ~ past.overlap, NEW d \in Box, NEW e \in Box, Inside(d)', Inside(e)'
      PROVE  d = e
  BY <1>2, <1>4, <1>8 DEF BudgetInv, Inside
<1>9. QED BY <1>2, <1>3, <1>6, <1>7, <1>8 DEF BudgetInv

LEMMA AroundKeepsBudget ==
    ASSUME TypeOK, Wedge \/ Decay \/ Surroundings \/ BackoffOver
    PROVE  KeepsBudget
<1>1. UNCHANGED box /\ env'.kind = env.kind
  BY TypeParts DEF Wedge, Decay, Surroundings, BackoffOver, TypedWorld
<1>2. past'.overlap = past.overlap /\ past'.discards = past.discards
  BY TypeParts DEF Wedge, Decay, Surroundings, BackoffOver, PastSet
<1>3. ledger' \in {ledger, Torn} /\ (data' = "whole" => data = "whole")
  BY DEF Wedge, Decay, Surroundings, BackoffOver
<1>4. QED BY <1>1, <1>2, <1>3 DEF KeepsBudget

LEMMA NextBudget == ASSUME TypeOK, BudgetInv, [Next]_vars PROVE BudgetInv'
<1>1. TypeOK'
  BY NextType
<1>2. ASSUME NEW c \in Box, QuietBudget(c) PROVE BudgetInv'
  BY <1>1, <1>2, QuietKeepsBudget, KeepsBudgetInv
<1>3. ASSUME NEW c \in Box, Start(c) \/ Acquire(c) \/ ResetRestore(c) \/ Heal(c)
      PROVE  BudgetInv'
  BY <1>3, StartBudget, AcquireBudget, ResetRestoreBudget, HealBudget
<1>4. ASSUME NEW c \in Box,
             \/ LandLedger(c) \/ Ready(c) \/ StuckHeal(c) \/ CloneLands(c)
             \/ CloneEnds(c) \/ HandBack(c) \/ HealthyHour(c)
      PROVE  BudgetInv'
  BY <1>1, <1>4, LandLedgerBudget, ReadyBudget, StuckHealBudget, CloneLandsBudget,
     CloneEndsBudget, HandBackBudget, HealthyHourBudget
<1>5. CASE Wedge \/ Decay \/ Surroundings \/ BackoffOver
  BY <1>1, <1>5, AroundKeepsBudget, KeepsBudgetInv
<1>6. CASE UNCHANGED vars
  BY <1>6 DEF vars, BudgetInv, HoldersInv, Holder, CountInv, Pending, Inside
<1>7. QED BY <1>2, <1>3, <1>4, <1>5, <1>6 DEF Next, Boots, QuietBudget

\* BudgetHolds: the self-heal cap bounds what boots and stuck_watch discard between them,
\* for every cap and threshold and across any kills, torn ledgers and failed clones.
THEOREM CapHolds == Spec => []BudgetHolds
<1>1. Init => BudgetInv
  BY ConstantsType DEF Init, BudgetInv, HoldersInv, Holder, CountInv, Pending, Inside, Off, Restoring
<1>2. TypeOK /\ BudgetInv /\ [Next]_vars => BudgetInv'
  BY NextBudget
<1>3. BudgetInv => BudgetHolds
  BY DEF BudgetInv, CountInv, BudgetHolds
<1>4. QED BY <1>1, <1>2, <1>3, TypeCorrect, PTL DEF Spec
=============================================================================

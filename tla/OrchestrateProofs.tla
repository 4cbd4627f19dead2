------------------------ MODULE OrchestrateProofs ------------------------
(***************************************************************************)
(* Theorems about Orchestrate, for every set of nodes, every seed order    *)
(* and every bound.                                                        *)
(***************************************************************************)
EXTENDS Orchestrate, WellFoundedInduction, TLAPS

-----------------------------------------------------------------------------
(* What the helpers return. *)

LEMMA MergeType ==
    ASSUME NEW S \in SUBSET Txn, NEW T \in SUBSET Txn
    PROVE  Merge(S, T) \in SUBSET Txn
BY DEF Merge

LEMMA CommitType ==
    ASSUME TypeOK, NEW n \in Node, NEW flag \in BOOLEAN, Commit(n, flag)
    PROVE  txns' \in [Node -> SUBSET Txn]
<1>1. PICK s \in Seqs : txns' = [txns EXCEPT ![n] = @ \cup
              {[src |-> groupName[n], seq |-> s, era |-> group[n], flag |-> flag]}]
  BY DEF Commit
<1>2. [src |-> groupName[n], seq |-> s, era |-> group[n], flag |-> flag] \in Txn
  BY DEF TypeOK, VolumeOK, ProcessOK, Txn
<1>3. txns \in [Node -> SUBSET Txn]
  BY DEF TypeOK, VolumeOK
<1>4. QED BY <1>1, <1>2, <1>3

LEMMA JoinPlanType ==
    ASSUME NEW n, NEW name, NEW donor \in Node, NEW mine, NEW live, NEW unread
    PROVE  JoinPlan(n, name, donor, mine, live, unread) \in PlanSet
BY DEF JoinPlan, Plan, NoPlan, PlanSet

LEMMA NotActingType ==
    ASSUME TypeOK, NEW n \in Node
    PROVE  NotActing(n) \in [Node -> SUBSET Node]
BY DEF TypeOK, ProcessOK, NotActing

-----------------------------------------------------------------------------
(* Type correctness. *)

LEMMA InitTypeOK == Init => TypeOK
BY SetsAssumption, BoundAssumption
   DEF Init, TypeOK, VolumeOK, ProcessOK, WorldOK, NoPlan, Plan, PlanSet

(* One fact per action, in the order of Next. *)
LEMMA BootType == ASSUME TypeOK, NEW n \in Node, Boot(n) PROVE TypeOK'
<1>1. InitNoise(n) \in Txn
  BY BoundAssumption DEF InitNoise, Txn, Seqs
<1>2. VolumeOK'
  BY <1>1, BoundAssumption DEF TypeOK, VolumeOK, Boot
<1>3. ProcessOK'
  BY DEF TypeOK, ProcessOK, Boot
<1>4. WorldOK'
  BY DEF TypeOK, WorldOK, Boot
<1>5. QED BY <1>2, <1>3, <1>4 DEF TypeOK

LEMMA SettleType ==
    ASSUME TypeOK, NEW n \in Node, SettleFresh(n) \/ SettleExisting(n) PROVE TypeOK'
<1>1. CASE SettleFresh(n)
  BY <1>1 DEF TypeOK, VolumeOK, ProcessOK, WorldOK, SettleFresh, world
<1>2. CASE SettleExisting(n)
  BY <1>2 DEF TypeOK, VolumeOK, ProcessOK, WorldOK, SettleExisting, world
<1>3. QED BY <1>1, <1>2

LEMMA AdoptIdentityType ==
    ASSUME TypeOK, NEW n \in Node, NEW live \in SUBSET Node, NEW unread,
           AdoptIdentity(n, live, unread)
    PROVE  TypeOK'
<1>1. PICK from \in First(live), donor \in Donors(live), mine \in ReadOwnGtids(n) :
          /\ groupName' = [groupName EXCEPT ![n] = groupName[from]]
          /\ generation' = [generation EXCEPT ![n] =
                IF groupName[from] # groupName[n] /\ generation[from] > @
                THEN generation[from] ELSE @]
          /\ plan' = [plan EXCEPT ![n] =
                JoinPlan(n, groupName[from], donor, mine, live, unread)]
          /\ safe' = [safe EXCEPT ![n] = FALSE]
          /\ inflight' = [inflight EXCEPT ![n] = {}]
          /\ UNCHANGED <<initialised, txns, base, preGtid, wasMember,
                         pc, fresh, group, role, world>>
  BY DEF AdoptIdentity
<1>2. from \in Node /\ donor \in Node
  BY <1>1 DEF First, Donors, Last, Primaries
<1>3. VolumeOK'
  BY <1>1, <1>2 DEF TypeOK, VolumeOK
<1>4. ProcessOK'
  <2>1. JoinPlan(n, groupName[from], donor, mine, live, unread) \in PlanSet
    BY <1>2, JoinPlanType
  <2>2. plan' \in [Node -> PlanSet]
    BY <1>1, <2>1 DEF TypeOK, ProcessOK
  <2>3. QED BY <1>1, <2>2 DEF TypeOK, ProcessOK
<1>5. WorldOK'
  BY <1>1 DEF TypeOK, WorldOK, world
<1>6. QED BY <1>3, <1>4, <1>5 DEF TypeOK

LEMMA DecidingType ==
    ASSUME TypeOK, NEW n \in Node, NEW heard, NEW waived, NEW unread,
           \/ Wait(n, heard, waived, unread)
           \/ StartDwell(n, heard, waived, unread)
           \/ DecideBootstrap(n, heard, waived, unread)
           \/ DecideWaiverBootstrap(n, heard, waived, unread)
    PROVE  TypeOK'
<1>1. CASE Wait(n, heard, waived, unread)
  BY <1>1 DEF TypeOK, VolumeOK, ProcessOK, WorldOK, Wait, volume, world
<1>2. CASE StartDwell(n, heard, waived, unread)
  <2>1. {m \in Peers(n) : Acting(m)} \in SUBSET Node
    BY DEF Peers
  <2>2. QED
    BY <1>2, <2>1 DEF TypeOK, VolumeOK, ProcessOK, WorldOK, StartDwell, volume, world
<1>3. CASE DecideBootstrap(n, heard, waived, unread)
  <2>1. Plan("bootstrap", n) \in PlanSet
    BY DEF Plan, PlanSet
  <2>2. QED
    BY <1>3, <2>1 DEF TypeOK, VolumeOK, ProcessOK, WorldOK, DecideBootstrap, volume, world
<1>4. CASE DecideWaiverBootstrap(n, heard, waived, unread)
  <2>1. \A g \in Nat : Waive(n, g) \in PlanSet
    BY DEF Waive, PlanSet
  <2>2. plan' \in [Node -> PlanSet]
    <3>1. PICK top \in {generation[m] : m \in Considered(n, waived) \cup {n}} :
            plan' = [plan EXCEPT ![n] = Waive(n, top + 1)]
      BY <1>4 DEF DecideWaiverBootstrap
    <3>2. top \in Nat
      BY DEF Considered, Peers, TypeOK, VolumeOK
    <3>3. QED BY <2>1, <3>1, <3>2 DEF TypeOK, ProcessOK
  <2>3. names' \in 0 .. MaxEra /\ groupName' \in [Node -> 0 .. MaxEra]
    BY <1>4, BoundAssumption DEF DecideWaiverBootstrap, TypeOK, VolumeOK, WorldOK
  <2>4. QED
    BY <1>4, <2>1, <2>2, <2>3
       DEF TypeOK, VolumeOK, ProcessOK, WorldOK, DecideWaiverBootstrap
<1>5. QED BY <1>1, <1>2, <1>3, <1>4

LEMMA RoundType == ASSUME TypeOK, NEW n \in Node, Round(n) PROVE TypeOK'
<1>1. PICK heard \in Heard(n), waived \in SUBSET Waivable(n) :
        \E unread \in Unread(heard) : RoundSeeing(n, heard, waived, unread)
  BY DEF Round
<1>2. PICK unread \in Unread(heard) : RoundSeeing(n, heard, waived, unread)
  BY <1>1
<1>3. Live(heard) \in SUBSET Node
  BY DEF Live, Heard, Answering, Peers
<1>4. CASE RefuseIdentity(n, Live(heard))
  BY <1>4 DEF TypeOK, VolumeOK, ProcessOK, WorldOK, RefuseIdentity, volume, world
<1>5. CASE AdoptIdentity(n, Live(heard), unread)
  BY <1>3, <1>5, AdoptIdentityType
<1>6. CASE \/ Wait(n, heard, waived, unread)
           \/ StartDwell(n, heard, waived, unread)
           \/ DecideBootstrap(n, heard, waived, unread)
           \/ DecideWaiverBootstrap(n, heard, waived, unread)
  BY <1>6, DecidingType
<1>7. QED BY <1>2, <1>4, <1>5, <1>6 DEF RoundSeeing

LEMMA BootstrapType ==
    ASSUME TypeOK, NEW n \in Node,
           PersistGeneration(n) \/ Bootstrap(n) \/ BootstrapFails(n) \/ WriteFlag(n)
    PROVE  TypeOK'
<1>1. NoPlan \in PlanSet /\ Plan("flag", n) \in PlanSet
  BY DEF NoPlan, Plan, PlanSet
<1>2. NotActing(n) \in [Node -> SUBSET Node]
  BY NotActingType
<1>3. CASE Bootstrap(n)
  <2>1. eras' \in 0 .. MaxEra
    BY <1>3, BoundAssumption DEF Bootstrap, TypeOK, WorldOK
  <2>2. VolumeOK'
    BY <1>3 DEF Bootstrap, TypeOK, VolumeOK, volume
  <2>3. ProcessOK'
    BY <1>1, <1>2, <1>3, <2>1 DEF Bootstrap, TypeOK, ProcessOK
  <2>4. WorldOK'
    BY <1>3, <2>1 DEF Bootstrap, TypeOK, WorldOK
  <2>5. QED BY <2>2, <2>3, <2>4 DEF TypeOK
<1>4. CASE BootstrapFails(n)
  BY <1>1, <1>2, <1>4
     DEF BootstrapFails, TypeOK, VolumeOK, ProcessOK, WorldOK, volume, world
<1>5. CASE WriteFlag(n)
  <2>1. txns' \in [Node -> SUBSET Txn]
    BY <1>5, CommitType DEF WriteFlag, TypeOK, VolumeOK
  <2>2. QED
    BY <1>1, <1>5, <2>1 DEF WriteFlag, TypeOK, VolumeOK, ProcessOK, WorldOK, world
<1>6. CASE PersistGeneration(n)
  <2>1. plan[n].gen \in Nat /\ Plan("bootstrap_waived", n) \in PlanSet
    BY DEF TypeOK, ProcessOK, Plan, PlanSet
  <2>2. QED
    BY <1>6, <2>1 DEF PersistGeneration, TypeOK, VolumeOK, ProcessOK, WorldOK, world
<1>7. QED BY <1>3, <1>4, <1>5, <1>6

LEMMA JoinType ==
    ASSUME TypeOK, NEW n \in Node, Join(n) \/ JoinFails(n) \/ Clone(n)
    PROVE  TypeOK'
<1>1. NoPlan \in PlanSet
  BY DEF NoPlan, Plan, PlanSet
<1>2. NotActing(n) \in [Node -> SUBSET Node]
  BY NotActingType
<1>3. CASE Join(n)
  <2>1. PICK p \in Node :
          /\ group' = [group EXCEPT ![n] = group[p]]
          /\ txns' = [txns EXCEPT ![n] = Merge(@, txns[p])]
    BY <1>3 DEF Join, Primaries, Peers
  <2>2. txns' \in [Node -> SUBSET Txn]
    BY <2>1, MergeType DEF TypeOK, VolumeOK
  <2>3. group' \in [Node -> 0 .. MaxEra]
    BY <2>1 DEF TypeOK, ProcessOK
  <2>4. QED
    BY <1>1, <1>2, <1>3, <2>2, <2>3
       DEF Join, TypeOK, VolumeOK, ProcessOK, WorldOK, world
<1>4. CASE JoinFails(n)
  BY <1>1, <1>2, <1>4
     DEF JoinFails, TypeOK, VolumeOK, ProcessOK, WorldOK, volume, world
<1>5. CASE Clone(n)
  <2>1. VolumeOK'
    <3>1. PICK donor \in Node : /\ txns' = [txns EXCEPT ![n] = txns[donor]]
                                /\ base' = [base EXCEPT ![n] = base[donor]]
      BY <1>5 DEF Clone, Peers
    <3>2. /\ txns' \in [Node -> SUBSET Txn]
          /\ base' \in [Node -> AdoptedRoots \cup {NoBase}]
      BY <3>1 DEF TypeOK, VolumeOK
    <3>3. /\ preGtid' \in [Node -> BOOLEAN] /\ generation' \in [Node -> Nat]
          /\ groupName' \in [Node -> 0 .. MaxEra] /\ wasMember' \in [Node -> BOOLEAN]
      <4>1. CASE UNCHANGED <<preGtid, generation, groupName, wasMember>>
        BY <4>1 DEF TypeOK, VolumeOK
      <4>2. CASE /\ preGtid' = [preGtid EXCEPT ![n] = FALSE]
                 /\ generation' = [generation EXCEPT ![n] = 0]
                 /\ groupName' = [groupName EXCEPT ![n] = 0]
                 /\ wasMember' = [wasMember EXCEPT ![n] = FALSE]
        BY <4>2, BoundAssumption DEF TypeOK, VolumeOK
      <4>3. QED BY <1>5, <4>1, <4>2 DEF Clone
    <3>4. QED BY <1>5, <3>2, <3>3 DEF Clone, TypeOK, VolumeOK
  <2>2. ProcessOK' /\ WorldOK'
    BY <1>1, <1>2, <1>5 DEF Clone, TypeOK, ProcessOK, WorldOK, world
  <2>3. QED BY <2>1, <2>2 DEF TypeOK
<1>6. QED BY <1>3, <1>4, <1>5

LEMMA MemberType ==
    ASSUME TypeOK, NEW n \in Node,
           Activate(n) \/ AnswerPoll(n) \/ ClientWrite(n) \/ Apply(n)
    PROVE  TypeOK'
<1>1. CASE Activate(n)
  BY <1>1 DEF Activate, TypeOK, VolumeOK, ProcessOK, WorldOK, world
<1>2. CASE AnswerPoll(n)
  BY <1>2 DEF AnswerPoll, TypeOK, VolumeOK, ProcessOK, WorldOK, process, world
<1>3. CASE ClientWrite(n)
  <2>1. txns' \in [Node -> SUBSET Txn]
    BY <1>3, CommitType DEF ClientWrite
  <2>2. writes' \in 0 .. MaxWrites
    BY <1>3, BoundAssumption DEF ClientWrite, TypeOK, WorldOK
  <2>3. QED
    BY <1>3, <2>1, <2>2
       DEF ClientWrite, TypeOK, VolumeOK, ProcessOK, WorldOK, process
<1>4. CASE Apply(n)
  <2>1. PICK p \in Node : txns' = [txns EXCEPT ![n] = Merge(@, txns[p])]
    BY <1>4 DEF Apply, Primaries, Peers
  <2>2. txns' \in [Node -> SUBSET Txn]
    BY <2>1, MergeType DEF TypeOK, VolumeOK
  <2>3. QED
    BY <1>4, <2>2 DEF Apply, TypeOK, VolumeOK, ProcessOK, WorldOK, process, world
<1>5. QED BY <1>1, <1>2, <1>3, <1>4

LEMMA LeaveType ==
    ASSUME TypeOK, NEW n \in Node, NEW clean \in BOOLEAN, Leave(n, clean)
    PROVE  TypeOK'
<1>1. NoPlan \in PlanSet
  BY DEF NoPlan, Plan, PlanSet
<1>2. NotActing(n) \in [Node -> SUBSET Node]
  BY NotActingType
<1>3. stops' \in 0 .. MaxStops
  BY BoundAssumption DEF Leave, TypeOK, WorldOK
<1>4. /\ role' \in [Node -> {"NONE", "PRIMARY", "SECONDARY"}]
      /\ txns' \in [Node -> SUBSET Txn]
  <2>1. CASE \E p \in Mates(n) :
               /\ role' = [role EXCEPT ![n] = "NONE", ![p] = "PRIMARY"]
               /\ txns' = [txns EXCEPT ![p] = Merge(@, txns[n])]
    <3>1. PICK p \in Node : /\ role' = [role EXCEPT ![n] = "NONE", ![p] = "PRIMARY"]
                            /\ txns' = [txns EXCEPT ![p] = Merge(@, txns[n])]
      BY <2>1 DEF Mates, Peers
    <3>2. QED BY <3>1, MergeType DEF TypeOK, VolumeOK, ProcessOK
  <2>2. CASE role' = [role EXCEPT ![n] = "NONE"] /\ UNCHANGED txns
    BY <2>2 DEF TypeOK, VolumeOK, ProcessOK
  <2>3. QED BY <2>1, <2>2 DEF Leave
<1>5. blocked' \subseteq 0 .. MaxEra
  <2>1. blocked' = blocked \cup {group[n]} \/ blocked' = blocked
    BY DEF Leave
  <2>2. group[n] \in 0 .. MaxEra /\ blocked \subseteq 0 .. MaxEra
    BY DEF TypeOK, ProcessOK, WorldOK
  <2>3. QED BY <2>1, <2>2
<1>6. VolumeOK'
  BY <1>4 DEF Leave, TypeOK, VolumeOK
<1>7. ProcessOK'
  <2>1. inflight' \in [Node -> SUBSET Node]
    BY <1>2 DEF Leave
  <2>2. group' \in [Node -> 0 .. MaxEra]
    BY BoundAssumption DEF Leave, TypeOK, ProcessOK
  <2>3. QED BY <1>1, <1>4, <2>1, <2>2 DEF Leave, TypeOK, ProcessOK
<1>8. WorldOK'
  BY <1>3, <1>5 DEF Leave, TypeOK, WorldOK
<1>9. QED BY <1>6, <1>7, <1>8 DEF TypeOK

LEMMA PlatformType ==
    ASSUME TypeOK, NEW n \in Node, Retire(n) \/ Reprovision(n)
    PROVE  TypeOK'
<1>1. CASE Retire(n)
  BY <1>1 DEF Retire, TypeOK, VolumeOK, ProcessOK, WorldOK, volume, process
<1>2. CASE Reprovision(n)
  BY <1>2, BoundAssumption DEF Reprovision, TypeOK, VolumeOK, ProcessOK, WorldOK, process
<1>3. QED BY <1>1, <1>2

LEMMA NextTypeOK == TypeOK /\ [Next]_vars => TypeOK'
<1> SUFFICES ASSUME TypeOK, [Next]_vars PROVE TypeOK'
  OBVIOUS
<1>1. CASE UNCHANGED vars
  BY <1>1 DEF vars, volume, process, world, TypeOK, VolumeOK, ProcessOK, WorldOK
<1>2. CASE Next
  <2>1. PICK n \in Node :
          \/ Boot(n) \/ SettleFresh(n) \/ SettleExisting(n)
          \/ Round(n)
          \/ PersistGeneration(n) \/ Bootstrap(n) \/ BootstrapFails(n) \/ WriteFlag(n)
          \/ Join(n) \/ JoinFails(n) \/ Clone(n)
          \/ Activate(n) \/ AnswerPoll(n)
          \/ ClientWrite(n) \/ Apply(n)
          \/ \E clean \in BOOLEAN : Leave(n, clean)
          \/ Retire(n) \/ Reprovision(n)
    BY <1>2 DEF Next
  <2>2. CASE \E clean \in BOOLEAN : Leave(n, clean)
    BY <2>2, LeaveType
  <2>3. CASE Boot(n) \/ SettleFresh(n) \/ SettleExisting(n) \/ Round(n)
    BY <2>3, BootType, SettleType, RoundType
  <2>4. CASE \/ PersistGeneration(n) \/ Bootstrap(n) \/ BootstrapFails(n) \/ WriteFlag(n)
             \/ Join(n) \/ JoinFails(n) \/ Clone(n)
    BY <2>4, BootstrapType, JoinType
  <2>5. CASE \/ Activate(n) \/ AnswerPoll(n) \/ ClientWrite(n) \/ Apply(n)
             \/ Retire(n) \/ Reprovision(n)
    BY <2>5, MemberType, PlatformType
  <2>6. QED BY <2>1, <2>2, <2>3, <2>4, <2>5
<1>3. QED BY <1>1, <1>2

(* Orchestrate never leaves its types: a volume holds well-formed
   transactions, and a waiver generation is a natural number. *)
THEOREM TypeCorrect == Spec => []TypeOK
<1>1. Init => TypeOK
  BY InitTypeOK
<1>2. TypeOK /\ [Next]_vars => TypeOK'
  BY NextTypeOK
<1>3. QED BY <1>1, <1>2, PTL DEF Spec

-----------------------------------------------------------------------------
(* Mutual exclusion of the bootstrap decision.  What n reads of m never
   claims less pre-GTID data than m reads of itself, and that is enough: a
   tie either falls to the marker or to the rank, a fork to the generation
   or to the rank, and both are strict orders. *)
LEMMA NeverBothBeat ==
    ASSUME TypeOK, NEW n \in Node, NEW m \in Node, n # m,
           NEW b \in BOOLEAN, NEW c \in BOOLEAN
    PROVE  ~ (Beats(n, m, b) /\ Beats(m, n, c))
<1> SUFFICES ASSUME Beats(n, m, b), Beats(m, n, c) PROVE FALSE
  OBVIOUS
<1>1. /\ generation[n] \in Nat /\ generation[m] \in Nat
      /\ Rank[n] \in Nat /\ Rank[m] \in Nat /\ Rank[n] # Rank[m]
  BY RankAssumption DEF TypeOK, VolumeOK
<1>2. /\ ~ Ahead(Mine(n), Advert(m, b)) /\ ~ TieLost(Mine(n), Advert(m, b))
      /\ ~ Ahead(Mine(m), Advert(n, c)) /\ ~ TieLost(Mine(m), Advert(n, c))
  BY DEF Beats, SafeToBootstrap
<1>3. CASE Gtids(txns[n]) = Gtids(txns[m])
  <2>1. /\ preGtid[n] => PreGtidClaim(n, c)
        /\ preGtid[m] => PreGtidClaim(m, b)
    BY DEF PreGtidClaim
  <2>2. /\ PreGtidClaim(m, b) => preGtid[n]
        /\ PreGtidClaim(n, c) => preGtid[m]
    BY <1>2, <1>3 DEF TieLost, Mine, Advert
  <2>3. PreGtidClaim(m, b) = preGtid[n] /\ PreGtidClaim(n, c) = preGtid[m]
    BY <2>1, <2>2 DEF TypeOK, VolumeOK, PreGtidClaim
  <2>4. ~ (Rank[m] < Rank[n]) /\ ~ (Rank[n] < Rank[m])
    BY <1>2, <1>3, <2>3 DEF TieLost, Mine, Advert
  <2>5. QED BY <1>1, <2>4
<1>4. CASE Gtids(txns[n]) # Gtids(txns[m])
  <2>1. Diverged(Mine(n), Advert(m, b)) /\ Diverged(Mine(m), Advert(n, c))
    BY <1>2, <1>4 DEF Ahead, Diverged, Mine, Advert
  <2>2. ~ DivergedPeerWins(Mine(n), Advert(m, b)) /\ ~ DivergedPeerWins(Mine(m), Advert(n, c))
    BY <1>2, <2>1 DEF Ahead
  <2>3. QED BY <1>1, <2>2 DEF DivergedPeerWins, Mine, Advert
<1>5. QED BY <1>3, <1>4

(* gr.rs:42-51: in no reachable state do two nodes both conclude from each
   other's answers that the bootstrap is theirs. *)
THEOREM NeverTwoWinners == Spec => []AtMostOneWinner
<1>1. TypeOK => AtMostOneWinner
  BY NeverBothBeat DEF AtMostOneWinner
<1>2. QED BY <1>1, TypeCorrect, PTL

-----------------------------------------------------------------------------
(* One live group. *)

(* A node that is not past the gate has nothing under way. *)
Idle == \A n \in Node : pc[n] \in {"off", "boot"} => group[n] = 0 /\ plan[n] = NoPlan /\ ~ safe[n]

(* What a round planned is done before the next round, and in the loop. *)
Planned ==
    \A n \in Node :
        /\ Acting(n) => pc[n] = "loop" /\ group[n] = 0
        /\ plan[n].do \in {"join", "clone"} => ~ safe[n]
        /\ plan[n].do = "flag" \/ role[n] = "PRIMARY" => group[n] # 0

(* Whoever has decided to bootstrap is alone with that: no group is alive, no other node has
   decided, and one that is in its dwell waits for it to be over, or loses to it.  The generation
   of a waiver it still has to persist is not below its own. *)
DecidesAlone ==
    \A n \in Node : Deciding(n) =>
        /\ plan[n].do = "waive" => generation[n] <= plan[n].gen
        /\ \A m \in Node : group[m] = 0
        /\ \A m \in Peers(n) :
              /\ ~ Deciding(m)
              /\ safe[m] => n \in inflight[m] \/ \E unread \in BOOLEAN : Beats(n, m, unread)

ElectInv == Idle /\ Planned /\ DecidesAlone /\ OneLiveGroup

(* The standing of n, as it and the others see it, is what it was. *)
SameStanding(n) ==
    txns'[n] = txns[n] /\ preGtid'[n] = preGtid[n] /\ generation'[n] = generation[n]

LEMMA BeatsOn ==
    ASSUME NEW n \in Node, NEW m \in Node, NEW unread \in BOOLEAN, Beats(n, m, unread),
           generation[n] \in Nat, generation'[n] \in Nat, generation[m] \in Nat,
           txns'[n] = txns[n], preGtid'[n] = preGtid[n], generation[n] <= generation'[n],
           SameStanding(m)
    PROVE  Beats(n, m, unread)'
<1>1. ~ Ahead(Mine(n), Advert(m, unread)) /\ ~ TieLost(Mine(n), Advert(m, unread))
  BY DEF Beats, SafeToBootstrap
<1>2. Advert(m, unread)' = Advert(m, unread)
  BY DEF Advert, PreGtidClaim, Flagged, SameStanding
<1>3. /\ Mine(n)'.gtids = Mine(n).gtids /\ Mine(n)'.pre = Mine(n).pre /\ Mine(n)'.rank = Mine(n).rank
      /\ Mine(n).gen <= Mine(n)'.gen /\ Mine(n).gen \in Nat /\ Mine(n)'.gen \in Nat
      /\ Advert(m, unread).gen \in Nat
  BY DEF Mine, Advert
<1>4. \A mine, now, peer :
        /\ now.gtids = mine.gtids /\ now.pre = mine.pre /\ now.rank = mine.rank
        /\ mine.gen \in Nat /\ now.gen \in Nat /\ peer.gen \in Nat /\ mine.gen <= now.gen
        /\ ~ Ahead(mine, peer) /\ ~ TieLost(mine, peer)
        => ~ Ahead(now, peer) /\ ~ TieLost(now, peer)
  BY DEF Ahead, TieLost, Diverged, DivergedPeerWins
<1>5. ~ Ahead(Mine(n)', Advert(m, unread)) /\ ~ TieLost(Mine(n)', Advert(m, unread))
  BY <1>1, <1>3, <1>4
<1>6. QED BY <1>2, <1>5 DEF Beats, SafeToBootstrap

LEMMA NobodyDecides ==
    ASSUME DecidesAlone, NEW m \in Node, group[m] # 0
    PROVE  \A n \in Node : ~ Deciding(n)
BY DEF DecidesAlone

(* What every step but a decision does: nobody new decides, no group comes up beside a decision,
   and a dwell that began waits for whoever was deciding. *)
LEMMA DecidesKept ==
    ASSUME TypeOK, DecidesAlone,
           \A n \in Node : Deciding(n)' => Deciding(n) /\ plan'[n] = plan[n] /\ SameStanding(n),
           (\E n \in Node : Deciding(n)') => \A m \in Node : group'[m] # 0 => group[m] # 0,
           \A n \in Node : Deciding(n)' => \A m \in Peers(n) :
               safe'[m] => n \in inflight'[m] \/ (safe[m] /\ n \notin inflight[m] /\ SameStanding(m))
    PROVE  DecidesAlone'
<1> SUFFICES ASSUME NEW n \in Node, Deciding(n)'
             PROVE  /\ plan'[n].do = "waive" => generation'[n] <= plan'[n].gen
                    /\ \A m \in Node : group'[m] = 0
                    /\ \A m \in Peers(n) :
                          /\ ~ Deciding(m)'
                          /\ safe'[m] => \/ n \in inflight'[m]
                                        \/ \E unread \in BOOLEAN : Beats(n, m, unread)'
  BY DEF DecidesAlone, Peers
<1>1. Deciding(n) /\ plan'[n] = plan[n] /\ SameStanding(n)
  OBVIOUS
<1>2. \A m \in Node : group'[m] = 0
  BY <1>1 DEF DecidesAlone
<1>3. ASSUME NEW m \in Peers(n) PROVE ~ Deciding(m)'
  BY <1>1 DEF DecidesAlone, Peers
<1>4. ASSUME NEW m \in Peers(n), safe'[m], n \notin inflight'[m]
      PROVE  \E unread \in BOOLEAN : Beats(n, m, unread)'
  <2>1. safe[m] /\ n \notin inflight[m] /\ SameStanding(m)
    BY <1>4
  <2>2. PICK unread \in BOOLEAN : Beats(n, m, unread)
    BY <1>1, <2>1 DEF DecidesAlone
  <2>3. generation[n] \in Nat /\ generation[m] \in Nat /\ m \in Node
    BY DEF TypeOK, VolumeOK, Peers
  <2>4. Beats(n, m, unread)'
    BY <1>1, <2>1, <2>2, <2>3, BeatsOn DEF SameStanding
  <2>5. QED BY <2>4
<1>5. plan'[n].do = "waive" => generation'[n] <= plan'[n].gen
  BY <1>1 DEF DecidesAlone, SameStanding
<1>6. QED BY <1>2, <1>3, <1>4, <1>5

(* Nothing a node does to its own volume before the gate opens concerns a decision: it has none,
   and it is not in a dwell. *)
LEMMA BootElect ==
    ASSUME TypeOK, ElectInv, NEW n \in Node, Boot(n) \/ SettleFresh(n) \/ SettleExisting(n)
    PROVE  ElectInv'
<1>1. /\ UNCHANGED <<safe, inflight, plan, group, role, generation>>
      /\ \A m \in Node : m # n => pc'[m] = pc[m] /\ SameStanding(m)
      /\ group[n] = 0 /\ plan[n] = NoPlan /\ ~ safe[n] /\ pc'[n] \in {"boot", "loop"}
  BY DEF Boot, SettleFresh, SettleExisting, world, SameStanding, TypeOK, VolumeOK, ProcessOK,
         ElectInv, Idle
<1>2. ~ Acting(n) /\ ~ Deciding(n)
  BY <1>1 DEF Acting, Deciding, NoPlan, Plan
<1>3. Idle'
  BY <1>1 DEF ElectInv, Idle
<1>4. Planned'
  BY <1>1, <1>2 DEF ElectInv, Planned, Acting, Deciding
<1>5. DecidesAlone'
  <2>1. \A m \in Node : Deciding(m)' => Deciding(m) /\ plan'[m] = plan[m] /\ SameStanding(m)
    BY <1>1, <1>2 DEF Deciding
  <2>2. \A k \in Node : group'[k] # 0 => group[k] # 0
    BY <1>1
  <2>3. \A m \in Node : Deciding(m)' => \A k \in Peers(m) :
            safe'[k] => m \in inflight'[k] \/ (safe[k] /\ m \notin inflight[k] /\ SameStanding(k))
    BY <1>1 DEF Peers
  <2>4. QED BY <2>1, <2>2, <2>3, DecidesKept DEF ElectInv
<1>6. OneLiveGroup'
  BY <1>1 DEF ElectInv, OneLiveGroup
<1>7. QED BY <1>3, <1>4, <1>5, <1>6 DEF ElectInv

(* The rounds that put a node out of its dwell. *)
LEMMA RestartElect ==
    ASSUME TypeOK, ElectInv, NEW n \in Node, pc[n] = "loop", group[n] = 0, plan[n] = NoPlan,
           UNCHANGED <<txns, preGtid, pc, plan, group, role, generation>>,
           safe' = [safe EXCEPT ![n] = FALSE], inflight' = [inflight EXCEPT ![n] = {}]
    PROVE  ElectInv'
<1>1. /\ ~ safe'[n] /\ \A m \in Node : SameStanding(m)
      /\ \A m \in Node : m # n => safe'[m] = safe[m] /\ inflight'[m] = inflight[m]
      /\ \A m \in Node : safe'[m] => safe[m]
  BY DEF TypeOK, ProcessOK, SameStanding
<1>2. Idle' /\ Planned' /\ OneLiveGroup'
  BY <1>1 DEF ElectInv, Idle, Planned, OneLiveGroup, Acting, Deciding
<1>3. DecidesAlone'
  <2>1. \A m \in Node : Deciding(m)' => Deciding(m) /\ plan'[m] = plan[m] /\ SameStanding(m)
    BY <1>1 DEF Deciding
  <2>2. \A k \in Node : group'[k] # 0 => group[k] # 0
    OBVIOUS
  <2>3. \A m \in Node : Deciding(m)' => \A k \in Peers(m) :
            safe'[k] => m \in inflight'[k] \/ (safe[k] /\ m \notin inflight[k] /\ SameStanding(k))
    BY <1>1 DEF Peers
  <2>4. QED BY <2>1, <2>2, <2>3, DecidesKept DEF ElectInv
<1>4. QED BY <1>2, <1>3 DEF ElectInv

(* A round that heard a live group: nobody is deciding, and the node leaves its dwell. *)
LEMMA AdoptElect ==
    ASSUME TypeOK, ElectInv, NEW n \in Node, pc[n] = "loop", group[n] = 0, plan[n] = NoPlan,
           NEW heard \in SUBSET Node, Live(heard) # {}, NEW unread,
           AdoptIdentity(n, Live(heard), unread)
    PROVE  ElectInv'
<1>1. PICK from \in First(Live(heard)), donor \in Donors(Live(heard)), mine \in ReadOwnGtids(n) :
          plan' = [plan EXCEPT ![n] =
                JoinPlan(n, groupName[from], donor, mine, Live(heard), unread)]
  BY DEF AdoptIdentity
<1>2. plan'[n].do \in {"none", "join", "clone"} /\ \A m \in Node : m # n => plan'[m] = plan[m]
  BY <1>1 DEF TypeOK, ProcessOK, JoinPlan, NoPlan, Plan
<1>3. /\ UNCHANGED <<pc, group, role>> /\ ~ safe'[n]
      /\ \A m \in Node : m # n => safe'[m] = safe[m]
  BY DEF AdoptIdentity, TypeOK, ProcessOK
<1>4. PICK m \in Node : group[m] # 0
  BY DEF Live
<1>5. \A k \in Node : ~ Deciding(k)
  BY <1>4, NobodyDecides DEF ElectInv
<1>6. \A k \in Node : ~ Deciding(k)'
  BY <1>2, <1>5 DEF Deciding
<1>7. Idle'
  BY <1>2, <1>3 DEF ElectInv, Idle
<1>8. Planned'
  BY <1>2, <1>3, <1>6 DEF ElectInv, Planned, Acting, Deciding
<1>9. QED BY <1>3, <1>6, <1>7, <1>8 DEF ElectInv, DecidesAlone, OneLiveGroup

(* The dwell that begins waits for whoever has decided already. *)
LEMMA DwellElect ==
    ASSUME TypeOK, ElectInv, NEW n \in Node, pc[n] = "loop", group[n] = 0, plan[n] = NoPlan,
           NEW heard, NEW waived, NEW unread, StartDwell(n, heard, waived, unread)
    PROVE  ElectInv'
<1>1. /\ UNCHANGED <<pc, plan, group, role>>
      /\ inflight'[n] = {m \in Peers(n) : Acting(m)}
      /\ \A m \in Node : m # n => safe'[m] = safe[m] /\ inflight'[m] = inflight[m]
  BY DEF StartDwell, TypeOK, ProcessOK
<1>2. \A m \in Node : SameStanding(m)
  BY DEF StartDwell, volume, SameStanding
<1>3. Idle'
  BY <1>1 DEF ElectInv, Idle
<1>4. Planned'
  BY <1>1 DEF ElectInv, Planned, Acting, Deciding, NoPlan, Plan
<1>5. DecidesAlone'
  <2>1. \A m \in Node : Deciding(m)' => Deciding(m) /\ plan'[m] = plan[m] /\ SameStanding(m)
    BY <1>1, <1>2 DEF Deciding
  <2>2. \A k \in Node : group'[k] # 0 => group[k] # 0
    BY <1>1
  <2>3. \A m \in Node : Deciding(m)' => \A k \in Peers(m) :
            safe'[k] => m \in inflight'[k] \/ (safe[k] /\ m \notin inflight[k] /\ SameStanding(k))
    BY <1>1, <1>2, <2>1 DEF Peers, Acting
  <2>4. QED BY <2>1, <2>2, <2>3, DecidesKept DEF ElectInv
<1>6. QED BY <1>1, <1>3, <1>4, <1>5 DEF ElectInv, OneLiveGroup

(* What a node knows when it decides: everybody else has answered without a group, or is off. *)
LEMMA DeciderKnows ==
    ASSUME TypeOK, ElectInv, NEW n \in Node, group[n] = 0,
           NEW heard \in Heard(n), NEW waived \in SUBSET Waivable(n), NEW unread \in Unread(heard),
           Live(heard) = {}, RoundIsSafe(n, heard, waived, unread), DwellOver(n)
    PROVE  /\ \A m \in Node : group[m] = 0
           /\ \A m \in Peers(n) \ waived :
                 pc[m] \in {"loop", "member"} /\ \E c \in BOOLEAN : Beats(n, m, c)
           /\ \A m \in Peers(n) : safe[m] => m \notin waived
           /\ \A m \in Node : ~ Deciding(m) \/ m = n
<1>1. \A m \in waived : pc[m] = "off"
  BY DEF Waivable
<1>2. ASSUME NEW m \in Peers(n) \ waived
      PROVE  pc[m] \in {"loop", "member"} /\ group[m] = 0 /\ \E c \in BOOLEAN : Beats(n, m, c)
  <2>1. m \in heard
    BY DEF RoundIsSafe, Decidable, Considered
  <2>2. pc[m] \in {"loop", "member"} /\ group[m] = 0
    BY <2>1 DEF Heard, Answering, Live
  <2>3. Beats(n, m, m \in unread)
    BY DEF RoundIsSafe, Standings, Considered, Beats, SafeToBootstrap
  <2>4. (m \in unread) \in BOOLEAN
    OBVIOUS
  <2>5. QED BY <2>2, <2>3, <2>4
<1>3. \A m \in waived : group[m] = 0 /\ plan[m] = NoPlan /\ ~ safe[m]
  BY <1>1 DEF ElectInv, Idle, Waivable, Peers
<1>4. \A m \in Node : group[m] = 0
  BY <1>2, <1>3 DEF Peers
<1>5. ASSUME NEW m \in Node, Deciding(m), m # n PROVE FALSE
  <2>1. m \in Peers(n) \ waived /\ n \in Peers(m)
    BY <1>3, <1>5 DEF Peers, Deciding, NoPlan, Plan
  <2>2. PICK c \in BOOLEAN : Beats(m, n, c)
    BY <1>5, <2>1 DEF ElectInv, DecidesAlone, DwellOver
  <2>3. PICK b \in BOOLEAN : Beats(n, m, b)
    BY <1>2, <2>1
  <2>4. QED BY <1>5, <2>2, <2>3, NeverBothBeat
<1>6. QED BY <1>2, <1>3, <1>4, <1>5

(* A decision: whoever else was deciding would have won against this node, and it does not. *)
LEMMA DecideElect ==
    ASSUME TypeOK, ElectInv, NEW n \in Node, pc[n] = "loop", group[n] = 0, plan[n] = NoPlan,
           NEW heard \in Heard(n), NEW waived \in SUBSET Waivable(n), NEW unread \in Unread(heard),
           Live(heard) = {},
           \/ DecideBootstrap(n, heard, waived, unread)
           \/ DecideWaiverBootstrap(n, heard, waived, unread)
    PROVE  ElectInv'
<1>1. /\ RoundIsSafe(n, heard, waived, unread) /\ DwellOver(n)
      /\ UNCHANGED <<pc, safe, inflight, group, role>>
      /\ plan'[n].do \in {"bootstrap", "waive"}
      /\ \A m \in Node : m # n => plan'[m] = plan[m]
      /\ \A m \in Node : SameStanding(m)
  BY DEF DecideBootstrap, DecideWaiverBootstrap, volume, TypeOK, VolumeOK, ProcessOK, Plan, Waive,
         SameStanding
<1>2. plan'[n].do = "waive" => generation'[n] <= plan'[n].gen
  <2>1. CASE DecideBootstrap(n, heard, waived, unread)
    BY <2>1 DEF DecideBootstrap, Plan, TypeOK, ProcessOK
  <2>2. CASE DecideWaiverBootstrap(n, heard, waived, unread)
    <3>1. PICK top \in {generation[m] : m \in Considered(n, waived) \cup {n}} :
            generation[n] <= top /\ plan' = [plan EXCEPT ![n] = Waive(n, top + 1)]
      BY <2>2 DEF DecideWaiverBootstrap
    <3>2. top \in Nat /\ generation[n] \in Nat
      BY DEF Considered, Peers, TypeOK, VolumeOK
    <3>3. plan'[n].gen = top + 1 /\ generation'[n] = generation[n]
      BY <1>1, <3>1 DEF Waive, SameStanding, TypeOK, ProcessOK
    <3>4. QED BY <3>1, <3>2, <3>3
  <2>3. QED BY <2>1, <2>2
<1>3. /\ \A m \in Node : group[m] = 0
      /\ \A m \in Peers(n) \ waived : \E c \in BOOLEAN : Beats(n, m, c)
      /\ \A m \in Peers(n) : safe[m] => m \notin waived
      /\ \A m \in Node : ~ Deciding(m) \/ m = n
  BY <1>1, DeciderKnows
<1>4. \A m \in Node : Deciding(m)' => m = n
  BY <1>1, <1>3 DEF Deciding
<1>5. DecidesAlone'
  <2>1. ASSUME NEW m \in Peers(n), safe'[m] PROVE \E c \in BOOLEAN : Beats(n, m, c)'
    <3>1. m \in Peers(n) \ waived /\ m \in Node /\ m # n
      BY <1>1, <1>3, <2>1 DEF Peers
    <3>2. PICK c \in BOOLEAN : Beats(n, m, c)
      BY <1>3, <3>1
    <3>3. SameStanding(m)
      BY <1>1, <3>1
    <3>4. generation[n] \in Nat /\ generation[m] \in Nat /\ SameStanding(n)
      BY <1>1, <3>1 DEF TypeOK, VolumeOK
    <3>5. Beats(n, m, c)'
      BY <3>1, <3>2, <3>3, <3>4, BeatsOn DEF SameStanding
    <3>6. QED BY <3>5
  <2>2. \A m \in Node : group'[m] = 0
    BY <1>1, <1>3
  <2>3. \A m \in Peers(n) : ~ Deciding(m)'
    BY <1>4 DEF Peers
  <2>4. QED BY <1>2, <1>4, <2>1, <2>2, <2>3 DEF DecidesAlone
<1>6. Idle'
  BY <1>1 DEF ElectInv, Idle
<1>7. Planned'
  BY <1>1 DEF ElectInv, Planned, Acting, Deciding
<1>8. OneLiveGroup'
  BY <1>1 DEF ElectInv, OneLiveGroup
<1>9. QED BY <1>5, <1>6, <1>7, <1>8 DEF ElectInv

LEMMA RoundElect == ASSUME TypeOK, ElectInv, NEW n \in Node, Round(n) PROVE ElectInv'
<1>1. PICK heard \in Heard(n), waived \in SUBSET Waivable(n) :
        \E unread \in Unread(heard) : RoundSeeing(n, heard, waived, unread)
  BY DEF Round
<1>2. PICK unread \in Unread(heard) : RoundSeeing(n, heard, waived, unread)
  BY <1>1
<1>3. pc[n] = "loop" /\ group[n] = 0 /\ plan[n] = NoPlan /\ heard \in SUBSET Node
  BY DEF Round, Heard, Answering, Peers
<1>4. CASE RefuseIdentity(n, Live(heard)) \/ Wait(n, heard, waived, unread)
  BY <1>3, <1>4, RestartElect DEF RefuseIdentity, Wait, volume
<1>5. CASE Live(heard) # {} /\ AdoptIdentity(n, Live(heard), unread)
  BY <1>3, <1>5, AdoptElect
<1>6. CASE StartDwell(n, heard, waived, unread)
  BY <1>3, <1>6, DwellElect
<1>7. CASE /\ Live(heard) = {}
           /\ \/ DecideBootstrap(n, heard, waived, unread)
              \/ DecideWaiverBootstrap(n, heard, waived, unread)
  BY <1>3, <1>7, DecideElect
<1>8. QED BY <1>2, <1>4, <1>5, <1>6, <1>7 DEF RoundSeeing

(* Persisting the generation raises it: whoever lost to this node loses to it still. *)
LEMMA PersistElect ==
    ASSUME TypeOK, ElectInv, NEW n \in Node, PersistGeneration(n) PROVE ElectInv'
<1>1. /\ Deciding(n) /\ plan[n].do = "waive" /\ plan'[n].do = "bootstrap_waived"
      /\ UNCHANGED <<txns, preGtid, pc, safe, inflight, group, role>>
      /\ \A m \in Node : m # n => plan'[m] = plan[m] /\ SameStanding(m)
  BY DEF PersistGeneration, Deciding, Plan, SameStanding, TypeOK, VolumeOK, ProcessOK
<1>2. /\ \A m \in Node : group[m] = 0
      /\ \A m \in Peers(n) :
            /\ ~ Deciding(m)
            /\ safe[m] => n \in inflight[m] \/ \E unread \in BOOLEAN : Beats(n, m, unread)
      /\ generation[n] <= plan[n].gen
  BY <1>1 DEF ElectInv, DecidesAlone
<1>3. generation[n] \in Nat /\ generation'[n] \in Nat /\ generation[n] <= generation'[n]
  BY <1>2 DEF PersistGeneration, TypeOK, VolumeOK, ProcessOK, PlanSet
<1>4. Acting(n)' /\ \A m \in Node : Deciding(m)' => m = n
  BY <1>1, <1>2 DEF Acting, Deciding, Peers
<1>5. DecidesAlone'
  <2>1. ASSUME NEW m \in Peers(n), safe'[m], n \notin inflight'[m]
        PROVE  \E unread \in BOOLEAN : Beats(n, m, unread)'
    <3>1. PICK unread \in BOOLEAN : Beats(n, m, unread)
      BY <1>1, <1>2, <2>1
    <3>2. m \in Node /\ SameStanding(m) /\ generation[m] \in Nat
      BY <1>1 DEF Peers, TypeOK, VolumeOK
    <3>3. Beats(n, m, unread)'
      BY <1>1, <1>3, <3>1, <3>2, BeatsOn
    <3>4. QED BY <3>3
  <2>2. \A m \in Peers(n) : ~ Deciding(m)'
    BY <1>4 DEF Peers
  <2>3. QED BY <1>1, <1>2, <1>4, <2>1, <2>2 DEF DecidesAlone
<1>6. Idle' /\ OneLiveGroup'
  BY <1>1 DEF ElectInv, Idle, OneLiveGroup, NoPlan, Plan, Deciding
<1>7. Planned'
  BY <1>1 DEF ElectInv, Planned, Acting, Deciding
<1>8. QED BY <1>5, <1>6, <1>7 DEF ElectInv

(* bootstrap_group succeeded: the node was alone with its decision. *)
LEMMA BootstrapElect ==
    ASSUME TypeOK, ElectInv, NEW n \in Node, Bootstrap(n) PROVE ElectInv'
<1>1. Acting(n) /\ pc[n] = "loop"
  BY DEF Bootstrap, Acting, Deciding, ElectInv, Planned
<1>2. /\ \A m \in Node : group[m] = 0
      /\ \A m \in Node : m # n => ~ Deciding(m)
  BY DEF Bootstrap, Deciding, ElectInv, DecidesAlone, Peers
<1>3. /\ UNCHANGED <<pc, safe>>
      /\ group'[n] # 0 /\ \A m \in Node : m # n => group'[m] = group[m]
      /\ plan'[n].do \in {"flag", "none"} /\ \A m \in Node : m # n => plan'[m] = plan[m]
      /\ \A m \in Node : m # n => role'[m] = role[m]
  BY DEF Bootstrap, TypeOK, ProcessOK, WorldOK, Plan, NoPlan
<1>4. \A m \in Node : ~ Deciding(m)'
  BY <1>2, <1>3 DEF Deciding
<1>5. Idle'
  BY <1>1, <1>3 DEF ElectInv, Idle
<1>6. Planned'
  BY <1>3, <1>4 DEF ElectInv, Planned, Acting, Deciding
<1>7. OneLiveGroup'
  BY <1>2, <1>3 DEF OneLiveGroup
<1>8. QED BY <1>4, <1>5, <1>6, <1>7 DEF ElectInv, DecidesAlone

(* An attempt that failed is no longer waited for, and is no longer one. *)
LEMMA FailElect ==
    ASSUME TypeOK, ElectInv, NEW n \in Node, BootstrapFails(n) \/ JoinFails(n)
    PROVE  ElectInv'
<1>1. /\ UNCHANGED <<pc, group, role>> /\ plan'[n] = NoPlan
      /\ \A m \in Node : SameStanding(m)
      /\ \A m \in Node : m # n => plan'[m] = plan[m] /\ safe'[m] = safe[m]
                                  /\ inflight'[m] = inflight[m] \ {n}
      /\ \A m \in Node : safe'[m] => safe[m]
  BY DEF BootstrapFails, JoinFails, NotActing, volume, SameStanding, TypeOK, ProcessOK
<1>2. inflight'[n] = inflight[n] \ {n} \/ ~ safe'[n]
  BY DEF BootstrapFails, JoinFails, NotActing, TypeOK, ProcessOK
<1>3. Idle'
  BY <1>1 DEF ElectInv, Idle
<1>4. Planned'
  BY <1>1 DEF ElectInv, Planned, Acting, Deciding, NoPlan, Plan
<1>5. DecidesAlone'
  <2>1. \A m \in Node : Deciding(m)' =>
            m # n /\ Deciding(m) /\ plan'[m] = plan[m] /\ SameStanding(m)
    BY <1>1 DEF Deciding, NoPlan, Plan
  <2>2. \A k \in Node : group'[k] # 0 => group[k] # 0
    BY <1>1
  <2>3. \A m \in Node : Deciding(m)' => \A k \in Peers(m) :
            safe'[k] => m \in inflight'[k] \/ (safe[k] /\ m \notin inflight[k] /\ SameStanding(k))
    BY <1>1, <1>2, <2>1 DEF Peers
  <2>4. QED BY <2>1, <2>2, <2>3, DecidesKept DEF ElectInv
<1>6. QED BY <1>1, <1>3, <1>4, <1>5 DEF ElectInv, OneLiveGroup

(* Whatever a live group takes: nobody has decided while there is one. *)
LEMMA MemberElect ==
    ASSUME TypeOK, ElectInv, NEW n \in Node,
           WriteFlag(n) \/ Activate(n) \/ AnswerPoll(n) \/ ClientWrite(n) \/ Apply(n)
    PROVE  ElectInv'
<1>1. \E m \in Node : group[m] # 0
  <2>1. CASE WriteFlag(n)
    BY <2>1 DEF WriteFlag, ElectInv, Planned
  <2>2. CASE Activate(n) \/ AnswerPoll(n)
    BY <2>2 DEF Activate, AnswerPoll
  <2>3. CASE ClientWrite(n)
    BY <2>3 DEF ClientWrite, ElectInv, Planned
  <2>4. CASE Apply(n)
    BY <2>4 DEF Apply, Primaries, Peers, ElectInv, Planned
  <2>5. QED BY <2>1, <2>2, <2>3, <2>4
<1>2. \A m \in Node : ~ Deciding(m)
  BY <1>1, NobodyDecides DEF ElectInv
<1>3. /\ UNCHANGED <<safe, group, role>>
      /\ \A m \in Node : plan'[m] = plan[m] \/ plan'[m] = NoPlan
      /\ pc' = pc \/ (plan' = plan /\ plan[n] = NoPlan /\ pc' = [pc EXCEPT ![n] = "member"])
  BY DEF WriteFlag, Activate, AnswerPoll, ClientWrite, Apply, process, world, TypeOK, ProcessOK
<1>4. \A m \in Node : ~ Deciding(m)'
  BY <1>2, <1>3 DEF Deciding, NoPlan, Plan
<1>5. \A m \in Node : pc'[m] = pc[m] \/ (m = n /\ plan'[m] = NoPlan /\ pc'[m] = "member")
  BY <1>3 DEF TypeOK, ProcessOK
<1>6. Idle'
  BY <1>3, <1>5 DEF ElectInv, Idle
<1>7. Planned'
  BY <1>3, <1>5 DEF ElectInv, Planned, Acting, Deciding, NoPlan, Plan
<1>8. QED BY <1>3, <1>4, <1>6, <1>7 DEF ElectInv, DecidesAlone, OneLiveGroup

(* So it is when a node joins a live group, or clones from a member of one. *)
LEMMA JoinElect ==
    ASSUME TypeOK, ElectInv, NEW n \in Node, Join(n) \/ Clone(n) PROVE ElectInv'
<1>1. Acting(n) /\ pc[n] = "loop" /\ group[n] = 0 /\ ~ safe[n]
  <2>1. Join(n) \/ \E donor \in Peers(n) : plan[n] = Plan("clone", donor)
    BY DEF Clone
  <2>2. \A donor : Plan("clone", donor).do = "clone"
    BY DEF Plan
  <2>3. plan[n].do \in {"join", "clone"}
    BY <2>1, <2>2 DEF Join
  <2>4. QED BY <2>3 DEF Acting, ElectInv, Planned
<1>2. \E m \in Node : /\ group[m] # 0
                      /\ \/ group' = [group EXCEPT ![n] = group[m]] /\ pc' = pc
                         \/ group' = group /\ pc' = [pc EXCEPT ![n] = "off"]
  BY DEF Join, Clone, Primaries, Peers, ElectInv, Planned
<1>3. PICK m \in Node : /\ group[m] # 0
                        /\ \/ group' = [group EXCEPT ![n] = group[m]] /\ pc' = pc
                           \/ group' = group /\ pc' = [pc EXCEPT ![n] = "off"]
  BY <1>2
<1>4. /\ plan'[n] = NoPlan /\ safe' = safe
      /\ \A k \in Node : k # n => plan'[k] = plan[k] /\ role'[k] = role[k]
      /\ role'[n] # "PRIMARY" \/ role'[n] = role[n]
  BY DEF Join, Clone, TypeOK, ProcessOK
<1>5. \A k \in Node : ~ Deciding(k)'
  BY <1>3, <1>4, NobodyDecides DEF ElectInv, Deciding, NoPlan, Plan
<1>6. /\ \A k \in Node : k # n => pc'[k] = pc[k] /\ group'[k] = group[k]
      /\ \/ pc'[n] = pc[n] /\ group'[n] = group[m]
         \/ pc'[n] = "off" /\ group'[n] = 0
  BY <1>1, <1>3 DEF TypeOK, ProcessOK
<1>7. Idle'
  BY <1>1, <1>4, <1>6 DEF ElectInv, Idle
<1>8. Planned'
  BY <1>1, <1>3, <1>4, <1>5, <1>6 DEF ElectInv, Planned, Acting, Deciding, NoPlan, Plan
<1>9. OneLiveGroup'
  BY <1>3, <1>6 DEF ElectInv, OneLiveGroup
<1>10. QED BY <1>5, <1>7, <1>8, <1>9 DEF ElectInv, DecidesAlone

(* A member that leaves hands its role over inside its group; where somebody has decided there is
   no group, and nothing is handed over. *)
LEMMA LeaveElect ==
    ASSUME TypeOK, ElectInv, NEW n \in Node, NEW clean \in BOOLEAN, Leave(n, clean)
    PROVE  ElectInv'
<1>1. /\ group'[n] = 0 /\ pc'[n] = "off" /\ ~ safe'[n] /\ plan'[n] = NoPlan
      /\ \A m \in Node : m # n => /\ group'[m] = group[m] /\ pc'[m] = pc[m]
                                  /\ safe'[m] = safe[m] /\ plan'[m] = plan[m]
                                  /\ inflight'[m] = inflight[m] \ {n}
      /\ UNCHANGED <<preGtid, generation>>
  BY DEF Leave, NotActing, TypeOK, ProcessOK
<1>2. \A m \in Node : role'[m] = "PRIMARY" => m # n /\ (role[m] = "PRIMARY" \/ m \in Mates(n))
  BY DEF Leave, TypeOK, ProcessOK, Mates, Peers
<1>3. Mates(n) # {} \/ txns' = txns
  BY DEF Leave
<1>4. Idle'
  BY <1>1 DEF ElectInv, Idle
<1>5. Planned'
  BY <1>1, <1>2 DEF ElectInv, Planned, Acting, Deciding, NoPlan, Plan, Mates
<1>6. DecidesAlone'
  <2>1. \A m \in Node : Deciding(m)' => m # n /\ Deciding(m) /\ plan'[m] = plan[m]
    BY <1>1 DEF Deciding, NoPlan, Plan
  <2>2. \A m, k \in Node : Deciding(m)' => SameStanding(k)
    BY <1>1, <1>3, <2>1, NobodyDecides DEF Mates, SameStanding, ElectInv
  <2>3. \A k \in Node : group'[k] # 0 => group[k] # 0
    BY <1>1
  <2>4. \A m \in Node : Deciding(m)' => \A k \in Peers(m) :
            safe'[k] => m \in inflight'[k] \/ (safe[k] /\ m \notin inflight[k] /\ SameStanding(k))
    BY <1>1, <2>1, <2>2 DEF Peers
  <2>5. QED BY <2>1, <2>2, <2>3, <2>4, DecidesKept DEF ElectInv
<1>7. OneLiveGroup'
  BY <1>1 DEF ElectInv, OneLiveGroup
<1>8. QED BY <1>4, <1>5, <1>6, <1>7 DEF ElectInv

(* A service that is down decides nothing. *)
LEMMA PlatformElect ==
    ASSUME TypeOK, ElectInv, NEW n \in Node, Retire(n) \/ Reprovision(n)
    PROVE  ElectInv'
<1>1. /\ UNCHANGED <<pc, safe, inflight, plan, group, role>>
      /\ \A m \in Node : m # n => SameStanding(m)
      /\ plan[n] = NoPlan /\ ~ safe[n]
  BY DEF Retire, Reprovision, volume, process, SameStanding, TypeOK, VolumeOK, ElectInv, Idle
<1>2. Idle' /\ Planned' /\ OneLiveGroup'
  BY <1>1 DEF ElectInv, Idle, Planned, OneLiveGroup, Acting, Deciding
<1>3. DecidesAlone'
  <2>1. \A m \in Node : Deciding(m)' => Deciding(m) /\ plan'[m] = plan[m] /\ SameStanding(m)
    BY <1>1 DEF Deciding, NoPlan, Plan
  <2>2. \A k \in Node : group'[k] # 0 => group[k] # 0
    BY <1>1
  <2>3. \A m \in Node : Deciding(m)' => \A k \in Peers(m) :
            safe'[k] => m \in inflight'[k] \/ (safe[k] /\ m \notin inflight[k] /\ SameStanding(k))
    BY <1>1 DEF Peers
  <2>4. QED BY <2>1, <2>2, <2>3, DecidesKept DEF ElectInv
<1>4. QED BY <1>2, <1>3 DEF ElectInv

LEMMA InitElect == Init => ElectInv
BY DEF Init, ElectInv, Idle, Planned, DecidesAlone, OneLiveGroup, Acting, Deciding, NoPlan, Plan

LEMMA NextElect == TypeOK /\ ElectInv /\ [Next]_vars => ElectInv'
<1> SUFFICES ASSUME TypeOK, ElectInv, [Next]_vars PROVE ElectInv'
  OBVIOUS
<1>1. CASE UNCHANGED vars
  BY <1>1 DEF vars, volume, process, world, ElectInv, Idle, Planned, DecidesAlone, OneLiveGroup,
     Acting, Deciding, Beats, Mine, Advert, PreGtidClaim, Flagged
<1>2. CASE Next
  <2>1. PICK n \in Node :
          \/ Boot(n) \/ SettleFresh(n) \/ SettleExisting(n)
          \/ Round(n)
          \/ PersistGeneration(n) \/ Bootstrap(n) \/ BootstrapFails(n) \/ WriteFlag(n)
          \/ Join(n) \/ JoinFails(n) \/ Clone(n)
          \/ Activate(n) \/ AnswerPoll(n)
          \/ ClientWrite(n) \/ Apply(n)
          \/ \E clean \in BOOLEAN : Leave(n, clean)
          \/ Retire(n) \/ Reprovision(n)
    BY <1>2 DEF Next
  <2>2. CASE \E clean \in BOOLEAN : Leave(n, clean)
    BY <2>2, LeaveElect
  <2>3. CASE Boot(n) \/ SettleFresh(n) \/ SettleExisting(n) \/ Round(n)
    BY <2>3, BootElect, RoundElect
  <2>4. CASE PersistGeneration(n) \/ Bootstrap(n) \/ BootstrapFails(n) \/ JoinFails(n)
    BY <2>4, PersistElect, BootstrapElect, FailElect
  <2>5. CASE WriteFlag(n) \/ Activate(n) \/ AnswerPoll(n) \/ ClientWrite(n) \/ Apply(n)
    BY <2>5, MemberElect
  <2>6. CASE Join(n) \/ Clone(n) \/ Retire(n) \/ Reprovision(n)
    BY <2>6, JoinElect, PlatformElect
  <2>7. QED BY <2>1, <2>2, <2>3, <2>4, <2>5, <2>6
<1>3. QED BY <1>1, <1>2

(* gr.rs:7-36: never two groups alive at once, whatever crashes, empties, loses its answers or is
   given up on.  A dwell waits for the decisions taken before it began, and whoever decides
   during it has heard this node and won, so this node's next round will not. *)
THEOREM NeverTwoGroups == Spec => []OneLiveGroup
<1>1. Init => ElectInv
  BY InitElect
<1>2. TypeOK /\ ElectInv /\ [Next]_vars => ElectInv'
  BY NextElect
<1>3. ElectInv => OneLiveGroup
  BY DEF ElectInv
<1>4. QED BY <1>1, <1>2, <1>3, TypeCorrect, PTL DEF Spec

-----------------------------------------------------------------------------
(* Who forms a group without a waiver is not behind anybody. *)

Initialised == \A n \in Node : pc[n] # "off" => initialised[n]
NewVolume(n) == ~ initialised[n] \/ (pc[n] = "boot" /\ fresh[n])

(* A decision without a waiver was taken with every peer heard, so there is no volume left to
   be initialised; and while it stands no volume gains a transaction. *)
Leading ==
    \A n \in Node : plan[n].do = "bootstrap" =>
        \A m \in Node : /\ ~ NewVolume(m)
                        /\ ~ (/\ Gtids(txns[n]) \subseteq Gtids(txns[m])
                              /\ Gtids(txns[n]) # Gtids(txns[m]))

LeadInv == Initialised /\ Leading

LEMMA LeadingKept ==
    ASSUME TypeOK, LeadInv,
           \A n \in Node : plan'[n].do = "bootstrap" => plan[n].do = "bootstrap",
           (\E n \in Node : plan[n].do = "bootstrap") =>
               txns' = txns /\ \A m \in Node : NewVolume(m)' => NewVolume(m)
    PROVE  Leading'
BY DEF LeadInv, Leading

(* Boot initialises a volume only when nobody leads; SettleFresh purges one only then. *)
LEMMA BootLead ==
    ASSUME TypeOK, LeadInv, NEW n \in Node, Boot(n) \/ SettleFresh(n) \/ SettleExisting(n)
    PROVE  LeadInv'
<1>1. /\ plan' = plan /\ initialised'[n] /\ pc[n] \in {"off", "boot"}
      /\ \A m \in Node : m # n => pc'[m] = pc[m] /\ initialised'[m] = initialised[m]
  BY DEF Boot, SettleFresh, SettleExisting, TypeOK, VolumeOK, ProcessOK, LeadInv, Initialised
<1>2. Initialised'
  BY <1>1 DEF LeadInv, Initialised
<1>3. ASSUME \A m \in Node : ~ NewVolume(m)
      PROVE  txns' = txns /\ \A m \in Node : ~ NewVolume(m)'
  <2>1. CASE Boot(n)
    BY <1>3, <2>1 DEF Boot, NewVolume, TypeOK, VolumeOK, ProcessOK
  <2>2. CASE SettleFresh(n) \/ SettleExisting(n)
    BY <1>3, <2>2 DEF SettleFresh, SettleExisting, NewVolume, TypeOK, VolumeOK, ProcessOK
  <2>3. QED BY <2>1, <2>2
<1>4. Leading'
  BY <1>1, <1>3, LeadingKept DEF LeadInv, Leading
<1>5. QED BY <1>2, <1>4 DEF LeadInv

LEMMA RoundLead == ASSUME TypeOK, ElectInv, LeadInv, NEW n \in Node, Round(n) PROVE LeadInv'
<1>1. PICK heard \in Heard(n), waived \in SUBSET Waivable(n) :
        \E unread \in Unread(heard) : RoundSeeing(n, heard, waived, unread)
  BY DEF Round
<1>2. PICK unread \in Unread(heard) : RoundSeeing(n, heard, waived, unread)
  BY <1>1
<1>3. pc[n] = "loop" /\ group[n] = 0
  BY DEF Round
<1>4. UNCHANGED <<initialised, txns, pc, fresh>>
  BY <1>2 DEF RoundSeeing, RefuseIdentity, AdoptIdentity, Wait, StartDwell, DecideBootstrap,
     DecideWaiverBootstrap, volume
<1>5. Initialised'
  BY <1>4 DEF LeadInv, Initialised
<1>6. \A m \in Node : NewVolume(m)' => NewVolume(m)
  BY <1>4 DEF NewVolume
<1>7. CASE DecideBootstrap(n, heard, waived, unread) /\ Live(heard) = {}
  <2>1. waived = {} /\ RoundIsSafe(n, heard, waived, unread) /\ DwellOver(n)
    BY <1>7 DEF DecideBootstrap
  <2>2. \A m \in Peers(n) :
           pc[m] \in {"loop", "member"} /\ \E c \in BOOLEAN : Beats(n, m, c)
    BY <1>3, <1>7, <2>1, DeciderKnows
  <2>3. \A m \in Node : Deciding(m) => m = n
    BY <1>3, <1>7, <2>1, DeciderKnows
  <2>4. ASSUME NEW m \in Node
        PROVE  /\ ~ NewVolume(m)
               /\ ~ (/\ Gtids(txns[n]) \subseteq Gtids(txns[m])
                     /\ Gtids(txns[n]) # Gtids(txns[m]))
    <3>1. pc[m] \in {"loop", "member"}
      BY <1>3, <2>2 DEF Peers
    <3>2. ~ NewVolume(m)
      BY <3>1 DEF NewVolume, LeadInv, Initialised
    <3>3. CASE m # n
      <4>1. PICK c \in BOOLEAN : Beats(n, m, c)
        BY <2>2, <3>3 DEF Peers
      <4>2. ~ Ahead(Mine(n), Advert(m, c))
        BY <4>1 DEF Beats, SafeToBootstrap
      <4>3. QED BY <3>2, <4>2 DEF Ahead, Mine, Advert
    <3>4. QED BY <3>2, <3>3
  <2>5. \A m \in Node : plan'[m].do = "bootstrap" => m = n
    BY <1>7, <2>3 DEF DecideBootstrap, Deciding, TypeOK, ProcessOK
  <2>6. \A m \in Node : ~ NewVolume(m)'
    BY <1>6, <2>4
  <2>7. Leading'
    BY <1>4, <2>4, <2>5, <2>6 DEF Leading
  <2>8. QED BY <1>5, <2>7 DEF LeadInv
<1>8. CASE \/ RefuseIdentity(n, Live(heard)) \/ AdoptIdentity(n, Live(heard), unread)
           \/ Wait(n, heard, waived, unread) \/ StartDwell(n, heard, waived, unread)
           \/ DecideWaiverBootstrap(n, heard, waived, unread)
  <2>1. \A m \in Node : plan'[m].do = "bootstrap" => plan[m].do = "bootstrap"
    BY <1>8 DEF RefuseIdentity, AdoptIdentity, Wait, StartDwell, DecideWaiverBootstrap,
       JoinPlan, Plan, Waive, NoPlan, TypeOK, ProcessOK
  <2>2. Leading'
    BY <1>4, <1>6, <2>1, LeadingKept
  <2>3. QED BY <1>5, <2>2 DEF LeadInv
<1>9. QED BY <1>2, <1>7, <1>8 DEF RoundSeeing

(* The other steps either leave every history alone or need a live group. *)
LEMMA OtherLead ==
    ASSUME TypeOK, ElectInv, LeadInv, Disposable = {}, NEW n \in Node,
           \/ PersistGeneration(n) \/ Bootstrap(n) \/ BootstrapFails(n) \/ JoinFails(n) \/ Retire(n)
           \/ WriteFlag(n) \/ Activate(n) \/ AnswerPoll(n) \/ ClientWrite(n) \/ Apply(n)
           \/ Join(n) \/ Clone(n) \/ Reprovision(n)
           \/ \E clean \in BOOLEAN : Leave(n, clean)
    PROVE  LeadInv'
<1>1. ~ Reprovision(n)
  BY DEF Reprovision
<1>2. UNCHANGED <<initialised, fresh>>
  BY <1>1 DEF PersistGeneration, Bootstrap, BootstrapFails, JoinFails, Retire, WriteFlag, Activate, AnswerPoll,
     ClientWrite, Apply, Join, Clone, Leave, volume, process
<1>3. \A m \in Node : pc'[m] = pc[m] \/ pc'[m] = "off" \/ (pc[m] = "loop" /\ pc'[m] = "member")
  BY <1>1 DEF PersistGeneration, Bootstrap, BootstrapFails, JoinFails, Retire, WriteFlag, Activate, AnswerPoll,
     ClientWrite, Apply, Join, Clone, Leave, volume, process, TypeOK, ProcessOK
<1>4. \A m \in Node : plan'[m] = plan[m] \/ plan'[m].do \in {"none", "flag", "bootstrap_waived"}
  <2>1. \/ plan' = plan \/ plan' = [plan EXCEPT ![n] = NoPlan]
        \/ plan' = [plan EXCEPT ![n] = Plan("flag", n)]
        \/ plan' = [plan EXCEPT ![n] = Plan("bootstrap_waived", n)]
    BY <1>1 DEF PersistGeneration, Bootstrap, BootstrapFails, JoinFails, Retire, WriteFlag, Activate, AnswerPoll,
       ClientWrite, Apply, Join, Clone, Leave, volume, process
  <2>2. /\ NoPlan.do = "none"
        /\ Plan("flag", n).do = "flag"
        /\ Plan("bootstrap_waived", n).do = "bootstrap_waived"
    BY DEF NoPlan, Plan
  <2>3. QED BY <2>1, <2>2 DEF TypeOK, ProcessOK
<1>5. Initialised'
  BY <1>2, <1>3 DEF LeadInv, Initialised
<1>6. \A m \in Node : NewVolume(m)' => NewVolume(m)
  BY <1>2, <1>3 DEF NewVolume
<1>7. ASSUME NEW k \in Node, plan[k].do = "bootstrap" PROVE txns' = txns
  <2>1. \A m \in Node : group[m] = 0
    BY <1>7 DEF ElectInv, DecidesAlone, Deciding
  <2>2. \A m \in Node : role[m] # "PRIMARY" /\ plan[m].do # "flag"
    BY <2>1 DEF ElectInv, Planned
  <2>3. Mates(n) = {} /\ Primaries(Peers(n)) = {}
    BY <2>1, <2>2 DEF Mates, Primaries, Peers
  <2>4. QED
    BY <1>1, <2>1, <2>2, <2>3
       DEF PersistGeneration, Bootstrap, BootstrapFails, JoinFails, Retire, WriteFlag, Activate, AnswerPoll,
           ClientWrite, Apply, Join, Clone, Leave, volume, Peers
<1>8. Leading'
  BY <1>4, <1>6, <1>7, LeadingKept
<1>9. QED BY <1>5, <1>8 DEF LeadInv

LEMMA NextLead ==
    ASSUME Disposable = {} PROVE TypeOK /\ ElectInv /\ LeadInv /\ [Next]_vars => LeadInv'
<1> SUFFICES ASSUME TypeOK, ElectInv, LeadInv, [Next]_vars PROVE LeadInv'
  OBVIOUS
<1>1. CASE UNCHANGED vars
  BY <1>1 DEF vars, volume, process, LeadInv, Initialised, Leading, NewVolume
<1>2. CASE Next
  <2>1. PICK n \in Node :
          \/ Boot(n) \/ SettleFresh(n) \/ SettleExisting(n)
          \/ Round(n)
          \/ PersistGeneration(n) \/ Bootstrap(n) \/ BootstrapFails(n) \/ WriteFlag(n)
          \/ Join(n) \/ JoinFails(n) \/ Clone(n)
          \/ Activate(n) \/ AnswerPoll(n)
          \/ ClientWrite(n) \/ Apply(n)
          \/ \E clean \in BOOLEAN : Leave(n, clean)
          \/ Retire(n) \/ Reprovision(n)
    BY <1>2 DEF Next
  <2>2. CASE Boot(n) \/ SettleFresh(n) \/ SettleExisting(n) \/ Round(n)
    BY <2>2, BootLead, RoundLead
  <2>3. CASE ~ (Boot(n) \/ SettleFresh(n) \/ SettleExisting(n) \/ Round(n))
    BY <2>1, <2>3, OtherLead
  <2>4. QED BY <2>2, <2>3
<1>3. QED BY <1>1, <1>2

(* gr.rs:34-41: whoever forms a group without a waiver is not strictly behind any volume of the
   cluster.  A volume that is replaced by an empty one gains init noise when it boots, so this
   is about services that keep theirs. *)
THEOREM WinnerIsMostAdvanced == ASSUME Disposable = {} PROVE Spec => BootstrapMostAdvanced
<1>1. Init => ElectInv /\ LeadInv
  <2>1. Init => LeadInv
    BY DEF Init, LeadInv, Initialised, Leading, NoPlan, Plan
  <2>2. QED BY <2>1, InitElect
<1>2. TypeOK /\ (ElectInv /\ LeadInv) /\ [Next]_vars => (ElectInv /\ LeadInv)'
  BY NextElect, NextLead
<1>3. ElectInv /\ LeadInv /\ [Next]_vars =>
        [\A n \in Node :
          plan[n].do = "bootstrap" /\ group'[n] # 0 =>
            \A m \in Node : ~ (/\ Gtids(txns[n]) \subseteq Gtids(txns[m])
                                /\ Gtids(txns[n]) # Gtids(txns[m]))]_vars
  BY DEF LeadInv, Leading
<1>4. QED BY <1>1, <1>2, <1>3, TypeCorrect, PTL DEF Spec, BootstrapMostAdvanced

-----------------------------------------------------------------------------
(* One history, while no service is given up on and none loses its volume. *)

(* No service is stopped past the dwell or comes back empty, and a first boot is carried
   through: its init GTIDs are purged, and it is not cut off before that. *)
VolumesStay ==
    Retirable = {} /\ Disposable = {} /\ Faults \cap {"reset_fails", "empty_restart"} = {}

Unwaived == \A n \in Node : ~ gone[n] /\ groupName[n] = 0 /\ ~ Waiving(n)

(* A volume's own init GTIDs are on it from its initialisation to the purge, and alone. *)
NoiseApart ==
    \A n \in Node : /\ Newborn(n) => txns[n] = {InitNoise(n)}
                    /\ ~ initialised[n] => txns[n] = {}

(* What the volumes hold is prefixes of one log, ... *)
OneLog ==
    /\ \A n \in Node : \A t \in Held(n) :
          /\ t.src = 0 /\ t.era # 0
          /\ \A s \in 1 .. t.seq : \E u \in Held(n) : u.seq = s
    /\ \A n, m \in Node : \A t \in Held(n), u \in Held(m) : t.seq = u.seq => t = u

(* ... and the only primary there is holds the whole of it. *)
PrimaryLeads ==
    /\ \A n, m \in Node : role[n] = "PRIMARY" /\ role[m] = "PRIMARY" => n = m
    /\ \A n \in Node : plan[n].do = "flag" => role[n] = "PRIMARY"
    /\ \A n, m \in Node : role[n] = "PRIMARY" => Held(m) \subseteq Held(n)

HistoryInv == Unwaived /\ NoiseApart /\ OneLog /\ PrimaryLeads

LEMMA NothingPersisted == ASSUME HistoryInv, NEW n \in Node PROVE ~ PersistGeneration(n)
BY DEF HistoryInv, Unwaived, Waiving, PersistGeneration

(* A node clones only into an empty history. *)
EmptyClones == \A n \in Node : plan[n].do = "clone" => txns[n] = {}

LEMMA MergeHeld ==
    ASSUME NEW S, NEW T, S \subseteq T, \A t, u \in T : Gtid(t) = Gtid(u) => t = u
    PROVE  Merge(S, T) = T
BY DEF Merge, Gtids

(* One GTID, one transaction: on what the volumes hold, a GTID is its sequence number. *)
LEMMA GtidsAreSeqs ==
    ASSUME OneLog, NEW n \in Node, NEW m \in Node, NEW t \in Held(n), NEW u \in Held(m)
    PROVE  /\ Gtid(t) = Gtid(u) => t = u
           /\ t.seq = u.seq => t = u
BY DEF OneLog, Gtid

(* Two volumes of one log: one of them holds what the other does. *)
LEMMA AheadOrWithin ==
    ASSUME TypeOK, OneLog, NEW n \in Node, NEW m \in Node, ~ (Held(m) \subseteq Held(n))
    PROVE  Gtids(Held(n)) \subseteq Gtids(Held(m)) /\ Gtids(Held(n)) # Gtids(Held(m))
<1>1. PICK u \in Held(m) : u \notin Held(n)
  OBVIOUS
<1>2. \A k \in Node : \A t \in Held(k) : t.seq \in Nat /\ 1 <= t.seq
  <2>1. \A k \in Node : \A t \in Held(k) : t \in Txn
    BY DEF Held, TypeOK, VolumeOK
  <2>2. \A t \in Txn : t.seq \in 1 .. (MaxWrites + MaxEra + 1)
    BY DEF Txn, Seqs
  <2>3. QED BY <2>1, <2>2, BoundAssumption
<1>3. ASSUME NEW t \in Held(n) PROVE t \in Held(m)
  <2>1. t.seq <= u.seq
    <3>1. SUFFICES ASSUME ~ (t.seq <= u.seq) PROVE FALSE
      OBVIOUS
    <3>2. u.seq \in 1 .. t.seq
      BY <1>2, <3>1
    <3>3. PICK v \in Held(n) : v.seq = u.seq
      BY <3>2 DEF OneLog
    <3>4. v = u
      BY <3>3, GtidsAreSeqs
    <3>5. QED BY <1>1, <3>4
  <2>2. t.seq \in 1 .. u.seq
    BY <1>2, <2>1
  <2>3. PICK w \in Held(m) : w.seq = t.seq
    BY <2>2 DEF OneLog
  <2>4. w = t
    BY <2>3, GtidsAreSeqs
  <2>5. QED BY <2>4
<1>4. Gtid(u) \in Gtids(Held(m)) /\ Gtid(u) \notin Gtids(Held(n))
  BY <1>1, GtidsAreSeqs DEF Gtids
<1>5. Gtids(Held(n)) \subseteq Gtids(Held(m))
  BY <1>3 DEF Gtids
<1>6. QED BY <1>4, <1>5

(* What every step but a commit does: each volume holds afterwards what some volume held before,
   or nothing, and a primary everything there is. *)
LEMMA LogShuffled ==
    ASSUME OneLog,
           \A k \in Node : Held(k)' = {} \/ \E j \in Node : Held(k)' = Held(j)
    PROVE  OneLog'
<1> DEFINE H(k) == Held(k)'
<1>1. \A k \in Node : H(k) = {} \/ \E j \in Node : H(k) = Held(j)
  OBVIOUS
<1>2. ASSUME NEW k \in Node, NEW t \in H(k)
      PROVE  /\ t.src = 0 /\ t.era # 0
             /\ \A s \in 1 .. t.seq : \E u \in H(k) : u.seq = s
  <2>1. PICK j \in Node : H(k) = Held(j)
    BY <1>1, <1>2
  <2>2. QED BY <1>2, <2>1 DEF OneLog
<1>3. ASSUME NEW k \in Node, NEW m \in Node, NEW t \in H(k), NEW u \in H(m), t.seq = u.seq
      PROVE  t = u
  <2>1. PICK j \in Node : H(k) = Held(j)
    BY <1>1, <1>3
  <2>2. PICK i \in Node : H(m) = Held(i)
    BY <1>1, <1>3
  <2>3. QED BY <1>3, <2>1, <2>2 DEF OneLog
<1>4. QED BY <1>2, <1>3 DEF OneLog

LEMMA HeldKept ==
    ASSUME OneLog, PrimaryLeads, \A k \in Node : Held(k)' = Held(k),
           \A k \in Node : role'[k] = "PRIMARY" => role[k] = "PRIMARY",
           \A k \in Node : plan'[k].do = "flag" => plan[k].do = "flag" /\ role'[k] = role[k]
    PROVE  OneLog' /\ PrimaryLeads'
<1>1. OneLog'
  BY LogShuffled
<1>2. PrimaryLeads'
  BY DEF PrimaryLeads
<1>3. QED BY <1>1, <1>2

LEMMA MemberHolds ==
    ASSUME ElectInv, NEW n \in Node, group[n] # 0
    PROVE  ~ Newborn(n) /\ Held(n) = txns[n]
BY DEF ElectInv, Idle, Newborn, Held

LEMMA PrimaryHolds ==
    ASSUME ElectInv, HistoryInv, NEW p \in Node, role[p] = "PRIMARY"
    PROVE  /\ group[p] # 0 /\ ~ Newborn(p) /\ Held(p) = txns[p]
           /\ \A m \in Node : Held(m) \subseteq txns[p]
           /\ \A t, u \in txns[p] : Gtid(t) = Gtid(u) => t = u
<1>1. group[p] # 0
  BY DEF ElectInv, Planned
<1>2. ~ Newborn(p) /\ Held(p) = txns[p]
  BY <1>1, MemberHolds
<1>3. \A t, u \in txns[p] : Gtid(t) = Gtid(u) => t = u
  BY <1>2, GtidsAreSeqs DEF HistoryInv
<1>4. QED BY <1>1, <1>2, <1>3 DEF HistoryInv, PrimaryLeads

(* A boot and its settling leave what the volume holds alone. *)
LEMMA BootHolds ==
    ASSUME VolumesStay, TypeOK, HistoryInv, NEW n \in Node,
           Boot(n) \/ SettleFresh(n) \/ SettleExisting(n)
    PROVE  /\ \A k \in Node : Held(k)' = Held(k)
           /\ \A k \in Node : k # n => /\ pc'[k] = pc[k] /\ fresh'[k] = fresh[k]
                                       /\ txns'[k] = txns[k] /\ initialised'[k] = initialised[k]
           /\ Newborn(n)' => txns'[n] = {InitNoise(n)}
           /\ ~ initialised'[n] => txns'[n] = {}
<1>1. \A k \in Node : k # n => /\ pc'[k] = pc[k] /\ fresh'[k] = fresh[k] /\ txns'[k] = txns[k]
                               /\ initialised'[k] = initialised[k]
  BY DEF Boot, SettleFresh, SettleExisting, TypeOK, VolumeOK, ProcessOK
<1>2. /\ Held(n)' = Held(n)
      /\ Newborn(n)' => txns'[n] = {InitNoise(n)}
      /\ ~ initialised'[n] => txns'[n] = {}
  <2>1. CASE Boot(n)
    BY <2>1 DEF Boot, Held, Newborn, TypeOK, VolumeOK, ProcessOK, HistoryInv, NoiseApart, InitNoise
  <2>2. CASE SettleFresh(n)
    <3>1. txns'[n] = {} /\ pc'[n] = "loop" /\ Newborn(n)
      BY <2>2 DEF SettleFresh, VolumesStay, TypeOK, VolumeOK, ProcessOK, Newborn
    <3>2. QED BY <3>1 DEF Held, Newborn
  <2>3. CASE SettleExisting(n)
    BY <2>3 DEF SettleExisting, Held, Newborn, TypeOK, VolumeOK, ProcessOK, HistoryInv, NoiseApart
  <2>4. QED BY <2>1, <2>2, <2>3
<1>3. \A k \in Node : Held(k)' = Held(k)
  BY <1>1, <1>2 DEF Held, Newborn
<1>4. QED BY <1>1, <1>2, <1>3

LEMMA BootHistory ==
    ASSUME VolumesStay, TypeOK, ElectInv, LeadInv, HistoryInv, NEW n \in Node,
           Boot(n) \/ SettleFresh(n) \/ SettleExisting(n)
    PROVE  HistoryInv'
<1>1. /\ UNCHANGED <<plan, role>>
      /\ \A k \in Node : ~ gone'[k] /\ groupName'[k] = 0
  BY DEF Boot, SettleFresh, SettleExisting, world, TypeOK, VolumeOK, WorldOK, HistoryInv, Unwaived, Waiving
<1>2. NoiseApart'
  BY BootHolds DEF NoiseApart, HistoryInv, Newborn, InitNoise
<1>3. OneLog' /\ PrimaryLeads'
  BY <1>1, BootHolds, HeldKept DEF HistoryInv
<1>4. Unwaived'
  BY <1>1 DEF Unwaived, Waiving, HistoryInv
<1>5. QED BY <1>2, <1>3, <1>4 DEF HistoryInv

LEMMA RoundHistory ==
    ASSUME TypeOK, HistoryInv, NEW n \in Node, Round(n) PROVE HistoryInv'
<1>1. PICK heard \in Heard(n), waived \in SUBSET Waivable(n) :
        \E unread \in Unread(heard) : RoundSeeing(n, heard, waived, unread)
  BY DEF Round
<1>2. PICK unread \in Unread(heard) : RoundSeeing(n, heard, waived, unread)
  BY <1>1
<1>3. waived = {} /\ Live(heard) \in SUBSET Node
  BY DEF Waivable, HistoryInv, Unwaived, Waiving, Peers, Live, Heard, Answering
<1>4. ~ DecideWaiverBootstrap(n, heard, waived, unread)
  BY <1>3 DEF DecideWaiverBootstrap
<1>5. UNCHANGED <<initialised, txns, pc, fresh, role, gone>>
  BY <1>2, <1>4 DEF RoundSeeing, RefuseIdentity, AdoptIdentity, Wait, StartDwell,
     DecideBootstrap, volume, world
<1>6. \A k \in Node : groupName'[k] = 0
  <2>1. CASE AdoptIdentity(n, Live(heard), unread)
    <3>1. PICK from \in First(Live(heard)) :
            groupName' = [groupName EXCEPT ![n] = groupName[from]]
      BY <2>1 DEF AdoptIdentity
    <3>2. groupName[from] = 0
      BY <1>3, <3>1 DEF First, HistoryInv, Unwaived, Waiving
    <3>3. QED BY <3>1, <3>2 DEF HistoryInv, Unwaived, Waiving, TypeOK, VolumeOK
  <2>2. CASE groupName' = groupName
    BY <2>2 DEF HistoryInv, Unwaived, Waiving
  <2>3. QED
    BY <1>2, <1>4, <2>1, <2>2 DEF RoundSeeing, RefuseIdentity, Wait, StartDwell,
       DecideBootstrap, volume
<1>7. \A k \in Node : /\ ~ Waiving(k)'
                      /\ plan'[k].do = "flag" => plan[k].do = "flag"
  <2>1. \/ plan' = plan
        \/ plan' = [plan EXCEPT ![n] = Plan("bootstrap", n)]
        \/ \E name, donor, mine : plan' = [plan EXCEPT ![n] =
              JoinPlan(n, name, donor, mine, Live(heard), unread)]
    BY <1>2, <1>4 DEF RoundSeeing, RefuseIdentity, AdoptIdentity, Wait, StartDwell,
       DecideBootstrap
  <2>2. \A name, donor, mine :
           JoinPlan(n, name, donor, mine, Live(heard), unread).do \in {"none", "join", "clone"}
    BY DEF JoinPlan, NoPlan, Plan
  <2>3. Plan("bootstrap", n).do = "bootstrap"
    BY DEF Plan
  <2>4. plan'[n] = plan[n] \/ plan'[n].do \in {"none", "join", "clone", "bootstrap"}
    BY <2>1, <2>2, <2>3 DEF TypeOK, ProcessOK
  <2>5. \A k \in Node : k # n => plan'[k] = plan[k]
    BY <2>1 DEF TypeOK, ProcessOK
  <2>6. QED BY <2>4, <2>5 DEF HistoryInv, Unwaived, Waiving
<1>8. Unwaived' /\ NoiseApart'
  BY <1>5, <1>6, <1>7 DEF HistoryInv, Unwaived, Waiving, NoiseApart, Newborn
<1>9. OneLog' /\ PrimaryLeads'
  <2>1. \A k \in Node : Held(k)' = Held(k)
    BY <1>5 DEF Held, Newborn
  <2>2. QED BY <1>5, <1>7, <2>1, HeldKept DEF HistoryInv
<1>10. QED BY <1>8, <1>9 DEF HistoryInv

(* The winner holds the whole log: nobody is strictly ahead of it, and all are comparable. *)
LEMMA BootstrapHistory ==
    ASSUME TypeOK, ElectInv, LeadInv, HistoryInv, NEW n \in Node, Bootstrap(n) PROVE HistoryInv'
<1>1. plan[n].do = "bootstrap" /\ Deciding(n)
  BY DEF Bootstrap, Deciding, HistoryInv, Unwaived, Waiving
<1>2. \A m \in Node : ~ Newborn(m) /\ Held(m) = txns[m]
  BY <1>1 DEF LeadInv, Leading, NewVolume, Newborn, Held
<1>3. ASSUME NEW m \in Node PROVE Held(m) \subseteq Held(n)
  BY <1>1, <1>2, AheadOrWithin DEF LeadInv, Leading, HistoryInv
<1>4. /\ UNCHANGED <<txns, initialised, groupName, pc, fresh, gone>>
      /\ plan'[n].do \in {"flag", "none"}
      /\ \A m \in Node : m # n => plan'[m] = plan[m] /\ role'[m] = role[m]
      /\ role'[n] = "PRIMARY"
  BY DEF Bootstrap, volume, TypeOK, ProcessOK, Plan, NoPlan
<1>5. \A m \in Node : role[m] # "PRIMARY" /\ plan[m].do # "flag"
  BY <1>1 DEF ElectInv, DecidesAlone, Planned
<1>6. \A m \in Node : Held(m)' = Held(m)
  BY <1>4 DEF Held, Newborn
<1>7. OneLog'
  BY <1>6, LogShuffled DEF HistoryInv
<1>8. PrimaryLeads'
  BY <1>3, <1>4, <1>5, <1>6 DEF PrimaryLeads
<1>9. Unwaived' /\ NoiseApart'
  BY <1>4 DEF HistoryInv, Unwaived, Waiving, NoiseApart, Newborn
<1>10. QED BY <1>7, <1>8, <1>9 DEF HistoryInv

(* Steps that leave every history and every role alone. *)
LEMMA StillHistory ==
    ASSUME TypeOK, HistoryInv, NEW n \in Node,
           BootstrapFails(n) \/ JoinFails(n) \/ Activate(n) \/ AnswerPoll(n)
    PROVE  HistoryInv'
<1>1. UNCHANGED <<txns, initialised, groupName, fresh, role, gone>>
  BY DEF BootstrapFails, JoinFails, Activate, AnswerPoll, volume, process, world
<1>2. \A m \in Node : plan'[m] = plan[m] \/ plan'[m] = NoPlan
  BY DEF BootstrapFails, JoinFails, Activate, AnswerPoll, process, TypeOK, ProcessOK
<1>3. \A m \in Node : pc'[m] = pc[m] \/ (pc[m] = "loop" /\ pc'[m] = "member")
  BY DEF BootstrapFails, JoinFails, Activate, AnswerPoll, process, TypeOK, ProcessOK
<1>4. \A m \in Node : /\ plan'[m].do = "flag" => plan[m].do = "flag"
                      /\ ~ Waiving(m)'
  BY <1>2 DEF NoPlan, Plan, HistoryInv, Unwaived, Waiving
<1>5. \A m \in Node : (Newborn(m)' <=> Newborn(m)) /\ Held(m)' = Held(m)
  BY <1>1, <1>3 DEF Held, Newborn
<1>6. OneLog' /\ PrimaryLeads'
  BY <1>1, <1>4, <1>5, HeldKept DEF HistoryInv
<1>7. Unwaived' /\ NoiseApart'
  BY <1>1, <1>4, <1>5 DEF HistoryInv, Unwaived, Waiving, NoiseApart, InitNoise
<1>8. QED BY <1>6, <1>7 DEF HistoryInv

(* The primary commits: the next entry of the log, which nobody has seen. *)
LEMMA CommitHistory ==
    ASSUME TypeOK, ElectInv, LeadInv, HistoryInv, NEW n \in Node, role[n] = "PRIMARY",
           NEW flag \in BOOLEAN, Commit(n, flag),
           UNCHANGED <<initialised, groupName, pc, fresh, role, gone>>,
           \A m \in Node : plan'[m] = plan[m] \/ plan'[m] = NoPlan
    PROVE  HistoryInv'
<1>1. PICK s \in Seqs :
        /\ NextSeq(n, s)
        /\ txns' = [txns EXCEPT ![n] = @ \cup
              {[src |-> groupName[n], seq |-> s, era |-> group[n], flag |-> flag]}]
  BY DEF Commit
<1> DEFINE new == [src |-> groupName[n], seq |-> s, era |-> group[n], flag |-> flag]
<1>2. new.src = 0 /\ new.seq = s /\ new.era # 0 /\ s \in Nat /\ 1 <= s
  BY BoundAssumption, PrimaryHolds DEF HistoryInv, Unwaived, Waiving, Seqs
<1>3. \A m \in Node : /\ Newborn(m)' <=> Newborn(m)
                      /\ m # n => Held(m)' = Held(m)
  BY <1>1 DEF Held, Newborn, TypeOK, VolumeOK
<1>4. ~ Newborn(n) /\ Held(n) = txns[n] /\ \A m \in Node : Held(m) \subseteq Held(n)
  BY PrimaryHolds
<1>5. Held(n)' = Held(n) \cup {new}
  BY <1>1, <1>3, <1>4 DEF Held, TypeOK, VolumeOK
<1>6. \A m \in Node : \A t \in Held(m) : t.src = 0 /\ t.seq # s
  <2>1. <<0, s>> \notin Gtids(Held(n)) /\ \A t \in Held(n) : t.src = 0
    BY <1>1, <1>4 DEF NextSeq, HistoryInv, Unwaived, Waiving, OneLog
  <2>2. QED BY <1>4, <2>1 DEF Gtids, Gtid
<1>7. \A r \in 1 .. (s - 1) : \E u \in Held(n) : u.seq = r
  <2>1. \A r \in 1 .. (s - 1) : <<0, r>> \in Gtids(Held(n))
    BY <1>1, <1>4 DEF NextSeq, HistoryInv, Unwaived, Waiving
  <2>2. QED BY <2>1 DEF Gtids, Gtid
<1> HIDE DEF new
<1>8. ASSUME NEW k \in Node, NEW t \in Held(k)'
      PROVE  /\ t.src = 0 /\ t.era # 0
             /\ \A r \in 1 .. t.seq : \E u \in Held(k)' : u.seq = r
  <2>1. CASE t \in Held(k)
    <3>1. Held(k) \subseteq Held(k)'
      BY <1>3, <1>5
    <3>2. QED BY <2>1, <3>1 DEF HistoryInv, OneLog
  <2>2. CASE t \notin Held(k)
    <3>1. k = n /\ t = new
      BY <1>3, <1>5, <1>8, <2>2
    <3>2. ASSUME NEW r \in 1 .. s PROVE \E u \in Held(k)' : u.seq = r
      <4>1. r = s \/ r \in 1 .. (s - 1)
        BY <1>2, <3>2
      <4>2. QED BY <1>2, <1>5, <1>7, <3>1, <4>1
    <3>3. QED BY <1>2, <3>1, <3>2
  <2>3. QED BY <2>1, <2>2
<1>9. ASSUME NEW k \in Node, NEW m \in Node, NEW t \in Held(k)', NEW u \in Held(m)', t.seq = u.seq
      PROVE  t = u
  <2>1. (t \in Held(k) \/ t = new) /\ (u \in Held(m) \/ u = new)
    BY <1>3, <1>5, <1>9
  <2>2. QED BY <1>2, <1>6, <1>9, <2>1 DEF HistoryInv, OneLog
<1>10. OneLog'
  BY <1>8, <1>9 DEF OneLog
<1>11. \A m \in Node : plan'[m].do = "flag" => plan[m].do = "flag"
  BY DEF NoPlan, Plan
<1>12. PrimaryLeads'
  <2>1. \A m \in Node : role'[m] = "PRIMARY" => m = n
    BY DEF HistoryInv, PrimaryLeads
  <2>2. \A m \in Node : Held(m)' \subseteq Held(n)'
    BY <1>3, <1>4, <1>5
  <2>3. QED BY <1>11, <2>1, <2>2 DEF HistoryInv, PrimaryLeads
<1>13. Unwaived'
  BY DEF HistoryInv, Unwaived, Waiving, NoPlan, Plan
<1>14. NoiseApart'
  <2>1. initialised[n]
    BY PrimaryHolds DEF ElectInv, Idle, LeadInv, Initialised
  <2>2. QED BY <1>1, <1>3, <1>4, <2>1 DEF HistoryInv, NoiseApart, InitNoise, TypeOK, VolumeOK
<1>15. QED BY <1>10, <1>12, <1>13, <1>14 DEF HistoryInv

(* One node takes over what another holds. *)
LEMMA TakenOver ==
    ASSUME HistoryInv, NEW n \in Node, role'[n] # "PRIMARY",
           \A k \in Node : k # n => Held(k)' = Held(k),
           \E j \in Node : Held(n)' = Held(j),
           \A k \in Node : role'[k] = "PRIMARY" => role[k] = "PRIMARY",
           \A k \in Node : plan'[k].do = "flag" => plan[k].do = "flag" /\ role'[k] = role[k]
    PROVE  OneLog' /\ PrimaryLeads'
<1>1. \A k \in Node : \E j \in Node : Held(k)' = Held(j)
  OBVIOUS
<1>2. OneLog'
  BY <1>1, LogShuffled DEF HistoryInv
<1>3. PrimaryLeads'
  <2>1. ASSUME NEW k \in Node, role'[k] = "PRIMARY", NEW m \in Node
        PROVE  Held(m)' \subseteq Held(k)'
    <3>1. PICK j \in Node : Held(m)' = Held(j)
      BY <1>1
    <3>2. Held(k)' = Held(k) /\ role[k] = "PRIMARY"
      BY <2>1
    <3>3. QED BY <3>1, <3>2 DEF HistoryInv, PrimaryLeads
  <2>2. QED BY <2>1 DEF HistoryInv, PrimaryLeads
<1>4. QED BY <1>2, <1>3

LEMMA JoinHistory ==
    ASSUME TypeOK, ElectInv, LeadInv, HistoryInv, NEW n \in Node, Join(n) \/ Apply(n)
    PROVE  HistoryInv'
<1>1. PICK p \in Node : /\ p # n /\ role[p] = "PRIMARY"
                        /\ txns' = [txns EXCEPT ![n] = Merge(@, txns[p])]
                        /\ Apply(n) => group[p] = group[n]
  BY DEF Join, Apply, Primaries, Peers
<1>2. /\ UNCHANGED <<initialised, groupName, pc, fresh, gone>>
      /\ \A k \in Node : k # n => role'[k] = role[k] /\ plan'[k] = plan[k]
      /\ \/ role'[n] = "SECONDARY" /\ plan'[n] = NoPlan
         \/ role' = role /\ plan' = plan
  <2>1. CASE Join(n)
    BY <2>1 DEF Join, world, TypeOK, ProcessOK
  <2>2. CASE Apply(n)
    BY <2>2 DEF Apply, process, world
  <2>3. QED BY <2>1, <2>2
<1>3. pc[n] \notin {"off", "boot"}
  <2>1. CASE Join(n)
    BY <2>1 DEF Join, ElectInv, Planned, Acting
  <2>2. CASE Apply(n)
    BY <1>1, <2>2, PrimaryHolds DEF ElectInv, Idle
  <2>3. QED BY <2>1, <2>2
<1>4. \A k \in Node : (Newborn(k)' <=> Newborn(k)) /\ (k # n => Held(k)' = Held(k))
  BY <1>1, <1>2 DEF Held, Newborn, TypeOK, VolumeOK
<1>5. Held(n) = txns[n] /\ ~ Newborn(n)
  BY <1>3 DEF Held, Newborn
<1>6. Merge(txns[n], txns[p]) = txns[p]
  BY <1>1, <1>5, MergeHeld, PrimaryHolds
<1>7. txns'[n] = txns[p] /\ Held(n)' = Held(p)
  BY <1>1, <1>4, <1>5, <1>6, PrimaryHolds DEF Held, TypeOK, VolumeOK
<1>8. role[n] # "PRIMARY"
  BY <1>1 DEF HistoryInv, PrimaryLeads
<1>9. \A k \in Node : plan'[k].do = "flag" => plan[k].do = "flag" /\ role'[k] = role[k]
  BY <1>2 DEF NoPlan, Plan
<1>10. OneLog' /\ PrimaryLeads'
  BY <1>2, <1>4, <1>7, <1>8, <1>9, TakenOver
<1>11. Unwaived'
  BY <1>2 DEF HistoryInv, Unwaived, Waiving, NoPlan, Plan
<1>12. NoiseApart'
  <2>1. initialised[n]
    BY <1>3 DEF LeadInv, Initialised
  <2>2. QED BY <1>1, <1>2, <1>4, <1>5, <2>1 DEF HistoryInv, NoiseApart, InitNoise, TypeOK, VolumeOK
<1>13. QED BY <1>10, <1>11, <1>12 DEF HistoryInv

LEMMA CloneHistory ==
    ASSUME TypeOK, ElectInv, LeadInv, HistoryInv, NEW n \in Node, Clone(n) PROVE HistoryInv'
<1>1. PICK donor \in Peers(n) : /\ plan[n] = Plan("clone", donor) /\ group[donor] # 0
                                /\ txns' = [txns EXCEPT ![n] = txns[donor]]
  BY DEF Clone
<1>2. plan[n].do = "clone"
  BY <1>1 DEF Plan
<1>3. pc[n] = "loop" /\ group[n] = 0 /\ role[n] # "PRIMARY"
  BY <1>2 DEF ElectInv, Planned, Acting
<1>4. /\ UNCHANGED <<initialised, fresh, role, gone>>
      /\ pc'[n] = "off" /\ plan'[n] = NoPlan
      /\ \A k \in Node : k # n => pc'[k] = pc[k] /\ plan'[k] = plan[k]
      /\ \A k \in Node : groupName'[k] = 0
  BY DEF Clone, world, TypeOK, VolumeOK, ProcessOK, HistoryInv, Unwaived, Waiving
<1>5. Held(donor) = txns[donor] /\ donor \in Node
  BY <1>1, MemberHolds DEF Peers
<1>6. Held(n)' = Held(donor) /\ ~ Newborn(n)'
  BY <1>1, <1>4, <1>5 DEF Held, Newborn, TypeOK, VolumeOK
<1>7. \A k \in Node : k # n => (Newborn(k)' <=> Newborn(k)) /\ Held(k)' = Held(k)
  BY <1>1, <1>4 DEF Held, Newborn, TypeOK, VolumeOK
<1>8. \A k \in Node : plan'[k].do = "flag" => plan[k].do = "flag"
  BY <1>4 DEF NoPlan, Plan
<1>9. OneLog' /\ PrimaryLeads'
  BY <1>3, <1>4, <1>5, <1>6, <1>7, <1>8, TakenOver
<1>10. Unwaived'
  BY <1>4 DEF HistoryInv, Unwaived, Waiving, NoPlan, Plan
<1>11. NoiseApart'
  <2>1. initialised[n]
    BY <1>3 DEF LeadInv, Initialised
  <2>2. QED BY <1>1, <1>4, <1>6, <1>7, <2>1 DEF HistoryInv, NoiseApart, InitNoise, TypeOK, VolumeOK
<1>12. QED BY <1>9, <1>10, <1>11 DEF HistoryInv

(* A primary that leaves is succeeded by a member that has applied all it held, or by nobody. *)
LEMMA LeaveHistory ==
    ASSUME VolumesStay, TypeOK, ElectInv, LeadInv, HistoryInv, NEW n \in Node,
           NEW clean \in BOOLEAN, Leave(n, clean)
    PROVE  HistoryInv'
<1>1. /\ UNCHANGED <<initialised, groupName, fresh, gone>>
      /\ pc[n] # "off" /\ pc'[n] = "off" /\ plan'[n] = NoPlan
      /\ \A k \in Node : k # n => pc'[k] = pc[k] /\ plan'[k] = plan[k]
  BY DEF Leave, TypeOK, ProcessOK
<1>2. ~ Newborn(n) /\ ~ Newborn(n)'
  BY <1>1 DEF Leave, HoldsNothing, Newborn, VolumesStay
<1>3. \A k \in Node : Newborn(k)' <=> Newborn(k)
  BY <1>1, <1>2 DEF Newborn
<1>4. Unwaived'
  BY <1>1 DEF HistoryInv, Unwaived, Waiving, NoPlan, Plan
<1>5. \A k \in Node : plan'[k].do = "flag" => k # n /\ plan[k].do = "flag"
  BY <1>1 DEF NoPlan, Plan
<1>6. CASE txns' = txns /\ role' = [role EXCEPT ![n] = "NONE"]
  <2>1. \A k \in Node : Held(k)' = Held(k)
    BY <1>3, <1>6 DEF Held
  <2>2. \A k \in Node : /\ role'[k] = "PRIMARY" => role[k] = "PRIMARY"
                        /\ k # n => role'[k] = role[k]
    BY <1>6 DEF TypeOK, ProcessOK
  <2>3. OneLog' /\ PrimaryLeads'
    BY <1>5, <2>1, <2>2, HeldKept DEF HistoryInv
  <2>4. NoiseApart'
    BY <1>1, <1>3, <1>6 DEF HistoryInv, NoiseApart, InitNoise
  <2>5. QED BY <1>4, <2>3, <2>4 DEF HistoryInv
<1>7. CASE /\ role[n] = "PRIMARY"
           /\ \E p \in Mates(n) :
                /\ role' = [role EXCEPT ![n] = "NONE", ![p] = "PRIMARY"]
                /\ txns' = [txns EXCEPT ![p] = Merge(@, txns[n])]
  <2>1. PICK p \in Mates(n) :
           /\ role' = [role EXCEPT ![n] = "NONE", ![p] = "PRIMARY"]
           /\ txns' = [txns EXCEPT ![p] = Merge(@, txns[n])]
    BY <1>7
  <2>2. p \in Node /\ p # n /\ group[p] # 0
    BY DEF Mates, Peers
  <2>3. ~ Newborn(p) /\ Held(p) = txns[p]
    BY <2>2, MemberHolds
  <2>4. Held(n) = txns[n] /\ Merge(txns[p], txns[n]) = txns[n]
    BY <1>7, <2>2, <2>3, MergeHeld, PrimaryHolds
  <2>5. Held(p)' = Held(n)
    BY <1>3, <2>1, <2>2, <2>3, <2>4 DEF Held, TypeOK, VolumeOK
  <2>6. \A k \in Node : k # p => Held(k)' = Held(k)
    BY <1>3, <2>1, <2>2 DEF Held, TypeOK, VolumeOK
  <2>7. OneLog'
    BY <2>5, <2>6, LogShuffled DEF HistoryInv
  <2>8. \A k \in Node : role'[k] = "PRIMARY" <=> k = p
    BY <1>7, <2>1, <2>2 DEF HistoryInv, PrimaryLeads, TypeOK, ProcessOK
  <2>9. PrimaryLeads'
    <3>1. \A k \in Node : plan'[k].do # "flag"
      BY <1>5, <1>7 DEF HistoryInv, PrimaryLeads
    <3>2. \A m \in Node : Held(m)' \subseteq Held(p)'
      BY <1>7, <2>2, <2>5, <2>6 DEF HistoryInv, PrimaryLeads
    <3>3. QED BY <2>8, <3>1, <3>2 DEF PrimaryLeads
  <2>10. NoiseApart'
    <3>1. initialised[p]
      BY <2>2 DEF ElectInv, Idle, LeadInv, Initialised
    <3>2. QED BY <1>1, <1>3, <2>1, <2>2, <2>3, <3>1
             DEF HistoryInv, NoiseApart, InitNoise, TypeOK, VolumeOK
  <2>11. QED BY <1>4, <2>7, <2>9, <2>10 DEF HistoryInv
<1>8. QED BY <1>6, <1>7 DEF Leave

LEMMA InitHistory == Init => HistoryInv /\ EmptyClones
<1> SUFFICES ASSUME Init PROVE HistoryInv /\ EmptyClones
  OBVIOUS
<1>1. \A n \in Node : /\ ~ gone[n] /\ groupName[n] = 0 /\ plan[n].do = "none"
                      /\ role[n] = "NONE" /\ txns[n] = {} /\ pc[n] = "off"
  BY DEF Init, NoPlan, Plan
<1>2. \A n \in Node : ~ Newborn(n) /\ Held(n) = {}
  BY <1>1 DEF Newborn, Held
<1>3. QED
  BY <1>1, <1>2 DEF HistoryInv, Unwaived, Waiving, NoiseApart, OneLog, PrimaryLeads, EmptyClones

LEMMA NextHistory ==
    ASSUME VolumesStay
    PROVE  TypeOK /\ ElectInv /\ LeadInv /\ HistoryInv /\ [Next]_vars => HistoryInv'
<1> SUFFICES ASSUME TypeOK, ElectInv, LeadInv, HistoryInv, [Next]_vars PROVE HistoryInv'
  OBVIOUS
<1>1. CASE UNCHANGED vars
  <2>1. \A n \in Node : (Newborn(n)' <=> Newborn(n)) /\ Held(n)' = Held(n)
    BY <1>1 DEF vars, volume, process, Newborn, Held
  <2>2. OneLog' /\ PrimaryLeads'
    BY <1>1, <2>1, HeldKept DEF HistoryInv, vars, process
  <2>3. Unwaived' /\ NoiseApart'
    BY <1>1, <2>1 DEF HistoryInv, Unwaived, Waiving, NoiseApart, InitNoise, vars, volume, process, world
  <2>4. QED BY <2>2, <2>3 DEF HistoryInv
<1>2. CASE Next
  <2>1. PICK n \in Node :
          \/ Boot(n) \/ SettleFresh(n) \/ SettleExisting(n)
          \/ Round(n)
          \/ Bootstrap(n) \/ BootstrapFails(n) \/ WriteFlag(n)
          \/ Join(n) \/ JoinFails(n) \/ Clone(n)
          \/ Activate(n) \/ AnswerPoll(n)
          \/ ClientWrite(n) \/ Apply(n)
          \/ \E clean \in BOOLEAN : Leave(n, clean)
          \/ Retire(n) \/ Reprovision(n)
    BY <1>2, NothingPersisted DEF Next
  <2>2. CASE \E clean \in BOOLEAN : Leave(n, clean)
    BY <2>2, LeaveHistory
  <2>3. CASE Boot(n) \/ SettleFresh(n) \/ SettleExisting(n) \/ Round(n) \/ Bootstrap(n)
    BY <2>3, BootHistory, RoundHistory, BootstrapHistory
  <2>4. CASE BootstrapFails(n) \/ JoinFails(n) \/ Activate(n) \/ AnswerPoll(n)
    BY <2>4, StillHistory
  <2>5. CASE Join(n) \/ Apply(n) \/ Clone(n)
    BY <2>5, JoinHistory, CloneHistory
  <2>6. CASE WriteFlag(n)
    <3>1. role[n] = "PRIMARY"
      BY <2>6 DEF WriteFlag, HistoryInv, PrimaryLeads
    <3>2. /\ UNCHANGED <<initialised, groupName, pc, fresh, role, gone>>
          /\ \A m \in Node : plan'[m] = plan[m] \/ plan'[m] = NoPlan
      BY <2>6 DEF WriteFlag, world, TypeOK, ProcessOK
    <3>3. CASE Commit(n, TRUE)
      BY <3>1, <3>2, <3>3, CommitHistory
    <3>4. CASE txns' = txns
      <4>1. \A m \in Node : (Newborn(m)' <=> Newborn(m)) /\ Held(m)' = Held(m)
        BY <3>2, <3>4 DEF Newborn, Held
      <4>2. \A m \in Node : /\ plan'[m].do = "flag" => plan[m].do = "flag"
                            /\ ~ Waiving(m)'
        BY <3>2 DEF NoPlan, Plan, HistoryInv, Unwaived, Waiving
      <4>3. OneLog' /\ PrimaryLeads'
        BY <3>2, <4>1, <4>2, HeldKept DEF HistoryInv
      <4>4. QED
        BY <3>2, <3>4, <4>1, <4>2, <4>3 DEF HistoryInv, Unwaived, Waiving, NoiseApart, InitNoise
    <3>5. QED BY <2>6, <3>3, <3>4 DEF WriteFlag
  <2>7. CASE ClientWrite(n)
    <3>1. /\ role[n] = "PRIMARY" /\ Commit(n, FALSE)
          /\ UNCHANGED <<initialised, groupName, pc, fresh, role, gone, plan>>
      BY <2>7 DEF ClientWrite, process
    <3>2. QED BY <3>1, CommitHistory
  <2>8. CASE Retire(n) \/ Reprovision(n)
    BY <2>8 DEF Retire, Reprovision, VolumesStay
  <2>9. QED BY <2>1, <2>2, <2>3, <2>4, <2>5, <2>6, <2>7, <2>8
<1>3. QED BY <1>1, <1>2

LEMMA HistoryHolds == ASSUME VolumesStay PROVE Spec => [](TypeOK /\ ElectInv /\ LeadInv /\ HistoryInv)
<1>1. Init => ElectInv /\ LeadInv /\ HistoryInv
  <2>1. Init => LeadInv
    BY DEF Init, LeadInv, Initialised, Leading, NoPlan, Plan
  <2>2. QED BY <2>1, InitElect, InitHistory
<1>2. TypeOK /\ (ElectInv /\ LeadInv /\ HistoryInv) /\ [Next]_vars
        => (ElectInv /\ LeadInv /\ HistoryInv)'
  BY NextElect, NextLead, NextHistory DEF VolumesStay
<1>3. QED BY <1>1, <1>2, TypeCorrect, PTL DEF Spec

(* gr.rs:7-16, what the bootstrap guard is for: while nobody is given up on, no dataset becomes
   the source of truth beside another; no GTID ever stands for two transactions, through crashes,
   lost answers, failed attempts, failed reads and adopted volumes. *)
THEOREM NeverForks == ASSUME VolumesStay PROVE Spec => []NoInvisibleFork
<1>1. TypeOK /\ HistoryInv => NoInvisibleFork
  <2> SUFFICES ASSUME TypeOK, HistoryInv, NEW n \in Node, NEW m \in Node,
                      NEW t \in txns[n], NEW u \in txns[m], Gtid(t) = Gtid(u)
               PROVE  t = u
    BY DEF NoInvisibleFork
  <2>1. \A k \in Node : Newborn(k) => txns[k] = {InitNoise(k)}
    BY DEF HistoryInv, NoiseApart
  <2>2. \A k \in Node : ~ Newborn(k) => Held(k) = txns[k] /\ \A v \in txns[k] : v.src = 0
    BY DEF Held, HistoryInv, OneLog
  <2>3. t.src = u.src
    BY DEF Gtid
  <2>4. CASE Newborn(n) /\ Newborn(m)
    <3>1. t = InitNoise(n) /\ u = InitNoise(m)
      BY <2>1, <2>4
    <3>2. n = m
      BY <2>3, <3>1 DEF InitNoise
    <3>3. QED BY <3>1, <3>2
  <2>5. CASE ~ Newborn(n) /\ ~ Newborn(m)
    BY <2>2, <2>5, GtidsAreSeqs DEF HistoryInv
  <2>6. 0 \notin Node /\ \A k \in Node : Newborn(k) => \A v \in txns[k] : v.src = k
    BY <2>1, UuidAssumption DEF InitNoise
  <2>7. CASE Newborn(n) /\ ~ Newborn(m)
    BY <2>2, <2>3, <2>6, <2>7
  <2>8. CASE ~ Newborn(n) /\ Newborn(m)
    BY <2>2, <2>3, <2>6, <2>8
  <2>9. QED BY <2>4, <2>5, <2>7, <2>8
<1>2. QED BY <1>1, HistoryHolds, PTL

(* Without a failed read of its own GTIDs a node never clones over transactions: no live primary
   is behind it, so it holds none where the group's adopted data call for a clone. *)
LEMMA NextClones ==
    ASSUME VolumesStay, "gtid_unread" \notin Faults
    PROVE  TypeOK /\ ElectInv /\ HistoryInv /\ EmptyClones /\ [Next]_vars => EmptyClones'
<1> SUFFICES ASSUME TypeOK, ElectInv, HistoryInv, EmptyClones, [Next]_vars,
                    NEW k \in Node, plan'[k].do = "clone"
             PROVE  txns'[k] = {}
  BY DEF EmptyClones
<1>1. CASE \E n \in Node : Round(n)
  <2>1. PICK n \in Node : Round(n)
    BY <1>1
  <2>2. PICK heard \in Heard(n), waived \in SUBSET Waivable(n) :
          \E unread \in Unread(heard) : RoundSeeing(n, heard, waived, unread)
    BY <2>1 DEF Round
  <2>3. PICK unread \in Unread(heard) : RoundSeeing(n, heard, waived, unread)
    BY <2>2
  <2>4. txns' = txns
    BY <2>3 DEF RoundSeeing, RefuseIdentity, AdoptIdentity, Wait, StartDwell,
       DecideBootstrap, DecideWaiverBootstrap, volume
  <2>5. CASE AdoptIdentity(n, Live(heard), unread)
    <3>1. PICK from \in First(Live(heard)), donor \in Donors(Live(heard)),
               mine \in ReadOwnGtids(n) :
             plan' = [plan EXCEPT ![n] =
                JoinPlan(n, groupName[from], donor, mine, Live(heard), unread)]
      BY <2>5 DEF AdoptIdentity
    <3>2. mine = Gtids(txns[n])
      BY <3>1 DEF ReadOwnGtids
    <3>3. Held(n) = txns[n]
      BY <2>1 DEF Round, Held, Newborn
    <3>4. Live(heard) \subseteq Node
      BY DEF Live, Heard, Answering, Peers
    <3>5. \A p \in First(Primaries(Live(heard))) : mine \subseteq Gtids(txns[p])
      BY <3>2, <3>3, <3>4, PrimaryHolds DEF First, Primaries, Gtids
    <3>6. ~ HistoryDiverged(mine, Live(heard))
      BY <3>5 DEF HistoryDiverged
    <3>7. CASE k = n
      <4>1. JoinPlan(n, groupName[from], donor, mine, Live(heard), unread).do = "clone"
        BY <3>1, <3>7 DEF TypeOK, ProcessOK
      <4>2. JoinMethod(preGtid[n], mine, Carries(Live(heard), unread),
                       SomeUnknown(Live(heard), unread)) = "clone"
        BY <3>6, <4>1 DEF JoinPlan, NoPlan, Plan
      <4>3. mine = {}
        BY <4>2 DEF JoinMethod
      <4>4. QED BY <2>4, <3>2, <3>7, <4>3 DEF Gtids
    <3>8. CASE k # n
      BY <2>4, <3>1, <3>8 DEF EmptyClones, TypeOK, ProcessOK
    <3>9. QED BY <3>7, <3>8
  <2>6. CASE ~ AdoptIdentity(n, Live(heard), unread)
    <3>1. plan'[k] = plan[k] \/ plan'[k].do \in {"bootstrap", "waive"}
      BY <2>3, <2>6 DEF RoundSeeing, RefuseIdentity, Wait, StartDwell, DecideBootstrap,
         DecideWaiverBootstrap, Plan, Waive, TypeOK, ProcessOK
    <3>2. QED BY <2>4, <3>1 DEF EmptyClones
  <2>7. QED BY <2>5, <2>6
<1>2. CASE UNCHANGED vars
  BY <1>2 DEF vars, volume, process, EmptyClones
<1>3. CASE Next /\ ~ \E n \in Node : Round(n)
  <2>1. PICK n \in Node :
          \/ Boot(n) \/ SettleFresh(n) \/ SettleExisting(n)
          \/ Bootstrap(n) \/ BootstrapFails(n) \/ WriteFlag(n)
          \/ Join(n) \/ JoinFails(n) \/ Clone(n)
          \/ Activate(n) \/ AnswerPoll(n)
          \/ ClientWrite(n) \/ Apply(n)
          \/ \E clean \in BOOLEAN : Leave(n, clean)
          \/ Retire(n)
    BY <1>3, NothingPersisted DEF Next, Reprovision, VolumesStay
  <2>2. plan'[k] = plan[k] \/ plan'[k].do \in {"none", "flag"}
    <3>1. \/ plan' = plan \/ plan' = [plan EXCEPT ![n] = NoPlan]
          \/ plan' = [plan EXCEPT ![n] = Plan("flag", n)]
      BY <2>1 DEF Boot, SettleFresh, SettleExisting, Bootstrap, BootstrapFails, WriteFlag, Join,
         JoinFails, Clone, Activate, AnswerPoll, ClientWrite, Apply, Leave, Retire, volume, process
    <3>2. NoPlan.do = "none" /\ Plan("flag", n).do = "flag"
      BY DEF NoPlan, Plan
    <3>3. QED BY <3>1, <3>2 DEF TypeOK, ProcessOK
  <2>3. plan'[k] = plan[k] /\ plan[k].do = "clone" /\ txns[k] = {}
    BY <2>2 DEF EmptyClones
  <2>4. pc[k] = "loop" /\ group[k] = 0 /\ role[k] # "PRIMARY"
    BY <2>3 DEF ElectInv, Planned, Acting
  <2>5. txns'[k] = txns[k]
    <3>1. CASE Boot(n) \/ SettleFresh(n) \/ SettleExisting(n)
      BY <2>4, <3>1 DEF Boot, SettleFresh, SettleExisting, TypeOK, VolumeOK
    <3>2. CASE \/ Bootstrap(n) \/ BootstrapFails(n) \/ JoinFails(n) \/ Activate(n)
               \/ AnswerPoll(n) \/ Retire(n)
      BY <3>2 DEF Bootstrap, BootstrapFails, JoinFails, Activate, AnswerPoll, Retire, volume
    <3>3. CASE WriteFlag(n) \/ ClientWrite(n)
      <4>1. role[n] = "PRIMARY"
        BY <3>3 DEF WriteFlag, ClientWrite, HistoryInv, PrimaryLeads
      <4>2. k # n
        BY <2>4, <4>1
      <4>3. QED BY <3>3, <4>2 DEF WriteFlag, ClientWrite, Commit, TypeOK, VolumeOK
    <3>4. CASE Join(n) \/ Clone(n)
      <4>1. plan'[n].do = "none"
        BY <3>4 DEF Join, Clone, NoPlan, Plan, TypeOK, ProcessOK
      <4>2. k # n
        BY <2>3, <4>1
      <4>3. QED BY <3>4, <4>2 DEF Join, Clone, TypeOK, VolumeOK
    <3>5. CASE Apply(n)
      <4>1. group[n] # 0
        BY <3>5, PrimaryHolds DEF Apply, Primaries, Peers
      <4>2. QED BY <2>4, <3>5, <4>1 DEF Apply, TypeOK, VolumeOK
    <3>6. CASE \E clean \in BOOLEAN : Leave(n, clean)
      <4>1. k \notin Mates(n)
        BY <2>4 DEF Mates
      <4>2. QED BY <3>6, <4>1 DEF Leave, TypeOK, VolumeOK
    <3>7. QED BY <2>1, <3>1, <3>2, <3>3, <3>4, <3>5, <3>6
  <2>6. QED BY <2>3, <2>5
<1>4. QED BY <1>1, <1>2, <1>3

(* A step that drops a transaction drops init noise, or starts a new volume. *)
LEMMA NothingLost ==
    ASSUME VolumesStay, TypeOK, ElectInv, HistoryInv, EmptyClones, [Next]_vars,
           NEW k \in Node, NEW t \in txns[k], t.era # 0
    PROVE  t \in txns'[k]
<1>1. \A S, T : S \subseteq Merge(S, T)
  BY DEF Merge
<1>2. CASE UNCHANGED vars
  BY <1>2 DEF vars, volume
<1>3. CASE Next
  <2>1. PICK n \in Node :
          \/ Boot(n) \/ SettleFresh(n) \/ SettleExisting(n)
          \/ Round(n)
          \/ Bootstrap(n) \/ BootstrapFails(n) \/ WriteFlag(n)
          \/ Join(n) \/ JoinFails(n) \/ Clone(n)
          \/ Activate(n) \/ AnswerPoll(n)
          \/ ClientWrite(n) \/ Apply(n)
          \/ \E clean \in BOOLEAN : Leave(n, clean)
          \/ Retire(n)
    BY <1>3, NothingPersisted DEF Next, Reprovision, VolumesStay
  <2>2. CASE Boot(n)
    BY <2>2 DEF Boot, HistoryInv, NoiseApart, TypeOK, VolumeOK
  <2>3. CASE SettleFresh(n)
    <3>1. txns[n] = {InitNoise(n)} /\ InitNoise(n).era = 0
      BY <2>3 DEF SettleFresh, HistoryInv, NoiseApart, Newborn, InitNoise
    <3>2. k # n
      BY <3>1
    <3>3. QED BY <2>3, <3>2 DEF SettleFresh, TypeOK, VolumeOK
  <2>4. CASE \/ SettleExisting(n) \/ Bootstrap(n) \/ BootstrapFails(n) \/ JoinFails(n)
             \/ Activate(n) \/ AnswerPoll(n) \/ Retire(n)
    BY <2>4 DEF SettleExisting, Bootstrap, BootstrapFails, JoinFails, Activate, AnswerPoll,
       Retire, volume
  <2>5. CASE Round(n)
    BY <2>5 DEF Round, RoundSeeing, RefuseIdentity, AdoptIdentity, Wait, StartDwell,
       DecideBootstrap, DecideWaiverBootstrap, volume
  <2>6. CASE WriteFlag(n) \/ ClientWrite(n)
    BY <2>6 DEF WriteFlag, ClientWrite, Commit, TypeOK, VolumeOK
  <2>7. CASE Join(n) \/ Apply(n)
    BY <1>1, <2>7 DEF Join, Apply, TypeOK, VolumeOK
  <2>8. CASE Clone(n)
    <3>1. \A donor : Plan("clone", donor).do = "clone"
      BY DEF Plan
    <3>2. k # n
      BY <2>8, <3>1 DEF Clone, EmptyClones
    <3>3. QED BY <2>8, <3>2 DEF Clone, TypeOK, VolumeOK
  <2>9. CASE \E clean \in BOOLEAN : Leave(n, clean)
    <3>1. \/ txns' = txns
          \/ \E p \in Node : txns' = [txns EXCEPT ![p] = Merge(@, txns[n])]
      BY <2>9 DEF Leave, Mates, Peers
    <3>2. QED BY <1>1, <3>1 DEF TypeOK, VolumeOK
  <2>10. QED BY <2>1, <2>2, <2>3, <2>4, <2>5, <2>6, <2>7, <2>8, <2>9
<1>4. QED BY <1>2, <1>3

(* gr.rs:46-51, its first half: while nobody is given up on, no transaction is thrown away from
   any volume.  A node that misreads its own GTIDs as none may clone over them, hence the second
   hypothesis. *)
THEOREM NothingDiscarded ==
    ASSUME VolumesStay, "gtid_unread" \notin Faults PROVE Spec => DiscardsOnlyPastWaiver
<1>1. Init => EmptyClones
  BY InitHistory
<1>2. TypeOK /\ ElectInv /\ LeadInv /\ HistoryInv /\ EmptyClones /\ [Next]_vars => EmptyClones'
  BY NextClones
<1>3. TypeOK /\ ElectInv /\ LeadInv /\ HistoryInv /\ EmptyClones /\ [Next]_vars =>
        [\A n \in Node : \A t \in txns[n] \ txns'[n] :
            t.era # 0 /\ initialised'[n] =>
               t.era < lastWaiver \/ TookOver(plan[n].of, n)]_vars
  BY NothingLost
<1>4. QED BY <1>1, <1>2, <1>3, HistoryHolds, PTL DEF Spec, DiscardsOnlyPastWaiver

-----------------------------------------------------------------------------
(* Somebody wins. *)

(* Where no volume was adopted there is never a pre-GTID claim: a node that stops has committed
   or received something by then, so none is taken for an adopted one. *)
Plain ==
    \A n \in Node :
        /\ base[n] = NoBase /\ ~ preGtid[n] /\ plan[n].do \notin {"clone", "flag"}
        /\ \A t \in txns[n] : ~ t.flag
        /\ initialised[n] /\ (pc[n] = "off" \/ (pc[n] = "boot" /\ ~ fresh[n])) => txns[n] # {}

LEMMA RoundPlain ==
    ASSUME TypeOK, ElectInv, HistoryInv, Plain, NEW n \in Node, Round(n)
    PROVE  Plain'
<1>1. PICK heard \in Heard(n), waived \in SUBSET Waivable(n) :
        \E unread \in Unread(heard) : RoundSeeing(n, heard, waived, unread)
  BY DEF Round
<1>2. PICK unread \in Unread(heard) : RoundSeeing(n, heard, waived, unread)
  BY <1>1
<1>3. UNCHANGED <<initialised, txns, base, preGtid, pc, fresh>>
  BY <1>2 DEF RoundSeeing, RefuseIdentity, AdoptIdentity, Wait, StartDwell,
     DecideBootstrap, DecideWaiverBootstrap, volume
<1>4. Live(heard) \subseteq Node
  BY DEF Live, Heard, Answering, Peers
<1>5. ~ Carries(Live(heard), unread)
  BY <1>4 DEF Carries, PreGtidClaim, Flagged, Plain
<1>6. CASE AdoptIdentity(n, Live(heard), unread)
  <2>1. PICK from \in First(Live(heard)), donor \in Donors(Live(heard)),
             mine \in ReadOwnGtids(n) :
           plan' = [plan EXCEPT ![n] =
              JoinPlan(n, groupName[from], donor, mine, Live(heard), unread)]
    BY <1>6 DEF AdoptIdentity
  <2>2. Held(n) = txns[n]
    BY DEF Round, Held, Newborn
  <2>3. \A p \in First(Primaries(Live(heard))) : Gtids(txns[n]) \subseteq Gtids(txns[p])
    BY <1>4, <2>2, PrimaryHolds DEF First, Primaries, Gtids
  <2>4. ~ HistoryDiverged(mine, Live(heard))
    BY <2>3 DEF HistoryDiverged, ReadOwnGtids
  <2>5. JoinMethod(preGtid[n], mine, Carries(Live(heard), unread),
                   SomeUnknown(Live(heard), unread)) # "clone"
    BY <1>5 DEF JoinMethod, Plain
  <2>6. JoinPlan(n, groupName[from], donor, mine, Live(heard), unread).do \in {"none", "join"}
    BY <2>4, <2>5 DEF JoinPlan, NoPlan, Plan
  <2>7. \A k \in Node : plan'[k] = plan[k] \/ plan'[k].do \in {"none", "join"}
    BY <2>1, <2>6 DEF TypeOK, ProcessOK
  <2>8. QED BY <1>3, <2>7 DEF Plain
<1>7. CASE ~ AdoptIdentity(n, Live(heard), unread)
  <2>1. \A k \in Node : plan'[k] = plan[k] \/ plan'[k].do \in {"bootstrap", "waive"}
    BY <1>2, <1>7 DEF RoundSeeing, RefuseIdentity, Wait, StartDwell, DecideBootstrap,
       DecideWaiverBootstrap, Plan, Waive, TypeOK, ProcessOK
  <2>2. QED BY <1>3, <2>1 DEF Plain
<1>8. QED BY <1>6, <1>7

LEMMA BootPlain ==
    ASSUME VolumesStay, TypeOK, LeadInv, Plain, NEW n \in Node,
           Boot(n) \/ SettleFresh(n) \/ SettleExisting(n)
    PROVE  Plain'
<1>1. UNCHANGED <<base, plan>>
  BY DEF Boot, SettleFresh, SettleExisting, world, process
<1>2. \A k \in Node : k # n =>
        /\ pc'[k] = pc[k] /\ fresh'[k] = fresh[k] /\ txns'[k] = txns[k]
        /\ initialised'[k] = initialised[k] /\ preGtid'[k] = preGtid[k]
  BY DEF Boot, SettleFresh, SettleExisting, TypeOK, VolumeOK, ProcessOK
<1>3. /\ ~ preGtid'[n] /\ \A t \in txns'[n] : ~ t.flag
      /\ pc'[n] = "off" \/ (pc'[n] = "boot" /\ ~ fresh'[n]) => txns'[n] # {}
  <2>1. CASE Boot(n)
    <3>1. /\ preGtid' = preGtid /\ pc'[n] = "boot" /\ fresh'[n] = ~ initialised[n]
          /\ txns'[n] = IF initialised[n] THEN txns[n] ELSE {InitNoise(n)}
      BY <2>1 DEF Boot, TypeOK, VolumeOK, ProcessOK
    <3>2. \A t \in txns'[n] : ~ t.flag
      BY <3>1 DEF Plain, InitNoise
    <3>3. initialised[n] => txns'[n] # {}
      BY <2>1, <3>1 DEF Boot, Plain
    <3>4. fresh'[n] \/ initialised[n]
      BY <2>1 DEF Boot, TypeOK, ProcessOK
    <3>5. ~ preGtid'[n]
      BY <3>1 DEF Plain
    <3>6. QED BY <3>1, <3>2, <3>3, <3>4, <3>5
  <2>2. CASE SettleFresh(n)
    BY <2>2 DEF SettleFresh, Plain, VolumesStay, TypeOK, VolumeOK, ProcessOK
  <2>3. CASE SettleExisting(n)
    <3>1. txns[n] # {} /\ ~ preGtid[n]
      BY <2>3 DEF SettleExisting, Plain, LeadInv, Initialised
    <3>2. txns' = txns /\ pc'[n] = "loop" /\ ~ preGtid'[n]
      BY <2>3, <3>1 DEF SettleExisting, TypeOK, VolumeOK, ProcessOK
    <3>3. QED BY <3>1, <3>2 DEF Plain
  <2>4. QED BY <2>1, <2>2, <2>3
<1>4. QED BY <1>1, <1>2, <1>3 DEF Plain

LEMMA OtherPlain ==
    ASSUME VolumesStay, TypeOK, HistoryInv, Plain, NEW n \in Node,
           \/ Bootstrap(n) \/ BootstrapFails(n) \/ WriteFlag(n)
           \/ Join(n) \/ JoinFails(n) \/ Clone(n)
           \/ Activate(n) \/ AnswerPoll(n)
           \/ ClientWrite(n) \/ Apply(n)
           \/ \E clean \in BOOLEAN : Leave(n, clean)
           \/ Retire(n) \/ Reprovision(n)
    PROVE  Plain'
<1>1. ~ Clone(n) /\ ~ WriteFlag(n) /\ ~ Reprovision(n)
  <2>1. \A donor : Plan("clone", donor).do = "clone"
    BY DEF Plan
  <2>2. QED BY <2>1 DEF Clone, WriteFlag, Reprovision, VolumesStay, Plain
<1>2. UNCHANGED <<initialised, base, preGtid, fresh>>
  BY <1>1 DEF Bootstrap, BootstrapFails, Join, JoinFails, Activate, AnswerPoll, ClientWrite,
     Apply, Leave, Retire, volume, process
<1>3. \A k \in Node : plan'[k] = plan[k] \/ plan'[k].do = "none"
  <2>1. plan' = plan \/ plan' = [plan EXCEPT ![n] = NoPlan]
    BY <1>1 DEF Bootstrap, BootstrapFails, Join, JoinFails, Activate, AnswerPoll, ClientWrite,
       Apply, Leave, Retire, volume, process, Plain
  <2>2. QED BY <2>1 DEF NoPlan, Plan, TypeOK, ProcessOK
<1>4. \A k \in Node : txns[k] # {} => txns'[k] # {}
  <2>1. CASE ClientWrite(n)
    BY <2>1 DEF ClientWrite, Commit, TypeOK, VolumeOK
  <2>2. CASE Join(n) \/ Apply(n)
    BY <2>2 DEF Join, Apply, Merge, TypeOK, VolumeOK
  <2>3. CASE \E clean \in BOOLEAN : Leave(n, clean)
    <3>1. \/ txns' = txns
          \/ \E p \in Node : txns' = [txns EXCEPT ![p] = Merge(@, txns[n])]
      BY <2>3 DEF Leave, Mates, Peers
    <3>2. QED BY <3>1 DEF Merge, TypeOK, VolumeOK
  <2>4. CASE ~ (ClientWrite(n) \/ Join(n) \/ Apply(n) \/ \E clean \in BOOLEAN : Leave(n, clean))
    BY <1>1, <2>4 DEF Bootstrap, BootstrapFails, JoinFails, Activate, AnswerPoll, Retire, volume
  <2>5. QED BY <2>1, <2>2, <2>3, <2>4
<1>5. \A k \in Node : \A t \in txns'[k] : ~ t.flag
  <2>1. CASE ClientWrite(n)
    BY <2>1 DEF ClientWrite, Commit, Plain, TypeOK, VolumeOK
  <2>2. CASE Join(n) \/ Apply(n)
    <3>1. PICK p \in Node : txns' = [txns EXCEPT ![n] = Merge(@, txns[p])]
      BY <2>2 DEF Join, Apply, Primaries, Peers
    <3>2. QED BY <3>1 DEF Merge, Plain, TypeOK, VolumeOK
  <2>3. CASE \E clean \in BOOLEAN : Leave(n, clean)
    <3>1. \/ txns' = txns
          \/ \E p \in Node : txns' = [txns EXCEPT ![p] = Merge(@, txns[n])]
      BY <2>3 DEF Leave, Mates, Peers
    <3>2. QED BY <3>1 DEF Merge, Plain, TypeOK, VolumeOK
  <2>4. CASE ~ (ClientWrite(n) \/ Join(n) \/ Apply(n) \/ \E clean \in BOOLEAN : Leave(n, clean))
    BY <1>1, <2>4 DEF Bootstrap, BootstrapFails, JoinFails, Activate, AnswerPoll, Retire, volume,
       Plain
  <2>5. QED BY <2>1, <2>2, <2>3, <2>4
<1>6. ASSUME NEW k \in Node, initialised'[k], pc'[k] = "off" \/ (pc'[k] = "boot" /\ ~ fresh'[k])
      PROVE  txns'[k] # {}
  <2>1. CASE k = n /\ \E clean \in BOOLEAN : Leave(n, clean)
    <3>1. txns[n] # {}
      BY <2>1 DEF Leave, HoldsNothing, VolumesStay, Plain
    <3>2. QED BY <1>4, <2>1, <3>1
  <2>2. CASE ~ (k = n /\ \E clean \in BOOLEAN : Leave(n, clean))
    <3>1. pc'[k] = pc[k] \/ pc'[k] = "member"
      BY <1>1, <2>2 DEF Bootstrap, BootstrapFails, Join, JoinFails, Activate, AnswerPoll,
         ClientWrite, Apply, Leave, Retire, volume, process, TypeOK, ProcessOK
    <3>2. QED BY <1>2, <1>4, <1>6, <3>1 DEF Plain
  <2>3. QED BY <2>1, <2>2
<1>7. QED BY <1>2, <1>3, <1>5, <1>6 DEF Plain

LEMMA InitPlain == ASSUME AdoptedRoots = {} PROVE Init => Plain
<1> SUFFICES ASSUME Init, NEW n \in Node
             PROVE  /\ base[n] = NoBase /\ ~ preGtid[n] /\ plan[n].do \notin {"clone", "flag"}
                    /\ txns[n] = {} /\ ~ initialised[n]
  BY DEF Plain
<1>1. base[n] = NoBase /\ ~ preGtid[n] /\ txns[n] = {} /\ ~ initialised[n]
  BY DEF Init
<1>2. plan[n].do = "none"
  BY DEF Init, NoPlan, Plan
<1>3. QED BY <1>1, <1>2

LEMMA NextPlain ==
    ASSUME VolumesStay, TypeOK, ElectInv, LeadInv, HistoryInv, Plain, [Next]_vars
    PROVE  Plain'
<1>1. CASE UNCHANGED vars
  BY <1>1 DEF vars, volume, process, Plain
<1>2. CASE Next
  <2>1. PICK n \in Node :
          \/ Boot(n) \/ SettleFresh(n) \/ SettleExisting(n)
          \/ Round(n)
          \/ Bootstrap(n) \/ BootstrapFails(n) \/ WriteFlag(n)
          \/ Join(n) \/ JoinFails(n) \/ Clone(n)
          \/ Activate(n) \/ AnswerPoll(n)
          \/ ClientWrite(n) \/ Apply(n)
          \/ \E clean \in BOOLEAN : Leave(n, clean)
          \/ Retire(n) \/ Reprovision(n)
    BY <1>2, NothingPersisted DEF Next
  <2>2. CASE Boot(n) \/ SettleFresh(n) \/ SettleExisting(n)
    BY <2>2, BootPlain
  <2>3. CASE Round(n)
    BY <2>3, RoundPlain
  <2>4. QED BY <2>1, <2>2, <2>3, OtherPlain
<1>3. QED BY <1>1, <1>2

LEMMA Least ==
    ASSUME NEW S, NEW f, S # {}, \A x \in S : f[x] \in Nat
    PROVE  \E x \in S : \A y \in S : f[x] <= f[y]
<1> DEFINE values == {f[x] : x \in S}
<1>1. values \subseteq Nat /\ values # {}
  OBVIOUS
<1>2. PICK k \in values : \A j \in values : ~ (<<j, k>> \in OpToRel(<, Nat))
  BY <1>1, NatLessThanWellFounded, WFMin
<1>3. \A j \in values : k <= j
  <2> HIDE DEF values
  <2>1. SUFFICES ASSUME NEW j \in values PROVE k <= j
    OBVIOUS
  <2>2. j \in Nat /\ k \in Nat
    BY <1>1, <1>2
  <2>3. ~ (j < k)
    BY <1>2, <2>2 DEF OpToRel
  <2>4. QED BY <2>2, <2>3
<1>4. QED BY <1>3

(* Of volumes that hold prefixes of one log, one holds all that any of them does. *)
LEMMA SomeoneHoldsAll ==
    ASSUME TypeOK, OneLog, Node # {}
    PROVE  \E n \in Node : \A m \in Node : Held(m) \subseteq Held(n)
<1> DEFINE all  == UNION {Held(k) : k \in Node}
           last == MaxWrites + MaxEra + 1
           left == [t \in all |-> last - t.seq]
<1>1. last \in Nat /\ \A t \in all : t.seq \in Nat /\ 1 <= t.seq /\ t.seq <= last
  <2>1. \A k \in Node : \A t \in Held(k) : t \in Txn
    BY DEF Held, TypeOK, VolumeOK
  <2>2. \A t \in all : t \in Txn
    BY <2>1
  <2>3. \A t \in Txn : t.seq \in 1 .. last
    BY DEF Txn, Seqs
  <2>4. last \in Nat
    BY BoundAssumption
  <2> HIDE DEF last, all
  <2>5. QED BY <2>2, <2>3, <2>4
<1>2. CASE all = {}
  BY <1>2
<1>3. CASE all # {}
  <2>1. \A t \in all : left[t] \in Nat
    <3> HIDE DEF all, last
    <3>1. QED BY <1>1
  <2>2. PICK t \in all : \A u \in all : left[t] <= left[u]
    <3> HIDE DEF all, left
    <3>1. QED BY <1>3, <2>1, Least
  <2>3. \A u \in all : u.seq <= t.seq
    <3> HIDE DEF all, last
    <3>1. \A u \in all : last - t.seq <= last - u.seq
      BY <2>2
    <3>2. QED BY <1>1, <3>1
  <2>4. PICK n \in Node : t \in Held(n)
    OBVIOUS
  <2>5. ASSUME NEW m \in Node, NEW u \in Held(m) PROVE u \in Held(n)
    <3>1. u.seq \in 1 .. t.seq
      <4>1. u \in all
        BY <2>5
      <4> HIDE DEF all, last
      <4>2. QED BY <1>1, <2>3, <4>1
    <3>2. PICK v \in Held(n) : v.seq = u.seq
      BY <2>4, <3>1 DEF OneLog
    <3>3. v = u
      BY <2>5, <3>2, GtidsAreSeqs
    <3>4. QED BY <3>3
  <2>6. QED BY <2>5
<1>4. QED BY <1>2, <1>3

LEMMA SomeoneBeatsAll ==
    ASSUME TypeOK, HistoryInv, Plain, Node # {}, \A n \in Node : pc[n] = "loop"
    PROVE  \E n \in Node : \A m \in Peers(n) : Beats(n, m, FALSE)
<1>1. \A k \in Node : Held(k) = txns[k]
  BY DEF Held, Newborn
<1>2. PICK h \in Node : \A m \in Node : txns[m] \subseteq txns[h]
  BY <1>1, SomeoneHoldsAll DEF HistoryInv
<1> DEFINE full == {k \in Node : txns[k] = txns[h]}
<1>3. PICK n \in full : \A m \in full : Rank[n] <= Rank[m]
  <2>1. full # {} /\ \A k \in full : Rank[k] \in Nat
    BY RankAssumption
  <2> HIDE DEF full
  <2>2. QED BY <2>1, Least
<1>4. ASSUME NEW m \in Peers(n) PROVE Beats(n, m, FALSE)
  <2>1. m \in Node /\ n \in Node /\ m # n
    BY DEF Peers
  <2>2. txns[m] \subseteq txns[n]
    BY <1>2, <2>1
  <2>3. Gtids(txns[m]) \subseteq Gtids(txns[n])
    BY <2>2 DEF Gtids
  <2>4. ~ Ahead(Mine(n), Advert(m, FALSE))
    BY <2>3 DEF Ahead, Diverged, Mine, Advert
  <2>5. ASSUME Gtids(txns[n]) = Gtids(txns[m]) PROVE Rank[n] < Rank[m]
    <3>1. ASSUME NEW t \in txns[n] PROVE t \in txns[m]
      <4>1. PICK u \in txns[m] : Gtid(u) = Gtid(t)
        BY <2>5, <3>1 DEF Gtids
      <4>2. u = t
        BY <1>1, <2>1, <3>1, <4>1, GtidsAreSeqs DEF HistoryInv
      <4>3. QED BY <4>2
    <3>2. m \in full
      BY <2>1, <2>2, <3>1
    <3>3. Rank[n] <= Rank[m] /\ Rank[n] \in Nat /\ Rank[m] \in Nat /\ Rank[n] # Rank[m]
      BY <1>3, <2>1, <3>2, RankAssumption
    <3>4. QED BY <3>3
  <2>6. ~ PreGtidClaim(m, FALSE) /\ Rank[n] \in Nat /\ Rank[m] \in Nat
    BY <2>1, RankAssumption DEF PreGtidClaim, Flagged, Plain
  <2>7. ~ TieLost(Mine(n), Advert(m, FALSE))
    <3>1. Gtids(txns[n]) = Gtids(txns[m]) => ~ (Rank[m] < Rank[n])
      BY <2>5, <2>6
    <3>2. QED BY <2>6, <3>1 DEF TieLost, Mine, Advert
  <2>8. QED BY <2>4, <2>7 DEF Beats, SafeToBootstrap
<1>5. QED BY <1>4

(* gr.rs:42-51: while no service is given up on, none was adopted and none loses its volume,
   a cluster whose nodes are all looking for a group always has one to form it: the longest
   history, and among its holders the first of GR_SEEDS. *)
THEOREM SomeoneWins ==
    ASSUME VolumesStay, AdoptedRoots = {}, Node # {}
    PROVE  Spec => []ExactlyOneWinner
<1>1. Init => Plain
  BY InitPlain
<1>2. TypeOK /\ ElectInv /\ LeadInv /\ HistoryInv /\ Plain /\ [Next]_vars => Plain'
  BY NextPlain
<1>3. TypeOK /\ HistoryInv /\ Plain => ExactlyOneWinner
  BY SomeoneBeatsAll DEF ExactlyOneWinner
<1>4. QED BY <1>1, <1>2, <1>3, HistoryHolds, PTL DEF Spec

-----------------------------------------------------------------------------
(* One adopted volume. *)

(* One volume was adopted, peers that are up answer, reads of a node's own GTIDs succeed, and
   post_bootstrap writes the flag; the flag reads of others may fail, members may crash and
   bootstraps may fail. *)
OneAdoption(root) ==
    /\ VolumesStay /\ AdoptedRoots = {root}
    /\ Faults \cap {"query_lost", "gtid_unread", "flag_unwritten", "clone_drops_markers"} = {}

(* A volume without the adopted data holds nothing, and its node is in no group; ... *)
Bare ==
    \A n \in Node : base[n] = NoBase =>
        /\ Held(n) = {} /\ ~ preGtid[n] /\ group[n] = 0 /\ ~ Deciding(n)
        /\ initialised[n] => pc[n] # "off" /\ (pc[n] = "boot" => fresh[n])

(* ... one with them says so, or has a history, the root always the former. *)
Rooted(root) ==
    /\ base[root] = root
    /\ pc[root] \in {"loop", "member"} \/ txns[root] # {} => preGtid[root]
    /\ \A n \in Node : base[n] # NoBase =>
          /\ base[n] = root /\ initialised[n] /\ ~ Newborn(n)
          /\ pc[n] \in {"loop", "member"} => preGtid[n] \/ txns[n] # {}

(* There is no history without the flag, or the primary that is about to write it. *)
FlagKept ==
    /\ \A n \in Node :
          /\ plan[n].do = "flag" => preGtid[n]
          /\ role[n] = "PRIMARY" => Flagged(n) \/ plan[n].do = "flag"
          /\ Deciding(n) => preGtid[n] \/ Flagged(n)
    /\ \A n \in Node : Held(n) # {} => \E p \in Node : Flagged(p) \/ plan[p].do = "flag"

Unclaimed(n) == ~ preGtid[n] /\ ~ Flagged(n)

(* A bare node may plan a plain join when all it hears of a group is what is left of a blocked
   one, which never applied the flag.  By then no group has a primary, and whoever is in a dwell
   either waits for that join to fail or lacks the flag, so it will not win. *)
StaleJoins ==
    /\ \A m \in Node : safe[m] /\ group[m] # 0 => role[m] = "PRIMARY"
    /\ \A s, m \in Node :
          group[s] # 0 /\ Unclaimed(s) /\ safe[m] /\ group[m] = 0 => ~ Flagged(m)
    /\ \A j \in Node : base[j] = NoBase /\ plan[j].do = "join" =>
          /\ \E p \in Node : Flagged(p)
          /\ \A m \in Node : /\ role[m] # "PRIMARY" /\ ~ Deciding(m)
                             /\ safe[m] => j \in inflight[m] \/ ~ Flagged(m)

AdoptInv(root) == Bare /\ Rooted(root) /\ FlagKept /\ StaleJoins

LEMMA InitAdopt ==
    ASSUME NEW root \in Node, OneAdoption(root) PROVE Init => AdoptInv(root)
<1> SUFFICES ASSUME Init PROVE AdoptInv(root)
  OBVIOUS
<1>1. root # NoBase
  BY NodeAssumption
<1>2. \A n \in Node :
        /\ txns[n] = {} /\ ~ preGtid[n] /\ group[n] = 0 /\ plan[n].do = "none" /\ pc[n] = "off"
        /\ initialised[n] = (n = root) /\ base[n] = (IF n = root THEN root ELSE NoBase)
        /\ role[n] = "NONE" /\ ~ safe[n]
  BY DEF Init, OneAdoption, NoPlan, Plan
<1>3. Bare
  BY <1>1, <1>2 DEF Bare, Held, Deciding
<1>4. Rooted(root)
  BY <1>1, <1>2 DEF Rooted, Newborn
<1>5. FlagKept
  BY <1>2 DEF FlagKept, Held, Deciding
<1>6. StaleJoins
  BY <1>2 DEF StaleJoins
<1>7. QED BY <1>3, <1>4, <1>5, <1>6 DEF AdoptInv

LEMMA FlaggedHeld ==
    ASSUME HistoryInv, NEW n \in Node, Flagged(n)
    PROVE  ~ Newborn(n) /\ \E t \in Held(n) : t.flag
<1>1. ~ Newborn(n)
  BY DEF Flagged, HistoryInv, NoiseApart, InitNoise
<1>2. QED BY <1>1 DEF Held, Flagged

LEMMA FlagsStay ==
    ASSUME VolumesStay, TypeOK, ElectInv, HistoryInv, EmptyClones, [Next]_vars,
           NEW n \in Node, Flagged(n)
    PROVE  Flagged(n)'
<1>1. PICK t \in Held(n) : t.flag
  BY FlaggedHeld
<1>2. t \in txns[n] /\ t.era # 0
  BY <1>1, FlaggedHeld DEF Held, HistoryInv, OneLog
<1>3. t \in txns'[n]
  BY <1>2, NothingLost
<1>4. QED BY <1>1, <1>3 DEF Flagged

(* Whoever lacks the flag is behind whoever has it. *)
LEMMA BehindTheFlag ==
    ASSUME TypeOK, HistoryInv, NEW n \in Node, NEW m \in Node, ~ Newborn(n),
           Flagged(m), ~ Flagged(n), NEW unread
    PROVE  Ahead(Mine(n), Advert(m, unread))
<1>1. ~ Newborn(m) /\ \E t \in Held(m) : t.flag
  BY FlaggedHeld
<1>2. Held(n) = txns[n] /\ Held(m) = txns[m]
  BY <1>1 DEF Held
<1>3. ~ (Held(m) \subseteq Held(n))
  BY <1>1, <1>2 DEF Flagged
<1>4. Gtids(txns[n]) \subseteq Gtids(txns[m]) /\ Gtids(txns[n]) # Gtids(txns[m])
  BY <1>2, <1>3, AheadOrWithin DEF HistoryInv
<1>5. QED BY <1>4 DEF Ahead, Mine, Advert

(* A primary that lacks the flag is ahead of everybody, so nobody has it. *)
LEMMA NobodyFlagged ==
    ASSUME ElectInv, HistoryInv, NEW p \in Node, role[p] = "PRIMARY", ~ Flagged(p)
    PROVE  \A m \in Node : ~ Flagged(m)
<1> SUFFICES ASSUME NEW m \in Node, Flagged(m) PROVE FALSE
  OBVIOUS
<1>1. PICK t \in Held(m) : t.flag
  BY FlaggedHeld
<1>2. t \in txns[p]
  BY <1>1, PrimaryHolds
<1>3. QED BY <1>1, <1>2 DEF Flagged

(* Boot and step 2a: the histories stay, and only a volume with adopted data is taken for one. *)
LEMMA BootAdopt ==
    ASSUME NEW root \in Node, OneAdoption(root), TypeOK, LeadInv, HistoryInv, AdoptInv(root),
           NEW n \in Node, Boot(n) \/ SettleFresh(n) \/ SettleExisting(n)
    PROVE  AdoptInv(root)'
<1>1. UNCHANGED <<base, plan, group, role, safe, inflight>>
  BY DEF Boot, SettleFresh, SettleExisting, process, world
<1>2. \A k \in Node : k # n =>
        /\ pc'[k] = pc[k] /\ fresh'[k] = fresh[k] /\ txns'[k] = txns[k]
        /\ initialised'[k] = initialised[k] /\ preGtid'[k] = preGtid[k]
  BY DEF Boot, SettleFresh, SettleExisting, TypeOK, VolumeOK, ProcessOK
<1>3. /\ base[n] = NoBase =>
           /\ ~ preGtid'[n] /\ initialised'[n] /\ pc'[n] # "off"
           /\ pc'[n] = "boot" => fresh'[n]
           /\ pc'[n] \in {"boot", "loop"} /\ (pc'[n] = "boot" \/ txns'[n] = {})
      /\ base[n] # NoBase =>
           /\ txns'[n] = txns[n] /\ initialised'[n]
           /\ \/ pc'[n] = "boot" /\ ~ fresh'[n] /\ preGtid'[n] = preGtid[n]
              \/ pc'[n] = "loop" /\ preGtid'[n] = (preGtid[n] \/ txns[n] = {})
  <2>1. CASE Boot(n)
    BY <2>1 DEF Boot, AdoptInv, Bare, Rooted, TypeOK, VolumeOK, ProcessOK
  <2>2. CASE SettleFresh(n)
    <3>1. base[n] = NoBase
      BY <2>2 DEF SettleFresh, AdoptInv, Rooted, Newborn
    <3>2. txns'[n] = {} /\ pc'[n] = "loop" /\ preGtid' = preGtid /\ initialised' = initialised
      BY <2>2 DEF SettleFresh, OneAdoption, VolumesStay, TypeOK, VolumeOK, ProcessOK
    <3>3. initialised[n]
      BY <2>2 DEF SettleFresh, LeadInv, Initialised
    <3>4. QED BY <3>1, <3>2, <3>3 DEF AdoptInv, Bare
  <2>3. CASE SettleExisting(n)
    <3>1. initialised[n]
      BY <2>3 DEF SettleExisting, LeadInv, Initialised
    <3>2. base[n] # NoBase
      BY <2>3, <3>1 DEF SettleExisting, AdoptInv, Bare
    <3>3. QED
      BY <2>3, <3>1, <3>2 DEF SettleExisting, TypeOK, VolumeOK, ProcessOK
  <2>4. QED BY <2>1, <2>2, <2>3
<1>4. \A k \in Node : Flagged(k)' = Flagged(k)
  <2>1. CASE base[n] # NoBase
    BY <1>2, <1>3, <2>1 DEF Flagged
  <2>2. CASE base[n] = NoBase
    <3>1. \A t \in txns[n] : ~ t.flag
      BY <2>2 DEF AdoptInv, Bare, Held, HistoryInv, NoiseApart, InitNoise
    <3>2. \A t \in txns'[n] : ~ t.flag
      BY <1>3, <2>2, <3>1 DEF Boot, SettleFresh, SettleExisting, InitNoise, TypeOK, VolumeOK
    <3>3. QED BY <1>2, <3>1, <3>2 DEF Flagged
  <2>3. QED BY <2>1, <2>2
<1>5. \A k \in Node : Held(k)' # {} => Held(k) # {}
  BY <1>2, <1>3 DEF Held, Newborn, AdoptInv, Rooted
<1>6. \A k \in Node : preGtid[k] => preGtid'[k]
  BY <1>2, <1>3 DEF AdoptInv, Bare
<1>7. Bare'
  BY <1>1, <1>2, <1>3, <1>5 DEF AdoptInv, Bare, Deciding
<1>8. Rooted(root)'
  <2>1. base'[root] = root /\ base[root] # NoBase
    BY <1>1, NodeAssumption DEF AdoptInv, Rooted
  <2>2. pc'[root] \in {"loop", "member"} \/ txns'[root] # {} => preGtid'[root]
    <3>1. CASE n = root
      BY <1>3, <2>1, <3>1 DEF AdoptInv, Rooted
    <3>2. CASE n # root
      BY <1>2, <3>2 DEF AdoptInv, Rooted
    <3>3. QED BY <3>1, <3>2
  <2>3. ASSUME NEW k \in Node, base'[k] # NoBase
        PROVE  /\ base'[k] = root /\ initialised'[k] /\ ~ Newborn(k)'
               /\ pc'[k] \in {"loop", "member"} => preGtid'[k] \/ txns'[k] # {}
    <3>1. CASE n = k
      BY <1>1, <1>3, <2>3, <3>1 DEF AdoptInv, Rooted, Newborn
    <3>2. CASE n # k
      BY <1>1, <1>2, <2>3, <3>2 DEF AdoptInv, Rooted, Newborn
    <3>3. QED BY <3>1, <3>2
  <2>4. QED BY <2>1, <2>2, <2>3 DEF Rooted
<1>9. FlagKept'
  BY <1>1, <1>4, <1>5, <1>6 DEF AdoptInv, FlagKept, Deciding
<1>10. StaleJoins'
  BY <1>1, <1>4, <1>6 DEF AdoptInv, StaleJoins, Unclaimed, Deciding
<1>11. QED BY <1>7, <1>8, <1>9, <1>10 DEF AdoptInv

(* A winner has heard everybody: it holds the adopted data, and whatever history there is with
   the flag; so no bare node's plain join is under way. *)
LEMMA WinnerClaims ==
    ASSUME NEW root \in Node, OneAdoption(root), TypeOK, ElectInv, HistoryInv, AdoptInv(root),
           NEW n \in Node, pc[n] = "loop", group[n] = 0, NEW unread,
           Live(Answering(n)) = {}, DecideBootstrap(n, Answering(n), {}, unread)
    PROVE  /\ base[n] # NoBase /\ (preGtid[n] \/ Flagged(n))
           /\ \A j \in Node : ~ (base[j] = NoBase /\ plan[j].do = "join")
<1>1. \A m \in Peers(n) : m \in Node /\ m # n /\ pc[m] \in {"loop", "member"}
  BY DEF DecideBootstrap, RoundIsSafe, Decidable, Considered, Answering, Peers
<1>2. \A m \in Peers(n) : /\ ~ Ahead(Mine(n), Advert(m, m \in unread))
                          /\ ~ TieLost(Mine(n), Advert(m, m \in unread))
  BY DEF DecideBootstrap, RoundIsSafe, SafeToBootstrap, Standings, Considered
<1>3. \A m \in Node : group[m] = 0 /\ plan[m].do # "flag"
  <2>1. \A m \in Peers(n) : group[m] = 0
    BY <1>1 DEF Live, Answering
  <2>2. QED BY <2>1 DEF Peers, ElectInv, Planned
<1>4. (\E p \in Node : Flagged(p)) => Flagged(n)
  BY <1>1, <1>2, BehindTheFlag DEF Peers, Newborn
<1>5. Held(n) = txns[n]
  BY DEF Held, Newborn
<1>6. preGtid[n] \/ Flagged(n)
  <2> SUFFICES ASSUME ~ preGtid[n], ~ Flagged(n) PROVE FALSE
    OBVIOUS
  <2>1. root \in Peers(n) /\ preGtid[root]
    BY <1>1 DEF AdoptInv, Rooted, Peers
  <2>2. txns[n] = {}
    BY <1>3, <1>4, <1>5 DEF AdoptInv, FlagKept
  <2>3. txns[root] = {}
    <3>1. ~ (Gtids(txns[n]) \subseteq Gtids(txns[root]) /\ Gtids(txns[n]) # Gtids(txns[root]))
      BY <1>2, <2>1 DEF Ahead, Mine, Advert
    <3>2. QED BY <2>2, <3>1 DEF Gtids
  <2>4. TieLost(Mine(n), Advert(root, root \in unread))
    BY <2>1, <2>2, <2>3 DEF TieLost, Mine, Advert, PreGtidClaim, Gtids
  <2>5. QED BY <1>2, <2>1, <2>4
<1>7. base[n] # NoBase
  <2>1. Flagged(n) => Held(n) # {}
    BY <1>5 DEF Flagged
  <2>2. QED BY <1>6, <2>1 DEF AdoptInv, Bare
<1>8. \A j \in Node : ~ (base[j] = NoBase /\ plan[j].do = "join")
  <2> SUFFICES ASSUME NEW j \in Node, base[j] = NoBase, plan[j].do = "join" PROVE FALSE
    OBVIOUS
  <2>1. Flagged(n)
    BY <1>4 DEF AdoptInv, StaleJoins
  <2>2. safe[n] /\ inflight[n] = {}
    BY DEF DecideBootstrap, DwellOver
  <2>3. QED BY <2>1, <2>2 DEF AdoptInv, StaleJoins
<1>9. QED BY <1>6, <1>7, <1>8

(* A bare node that plans a plain join has heard every live member, and none claims the data. *)
LEMMA BareJoin ==
    ASSUME NEW root \in Node, OneAdoption(root), TypeOK, ElectInv, HistoryInv, AdoptInv(root),
           NEW n \in Node, base[n] = NoBase, pc[n] = "loop", group[n] = 0, NEW unread,
           AdoptIdentity(n, Live(Answering(n)), unread), Live(Answering(n)) # {},
           plan'[n].do = "join"
    PROVE  /\ \E p \in Node : Flagged(p)
           /\ \A m \in Node : role[m] # "PRIMARY" /\ ~ Deciding(m) /\ (safe[m] => ~ Flagged(m))
<1> DEFINE live == Live(Answering(n))
<1>1. PICK from \in First(live), donor \in Donors(live), mine \in ReadOwnGtids(n) :
         plan' = [plan EXCEPT ![n] = JoinPlan(n, groupName[from], donor, mine, live, unread)]
  BY DEF AdoptIdentity
<1>2. mine = {} /\ ~ preGtid[n]
  BY <1>1 DEF ReadOwnGtids, OneAdoption, AdoptInv, Bare, Held, Newborn, Gtids
<1>3. \A m \in Node : group[m] # 0 => m \in live
  BY DEF Live, Answering, Peers, ElectInv, Idle, TypeOK, ProcessOK
<1>4. live \subseteq Node /\ \A m \in live : group[m] # 0
  BY DEF Live, Answering, Peers
<1> HIDE DEF live
<1>5. JoinPlan(n, groupName[from], donor, mine, live, unread).do = "join"
  BY <1>1 DEF TypeOK, ProcessOK
<1>6. JoinMethod(preGtid[n], mine, Carries(live, unread), SomeUnknown(live, unread)) = "join"
  <2>1. /\ \A d : Plan("clone", d).do = "clone"
        /\ Plan("join", NoNode).do = "join" /\ NoPlan.do = "none"
    BY DEF Plan, NoPlan
  <2>2. JoinMethod(preGtid[n], mine, Carries(live, unread), SomeUnknown(live, unread))
          \in {"join", "clone", "hold"}
    BY DEF JoinMethod
  <2>3. QED BY <1>5, <2>1, <2>2 DEF JoinPlan
<1>7. ~ Carries(live, unread) /\ ~ SomeUnknown(live, unread)
  BY <1>2, <1>6 DEF JoinMethod
<1>8. \A m \in live : Unclaimed(m)
  BY <1>7 DEF Carries, SomeUnknown, PreGtidClaim, Unclaimed
<1>9. \A m \in Node : role[m] # "PRIMARY" /\ plan[m].do # "flag"
  <2>1. \A m \in Node : role[m] = "PRIMARY" \/ plan[m].do = "flag" => Unclaimed(m)
    BY <1>3, <1>8 DEF ElectInv, Planned
  <2>2. QED BY <2>1 DEF AdoptInv, FlagKept, Unclaimed
<1>10. PICK s \in Node : group[s] # 0 /\ Unclaimed(s)
  BY <1>1, <1>4, <1>8 DEF First
<1>11. \A m \in Node : ~ Deciding(m)
  BY <1>10, NobodyDecides DEF ElectInv
<1>12. \E p \in Node : Flagged(p)
  <2>1. base[s] # NoBase /\ pc[s] \in {"loop", "member"}
    BY <1>10 DEF AdoptInv, Bare, ElectInv, Idle, TypeOK, ProcessOK
  <2>2. Held(s) # {}
    BY <1>10, <2>1 DEF AdoptInv, Rooted, Unclaimed, Held
  <2>3. QED BY <1>9, <2>2 DEF AdoptInv, FlagKept
<1>13. \A m \in Node : safe[m] => ~ Flagged(m)
  <2>1. \A m \in Node : safe[m] => group[m] = 0
    BY <1>9 DEF AdoptInv, StaleJoins
  <2>2. QED BY <1>10, <2>1 DEF AdoptInv, StaleJoins
<1>14. QED BY <1>9, <1>11, <1>12, <1>13

LEMMA RoundAdopt ==
    ASSUME NEW root \in Node, OneAdoption(root), TypeOK, ElectInv, HistoryInv, AdoptInv(root),
           NEW n \in Node, Round(n)
    PROVE  AdoptInv(root)'
<1>1. pc[n] = "loop" /\ group[n] = 0 /\ plan[n] = NoPlan
  BY DEF Round
<1>2. Heard(n) = {Answering(n)} /\ Waivable(n) = {}
  BY DEF Heard, Waivable, OneAdoption, HistoryInv, Unwaived, Waiving, Peers
<1>3. PICK unread : RoundSeeing(n, Answering(n), {}, unread)
  BY <1>2 DEF Round
<1>4. UNCHANGED <<initialised, txns, base, preGtid, pc, fresh, group, role>>
  BY <1>3 DEF RoundSeeing, RefuseIdentity, AdoptIdentity, Wait, StartDwell, DecideBootstrap,
     DecideWaiverBootstrap, volume
<1>5. \A k \in Node : Held(k)' = Held(k) /\ Flagged(k)' = Flagged(k)
  BY <1>4 DEF Held, Newborn, Flagged
<1>6. \A k \in Node : k # n => /\ plan'[k] = plan[k] /\ safe'[k] = safe[k]
                               /\ inflight'[k] = inflight[k]
  BY <1>3 DEF RoundSeeing, RefuseIdentity, AdoptIdentity, Wait, StartDwell, DecideBootstrap,
     DecideWaiverBootstrap, TypeOK, ProcessOK
<1>7. plan[n].do = "none"
  BY <1>1 DEF NoPlan, Plan
<1>8. Rooted(root)'
  BY <1>4 DEF AdoptInv, Rooted, Newborn
<1>9. CASE AdoptIdentity(n, Live(Answering(n)), unread) /\ Live(Answering(n)) # {}
  <2>1. ~ safe'[n] /\ plan'[n].do \in {"none", "join", "clone"}
    <3>1. PICK from, donor, mine :
             /\ plan' = [plan EXCEPT ![n] =
                  JoinPlan(n, groupName[from], donor, mine, Live(Answering(n)), unread)]
             /\ safe' = [safe EXCEPT ![n] = FALSE]
      BY <1>9 DEF AdoptIdentity
    <3>2. JoinPlan(n, groupName[from], donor, mine, Live(Answering(n)), unread).do
            \in {"none", "join", "clone"}
      BY DEF JoinPlan, Plan, NoPlan
    <3>3. QED BY <3>1, <3>2 DEF TypeOK, ProcessOK
  <2>2. Bare'
    BY <1>4, <1>5, <1>6, <2>1 DEF AdoptInv, Bare, Deciding
  <2>3. FlagKept'
    BY <1>4, <1>5, <1>6, <1>7, <2>1 DEF AdoptInv, FlagKept, Deciding
  <2>4. ASSUME NEW j \in Node, base'[j] = NoBase, plan'[j].do = "join"
        PROVE  /\ \E p \in Node : Flagged(p)'
               /\ \A m \in Node : /\ role'[m] # "PRIMARY" /\ ~ Deciding(m)'
                                  /\ safe'[m] => j \in inflight'[m] \/ ~ Flagged(m)'
    <3>1. CASE j = n
      <4>1. /\ \E p \in Node : Flagged(p)
            /\ \A m \in Node : role[m] # "PRIMARY" /\ ~ Deciding(m) /\ (safe[m] => ~ Flagged(m))
        BY <1>1, <1>4, <1>9, <2>4, <3>1, BareJoin
      <4>2. QED BY <1>4, <1>5, <1>6, <2>1, <4>1 DEF Deciding
    <3>2. CASE j # n
      BY <1>4, <1>5, <1>6, <2>1, <2>4, <3>2 DEF AdoptInv, StaleJoins, Deciding
    <3>3. QED BY <3>1, <3>2
  <2>5. StaleJoins'
    BY <1>4, <1>5, <1>6, <2>1, <2>4 DEF AdoptInv, StaleJoins, Unclaimed
  <2>6. QED BY <1>8, <2>2, <2>3, <2>5 DEF AdoptInv
<1>10. CASE \/ RefuseIdentity(n, Live(Answering(n)))
            \/ Wait(n, Answering(n), {}, unread)
  <2>1. plan' = plan /\ ~ safe'[n]
    BY <1>10 DEF RefuseIdentity, Wait, TypeOK, ProcessOK
  <2>2. Bare' /\ FlagKept'
    BY <1>4, <1>5, <2>1 DEF AdoptInv, Bare, FlagKept, Deciding
  <2>3. StaleJoins'
    BY <1>4, <1>5, <1>6, <2>1 DEF AdoptInv, StaleJoins, Unclaimed, Deciding
  <2>4. QED BY <1>8, <2>2, <2>3 DEF AdoptInv
<1>11. CASE StartDwell(n, Answering(n), {}, unread) /\ Live(Answering(n)) = {}
  <2>1. plan' = plan /\ inflight'[n] = {m \in Peers(n) : Acting(m)}
    BY <1>11 DEF StartDwell, TypeOK, ProcessOK
  <2>2. Bare' /\ FlagKept'
    BY <1>4, <1>5, <2>1 DEF AdoptInv, Bare, FlagKept, Deciding
  <2>3. \A m \in Node : group[m] = 0
    BY <1>1, <1>11 DEF Live, Answering, Peers, ElectInv, Idle, TypeOK, ProcessOK
  <2>4. \A j \in Node : plan[j].do = "join" => j \in inflight'[n]
    BY <1>7, <2>1 DEF Acting, Peers
  <2>5. StaleJoins'
    BY <1>4, <1>5, <1>6, <2>1, <2>3, <2>4 DEF AdoptInv, StaleJoins, Unclaimed, Deciding
  <2>6. QED BY <1>8, <2>2, <2>5 DEF AdoptInv
<1>12. CASE DecideBootstrap(n, Answering(n), {}, unread) /\ Live(Answering(n)) = {}
  <2>1. /\ base[n] # NoBase /\ (preGtid[n] \/ Flagged(n))
        /\ \A j \in Node : ~ (base[j] = NoBase /\ plan[j].do = "join")
    BY <1>1, <1>12, WinnerClaims
  <2>2. plan'[n].do = "bootstrap" /\ safe' = safe /\ inflight' = inflight
    BY <1>12 DEF DecideBootstrap, Plan, TypeOK, ProcessOK
  <2>3. Bare'
    BY <1>4, <1>5, <1>6, <2>1 DEF AdoptInv, Bare, Deciding
  <2>4. FlagKept'
    BY <1>4, <1>5, <1>6, <1>7, <2>1, <2>2 DEF AdoptInv, FlagKept, Deciding
  <2>5. StaleJoins'
    BY <1>4, <1>5, <1>6, <2>1, <2>2 DEF AdoptInv, StaleJoins, Unclaimed
  <2>6. QED BY <1>8, <2>3, <2>4, <2>5 DEF AdoptInv
<1>13. ~ DecideWaiverBootstrap(n, Answering(n), {}, unread)
  BY DEF DecideWaiverBootstrap
<1>14. QED BY <1>3, <1>9, <1>10, <1>11, <1>12, <1>13 DEF RoundSeeing

(* The decision acted on: the group is formed by a node with the data and the flag, or by one
   that writes the flag next. *)
LEMMA BootstrapAdopt ==
    ASSUME NEW root \in Node, OneAdoption(root), TypeOK, ElectInv, HistoryInv, AdoptInv(root),
           NEW n \in Node, Bootstrap(n) \/ BootstrapFails(n) \/ JoinFails(n)
    PROVE  AdoptInv(root)'
<1>1. /\ UNCHANGED <<initialised, txns, base, preGtid, pc, fresh>>
      /\ \A k \in Node : k # n => /\ plan'[k] = plan[k] /\ group'[k] = group[k]
                                  /\ role'[k] = role[k] /\ safe'[k] = safe[k]
                                  /\ \A j \in Node : j # n => (j \in inflight'[k] <=> j \in inflight[k])
  <2>1. CASE Bootstrap(n)
    BY <2>1 DEF Bootstrap, NotActing, volume, TypeOK, ProcessOK
  <2>2. CASE BootstrapFails(n)
    BY <2>2 DEF BootstrapFails, NotActing, volume, TypeOK, ProcessOK
  <2>3. CASE JoinFails(n)
    BY <2>3 DEF JoinFails, NotActing, volume, TypeOK, ProcessOK
  <2>4. QED BY <2>1, <2>2, <2>3
<1>2. \A k \in Node : Held(k)' = Held(k) /\ Flagged(k)' = Flagged(k)
  BY <1>1 DEF Held, Newborn, Flagged
<1>3. Rooted(root)'
  BY <1>1 DEF AdoptInv, Rooted, Newborn
<1>4. CASE Bootstrap(n)
  <2>1. /\ Deciding(n) /\ role'[n] = "PRIMARY" /\ plan'[n].do \in {"none", "flag"}
        /\ preGtid[n] <=> plan'[n].do = "flag"
    BY <1>4 DEF Bootstrap, Deciding, Plan, NoPlan, TypeOK, VolumeOK, ProcessOK
  <2>2. /\ \A m \in Node : group[m] = 0
        /\ \A j \in Node : ~ (base[j] = NoBase /\ plan[j].do = "join")
        /\ base[n] # NoBase
    BY <2>1 DEF ElectInv, DecidesAlone, AdoptInv, StaleJoins, Bare
  <2>3. Bare'
    BY <1>1, <1>2, <2>2 DEF AdoptInv, Bare, Deciding
  <2>4. FlagKept'
    BY <1>1, <1>2, <2>1 DEF AdoptInv, FlagKept, Deciding
  <2>5. StaleJoins'
    <3>1. ~ Unclaimed(n)'
      BY <1>1, <1>2, <2>1 DEF AdoptInv, FlagKept, Unclaimed
    <3>2. \A m \in Node : m # n => group'[m] = 0
      BY <1>1, <2>2
    <3>3. \A j \in Node : ~ (base'[j] = NoBase /\ plan'[j].do = "join")
      BY <1>1, <2>1, <2>2
    <3>4. QED BY <2>1, <3>1, <3>2, <3>3 DEF StaleJoins
  <2>6. QED BY <1>3, <2>3, <2>4, <2>5 DEF AdoptInv
<1>5. CASE BootstrapFails(n) \/ JoinFails(n)
  <2>1. /\ plan'[n].do = "none" /\ group' = group /\ role' = role
        /\ safe'[n] => safe[n]
        /\ \A j \in Node : safe'[n] /\ j # n => (j \in inflight'[n] <=> j \in inflight[n])
    BY <1>5 DEF BootstrapFails, JoinFails, NotActing, NoPlan, Plan, TypeOK, ProcessOK
  <2>2. plan[n].do # "flag"
    BY <1>5 DEF BootstrapFails, JoinFails, Deciding
  <2>3. Bare'
    BY <1>1, <1>2, <2>1 DEF AdoptInv, Bare, Deciding
  <2>4. FlagKept'
    BY <1>1, <1>2, <2>1, <2>2 DEF AdoptInv, FlagKept, Deciding
  <2>5. StaleJoins'
    BY <1>1, <1>2, <2>1 DEF AdoptInv, StaleJoins, Unclaimed, Deciding
  <2>6. QED BY <1>3, <2>3, <2>4, <2>5 DEF AdoptInv
<1>6. QED BY <1>4, <1>5

(* The only primary commits: its flag, or after it. *)
LEMMA CommitAdopt ==
    ASSUME NEW root \in Node, OneAdoption(root), TypeOK, ElectInv, HistoryInv, AdoptInv(root),
           NEW n \in Node, WriteFlag(n) \/ ClientWrite(n)
    PROVE  AdoptInv(root)'
<1>1. /\ UNCHANGED <<initialised, base, preGtid, pc, fresh, group, role, safe, inflight>>
      /\ \A k \in Node : k # n => plan'[k] = plan[k] /\ txns'[k] = txns[k]
      /\ txns[n] \subseteq txns'[n]
  BY DEF WriteFlag, ClientWrite, Commit, process, OneAdoption, TypeOK, VolumeOK, ProcessOK
<1>2. role[n] = "PRIMARY" /\ group[n] # 0 /\ base[n] # NoBase
  <2>1. role[n] = "PRIMARY"
    BY DEF WriteFlag, ClientWrite, HistoryInv, PrimaryLeads
  <2>2. QED BY <2>1 DEF ElectInv, Planned, AdoptInv, Bare
<1>3. /\ Flagged(n) => Flagged(n)'
      /\ \A k \in Node : k # n => Held(k)' = Held(k) /\ Flagged(k)' = Flagged(k)
  BY <1>1 DEF Held, Newborn, Flagged
<1>4. Flagged(n)' \/ plan'[n].do = "flag"
  <2>1. CASE WriteFlag(n)
    <3>1. Commit(n, TRUE)
      BY <2>1 DEF WriteFlag, OneAdoption
    <3>2. PICK s \in Seqs : txns' = [txns EXCEPT ![n] = @ \cup
                {[src |-> groupName[n], seq |-> s, era |-> group[n], flag |-> TRUE]}]
      BY <3>1 DEF Commit
    <3>3. [src |-> groupName[n], seq |-> s, era |-> group[n], flag |-> TRUE] \in txns'[n]
      BY <3>2 DEF TypeOK, VolumeOK
    <3>4. QED BY <3>3 DEF Flagged
  <2>2. CASE ClientWrite(n)
    <3>1. plan' = plan
      BY <2>2 DEF ClientWrite, process
    <3>2. QED BY <1>2, <1>3, <3>1 DEF AdoptInv, FlagKept
  <2>3. QED BY <2>1, <2>2
<1>5. plan'[n] = plan[n] \/ plan'[n].do = "none"
  <2>1. plan' = plan \/ plan' = [plan EXCEPT ![n] = NoPlan]
    BY DEF WriteFlag, ClientWrite, process
  <2>2. QED BY <2>1 DEF NoPlan, Plan, TypeOK, ProcessOK
<1>6. Rooted(root)'
  <2>1. n = root => preGtid[root]
    BY <1>2 DEF AdoptInv, Rooted, ElectInv, Idle, TypeOK, ProcessOK
  <2>2. \A k \in Node : txns[k] # {} => txns'[k] # {}
    BY <1>1
  <2>3. QED BY <1>1, <2>1, <2>2 DEF AdoptInv, Rooted, Newborn
<1>7. Bare'
  BY <1>1, <1>2, <1>3, <1>5 DEF AdoptInv, Bare, Deciding
<1>8. FlagKept'
  <2>1. \A k \in Node : k # n => Deciding(k)' = Deciding(k)
    BY <1>1 DEF Deciding
  <2>2. ~ Deciding(n)'
    BY <1>2, <1>5 DEF Deciding, ElectInv, Planned, Acting
  <2>3. QED BY <1>1, <1>3, <1>4, <1>5, <2>1, <2>2 DEF AdoptInv, FlagKept
<1>9. StaleJoins'
  <2>1. \A j \in Node : ~ (base[j] = NoBase /\ plan[j].do = "join")
    BY <1>2 DEF AdoptInv, StaleJoins
  <2>2. \A j \in Node : ~ (base'[j] = NoBase /\ plan'[j].do = "join")
    BY <1>1, <1>2, <2>1
  <2>3. \A k \in Node : Unclaimed(k)' => Unclaimed(k)
    BY <1>1, <1>3 DEF Unclaimed
  <2>4. QED BY <1>1, <1>2, <1>3, <2>2, <2>3 DEF AdoptInv, StaleJoins
<1>10. QED BY <1>6, <1>7, <1>8, <1>9 DEF AdoptInv

(* Taking over what the primary holds: only a node that has the adopted data joins it. *)
LEMMA JoinAdopt ==
    ASSUME NEW root \in Node, OneAdoption(root), TypeOK, ElectInv, HistoryInv, AdoptInv(root),
           NEW n \in Node, Join(n) \/ Apply(n)
    PROVE  AdoptInv(root)'
<1>1. PICK p \in Node : /\ p # n /\ role[p] = "PRIMARY"
                        /\ txns' = [txns EXCEPT ![n] = Merge(@, txns[p])]
                        /\ Join(n) => group' = [group EXCEPT ![n] = group[p]]
                        /\ Apply(n) => group[p] = group[n]
  <2>1. \A p, q \in Node : role[p] = "PRIMARY" /\ role[q] = "PRIMARY" => p = q
    BY DEF HistoryInv, PrimaryLeads
  <2>2. Join(n) => \E p \in Node : /\ p # n /\ role[p] = "PRIMARY"
                                   /\ txns' = [txns EXCEPT ![n] = Merge(@, txns[p])]
                                   /\ group' = [group EXCEPT ![n] = group[p]]
    BY DEF Join, Primaries, Peers
  <2>3. Apply(n) => \E p \in Node : /\ p # n /\ role[p] = "PRIMARY"
                                    /\ txns' = [txns EXCEPT ![n] = Merge(@, txns[p])]
                                    /\ group[p] = group[n]
    BY DEF Apply, Primaries, Peers
  <2>4. QED BY <2>1, <2>2, <2>3
<1>2. /\ UNCHANGED <<initialised, base, preGtid, pc, fresh, safe>>
      /\ \A k \in Node : k # n =>
            /\ plan'[k] = plan[k] /\ group'[k] = group[k] /\ role'[k] = role[k]
            /\ \A j \in Node : j # n => (j \in inflight'[k] <=> j \in inflight[k])
      /\ plan'[n] = plan[n] \/ plan'[n].do = "none"
      /\ role'[n] = role[n] \/ role'[n] = "SECONDARY"
      /\ group'[n] # 0 => group[n] = 0 \/ group'[n] = group[n]
  <2>1. CASE Join(n)
    BY <2>1 DEF Join, NotActing, world, NoPlan, Plan, TypeOK, ProcessOK, ElectInv, Planned, Acting
  <2>2. CASE Apply(n)
    BY <2>2 DEF Apply, process, world
  <2>3. QED BY <2>1, <2>2
<1>3. pc[n] \in {"loop", "member"} /\ role[n] # "PRIMARY" /\ plan[n].do # "flag"
  <2>1. role[n] # "PRIMARY" /\ plan[n].do # "flag"
    BY <1>1 DEF HistoryInv, PrimaryLeads
  <2>2. CASE Join(n)
    BY <2>1, <2>2 DEF Join, ElectInv, Planned, Acting
  <2>3. CASE Apply(n)
    BY <1>1, <2>1, <2>3, PrimaryHolds DEF ElectInv, Idle, TypeOK, ProcessOK
  <2>4. QED BY <2>2, <2>3
<1>4. \A j \in Node : ~ (base[j] = NoBase /\ plan[j].do = "join")
  BY <1>1 DEF AdoptInv, StaleJoins
<1>5. base[n] # NoBase
  <2>1. CASE Join(n)
    BY <1>4, <2>1 DEF Join
  <2>2. CASE Apply(n)
    BY <1>1, <2>2, PrimaryHolds DEF AdoptInv, Bare
  <2>3. QED BY <2>1, <2>2
<1>6. txns'[n] = txns[p] /\ txns[n] \subseteq txns[p]
  <2>1. Held(n) = txns[n]
    BY <1>3 DEF Held, Newborn
  <2>2. txns[n] \subseteq txns[p] /\ Merge(txns[n], txns[p]) = txns[p]
    BY <1>1, <2>1, MergeHeld, PrimaryHolds
  <2>3. QED BY <1>1, <2>2 DEF TypeOK, VolumeOK
<1>7. /\ Flagged(n)' = Flagged(p) /\ (Flagged(n) => Flagged(p))
      /\ \A k \in Node : k # n => txns'[k] = txns[k] /\ Held(k)' = Held(k) /\ Flagged(k)' = Flagged(k)
  BY <1>1, <1>2, <1>6 DEF Held, Newborn, Flagged, TypeOK, VolumeOK
<1>8. Held(n)' # {} => Held(p) # {}
  BY <1>1, <1>6, PrimaryHolds DEF Held
<1>9. Rooted(root)'
  BY <1>2, <1>3, <1>6, <1>7 DEF AdoptInv, Rooted, Newborn
<1>10. Bare'
  BY <1>2, <1>5, <1>7 DEF AdoptInv, Bare, Deciding
<1>11. FlagKept'
  BY <1>2, <1>3, <1>7, <1>8 DEF AdoptInv, FlagKept, Deciding
<1>12. StaleJoins'
  <2>1. ASSUME NEW m \in Node, safe'[m], group'[m] # 0 PROVE role'[m] = "PRIMARY"
    <3>1. m # n
      <4>1. CASE Join(n)
        BY <1>2, <2>1, <4>1 DEF Join, ElectInv, Planned
      <4>2. CASE Apply(n)
        BY <1>2, <1>3, <2>1, <4>2 DEF Apply, process, AdoptInv, StaleJoins
      <4>3. QED BY <4>1, <4>2
    <3>2. QED BY <1>2, <2>1, <3>1 DEF AdoptInv, StaleJoins
  <2>2. ASSUME NEW s \in Node, NEW m \in Node,
               group'[s] # 0, Unclaimed(s)', safe'[m], group'[m] = 0
        PROVE  ~ Flagged(m)'
    <3>1. m # n
      <4>1. CASE Join(n)
        BY <1>2, <2>2, <4>1 DEF Join, ElectInv, Planned
      <4>2. CASE Apply(n)
        BY <1>1, <2>2, <4>2, PrimaryHolds DEF Apply, process
      <4>3. QED BY <4>1, <4>2
    <3>2. CASE s = n
      BY <1>1, <1>7, <2>2, <3>1, <3>2, NobodyFlagged DEF Unclaimed
    <3>3. CASE s # n
      BY <1>2, <1>7, <2>2, <3>1, <3>3 DEF AdoptInv, StaleJoins, Unclaimed
    <3>4. QED BY <3>2, <3>3
  <2>3. \A j \in Node : ~ (base'[j] = NoBase /\ plan'[j].do = "join")
    BY <1>2, <1>4, <1>5
  <2>4. QED BY <2>1, <2>2, <2>3 DEF StaleJoins
<1>13. QED BY <1>9, <1>10, <1>11, <1>12 DEF AdoptInv

(* A clone brings the donor's adopted data onto a volume that held nothing. *)
LEMMA CloneAdopt ==
    ASSUME NEW root \in Node, OneAdoption(root), TypeOK, ElectInv, LeadInv, HistoryInv, EmptyClones,
           AdoptInv(root), NEW n \in Node, Clone(n)
    PROVE  AdoptInv(root)'
<1>1. PICK donor \in Node : /\ donor # n /\ plan[n] = Plan("clone", donor) /\ group[donor] # 0
                            /\ txns' = [txns EXCEPT ![n] = txns[donor]]
                            /\ base' = [base EXCEPT ![n] = base[donor]]
  BY DEF Clone, Peers
<1>2. /\ UNCHANGED <<initialised, preGtid, fresh, safe, group, role>>
      /\ \A k \in Node : k # n =>
            /\ plan'[k] = plan[k] /\ pc'[k] = pc[k]
            /\ \A j \in Node : j # n => (j \in inflight'[k] <=> j \in inflight[k])
      /\ plan'[n].do = "none" /\ pc'[n] = "off"
  BY DEF Clone, NotActing, OneAdoption, NoPlan, Plan, TypeOK, ProcessOK
<1>3. plan[n].do = "clone" /\ pc[n] = "loop" /\ group[n] = 0 /\ role[n] # "PRIMARY" /\ ~ safe[n]
  BY <1>1 DEF Plan, ElectInv, Planned, Acting
<1>4. txns[n] = {} /\ ~ Flagged(n) /\ initialised[n]
  BY <1>3 DEF EmptyClones, Flagged, LeadInv, Initialised
<1>5. base[donor] # NoBase /\ base[donor] = root /\ Held(donor) = txns[donor]
  BY <1>1, MemberHolds DEF AdoptInv, Bare, Rooted
<1>6. /\ \A k \in Node : k # n => /\ txns'[k] = txns[k] /\ base'[k] = base[k]
                                  /\ Held(k)' = Held(k) /\ Flagged(k)' = Flagged(k)
      /\ txns'[n] = txns[donor] /\ base'[n] = base[donor] /\ Held(n)' = Held(donor)
  BY <1>1, <1>2, <1>5 DEF Held, Newborn, Flagged, TypeOK, VolumeOK
<1>7. Bare'
  BY <1>2, <1>5, <1>6 DEF AdoptInv, Bare, Deciding
<1>8. Rooted(root)'
  BY <1>2, <1>3, <1>4, <1>5, <1>6 DEF AdoptInv, Rooted, Newborn
<1>9. FlagKept'
  <2>1. \A k \in Node : Flagged(k) => Flagged(k)'
    BY <1>4, <1>6
  <2>2. QED BY <1>2, <1>3, <1>6, <2>1 DEF AdoptInv, FlagKept, Deciding
<1>10. StaleJoins'
  <2>1. \A j \in Node : base'[j] = NoBase /\ plan'[j].do = "join" =>
            j # n /\ base[j] = NoBase /\ plan[j].do = "join"
    BY <1>2, <1>6
  <2>2. \A s \in Node : group'[s] # 0 /\ Unclaimed(s)' => s # n /\ group[s] # 0 /\ Unclaimed(s)
    BY <1>2, <1>3, <1>6 DEF Unclaimed
  <2>3. \A m \in Node : safe'[m] => m # n /\ safe[m] /\ group'[m] = group[m] /\ role'[m] = role[m]
                                    /\ Flagged(m)' = Flagged(m)
    BY <1>2, <1>3, <1>6
  <2>4. \A m \in Node : Deciding(m)' => Deciding(m)
    BY <1>2 DEF Deciding
  <2>5. (\E p \in Node : Flagged(p)) => \E p \in Node : Flagged(p)'
    BY <1>4, <1>6
  <2>6. QED BY <1>2, <2>1, <2>2, <2>3, <2>4, <2>5 DEF AdoptInv, StaleJoins
<1>11. QED BY <1>7, <1>8, <1>9, <1>10 DEF AdoptInv

(* A node ends: it was not about to write the flag, so a primary hands the flag on. *)
LEMMA LeaveAdopt ==
    ASSUME NEW root \in Node, OneAdoption(root), TypeOK, ElectInv, HistoryInv, AdoptInv(root),
           NEW n \in Node, NEW clean \in BOOLEAN, Leave(n, clean)
    PROVE  AdoptInv(root)'
<1>1. plan[n].do # "flag" /\ ~ HoldsNothing(n) /\ pc[n] # "off"
  BY DEF Leave, OneAdoption, VolumesStay
<1>2. base[n] # NoBase
  BY <1>1 DEF HoldsNothing, AdoptInv, Bare, Held, Newborn
<1>3. /\ UNCHANGED <<initialised, base, preGtid, fresh>>
      /\ \A k \in Node : k # n =>
            /\ plan'[k] = plan[k] /\ pc'[k] = pc[k] /\ safe'[k] = safe[k] /\ group'[k] = group[k]
            /\ \A j \in Node : j # n => (j \in inflight'[k] <=> j \in inflight[k])
      /\ plan'[n].do = "none" /\ pc'[n] = "off" /\ ~ safe'[n] /\ group'[n] = 0
  BY DEF Leave, NotActing, NoPlan, Plan, TypeOK, ProcessOK
<1>4. \/ /\ txns' = txns /\ role' = [role EXCEPT ![n] = "NONE"]
      \/ /\ role[n] = "PRIMARY" /\ Flagged(n)
         /\ \E p \in Node : /\ p # n /\ group[p] # 0
                            /\ txns' = [txns EXCEPT ![p] = txns[n]]
                            /\ txns[p] \subseteq txns[n]
                            /\ role' = [role EXCEPT ![n] = "NONE", ![p] = "PRIMARY"]
  <2>1. CASE role' = [role EXCEPT ![n] = "NONE"] /\ UNCHANGED txns
    BY <2>1
  <2>2. CASE role[n] = "PRIMARY"
             /\ \E p \in Mates(n) :
                   /\ role' = [role EXCEPT ![n] = "NONE", ![p] = "PRIMARY"]
                   /\ txns' = [txns EXCEPT ![p] = Merge(@, txns[n])]
    <3>1. PICK p \in Mates(n) :
             /\ role' = [role EXCEPT ![n] = "NONE", ![p] = "PRIMARY"]
             /\ txns' = [txns EXCEPT ![p] = Merge(@, txns[n])]
      BY <2>2
    <3>2. p \in Node /\ p # n /\ group[p] # 0
      BY DEF Mates, Peers
    <3>3. txns[p] \subseteq txns[n] /\ Merge(txns[p], txns[n]) = txns[n]
      BY <2>2, <3>2, MemberHolds, MergeHeld, PrimaryHolds
    <3>4. Flagged(n)
      BY <1>1, <2>2 DEF AdoptInv, FlagKept
    <3>5. QED BY <2>2, <3>1, <3>2, <3>3, <3>4
  <2>3. QED BY <2>1, <2>2 DEF Leave
<1>5. ASSUME NEW k \in Node
      PROVE  /\ Flagged(k) => Flagged(k)'
             /\ txns[k] # {} => txns'[k] # {}
             /\ txns'[k] # {} => txns[k] # {} \/ group[k] # 0
             /\ group[k] = 0 => txns'[k] = txns[k]
             /\ Held(k)' # {} => \E j \in Node : Held(j) # {}
  <2>1. txns'[k] = txns[k] \/ (group[k] # 0 /\ txns'[k] = txns[n] /\ txns[k] \subseteq txns[n])
    BY <1>4 DEF TypeOK, VolumeOK
  <2>2. Flagged(k) => Flagged(k)'
    BY <2>1 DEF Flagged
  <2>3. Held(n) = txns[n] /\ ~ Newborn(n)
    BY <1>2 DEF AdoptInv, Rooted, Held
  <2>4. k # n => (Newborn(k)' <=> Newborn(k))
    BY <1>3 DEF Newborn
  <2>5. Held(k)' # {} => \E j \in Node : Held(j) # {}
    BY <2>1, <2>3, <2>4 DEF Held
  <2>6. QED BY <2>1, <2>2, <2>5
<1>6. \A k \in Node : k # n /\ group[k] = 0 => Held(k)' = Held(k) /\ Flagged(k)' = Flagged(k)
  BY <1>3, <1>5 DEF Held, Newborn, Flagged
<1>7. \A k \in Node : role'[k] = "PRIMARY" =>
         k # n /\ (role[k] = "PRIMARY" \/ (role[n] = "PRIMARY" /\ Flagged(k)'))
  BY <1>4 DEF Flagged, TypeOK, VolumeOK, ProcessOK
<1>8. \A k \in Node : k # n /\ role[k] = "PRIMARY" => role'[k] = "PRIMARY"
  BY <1>4 DEF TypeOK, ProcessOK
<1>9. Bare'
  BY <1>2, <1>3, <1>6 DEF AdoptInv, Bare, Deciding
<1>10. Rooted(root)'
  <2>1. group[root] # 0 => preGtid[root]
    BY DEF AdoptInv, Rooted, ElectInv, Idle, TypeOK, ProcessOK
  <2>2. QED BY <1>3, <1>5, <2>1 DEF AdoptInv, Rooted, Newborn
<1>11. FlagKept'
  <2>1. \A k \in Node : plan'[k].do = "flag" => k # n /\ plan[k].do = "flag"
    BY <1>3
  <2>2. \A k \in Node : plan[k].do = "flag" => plan'[k].do = "flag"
    BY <1>1, <1>3
  <2>3. \A k \in Node : Deciding(k)' => k # n /\ Deciding(k)
    BY <1>3 DEF Deciding
  <2>4. \A k \in Node : role'[k] = "PRIMARY" => Flagged(k)' \/ plan'[k].do = "flag"
    BY <1>5, <1>7, <2>2 DEF AdoptInv, FlagKept
  <2>5. QED BY <1>3, <1>5, <2>1, <2>2, <2>3, <2>4 DEF AdoptInv, FlagKept
<1>12. StaleJoins'
  <2>1. \A m \in Node : safe'[m] /\ group'[m] # 0 => role'[m] = "PRIMARY"
    BY <1>3, <1>8 DEF AdoptInv, StaleJoins
  <2>2. ASSUME NEW s \in Node, NEW m \in Node,
               group'[s] # 0, Unclaimed(s)', safe'[m], group'[m] = 0
        PROVE  ~ Flagged(m)'
    <3>1. s # n /\ m # n /\ group[s] # 0 /\ safe[m] /\ group[m] = 0 /\ Unclaimed(s)
      BY <1>3, <1>5, <2>2 DEF Unclaimed
    <3>2. QED BY <1>6, <3>1 DEF AdoptInv, StaleJoins
  <2>3. ASSUME NEW j \in Node, base'[j] = NoBase, plan'[j].do = "join"
        PROVE  /\ \E p \in Node : Flagged(p)'
               /\ \A m \in Node : /\ role'[m] # "PRIMARY" /\ ~ Deciding(m)'
                                  /\ safe'[m] => j \in inflight'[m] \/ ~ Flagged(m)'
    <3>1. j # n /\ base[j] = NoBase /\ plan[j].do = "join"
      BY <1>3, <2>3
    <3>2. \A m \in Node : role'[m] # "PRIMARY"
      BY <1>7, <3>1 DEF AdoptInv, StaleJoins
    <3>3. \A m \in Node : safe'[m] => m # n /\ safe[m] /\ group[m] = 0
      BY <1>3, <2>1, <3>2
    <3>4. \A m \in Node : ~ Deciding(m)'
      BY <1>3, <3>1 DEF AdoptInv, StaleJoins, Deciding
    <3>5. \E p \in Node : Flagged(p)'
      BY <1>5, <3>1 DEF AdoptInv, StaleJoins
    <3>6. QED BY <1>3, <1>6, <3>1, <3>2, <3>3, <3>4, <3>5 DEF AdoptInv, StaleJoins
  <2>4. QED BY <2>1, <2>2, <2>3 DEF StaleJoins
<1>13. QED BY <1>9, <1>10, <1>11, <1>12 DEF AdoptInv

LEMMA NextAdopt ==
    ASSUME NEW root \in Node, OneAdoption(root), TypeOK, ElectInv, LeadInv, HistoryInv, EmptyClones,
           AdoptInv(root), [Next]_vars
    PROVE  AdoptInv(root)'
<1>1. ASSUME UNCHANGED <<initialised, txns, base, preGtid, fresh, safe, inflight, plan, group, role>>,
             \A n \in Node : pc'[n] = pc[n] \/ (pc[n] = "loop" /\ pc'[n] = "member")
      PROVE  AdoptInv(root)'
  <2>1. \A n \in Node : Held(n)' = Held(n) /\ Flagged(n)' = Flagged(n)
    BY <1>1 DEF Held, Newborn, Flagged
  <2>2. Bare' /\ FlagKept' /\ StaleJoins'
    BY <1>1, <2>1 DEF AdoptInv, Bare, FlagKept, StaleJoins, Unclaimed, Deciding
  <2>3. Rooted(root)'
    BY <1>1 DEF AdoptInv, Rooted, Newborn
  <2>4. QED BY <2>2, <2>3 DEF AdoptInv
<1>2. CASE UNCHANGED vars
  BY <1>1, <1>2 DEF vars, volume, process
<1>3. CASE Next
  <2>1. PICK n \in Node :
          \/ Boot(n) \/ SettleFresh(n) \/ SettleExisting(n)
          \/ Round(n)
          \/ Bootstrap(n) \/ BootstrapFails(n) \/ WriteFlag(n)
          \/ Join(n) \/ JoinFails(n) \/ Clone(n)
          \/ Activate(n) \/ AnswerPoll(n)
          \/ ClientWrite(n) \/ Apply(n)
          \/ \E clean \in BOOLEAN : Leave(n, clean)
          \/ Retire(n) \/ Reprovision(n)
    BY <1>3, NothingPersisted DEF Next
  <2>2. CASE Boot(n) \/ SettleFresh(n) \/ SettleExisting(n) \/ Round(n)
    BY <2>2, BootAdopt, RoundAdopt
  <2>3. CASE Bootstrap(n) \/ BootstrapFails(n) \/ JoinFails(n) \/ WriteFlag(n) \/ ClientWrite(n)
    BY <2>3, BootstrapAdopt, CommitAdopt
  <2>4. CASE Join(n) \/ Apply(n) \/ Clone(n)
    BY <2>4, JoinAdopt, CloneAdopt
  <2>5. CASE \E clean \in BOOLEAN : Leave(n, clean)
    BY <2>5, LeaveAdopt
  <2>6. CASE Activate(n)
    BY <1>1, <2>6 DEF Activate, TypeOK, ProcessOK
  <2>7. CASE AnswerPoll(n)
    BY <1>1, <2>7 DEF AnswerPoll, process
  <2>8. CASE Retire(n) \/ Reprovision(n)
    BY <2>8 DEF Retire, Reprovision, OneAdoption, VolumesStay
  <2>9. QED BY <2>1, <2>2, <2>3, <2>4, <2>5, <2>6, <2>7, <2>8
<1>4. QED BY <1>2, <1>3

LEMMA AdoptHolds ==
    ASSUME NEW root \in Node, OneAdoption(root)
    PROVE  Spec => [](TypeOK /\ AdoptInv(root))
<1>1. VolumesStay /\ "gtid_unread" \notin Faults
  BY DEF OneAdoption
<1>2. Init => EmptyClones /\ AdoptInv(root)
  BY InitHistory, InitAdopt
<1>3. TypeOK /\ ElectInv /\ LeadInv /\ HistoryInv /\ EmptyClones /\ AdoptInv(root) /\ [Next]_vars
        => EmptyClones' /\ AdoptInv(root)'
  BY <1>1, NextClones, NextAdopt
<1>4. QED BY <1>1, <1>2, <1>3, HistoryHolds, PTL DEF Spec

(* gr.rs:42-45 and the clone-first rule of the join arm: whatever crashes, fails or goes unread,
   the members of a group all hold the adopted data, which no GTID describes. *)
THEOREM AdoptedDataIsShared ==
    ASSUME NEW root \in Node, OneAdoption(root) PROVE Spec => []AdoptedDataShared
<1>1. AdoptInv(root) => AdoptedDataShared
  BY DEF AdoptInv, Bare, Rooted, AdoptedDataShared
<1>2. QED BY <1>1, AdoptHolds, PTL

(* gr.rs:42-45, decide: only a node with the adopted data ever forms a group. *)
THEOREM AdoptedVolumeLeads ==
    ASSUME NEW root \in Node, OneAdoption(root) PROVE Spec => AdoptedDataLeads
<1>1. AdoptInv(root) =>
        [\A n \in Node :
            plan[n].do = "bootstrap" /\ group'[n] # 0 /\ (\E m \in Node : base[m] # NoBase)
              => base[n] # NoBase]_vars
  BY DEF AdoptInv, Bare, Deciding
<1>2. QED BY <1>1, AdoptHolds, PTL DEF AdoptedDataLeads

-----------------------------------------------------------------------------
(* Whoever gives up on a peer has a history. *)

(* No volume was adopted or lost, and a first boot is carried through; services may be stopped
   past the dwell, members may crash, and every read, answer, write or attempt may fail. *)
NoAdoption ==
    AdoptedRoots = {} /\ Disposable = {} /\ Faults \cap {"reset_fails", "empty_restart"} = {}

(* All there is on a volume past its first boot was committed in some group. *)
Genuine ==
    \A n \in Node :
        /\ base[n] = NoBase /\ ~ preGtid[n] /\ plan[n].do # "flag"
        /\ \A t \in txns[n] : ~ t.flag
        /\ \A t \in Held(n) : t.era # 0
        /\ ~ initialised[n] => txns[n] = {}
        /\ initialised[n] /\ (pc[n] = "off" \/ (pc[n] = "boot" /\ ~ fresh[n])) => txns[n] # {}

(* A node that has been a member and is none now, that is to be cloned from, or that gave up on
   a peer holds some of it; ... *)
Standing ==
    \A n \in Node :
        /\ wasMember[n] /\ group[n] = 0 => Held(n) # {}
        /\ plan[n].do = "clone" => plan[n].of \in Node /\ Held(plan[n].of) # {}
        /\ Waiving(n) => Held(n) # {}

(* ... and a primary has nothing only where nobody has anything. *)
PrimaryLast ==
    /\ \A n, m \in Node : role[n] = "PRIMARY" /\ role[m] = "PRIMARY" => n = m
    /\ \A p \in Node : role[p] = "PRIMARY" /\ txns[p] = {} => \A k \in Node : Held(k) = {}

StandInv == Genuine /\ Standing /\ PrimaryLast

(* A member is past its boot, so it holds all that is on its volume. *)
LEMMA OnlineHolds ==
    ASSUME ElectInv, NEW n \in Node, role[n] = "PRIMARY" \/ group[n] # 0
    PROVE  group[n] # 0 /\ ~ Newborn(n) /\ Held(n) = txns[n]
BY MemberHolds DEF ElectInv, Planned

LEMMA BootStand ==
    ASSUME NoAdoption, TypeOK, ElectInv, LeadInv, StandInv, NEW n \in Node,
           Boot(n) \/ SettleFresh(n) \/ SettleExisting(n)
    PROVE  StandInv'
<1>1. UNCHANGED <<base, plan, wasMember, group, role>>
  BY DEF Boot, SettleFresh, SettleExisting, world, process
<1>2. \A k \in Node : k # n =>
        /\ pc'[k] = pc[k] /\ fresh'[k] = fresh[k] /\ txns'[k] = txns[k]
        /\ initialised'[k] = initialised[k] /\ preGtid'[k] = preGtid[k]
  BY DEF Boot, SettleFresh, SettleExisting, TypeOK, VolumeOK, ProcessOK
<1>3. /\ ~ preGtid'[n] /\ initialised'[n] /\ Held(n)' = Held(n)
      /\ \A t \in txns'[n] : ~ t.flag
      /\ pc'[n] = "off" \/ (pc'[n] = "boot" /\ ~ fresh'[n]) => txns'[n] # {}
  <2>1. CASE Boot(n)
    <3>1. /\ pc[n] = "off" /\ pc'[n] = "boot" /\ fresh'[n] = ~ initialised[n]
          /\ txns'[n] = IF initialised[n] THEN txns[n] ELSE {InitNoise(n)}
          /\ preGtid' = preGtid /\ initialised'[n]
      BY <2>1 DEF Boot, TypeOK, VolumeOK, ProcessOK
    <3>2. \A t \in txns'[n] : ~ t.flag
      BY <3>1 DEF StandInv, Genuine, InitNoise
    <3>3. Held(n) = txns[n] /\ Held(n)' = IF fresh'[n] THEN {} ELSE txns'[n]
      BY <3>1 DEF Held, Newborn
    <3>4. CASE initialised[n]
      BY <3>1, <3>2, <3>3, <3>4 DEF StandInv, Genuine
    <3>5. CASE ~ initialised[n]
      BY <3>1, <3>2, <3>3, <3>5 DEF StandInv, Genuine
    <3>6. QED BY <3>4, <3>5
  <2>2. CASE SettleFresh(n)
    <3>1. /\ txns'[n] = {} /\ preGtid' = preGtid /\ initialised' = initialised
          /\ pc'[n] = "loop" /\ Newborn(n)
      BY <2>2 DEF SettleFresh, NoAdoption, Newborn, TypeOK, VolumeOK, ProcessOK
    <3>2. initialised[n] /\ Held(n) = {} /\ Held(n)' = {}
      BY <3>1 DEF Held, Newborn, LeadInv, Initialised
    <3>3. QED BY <3>1, <3>2 DEF StandInv, Genuine
  <2>3. CASE SettleExisting(n)
    <3>1. txns[n] # {} /\ ~ preGtid[n] /\ initialised[n]
      BY <2>3 DEF SettleExisting, StandInv, Genuine, LeadInv, Initialised
    <3>2. /\ txns' = txns /\ pc'[n] = "loop" /\ ~ preGtid'[n] /\ ~ Newborn(n)
          /\ initialised' = initialised
      BY <2>3, <3>1 DEF SettleExisting, Newborn, TypeOK, VolumeOK, ProcessOK
    <3>3. Held(n)' = Held(n)
      BY <3>2 DEF Held, Newborn
    <3>4. QED BY <3>1, <3>2, <3>3 DEF StandInv, Genuine
  <2>4. QED BY <2>1, <2>2, <2>3
<1>4. \A k \in Node : Held(k)' = Held(k)
  BY <1>2, <1>3 DEF Held, Newborn
<1>5. Genuine'
  BY <1>1, <1>2, <1>3, <1>4 DEF StandInv, Genuine
<1>6. Standing'
  BY <1>1, <1>4 DEF StandInv, Standing, Waiving
<1>7. PrimaryLast'
  <2>1. \A p \in Node : role[p] = "PRIMARY" => p # n
    BY DEF Boot, SettleFresh, SettleExisting, ElectInv, Idle, Planned
  <2>2. QED BY <1>1, <1>2, <1>4, <2>1 DEF StandInv, PrimaryLast
<1>8. QED BY <1>5, <1>6, <1>7 DEF StandInv

(* Nobody claims adopted data, so a node clones only because its history is not the primary's:
   it has one, and so does the primary it clones from.  And it takes a membership or a history
   to give up on a peer. *)
LEMMA RoundStand ==
    ASSUME TypeOK, ElectInv, StandInv, NEW n \in Node, Round(n)
    PROVE  StandInv'
<1>1. PICK heard \in Heard(n), waived \in SUBSET Waivable(n) :
        \E unread \in Unread(heard) : RoundSeeing(n, heard, waived, unread)
  BY DEF Round
<1>2. PICK unread \in Unread(heard) : RoundSeeing(n, heard, waived, unread)
  BY <1>1
<1>3. /\ UNCHANGED <<initialised, txns, base, preGtid, wasMember, pc, fresh, group, role>>
      /\ pc[n] = "loop" /\ group[n] = 0 /\ Held(n) = txns[n]
  BY <1>2 DEF RoundSeeing, RefuseIdentity, AdoptIdentity, Wait, StartDwell, Round,
     DecideBootstrap, DecideWaiverBootstrap, volume, Held, Newborn
<1>4. \A k : Held(k)' = Held(k)
  BY <1>3 DEF Held, Newborn
<1>5. /\ plan'[n].do # "flag"
      /\ plan'[n].do = "clone" => plan'[n].of \in Node /\ Held(plan'[n].of) # {}
      /\ Waiving(n)' => Held(n) # {}
      /\ \A k \in Node : k # n => plan'[k] = plan[k]
  <2>1. Live(heard) \subseteq Node /\ \A m \in Live(heard) : group[m] # 0
    BY DEF Live, Heard, Answering, Peers
  <2>2. CASE AdoptIdentity(n, Live(heard), unread)
    <3>1. PICK from \in First(Live(heard)), donor \in Donors(Live(heard)),
               mine \in ReadOwnGtids(n) :
             plan' = [plan EXCEPT ![n] =
                JoinPlan(n, groupName[from], donor, mine, Live(heard), unread)]
      BY <2>2 DEF AdoptIdentity
    <3>2. ~ preGtid[n] /\ ~ Carries(Live(heard), unread)
      BY <2>1 DEF Carries, PreGtidClaim, Flagged, StandInv, Genuine
    <3>3. JoinMethod(preGtid[n], mine, Carries(Live(heard), unread),
                     SomeUnknown(Live(heard), unread)) # "clone"
      BY <3>2 DEF JoinMethod
    <3>4. CASE HistoryDiverged(mine, Live(heard))
      <4>1. mine # {} /\ Primaries(Live(heard)) # {}
        BY <3>4 DEF HistoryDiverged, First
      <4>2. Held(n) # {}
        BY <1>3, <4>1 DEF ReadOwnGtids, Gtids
      <4>3. donor \in Node /\ role[donor] = "PRIMARY"
        BY <2>1, <4>1 DEF Donors, Last, Primaries
      <4>4. Held(donor) # {}
        BY <4>2, <4>3, OnlineHolds DEF StandInv, PrimaryLast
      <4>5. plan'[n].do = "clone" /\ plan'[n].of = donor
        BY <3>1, <3>4 DEF JoinPlan, Plan, TypeOK, ProcessOK
      <4>6. QED BY <3>1, <4>3, <4>4, <4>5 DEF Waiving, TypeOK, ProcessOK
    <3>5. CASE ~ HistoryDiverged(mine, Live(heard))
      <4>1. JoinPlan(n, groupName[from], donor, mine, Live(heard), unread).do \in {"none", "join"}
        BY <3>3, <3>5 DEF JoinPlan, NoPlan, Plan
      <4>2. QED BY <3>1, <4>1 DEF Waiving, TypeOK, ProcessOK
    <3>6. QED BY <3>4, <3>5
  <2>3. CASE DecideWaiverBootstrap(n, heard, waived, unread)
    <3>1. MayWaive(n)
      BY <2>3 DEF DecideWaiverBootstrap, Waivable
    <3>2. Held(n) # {}
      BY <1>3, <3>1 DEF MayWaive, BeenMember, StandInv, Genuine, Standing, Waiving
    <3>3. plan'[n].do = "waive" /\ \A k \in Node : k # n => plan'[k] = plan[k]
      BY <2>3 DEF DecideWaiverBootstrap, Waive, Waive, TypeOK, ProcessOK
    <3>4. QED BY <3>2, <3>3
  <2>4. CASE ~ AdoptIdentity(n, Live(heard), unread)
             /\ ~ DecideWaiverBootstrap(n, heard, waived, unread)
    <3>1. plan' = plan \/ plan' = [plan EXCEPT ![n] = Plan("bootstrap", n)]
      BY <1>2, <2>4 DEF RoundSeeing, RefuseIdentity, Wait, StartDwell, DecideBootstrap
    <3>2. plan[n].do = "none"
      BY DEF Round, NoPlan, Plan
    <3>3. QED BY <3>1, <3>2 DEF Plan, Waiving, TypeOK, ProcessOK
  <2>5. QED BY <2>2, <2>3, <2>4
<1>6. Genuine'
  BY <1>3, <1>4, <1>5 DEF StandInv, Genuine
<1>7. Standing'
  BY <1>3, <1>4, <1>5 DEF StandInv, Standing, Waiving
<1>8. PrimaryLast'
  BY <1>3, <1>4 DEF StandInv, PrimaryLast
<1>9. QED BY <1>6, <1>7, <1>8 DEF StandInv

(* A group formed with nothing is formed where nobody has anything: a waiver takes a history,
   and without one the founder is not behind anybody. *)
LEMMA BootstrapStand ==
    ASSUME TypeOK, ElectInv, LeadInv, StandInv, NEW n \in Node, Bootstrap(n)
    PROVE  StandInv'
<1>1. /\ UNCHANGED <<initialised, txns, base, preGtid, wasMember, pc, fresh>>
      /\ \A k : Held(k)' = Held(k)
  BY DEF Bootstrap, volume, Held, Newborn
<1>2. /\ plan'[n].do = "none" /\ role'[n] = "PRIMARY" /\ group'[n] # 0
      /\ \A k \in Node : k # n => plan'[k] = plan[k] /\ role'[k] = role[k] /\ group'[k] = group[k]
  BY DEF Bootstrap, NoPlan, Plan, StandInv, Genuine, TypeOK, ProcessOK, WorldOK
<1>3. pc[n] = "loop" /\ \A k \in Node : role[k] # "PRIMARY"
  BY DEF Bootstrap, Acting, Deciding, ElectInv, Planned, DecidesAlone
<1>4. txns[n] = {} => \A k \in Node : Held(k) = {}
  <2>1. Held(n) = txns[n]
    BY <1>3 DEF Held, Newborn
  <2>2. CASE plan[n].do = "bootstrap_waived"
    BY <2>1, <2>2 DEF StandInv, Standing, Waiving
  <2>3. CASE plan[n].do = "bootstrap"
    BY <2>3 DEF LeadInv, Leading, Gtids, Held
  <2>4. QED BY <2>2, <2>3 DEF Bootstrap
<1>5. Genuine'
  BY <1>1, <1>2 DEF StandInv, Genuine
<1>6. Standing'
  BY <1>1, <1>2 DEF StandInv, Standing, Waiving
<1>7. PrimaryLast'
  BY <1>1, <1>2, <1>3, <1>4 DEF PrimaryLast
<1>8. QED BY <1>5, <1>6, <1>7 DEF StandInv

(* Nothing is written and no role changes hands. *)
LEMMA StillStand ==
    ASSUME NoAdoption, TypeOK, ElectInv, StandInv, NEW n \in Node,
           \/ PersistGeneration(n) \/ BootstrapFails(n) \/ JoinFails(n) \/ Activate(n) \/ AnswerPoll(n)
           \/ Retire(n) \/ Reprovision(n) \/ WriteFlag(n)
    PROVE  StandInv'
<1>1. ~ Reprovision(n) /\ ~ WriteFlag(n)
  BY DEF Reprovision, WriteFlag, NoAdoption, StandInv, Genuine
<1>2. UNCHANGED <<initialised, txns, base, preGtid, fresh, group, role>>
  BY <1>1 DEF PersistGeneration, BootstrapFails, JoinFails, Activate, AnswerPoll, Retire, volume, process
<1>3. /\ \A k \in Node : plan'[k] = plan[k] \/ plan'[k].do \in {"none", "bootstrap_waived"}
      /\ \A k \in Node : Waiving(k)' => Waiving(k)
      /\ \A k \in Node : pc'[k] = pc[k] \/ (pc[k] = "loop" /\ pc'[k] = "member")
      /\ \A k \in Node : wasMember'[k] => wasMember[k] \/ group[k] # 0
  <2>1. \/ plan' = plan \/ plan' = [plan EXCEPT ![n] = NoPlan]
        \/ plan[n].do = "waive" /\ plan' = [plan EXCEPT ![n] = Plan("bootstrap_waived", n)]
    BY <1>1 DEF PersistGeneration, BootstrapFails, JoinFails, Activate, AnswerPoll, Retire, volume, process
  <2>2. pc' = pc \/ (pc[n] = "loop" /\ pc' = [pc EXCEPT ![n] = "member"])
    BY <1>1 DEF PersistGeneration, BootstrapFails, JoinFails, Activate, AnswerPoll, Retire, volume, process
  <2>3. wasMember' = wasMember \/ (group[n] # 0 /\ wasMember' = [wasMember EXCEPT ![n] = TRUE])
    BY <1>1 DEF PersistGeneration, BootstrapFails, JoinFails, Activate, AnswerPoll, Retire, volume, process
  <2>4. QED BY <2>1, <2>2, <2>3 DEF Waiving, NoPlan, Plan, TypeOK, VolumeOK, ProcessOK
<1>4. \A k \in Node : Held(k)' = Held(k)
  BY <1>2, <1>3 DEF Held, Newborn
<1>5. Genuine'
  BY <1>2, <1>3, <1>4 DEF StandInv, Genuine
<1>6. Standing'
  BY <1>2, <1>3, <1>4 DEF StandInv, Standing, Waiving
<1>7. PrimaryLast'
  BY <1>2, <1>4 DEF StandInv, PrimaryLast
<1>8. QED BY <1>5, <1>6, <1>7 DEF StandInv

(* A joiner or a secondary takes over the primary's transactions beside its own. *)
LEMMA JoinStand ==
    ASSUME TypeOK, ElectInv, LeadInv, StandInv, NEW n \in Node, Join(n) \/ Apply(n)
    PROVE  StandInv'
<1>1. PICK p \in Node : /\ p # n /\ role[p] = "PRIMARY"
                        /\ txns' = [txns EXCEPT ![n] = Merge(@, txns[p])]
                        /\ Join(n) => group' = [group EXCEPT ![n] = group[p]]
                        /\ Apply(n) => group[p] = group[n]
  <2>1. \A p, q \in Node : role[p] = "PRIMARY" /\ role[q] = "PRIMARY" => p = q
    BY DEF StandInv, PrimaryLast
  <2>2. Join(n) => \E p \in Node : /\ p # n /\ role[p] = "PRIMARY"
                                   /\ txns' = [txns EXCEPT ![n] = Merge(@, txns[p])]
                                   /\ group' = [group EXCEPT ![n] = group[p]]
    BY DEF Join, Primaries, Peers
  <2>3. Apply(n) => \E p \in Node : /\ p # n /\ role[p] = "PRIMARY"
                                    /\ txns' = [txns EXCEPT ![n] = Merge(@, txns[p])]
                                    /\ group[p] = group[n]
    BY DEF Apply, Primaries, Peers
  <2>4. QED BY <2>1, <2>2, <2>3
<1>2. group[p] # 0 /\ Held(p) = txns[p]
  BY <1>1, OnlineHolds
<1>3. /\ UNCHANGED <<initialised, base, preGtid, wasMember, pc, fresh>>
      /\ pc[n] = "loop" \/ group[n] # 0
  BY <1>1, <1>2 DEF Join, Apply, process, Acting, ElectInv, Planned
<1>4. ~ Newborn(n) /\ pc[n] \notin {"off", "boot"}
  BY <1>3 DEF ElectInv, Idle, Newborn
<1>5. /\ \A k \in Node : k # n => txns'[k] = txns[k] /\ Held(k)' = Held(k) /\ group'[k] = group[k]
      /\ txns[n] \subseteq txns'[n] /\ txns'[n] \subseteq txns[n] \cup txns[p]
      /\ Held(n) = txns[n] /\ Held(n)' = txns'[n]
  <2>1. \A k \in Node : k # n => txns'[k] = txns[k]
    BY <1>1 DEF TypeOK, VolumeOK
  <2>2. txns[n] \subseteq txns'[n] /\ txns'[n] \subseteq txns[n] \cup txns[p]
    BY <1>1 DEF TypeOK, VolumeOK, Merge
  <2>3. \A k \in Node : k # n => group'[k] = group[k]
    BY <1>1 DEF Join, Apply, process, TypeOK, ProcessOK
  <2>4. QED BY <1>3, <1>4, <2>1, <2>2, <2>3 DEF Held, Newborn
<1>6. /\ \A k \in Node : plan'[k] = plan[k] \/ plan'[k].do = "none"
      /\ \A k \in Node : role'[k] = "PRIMARY" => role[k] = "PRIMARY"
      /\ group'[n] = 0 => group[n] = 0
  <2>1. CASE Join(n)
    BY <1>1, <1>2, <2>1 DEF Join, NoPlan, Plan, TypeOK, ProcessOK
  <2>2. CASE Apply(n)
    BY <2>2 DEF Apply, process
  <2>3. QED BY <2>1, <2>2
<1>7. Genuine'
  <2>1. \A k \in Node : base'[k] = NoBase /\ ~ preGtid'[k] /\ plan'[k].do # "flag"
    BY <1>3, <1>6 DEF StandInv, Genuine
  <2>2. \A k \in Node : \A t \in txns'[k] : ~ t.flag
    BY <1>5 DEF StandInv, Genuine
  <2>3. \A k \in Node : \A t \in Held(k)' : t.era # 0
    BY <1>2, <1>5 DEF StandInv, Genuine
  <2>4. initialised[n]
    BY <1>4 DEF LeadInv, Initialised
  <2>5. \A k \in Node : ~ initialised'[k] => txns'[k] = {}
    BY <1>3, <1>5, <2>4 DEF StandInv, Genuine
  <2>6. \A k \in Node : initialised'[k] /\ (pc'[k] = "off" \/ (pc'[k] = "boot" /\ ~ fresh'[k]))
                          => txns'[k] # {}
    BY <1>3, <1>4, <1>5 DEF StandInv, Genuine
  <2>7. QED BY <2>1, <2>2, <2>3, <2>5, <2>6 DEF Genuine
<1>8. Standing'
  <2>1. \A k \in Node : Held(k) # {} => Held(k)' # {}
    BY <1>5
  <2>2. QED BY <1>3, <1>5, <1>6, <2>1 DEF StandInv, Standing, Waiving
<1>9. PrimaryLast'
  <2>1. \A q \in Node : role'[q] = "PRIMARY" => q = p
    BY <1>1, <1>6 DEF StandInv, PrimaryLast
  <2>2. txns[p] = {} => \A k \in Node : Held(k) = {}
    BY <1>1 DEF StandInv, PrimaryLast
  <2>3. txns'[p] = txns[p]
    BY <1>1, <1>5
  <2>4. txns[p] = {} => \A k \in Node : Held(k)' = {}
    BY <1>5, <2>2
  <2>5. QED BY <2>1, <2>3, <2>4 DEF PrimaryLast
<1>10. QED BY <1>7, <1>8, <1>9 DEF StandInv

(* A clone brings the history it was planned for. *)
LEMMA CloneStand ==
    ASSUME NoAdoption, TypeOK, ElectInv, LeadInv, StandInv, NEW n \in Node, Clone(n)
    PROVE  StandInv'
<1>1. PICK donor \in Node : /\ plan[n] = Plan("clone", donor) /\ group[donor] # 0 /\ donor # n
                            /\ txns' = [txns EXCEPT ![n] = txns[donor]]
                            /\ base' = [base EXCEPT ![n] = base[donor]]
  BY DEF Clone, Peers
<1>2. /\ plan[n].do = "clone" /\ plan[n].of = donor
      /\ pc[n] = "loop" /\ initialised[n] /\ role[n] # "PRIMARY"
  BY <1>1 DEF Plan, Acting, ElectInv, Planned, LeadInv, Initialised
<1>3. txns[donor] = Held(donor) /\ txns[donor] # {}
  BY <1>1, <1>2, OnlineHolds DEF StandInv, Standing, Waiving
<1>4. /\ UNCHANGED <<initialised, fresh, group, role>>
      /\ \A k \in Node : k # n =>
            /\ plan'[k] = plan[k] /\ pc'[k] = pc[k] /\ preGtid'[k] = preGtid[k]
            /\ wasMember'[k] = wasMember[k]
      /\ plan'[n].do = "none" /\ pc'[n] = "off"
      /\ preGtid'[n] => preGtid[n]
  BY DEF Clone, NoPlan, Plan, world, TypeOK, VolumeOK, ProcessOK
<1>5. /\ \A k \in Node : base'[k] = NoBase
      /\ \A k \in Node : k # n => txns'[k] = txns[k] /\ Held(k)' = Held(k)
      /\ txns'[n] = txns[donor] /\ Held(n)' = txns[donor]
  BY <1>1, <1>4 DEF Held, Newborn, TypeOK, VolumeOK, StandInv, Genuine
<1>6. Genuine'
  <2>1. \A k \in Node : base'[k] = NoBase /\ ~ preGtid'[k] /\ plan'[k].do # "flag"
    BY <1>4, <1>5 DEF StandInv, Genuine
  <2>2. \A k \in Node : \A t \in txns'[k] : ~ t.flag
    BY <1>5 DEF StandInv, Genuine
  <2>3. \A k \in Node : \A t \in Held(k)' : t.era # 0
    BY <1>3, <1>5 DEF StandInv, Genuine
  <2>4. \A k \in Node : ~ initialised'[k] => txns'[k] = {}
    BY <1>2, <1>4, <1>5 DEF StandInv, Genuine
  <2>5. \A k \in Node : initialised'[k] /\ (pc'[k] = "off" \/ (pc'[k] = "boot" /\ ~ fresh'[k]))
                          => txns'[k] # {}
    BY <1>3, <1>4, <1>5 DEF StandInv, Genuine
  <2>6. QED BY <2>1, <2>2, <2>3, <2>4, <2>5 DEF Genuine
<1>7. Standing'
  <2>1. \A k \in Node : Held(k) # {} => Held(k)' # {}
    BY <1>3, <1>5
  <2>2. Held(n)' # {}
    BY <1>3, <1>5
  <2>3. QED BY <1>4, <2>1, <2>2 DEF StandInv, Standing, Waiving
<1>8. PrimaryLast'
  <2>1. \A p \in Node : role[p] = "PRIMARY" => txns[p] # {} /\ p # n
    BY <1>2, <1>3 DEF StandInv, PrimaryLast
  <2>2. QED BY <1>4, <1>5, <2>1 DEF StandInv, PrimaryLast
<1>9. QED BY <1>6, <1>7, <1>8 DEF StandInv

(* What a client commits is committed in a group. *)
LEMMA WriteStand ==
    ASSUME TypeOK, ElectInv, LeadInv, StandInv, NEW n \in Node, ClientWrite(n)
    PROVE  StandInv'
<1>1. PICK s \in Seqs : txns' = [txns EXCEPT ![n] = @ \cup
              {[src |-> groupName[n], seq |-> s, era |-> group[n], flag |-> FALSE]}]
  BY DEF ClientWrite, Commit
<1> DEFINE t0 == [src |-> groupName[n], seq |-> s, era |-> group[n], flag |-> FALSE]
<1>2. /\ UNCHANGED <<initialised, base, preGtid, wasMember, pc, fresh, plan, group, role>>
      /\ role[n] = "PRIMARY"
  BY DEF ClientWrite, process
<1>3. group[n] # 0 /\ ~ Newborn(n) /\ Held(n) = txns[n]
  BY <1>2, OnlineHolds
<1>4. /\ \A k \in Node : k # n => txns'[k] = txns[k] /\ Held(k)' = Held(k)
      /\ txns'[n] = txns[n] \cup {t0} /\ Held(n)' = txns'[n]
  BY <1>1, <1>2, <1>3 DEF Held, Newborn, TypeOK, VolumeOK
<1>5. ~ t0.flag /\ t0.era # 0
  BY <1>3
<1> HIDE DEF t0
<1>6. Genuine'
  <2>1. \A k \in Node : \A t \in txns'[k] : ~ t.flag
    BY <1>4, <1>5 DEF StandInv, Genuine
  <2>2. \A k \in Node : \A t \in Held(k)' : t.era # 0
    BY <1>3, <1>4, <1>5 DEF StandInv, Genuine
  <2>3. initialised[n]
    BY <1>3 DEF ElectInv, Idle, LeadInv, Initialised
  <2>4. \A k \in Node : ~ initialised'[k] => txns'[k] = {}
    BY <1>2, <1>4, <2>3 DEF StandInv, Genuine
  <2>5. \A k \in Node : initialised'[k] /\ (pc'[k] = "off" \/ (pc'[k] = "boot" /\ ~ fresh'[k]))
                          => txns'[k] # {}
    BY <1>2, <1>4 DEF StandInv, Genuine
  <2>6. QED BY <1>2, <2>1, <2>2, <2>4, <2>5 DEF StandInv, Genuine
<1>7. Standing'
  <2>1. \A k \in Node : Held(k) # {} => Held(k)' # {}
    BY <1>4
  <2>2. QED BY <1>2, <2>1 DEF StandInv, Standing, Waiving
<1>8. PrimaryLast'
  BY <1>2, <1>4 DEF StandInv, PrimaryLast
<1>9. QED BY <1>6, <1>7, <1>8 DEF StandInv

(* Whoever ends after its first boot holds something, so its successor does. *)
LEMMA LeaveStand ==
    ASSUME NoAdoption, TypeOK, ElectInv, LeadInv, StandInv, NEW n \in Node,
           NEW clean \in BOOLEAN, Leave(n, clean)
    PROVE  StandInv'
<1>1. txns[n] # {} /\ ~ Newborn(n) /\ initialised[n]
  BY DEF Leave, HoldsNothing, Newborn, NoAdoption, StandInv, Genuine, LeadInv, Initialised
<1>2. /\ UNCHANGED <<initialised, base, preGtid, wasMember, fresh>>
      /\ \A k \in Node : k # n => plan'[k] = plan[k] /\ pc'[k] = pc[k] /\ group'[k] = group[k]
      /\ plan'[n].do = "none" /\ pc'[n] = "off" /\ group'[n] = 0
  BY DEF Leave, NoPlan, Plan, TypeOK, ProcessOK
<1>3. \/ txns' = txns /\ role' = [role EXCEPT ![n] = "NONE"]
      \/ /\ role[n] = "PRIMARY"
         /\ \E p \in Node : /\ p # n /\ group[p] # 0
                            /\ txns' = [txns EXCEPT ![p] = Merge(@, txns[n])]
                            /\ role' = [role EXCEPT ![n] = "NONE", ![p] = "PRIMARY"]
  BY DEF Leave, Mates, Peers
<1>4. ASSUME NEW k \in Node
      PROVE  /\ txns[k] \subseteq txns'[k] /\ txns'[k] \subseteq txns[k] \cup txns[n]
             /\ Held(k) \subseteq Held(k)' /\ Held(k)' \subseteq Held(k) \cup Held(n)
             /\ txns'[k] # {} => initialised[k]
  <2>1. txns'[k] = txns[k] \/ (group[k] # 0 /\ txns'[k] = Merge(txns[k], txns[n]))
    BY <1>3 DEF TypeOK, VolumeOK
  <2>2. Newborn(k)' <=> Newborn(k)
    BY <1>1, <1>2 DEF Newborn
  <2>3. group[k] # 0 => Held(k) = txns[k] /\ ~ Newborn(k) /\ initialised[k]
    BY OnlineHolds DEF ElectInv, Idle, LeadInv, Initialised
  <2>4. Held(n) = txns[n]
    BY <1>1 DEF Held
  <2>5. txns[k] # {} => initialised[k]
    BY DEF StandInv, Genuine
  <2>6. CASE txns'[k] = txns[k]
    BY <2>2, <2>5, <2>6 DEF Held
  <2>7. CASE group[k] # 0 /\ txns'[k] = Merge(txns[k], txns[n])
    BY <2>2, <2>3, <2>4, <2>7 DEF Held, Merge
  <2>8. QED BY <2>1, <2>6, <2>7
<1>5. Held(n) = txns[n] /\ Held(n)' # {}
  BY <1>1, <1>4 DEF Held
<1>6. Genuine'
  <2>1. \A k \in Node : base'[k] = NoBase /\ ~ preGtid'[k] /\ plan'[k].do # "flag"
    BY <1>2 DEF StandInv, Genuine
  <2>2. \A k \in Node : \A t \in txns'[k] : ~ t.flag
    BY <1>4 DEF StandInv, Genuine
  <2>3. \A k \in Node : \A t \in Held(k)' : t.era # 0
    BY <1>4 DEF StandInv, Genuine
  <2>4. \A k \in Node : ~ initialised'[k] => txns'[k] = {}
    BY <1>2, <1>4
  <2>5. \A k \in Node : initialised'[k] /\ (pc'[k] = "off" \/ (pc'[k] = "boot" /\ ~ fresh'[k]))
                          => txns'[k] # {}
    BY <1>1, <1>2, <1>4 DEF StandInv, Genuine
  <2>6. QED BY <2>1, <2>2, <2>3, <2>4, <2>5 DEF Genuine
<1>7. Standing'
  <2>1. \A k \in Node : Held(k) # {} => Held(k)' # {}
    BY <1>4
  <2>2. QED BY <1>2, <1>5, <2>1 DEF StandInv, Standing, Waiving
<1>8. PrimaryLast'
  <2>1. \A k, m \in Node : role'[k] = "PRIMARY" /\ role'[m] = "PRIMARY" => k = m
    BY <1>3 DEF StandInv, PrimaryLast, TypeOK, ProcessOK
  <2>2. ASSUME NEW p \in Node, role'[p] = "PRIMARY" PROVE txns'[p] # {}
    <3>1. CASE role[p] = "PRIMARY"
      BY <1>1, <1>4, <1>5, <3>1 DEF StandInv, PrimaryLast
    <3>2. CASE role[p] # "PRIMARY"
      <4>1. txns'[p] = Merge(txns[p], txns[n])
        BY <1>3, <2>2, <3>2 DEF TypeOK, VolumeOK, ProcessOK
      <4>2. QED BY <1>1, <4>1 DEF Merge, Gtids
    <3>3. QED BY <3>1, <3>2
  <2>3. QED BY <2>1, <2>2 DEF PrimaryLast
<1>9. QED BY <1>6, <1>7, <1>8 DEF StandInv

LEMMA InitStand == ASSUME AdoptedRoots = {} PROVE Init => StandInv
<1> SUFFICES ASSUME Init PROVE StandInv
  OBVIOUS
<1>1. \A n \in Node : /\ base[n] = NoBase /\ ~ preGtid[n] /\ plan[n].do = "none" /\ txns[n] = {}
                      /\ ~ initialised[n] /\ ~ wasMember[n] /\ role[n] = "NONE"
  BY DEF Init, NoPlan, Plan
<1>2. \A n \in Node : Held(n) = {}
  BY <1>1 DEF Held
<1>3. QED BY <1>1, <1>2 DEF StandInv, Genuine, Standing, Waiving, PrimaryLast

LEMMA NextStand ==
    ASSUME NoAdoption
    PROVE  TypeOK /\ ElectInv /\ LeadInv /\ StandInv /\ [Next]_vars => StandInv'
<1> SUFFICES ASSUME TypeOK, ElectInv, LeadInv, StandInv, [Next]_vars PROVE StandInv'
  OBVIOUS
<1>1. CASE UNCHANGED vars
  BY <1>1 DEF vars, volume, process, StandInv, Genuine, Standing, Waiving, PrimaryLast, Held, Newborn
<1>2. CASE Next
  <2>1. PICK n \in Node :
          \/ Boot(n) \/ SettleFresh(n) \/ SettleExisting(n)
          \/ Round(n)
          \/ PersistGeneration(n) \/ Bootstrap(n) \/ BootstrapFails(n) \/ WriteFlag(n)
          \/ Join(n) \/ JoinFails(n) \/ Clone(n)
          \/ Activate(n) \/ AnswerPoll(n)
          \/ ClientWrite(n) \/ Apply(n)
          \/ \E clean \in BOOLEAN : Leave(n, clean)
          \/ Retire(n) \/ Reprovision(n)
    BY <1>2 DEF Next
  <2>2. CASE \E clean \in BOOLEAN : Leave(n, clean)
    BY <2>2, LeaveStand
  <2>3. CASE Boot(n) \/ SettleFresh(n) \/ SettleExisting(n) \/ Round(n) \/ Bootstrap(n)
    BY <2>3, BootStand, RoundStand, BootstrapStand
  <2>4. CASE \/ PersistGeneration(n) \/ BootstrapFails(n) \/ JoinFails(n) \/ Activate(n)
             \/ AnswerPoll(n) \/ Retire(n) \/ Reprovision(n) \/ WriteFlag(n)
    BY <2>4, StillStand
  <2>5. CASE Join(n) \/ Apply(n) \/ Clone(n) \/ ClientWrite(n)
    BY <2>5, JoinStand, CloneStand, WriteStand
  <2>6. QED BY <2>1, <2>2, <2>3, <2>4, <2>5
<1>3. QED BY <1>1, <1>2

(* orchestrate's standing rule: where no volume was adopted, no node gives up on a stopped peer
   unless it holds a history.  Its own membership marker is never the whole of its standing:
   a member that ends has received or committed something, and a clone leaves it the donor's. *)
THEOREM GivingUpTakesHistory == ASSUME NoAdoption PROVE Spec => []WaiverNeedsStanding
<1>1. Init => ElectInv /\ LeadInv /\ StandInv
  <2>1. Init => LeadInv
    BY DEF Init, LeadInv, Initialised, Leading, NoPlan, Plan
  <2>2. AdoptedRoots = {}
    BY DEF NoAdoption
  <2>3. QED BY <2>1, <2>2, InitElect, InitStand
<1>2. TypeOK /\ (ElectInv /\ LeadInv /\ StandInv) /\ [Next]_vars => (ElectInv /\ LeadInv /\ StandInv)'
  BY NextElect, NextLead, NextStand DEF NoAdoption
<1>3. StandInv => WaiverNeedsStanding
  BY DEF StandInv, Genuine, Standing, Held, Waiving, WaiverNeedsStanding
<1>4. QED BY <1>1, <1>2, <1>3, TypeCorrect, PTL DEF Spec

-----------------------------------------------------------------------------
(* The groups are one lineage: Orchestrate implements GroupLineage while no service is given up
   on, none loses its volume and a node can read its own GTIDs. *)

\* Whoever is in a group is in the last one formed, and nothing is of a later one.
LastEra == \A n \in Node : /\ group[n] \in {0, eras}
                           /\ \A t \in Held(n) : t.era <= eras

HeldAs == [n \in Node |-> Held(n)]
Log    == UNION {Held(n) : n \in Node}

LEMMA LeaderIs ==
    ASSUME ElectInv, HistoryInv, NEW n \in Node, role[n] = "PRIMARY"
    PROVE  Primaries(Node) = {n} /\ Held(n) = txns[n] /\ Held(n) = Log /\ group[n] # 0
<1>1. Primaries(Node) = {n}
  BY DEF Primaries, HistoryInv, PrimaryLeads
<1>2. Held(n) = txns[n] /\ group[n] # 0 /\ \A m \in Node : Held(m) \subseteq Held(n)
  BY PrimaryHolds
<1>3. QED BY <1>1, <1>2 DEF Log

(* Steps in which no group is formed, nobody starts or stops leading and no volume changes what
   it holds. *)
LEMMA LineageStays ==
    ASSUME eras' = eras, \A k \in Node : Held(k)' = Held(k),
           \A k \in Node : role'[k] = "PRIMARY" <=> role[k] = "PRIMARY"
    PROVE  UNCHANGED Lineage!vars
<1>1. Primaries(Node)' = Primaries(Node)
  BY DEF Primaries
<1>2. HeldAs' = HeldAs /\ Log' = Log
  BY DEF HeldAs, Log
<1>3. QED BY <1>1, <1>2 DEF Lineage!vars, HeldAs, Log

LEMMA LineageCatchesUp ==
    ASSUME NEW n \in Node, NEW m \in Node, eras' = eras,
           Held(n) \subseteq Held(m), Held(n)' = Held(m),
           \A k \in Node : k # n => Held(k)' = Held(k),
           \A k \in Node : role'[k] = "PRIMARY" <=> role[k] = "PRIMARY"
    PROVE  Lineage!CatchUp(n)
<1>1. Primaries(Node)' = Primaries(Node)
  BY DEF Primaries
<1>2. HeldAs' = [HeldAs EXCEPT ![n] = HeldAs[m]] /\ HeldAs[n] \subseteq HeldAs[m]
  BY DEF HeldAs
<1>3. Log' = Log
  <2>1. \A k \in Node : Held(k)' \subseteq Log
    BY DEF Log
  <2>2. \A k \in Node : \E j \in Node : Held(k) \subseteq Held(j)'
    <3>1. Held(m)' = Held(m)
      OBVIOUS
    <3>2. QED BY <3>1
  <2>3. Log' \subseteq Log
    BY <2>1 DEF Log
  <2>4. Log \subseteq Log'
    BY <2>2 DEF Log
  <2>5. QED BY <2>3, <2>4
<1>4. QED BY <1>1, <1>2, <1>3 DEF Lineage!CatchUp, HeldAs, Log

(* The winner of the decision holds the whole log. *)
LEMMA LineageFounds ==
    ASSUME TypeOK, ElectInv, LeadInv, HistoryInv, NEW n \in Node, Bootstrap(n)
    PROVE  Lineage!Found(n)
<1>1. Deciding(n)
  BY DEF Bootstrap, Deciding
<1>2. \A m \in Node : role[m] # "PRIMARY"
  BY <1>1 DEF ElectInv, DecidesAlone, Planned
<1>3. \A m \in Node : role'[m] = "PRIMARY" <=> m = n
  BY <1>2 DEF Bootstrap, TypeOK, ProcessOK
<1>4. Primaries(Node) = {} /\ Primaries(Node)' = {n}
  BY <1>2, <1>3 DEF Primaries
<1>5. \A k \in Node : Held(k)' = Held(k)
  BY DEF Bootstrap, volume, Held, Newborn
<1>6. \A m \in Node : Held(m)' \subseteq Held(n)'
  <2>1. HistoryInv'
    BY BootstrapHistory
  <2>2. QED BY <1>3, <2>1 DEF HistoryInv, PrimaryLeads
<1>7. HeldAs' = HeldAs /\ Log' = Log /\ HeldAs[n] = Log
  <2>1. HeldAs' = HeldAs /\ Log' = Log
    BY <1>5 DEF HeldAs, Log
  <2>2. \A m \in Node : Held(m) \subseteq Held(n)
    BY <1>5, <1>6
  <2>3. Held(n) = Log
    BY <2>2 DEF Log
  <2>4. QED BY <2>1, <2>3 DEF HeldAs
<1>8. eras' = eras + 1
  BY DEF Bootstrap
<1>9. QED BY <1>4, <1>7, <1>8 DEF Lineage!Found, HeldAs, Log

(* A commit of the primary is the next entry of the log, of the last era. *)
LEMMA LineageExtends ==
    ASSUME TypeOK, ElectInv, HistoryInv, LastEra, NEW n \in Node, role[n] = "PRIMARY",
           NEW flag \in BOOLEAN, Commit(n, flag), UNCHANGED <<pc, fresh, role, group, eras>>
    PROVE  Lineage!Extend(n) /\ LastEra'
<1>1. PICK s \in Seqs :
        /\ NextSeq(n, s)
        /\ txns' = [txns EXCEPT ![n] = @ \cup
              {[src |-> groupName[n], seq |-> s, era |-> group[n], flag |-> flag]}]
  BY DEF Commit
<1> DEFINE new == [src |-> groupName[n], seq |-> s, era |-> group[n], flag |-> flag]
<1>2. Primaries(Node) = {n} /\ Held(n) = txns[n] /\ Held(n) = Log /\ group[n] # 0
  BY LeaderIs
<1>3. new.seq = s /\ new.era = eras /\ s \in Nat /\ groupName[n] = 0
  BY <1>2, BoundAssumption DEF LastEra, Seqs, HistoryInv, Unwaived, Waiving
<1>4. ~ Newborn(n)
  BY PrimaryHolds
<1>5. Held(n)' = Held(n) \cup {new} /\ \A k \in Node : k # n => Held(k)' = Held(k)
  BY <1>1, <1>2, <1>4 DEF Held, Newborn, TypeOK, VolumeOK
<1> HIDE DEF new
<1>6. HeldAs' = [HeldAs EXCEPT ![n] = Log'] /\ Log' = Log \cup {new}
  <2>1. Log' = Log \cup {new}
    BY <1>5 DEF Log
  <2>2. Held(n)' = Log'
    BY <1>2, <1>5, <2>1
  <2>3. QED BY <1>5, <2>1, <2>2 DEF HeldAs
<1>7. ASSUME NEW u \in Log PROVE u.seq < new.seq /\ u.era <= new.era
  <2>1. u \in Held(n) /\ u.src = 0 /\ u.seq \in Nat
    <3>1. u \in Held(n) /\ u \in Txn
      BY <1>2 DEF TypeOK, VolumeOK
    <3>2. u.seq \in Nat
      BY <3>1, BoundAssumption DEF Txn, Seqs
    <3>3. QED BY <3>1, <3>2 DEF HistoryInv, OneLog
  <2>2. \A v \in Held(n) : v.seq # s
    <3>1. <<0, s>> \notin Gtids(Held(n)) /\ \A v \in Held(n) : v.src = 0
      BY <1>1, <1>2, <1>3 DEF NextSeq, HistoryInv, OneLog
    <3>2. QED BY <3>1 DEF Gtids, Gtid
  <2>3. ~ (s < u.seq)
    <3>1. SUFFICES ASSUME s < u.seq PROVE FALSE
      OBVIOUS
    <3>2. s \in 1 .. u.seq
      <4>1. 1 <= s
        BY BoundAssumption DEF Seqs
      <4>2. QED BY <1>3, <2>1, <3>1, <4>1
    <3>3. QED BY <2>1, <2>2, <3>2 DEF HistoryInv, OneLog
  <2>4. u.seq < s
    BY <1>3, <2>1, <2>2, <2>3
  <2>5. u.era <= eras
    BY <2>1 DEF LastEra
  <2>6. QED BY <1>3, <2>4, <2>5
<1>8. Lineage!Extend(n)
  <2>1. new \in Log' /\ new.era = eras
    BY <1>3, <1>6
  <2>2. Primaries(Node)' = Primaries(Node)
    BY DEF Primaries
  <2>3. QED BY <1>2, <1>6, <1>7, <2>1, <2>2 DEF Lineage!Extend, HeldAs, Log
<1>9. LastEra'
  <2>1. eras <= eras
    BY DEF TypeOK, WorldOK
  <2>2. \A k \in Node : \A t \in Held(k)' : t \in Held(k) \/ t = new
    BY <1>5
  <2>3. QED BY <1>3, <2>1, <2>2 DEF LastEra
<1>10. QED BY <1>8, <1>9

(* A primary that ends is succeeded by a member that holds all it held, or by nobody. *)
LEMMA LineageLeaves ==
    ASSUME VolumesStay, TypeOK, ElectInv, HistoryInv, NEW n \in Node,
           NEW clean \in BOOLEAN, Leave(n, clean)
    PROVE  [Lineage!Next]_Lineage!vars /\ \A k \in Node : Held(k)' \subseteq Log
<1>1. eras' = eras /\ \A k \in Node : Newborn(k)' <=> Newborn(k)
  <2>1. /\ pc'[n] = "off" /\ fresh' = fresh /\ ~ Newborn(n)
        /\ \A k \in Node : k # n => pc'[k] = pc[k]
    BY DEF Leave, HoldsNothing, VolumesStay, TypeOK, ProcessOK
  <2>2. QED BY <2>1 DEF Leave, Newborn
<1>2. CASE txns' = txns /\ role' = [role EXCEPT ![n] = "NONE"]
  <2>1. \A k \in Node : Held(k)' = Held(k)
    BY <1>1, <1>2 DEF Held
  <2>2. CASE role[n] = "PRIMARY"
    <3>1. Primaries(Node) = {n} /\ Primaries(Node)' = {}
      BY <1>2, <2>2, LeaderIs DEF Primaries, TypeOK, ProcessOK
    <3>2. HeldAs' = HeldAs /\ Log' = Log
      BY <2>1 DEF HeldAs, Log
    <3>3. Lineage!StepDown(n)
      BY <1>1, <3>1, <3>2 DEF Lineage!StepDown, HeldAs, Log
    <3>4. QED BY <2>1, <3>3 DEF Lineage!Next, Log
  <2>3. CASE role[n] # "PRIMARY"
    <3>1. \A k \in Node : role'[k] = "PRIMARY" <=> role[k] = "PRIMARY"
      BY <1>2, <2>3 DEF TypeOK, ProcessOK
    <3>2. QED BY <1>1, <2>1, <3>1, LineageStays DEF Log
  <2>4. QED BY <2>2, <2>3
<1>3. CASE /\ role[n] = "PRIMARY"
           /\ \E p \in Mates(n) :
                /\ role' = [role EXCEPT ![n] = "NONE", ![p] = "PRIMARY"]
                /\ txns' = [txns EXCEPT ![p] = Merge(@, txns[n])]
  <2>1. PICK p \in Mates(n) :
           /\ role' = [role EXCEPT ![n] = "NONE", ![p] = "PRIMARY"]
           /\ txns' = [txns EXCEPT ![p] = Merge(@, txns[n])]
    BY <1>3
  <2>2. p \in Node /\ p # n /\ group[p] # 0
    BY DEF Mates, Peers
  <2>3. Primaries(Node) = {n} /\ Held(n) = txns[n] /\ Held(n) = Log
    BY <1>3, LeaderIs
  <2>4. ~ Newborn(p) /\ Held(p) = txns[p] /\ Merge(txns[p], txns[n]) = txns[n]
    BY <1>3, <2>2, MemberHolds, MergeHeld, PrimaryHolds
  <2>5. Held(p)' = Log /\ \A k \in Node : k # p => Held(k)' = Held(k)
    BY <1>1, <2>1, <2>2, <2>3, <2>4 DEF Held, TypeOK, VolumeOK
  <2>6. Primaries(Node)' = {p}
    <3>1. \A k \in Node : role'[k] = "PRIMARY" <=> k = p
      BY <1>3, <2>1, <2>2 DEF HistoryInv, PrimaryLeads, TypeOK, ProcessOK
    <3>2. QED BY <2>2, <3>1 DEF Primaries
  <2>7. Log' = Log /\ HeldAs' = [HeldAs EXCEPT ![p] = Log]
    <3>1. \A k \in Node : Held(k)' \subseteq Log
      BY <2>5 DEF Log
    <3>2. Log' = Log
      BY <2>2, <2>5, <3>1 DEF Log
    <3>3. QED BY <2>5, <3>2 DEF HeldAs
  <2>8. Lineage!StepDown(n)
    BY <1>1, <2>2, <2>3, <2>6, <2>7 DEF Lineage!StepDown, HeldAs, Log
  <2>9. QED BY <2>5, <2>8 DEF Lineage!Next, Log
<1>4. QED BY <1>2, <1>3 DEF Leave

(* A joiner and a secondary take over what the primary holds, a clone what its donor does. *)
LEMMA LineageJoins ==
    ASSUME TypeOK, ElectInv, HistoryInv, EmptyClones, NEW n \in Node,
           Join(n) \/ Apply(n) \/ Clone(n)
    PROVE  Lineage!CatchUp(n) /\ \A k \in Node : Held(k)' \subseteq Log
<1>1. PICK m \in Peers(n) : /\ group[m] # 0 /\ role' \in {role, [role EXCEPT ![n] = "SECONDARY"]}
                            /\ \/ /\ role[m] = "PRIMARY"
                                  /\ txns' = [txns EXCEPT ![n] = Merge(@, txns[m])]
                               \/ plan[n].do = "clone" /\ txns' = [txns EXCEPT ![n] = txns[m]]
  <2>1. CASE Join(n)
    BY <2>1, PrimaryHolds DEF Join, Primaries, Peers
  <2>2. CASE Apply(n)
    BY <2>2, PrimaryHolds DEF Apply, Primaries, Peers, process
  <2>3. CASE Clone(n)
    <3>1. PICK donor \in Peers(n) : /\ plan[n] = Plan("clone", donor) /\ group[donor] # 0
                                    /\ txns' = [txns EXCEPT ![n] = txns[donor]] /\ role' = role
      BY <2>3 DEF Clone
    <3>2. plan[n].do = "clone"
      BY <3>1 DEF Plan
    <3>3. QED BY <3>1, <3>2
  <2>4. QED BY <2>1, <2>2, <2>3
<1>2. pc[n] \notin {"off", "boot"} /\ role[n] # "PRIMARY"
  <2>1. CASE Join(n) \/ Clone(n)
    <3>1. Acting(n)
      <4>1. \A d : Plan("clone", d).do = "clone"
        BY DEF Plan
      <4>2. plan[n].do \in {"join", "clone"}
        BY <2>1, <4>1 DEF Join, Clone
      <4>3. QED BY <4>2 DEF Acting
    <3>2. QED BY <3>1 DEF ElectInv, Planned
  <2>2. CASE Apply(n)
    <3>1. PICK p \in Peers(n) : role[p] = "PRIMARY" /\ group[p] = group[n]
      BY <2>2 DEF Apply, Primaries
    <3>2. group[n] # 0
      BY <3>1, PrimaryHolds DEF Peers
    <3>3. QED BY <3>1, <3>2 DEF ElectInv, Idle, HistoryInv, PrimaryLeads, Peers
  <2>3. QED BY <2>1, <2>2
<1>3. /\ eras' = eras /\ fresh' = fresh
      /\ pc'[n] # "boot" /\ \A k \in Node : k # n => pc'[k] = pc[k]
  BY <1>2 DEF Join, Apply, Clone, world, process, TypeOK, ProcessOK
<1>4. m \in Node /\ m # n /\ Held(m) = txns[m] /\ Held(n) = txns[n]
  BY <1>1, <1>2, MemberHolds DEF Peers, Held, Newborn
<1>5. txns[n] \subseteq txns[m] /\ txns' = [txns EXCEPT ![n] = txns[m]]
  <2>1. CASE role[m] = "PRIMARY" /\ txns' = [txns EXCEPT ![n] = Merge(@, txns[m])]
    <3>1. txns[n] \subseteq txns[m]
      BY <1>4, <2>1, PrimaryHolds
    <3>2. Merge(txns[n], txns[m]) = txns[m]
      BY <1>4, <2>1, <3>1, PrimaryHolds, MergeHeld
    <3>3. QED BY <2>1, <3>1, <3>2
  <2>2. CASE plan[n].do = "clone" /\ txns' = [txns EXCEPT ![n] = txns[m]]
    BY <2>2 DEF EmptyClones
  <2>3. QED BY <1>1, <2>1, <2>2
<1>6. Held(n)' = Held(m) /\ \A k \in Node : k # n => Held(k)' = Held(k)
  BY <1>3, <1>4, <1>5 DEF Held, Newborn, TypeOK, VolumeOK
<1>7. \A k \in Node : role'[k] = "PRIMARY" <=> role[k] = "PRIMARY"
  BY <1>1, <1>2 DEF TypeOK, ProcessOK
<1>8. Lineage!CatchUp(n)
  BY <1>3, <1>4, <1>5, <1>6, <1>7, LineageCatchesUp
<1>9. QED BY <1>4, <1>6, <1>8 DEF Log

LEMMA InitLineage == Init => Lineage!Init /\ LastEra
<1> SUFFICES ASSUME Init PROVE Lineage!Init /\ LastEra
  OBVIOUS
<1>1. /\ eras = 0 /\ Primaries(Node) = {}
      /\ \A n \in Node : Held(n) = {} /\ group[n] = 0
  BY DEF Init, Held, Newborn, Primaries
<1>2. Log = {} /\ HeldAs = [n \in Node |-> {}]
  BY <1>1 DEF Log, HeldAs
<1>3. QED BY <1>1, <1>2 DEF Lineage!Init, LastEra, Log, HeldAs

(* Every step of the orchestration is a step of the lineage, or none of its business. *)
LEMMA NextLineage ==
    ASSUME VolumesStay
    PROVE  /\ TypeOK /\ ElectInv /\ LeadInv /\ HistoryInv /\ EmptyClones /\ LastEra
           /\ [Next]_vars
           => [Lineage!Next]_Lineage!vars /\ LastEra'
<1> SUFFICES ASSUME TypeOK, ElectInv, LeadInv, HistoryInv, EmptyClones, LastEra, [Next]_vars
             PROVE  [Lineage!Next]_Lineage!vars /\ LastEra'
  OBVIOUS
<1>1. eras \in Nat /\ \A k \in Node : \A t \in Log : t.era <= eras
  BY DEF TypeOK, WorldOK, LastEra, Log
<1>2. ASSUME \A k \in Node : Held(k)' = Held(k), eras' = eras,
             \A k \in Node : role'[k] = "PRIMARY" <=> role[k] = "PRIMARY",
             \A k \in Node : group'[k] = group[k]
      PROVE  [Lineage!Next]_Lineage!vars /\ LastEra'
  <2>1. UNCHANGED Lineage!vars
    BY <1>2, LineageStays
  <2>2. LastEra'
    BY <1>2 DEF LastEra
  <2>3. QED BY <2>1, <2>2
<1>3. CASE UNCHANGED vars
  BY <1>2, <1>3 DEF vars, volume, process, world, Held, Newborn
<1>4. CASE Next
  <2>1. PICK n \in Node :
          \/ Boot(n) \/ SettleFresh(n) \/ SettleExisting(n)
          \/ Round(n)
          \/ Bootstrap(n) \/ BootstrapFails(n) \/ WriteFlag(n)
          \/ Join(n) \/ JoinFails(n) \/ Clone(n)
          \/ Activate(n) \/ AnswerPoll(n)
          \/ ClientWrite(n) \/ Apply(n)
          \/ \E clean \in BOOLEAN : Leave(n, clean)
          \/ Retire(n) \/ Reprovision(n)
    BY <1>4, NothingPersisted DEF Next
  <2>2. CASE Boot(n) \/ SettleFresh(n) \/ SettleExisting(n)
    <3>1. UNCHANGED <<eras, role, group>>
      BY <2>2 DEF Boot, SettleFresh, SettleExisting, world
    <3>2. QED BY <1>2, <2>2, <3>1, BootHolds
  <2>3. CASE Round(n)
    <3>1. UNCHANGED <<eras, role, group, txns, pc, fresh>>
      BY <2>3 DEF Round, RoundSeeing, RefuseIdentity, AdoptIdentity, Wait, StartDwell,
         DecideBootstrap, DecideWaiverBootstrap, volume, world
    <3>2. QED BY <1>2, <3>1 DEF Held, Newborn
  <2>4. CASE BootstrapFails(n) \/ JoinFails(n) \/ Activate(n) \/ AnswerPoll(n)
    <3>1. /\ UNCHANGED <<eras, role, group, txns, fresh>>
          /\ \A k \in Node : pc'[k] = pc[k] \/ (pc[k] = "loop" /\ pc'[k] = "member")
      BY <2>4 DEF BootstrapFails, JoinFails, Activate, AnswerPoll, volume, process, world,
         TypeOK, ProcessOK
    <3>2. QED BY <1>2, <3>1 DEF Held, Newborn
  <2>5. CASE Bootstrap(n)
    <3>1. Lineage!Found(n)
      BY <2>5, LineageFounds
    <3>2. \A k \in Node : group[k] = 0
      BY <2>5 DEF Bootstrap, Deciding, ElectInv, DecidesAlone
    <3>3. eras' = eras + 1 /\ \A k \in Node : group'[k] \in {0, eras'} /\ Held(k)' = Held(k)
      BY <2>5, <3>2 DEF Bootstrap, volume, Held, Newborn, TypeOK, ProcessOK
    <3>4. \A k \in Node : \A t \in Held(k)' : t.era <= eras'
      <4>1. \A x \in Int : x <= eras => x <= eras + 1
        BY <1>1
      <4>2. \A k \in Node : \A t \in Held(k) : t.era \in Int
        BY BoundAssumption DEF Held, TypeOK, VolumeOK, Txn
      <4>3. QED BY <3>3, <4>1, <4>2 DEF LastEra
    <3>5. QED BY <3>1, <3>3, <3>4 DEF Lineage!Next, LastEra
  <2>6. CASE WriteFlag(n)
    <3>1. role[n] = "PRIMARY" /\ UNCHANGED <<pc, fresh, role, group, eras>>
      BY <2>6 DEF WriteFlag, HistoryInv, PrimaryLeads, world
    <3>2. CASE Commit(n, TRUE)
      BY <3>1, <3>2, LineageExtends DEF Lineage!Next
    <3>3. CASE txns' = txns
      BY <1>2, <3>1, <3>3 DEF Held, Newborn
    <3>4. QED BY <2>6, <3>2, <3>3 DEF WriteFlag
  <2>7. CASE ClientWrite(n)
    <3>1. /\ role[n] = "PRIMARY" /\ Commit(n, FALSE)
          /\ UNCHANGED <<pc, fresh, role, group, eras>>
      BY <2>7 DEF ClientWrite, process
    <3>2. QED BY <3>1, LineageExtends DEF Lineage!Next
  <2>8. ASSUME \A k \in Node : Held(k)' \subseteq Log, eras' = eras,
               \A k \in Node : group'[k] \in {0, eras}
        PROVE  LastEra'
    BY <1>1, <2>8 DEF LastEra
  <2>9. CASE Join(n) \/ Apply(n) \/ Clone(n)
    <3>1. Lineage!CatchUp(n) /\ \A k \in Node : Held(k)' \subseteq Log
      BY <2>9, LineageJoins
    <3>2. eras' = eras /\ (group' = group \/ \E p \in Node : group' = [group EXCEPT ![n] = group[p]])
      BY <2>9 DEF Join, Apply, Clone, Primaries, Peers, process, world
    <3>3. \A k \in Node : group'[k] \in {0, eras}
      BY <3>2 DEF LastEra, TypeOK, ProcessOK
    <3>4. QED BY <2>8, <3>1, <3>2, <3>3 DEF Lineage!Next
  <2>10. CASE \E clean \in BOOLEAN : Leave(n, clean)
    <3>1. [Lineage!Next]_Lineage!vars /\ \A k \in Node : Held(k)' \subseteq Log
      BY <2>10, LineageLeaves
    <3>2. eras' = eras /\ \A k \in Node : group'[k] \in {0, eras}
      BY <2>10 DEF Leave, LastEra, TypeOK, ProcessOK
    <3>3. QED BY <2>8, <3>1, <3>2
  <2>11. CASE Retire(n) \/ Reprovision(n)
    BY <2>11 DEF Retire, Reprovision, VolumesStay
  <2>12. QED BY <2>1, <2>2, <2>3, <2>4, <2>5, <2>6, <2>7, <2>9, <2>10, <2>11
<1>5. QED BY <1>3, <1>4

(* gr.rs:7-16 and 34-41: while no service is given up on and none loses its volume, the groups
   are one lineage, whatever crashes, answers get lost or attempts fail.  Each is formed by a node
   that holds all that was ever committed on any volume, nothing committed is taken back, and one
   node at a time commits.  A node that misreads its own GTIDs as none may clone over them, hence
   the second hypothesis. *)
THEOREM OrchestrateImplementsLineage ==
    ASSUME VolumesStay, "gtid_unread" \notin Faults PROVE Spec => LineageKept
<1>1. Init => EmptyClones /\ Lineage!Init /\ LastEra
  BY InitHistory, InitLineage
<1>2. TypeOK /\ ElectInv /\ LeadInv /\ HistoryInv /\ EmptyClones /\ [Next]_vars => EmptyClones'
  BY NextClones
<1>3. TypeOK /\ ElectInv /\ LeadInv /\ HistoryInv /\ EmptyClones /\ LastEra /\ [Next]_vars
        => [Lineage!Next]_Lineage!vars /\ LastEra'
  BY NextLineage
<1>4. QED BY <1>1, <1>2, <1>3, HistoryHolds, PTL DEF Spec, LineageKept, Lineage!Spec
=============================================================================

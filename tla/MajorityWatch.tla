--------------------------- MODULE MajorityWatch ---------------------------
(***************************************************************************)
(* What a member runs for the rest of its life: majority_watch in          *)
(* mysql-wrapper/src/gr.rs.  Every two seconds it compares the ONLINE      *)
(* members with the declared seeds and raises or lifts the membership      *)
(* write fence, and when its view has lost the majority for good it may    *)
(* re-form the group around itself.                                        *)
(*                                                                         *)
(* A round takes several steps, with anything in between: Look reads the   *)
(* members, then the fence is raised or lifted on that snapshot, Judge     *)
(* asks the lost members who they are now, StopPlugin and Reform re-form   *)
(* the group.  mysqld's Group Replication, the platform and the cold start *)
(* (orchestrate) are the world around it, as src/ relies on them.          *)
(***************************************************************************)
EXTENDS Integers, FiniteSets

CONSTANTS
    Node,         \* the declared seeds; all belong to one group name
    GoneDwell,    \* peer_gone_dwell_seconds, in ticks
    ForceDwell,   \* FORCE_DWELL_ROUNDS
    MaxAttempts,  \* FORCE_MAX_ATTEMPTS
    Troubles,     \* which of TroubleKinds happen
    MaxTrouble,   \* bound: how many of them
    MaxWrites     \* bound: client transactions

TroubleKinds == { "leave",         \* a member stops cleanly
                  "crash",         \* a member ends without a word
                  "split",         \* the group's network partitions
                  "no_answer",     \* a running peer's /gr/state is not heard
                  "lag",           \* a commit reaches only a majority at once
                  "read_fails",    \* the members cannot be read
                  "set_fails",     \* raising super_read_only fails
                  "lift_fails",    \* lifting it fails
                  "stop_fails",    \* STOP GROUP_REPLICATION fails
                  "reform_fails",  \* the bootstrap after it fails
                  "slow_reform",   \* it may outlast another survivor's dwell
                  "slow_round",    \* the view read may be left before the verdict
                  "marker_unwritten",  \* the high-water marker is not persisted
                  "marker_torn" }  \* it turns unreadable

ASSUME NodeAssumption == IsFiniteSet(Node)
ASSUME DwellAssumption == /\ GoneDwell \in Nat \ {0} /\ ForceDwell \in Nat \ {0}
                          /\ MaxAttempts \in Nat
ASSUME BoundAssumption == /\ Troubles \subseteq TroubleKinds
                          /\ MaxTrouble \in Nat /\ MaxWrites \in Nat

VARIABLES
    up,         \* world: the container runs, so its name resolves
    view,       \* world: the members mysqld lists, itself included; {} for none
    primary,    \* world: its member role is PRIMARY
    split,      \* world: the nodes on one side of a network partition
    readOnly,   \* mysqld: super_read_only
    txns,       \* volume: executed transactions
    highWater,  \* volume: .railway_gr_high_water, Unreadable when torn
    watch,      \* process: the state of majority_watch, see WatchSet
    acked,      \* history: transactions a client was told are committed
    reached,    \* history: this volume's watch has seen a declared majority
    trouble     \* bound

world == <<up, view, primary, split>>
vars  == <<world, readOnly, txns, highWater, watch, acked, reached, trouble>>

Configured == Cardinality(Node)
Unreadable == -1
NoClock    == -1

(* pc: off, look, fence, judge, stop, reform.  gone is seed_gone: the ticks
   since a seed's first NXDOMAIN. *)
WatchSet == [pc : {"off", "look", "fence", "judge", "stop", "reform"},
             online : SUBSET Node, lost : SUBSET Node, primary : BOOLEAN,
             peak : 0 .. Configured, torn : BOOLEAN, fenced : BOOLEAN,
             gone : [Node -> NoClock .. GoneDwell],
             streak : 0 .. ForceDwell, attempts : 0 .. MaxAttempts]
Unwatched == [pc |-> "off", online |-> {}, lost |-> {}, primary |-> FALSE,
              peak |-> 0, torn |-> FALSE, fenced |-> FALSE,
              gone |-> [s \in Node |-> NoClock], streak |-> 0, attempts |-> 0]

Spend(kind) == kind \in Troubles /\ trouble < MaxTrouble /\ trouble' = trouble + 1

SameSide(n, m) == (n \in split) = (m \in split)
Reachable(n)   == {m \in view[n] : view[m] = view[n] /\ SameSide(n, m)}
Operating(n)   == 2 * Cardinality(Reachable(n)) > Cardinality(view[n])
Flushed(S)     == UNION {txns[m] : m \in S}

Init ==
    /\ up = [n \in Node |-> TRUE]
    /\ view = [n \in Node |-> {}]
    /\ primary = [n \in Node |-> FALSE]
    /\ split = {}
    /\ readOnly = [n \in Node |-> TRUE]
    /\ txns = [n \in Node |-> {}]
    /\ highWater = [n \in Node |-> 0]
    /\ watch = [n \in Node |-> Unwatched]
    /\ acked = {}
    /\ reached = [n \in Node |-> FALSE]
    /\ trouble = 0

-----------------------------------------------------------------------------
(* The watch. *)

At(n, pc) == watch[n].pc = pc

(* The watch w sleeps until its next round; what it read is forgotten. *)
RoundOver(w) == [w EXCEPT !.pc = "look", !.online = {}, !.lost = {}, !.primary = FALSE]
Armed(n)  == watch[n].torn \/ 2 * watch[n].peak > Configured

Watching(marker) == [Unwatched EXCEPT !.pc = "look", !.torn = marker = Unreadable,
                                      !.peak = IF marker = Unreadable THEN 0 ELSE marker]

(* orchestrate found the node ONLINE and spawned the watch. *)
StartWatch(n) ==
    /\ At(n, "off") /\ view[n] # {}
    /\ watch' = [watch EXCEPT ![n] = Watching(highWater[n])]
    /\ UNCHANGED <<world, readOnly, txns, highWater, acked, reached, trouble>>

(* A member reads its group's members; more of them ONLINE than ever raises
   the high-water marker.  A write that fails is not tried again. *)
Count(n)  == Cardinality(Reachable(n))
Higher(n) == Count(n) > watch[n].peak
Seen(n) == [watch[n] EXCEPT !.pc = "fence", !.online = Reachable(n),
                            !.lost = view[n] \ Reachable(n), !.primary = primary[n],
                            !.peak = IF Higher(n) THEN Count(n) ELSE @]
LookForgetting(n) ==
    /\ At(n, "look") /\ view[n] # {}
    /\ watch' = [watch EXCEPT ![n] = Seen(n)]
    /\ reached' = [reached EXCEPT ![n] = @ \/ 2 * Count(n) > Configured]
    /\ UNCHANGED <<world, readOnly, txns, highWater, acked, trouble>>
Look(n) ==
    /\ At(n, "look") /\ view[n] # {}
    /\ watch' = [watch EXCEPT ![n] = Seen(n)]
    /\ \/ /\ highWater' = [highWater EXCEPT ![n] = IF Higher(n) THEN Count(n) ELSE @]
          /\ UNCHANGED trouble
       \/ Higher(n) /\ Spend("marker_unwritten") /\ UNCHANGED highWater
    /\ reached' = [reached EXCEPT ![n] = @ \/ 2 * Count(n) > Configured]
    /\ UNCHANGED <<world, readOnly, txns, acked>>

(* Not a member any more, or no answer from mysqld: the round ends here. *)
LookAway(n) ==
    /\ At(n, "look") /\ watch[n].streak # 0
    /\ \/ view[n] = {} /\ UNCHANGED trouble
       \/ Spend("read_fails")
    /\ watch' = [watch EXCEPT ![n] = [@ EXCEPT !.streak = 0]]
    /\ UNCHANGED <<world, readOnly, txns, highWater, acked, reached>>

(* Seeds that are not ONLINE are probed, only while the membership is low;
   the clock of one that resolves, or is ONLINE, is taken back. *)
Low(n) == Armed(n) /\ 2 * Cardinality(watch[n].online) <= Configured
Probed(n) ==
    [s \in Node |-> LET clock == watch[n].gone[s]
                    IN  CASE ~ Low(n) -> clock
                          [] Low(n) /\ (s \in watch[n].online \/ up[s]) -> NoClock
                          [] OTHER -> IF clock = NoClock THEN 0 ELSE clock]
Waived(n) == IF Low(n) THEN {s \in Node : Probed(n)[s] = GoneDwell} ELSE {}

Effective(n) == Configured - Cardinality(Waived(n))

WantFenceBelowHalf(n) == Low(n) /\ 2 * Cardinality(watch[n].online) < Effective(n)

(* membership_fence_wanted *)
WantFence(n) ==
    Low(n) /\ 2 * Cardinality(watch[n].online) <= IF Effective(n) > 1 THEN Effective(n) ELSE 1

(* After the fence: a view with its majority ends the round. *)
SnapshotHealthy(n) == Cardinality(watch[n].online) > Cardinality(watch[n].lost)
Fenced(n, raised) ==
    LET w == [watch[n] EXCEPT !.gone = Probed(n), !.fenced = raised]
    IN  IF SnapshotHealthy(n) THEN [RoundOver(w) EXCEPT !.streak = 0]
                              ELSE [w EXCEPT !.pc = "judge"]

(* Re-imposed every round: an election lifts super_read_only. *)
RaiseFence(n) ==
    /\ At(n, "fence") /\ WantFence(n)
    /\ \/ readOnly' = [readOnly EXCEPT ![n] = TRUE] /\ UNCHANGED trouble
       \/ Spend("set_fails") /\ UNCHANGED readOnly
    /\ watch' = [watch EXCEPT ![n] = Fenced(n, TRUE)]
    /\ UNCHANGED <<world, txns, highWater, acked, reached>>

(* Not wanted: lifted from a primary that had it. *)
LiftFence(n) ==
    /\ At(n, "fence") /\ ~ WantFence(n)
    /\ readOnly' = [readOnly EXCEPT ![n] = @ /\ ~ (watch[n].fenced /\ watch[n].primary)]
    /\ watch' = [watch EXCEPT ![n] = Fenced(n, FALSE)]
    /\ UNCHANGED <<world, txns, highWater, acked, reached, trouble>>

LiftFenceFailsOpen(n) ==
    /\ At(n, "fence") /\ ~ WantFence(n) /\ watch[n].fenced /\ watch[n].primary
    /\ Spend("lift_fails")
    /\ watch' = [watch EXCEPT ![n] = [RoundOver(@) EXCEPT !.gone = Probed(n), !.fenced = FALSE]]
    /\ UNCHANGED <<world, readOnly, txns, highWater, acked, reached>>

(* The lift failed, perhaps after it took effect: the flag goes back up and
   the round ends. *)
LiftFenceFails(n) ==
    /\ At(n, "fence") /\ ~ WantFence(n) /\ watch[n].fenced /\ watch[n].primary
    /\ Spend("lift_fails")
    /\ readOnly' \in {readOnly, [readOnly EXCEPT ![n] = FALSE]}
    /\ watch' = [watch EXCEPT ![n] = [RoundOver(@) EXCEPT !.gone = Probed(n)]]
    /\ UNCHANGED <<world, txns, highWater, acked, reached>>

-----------------------------------------------------------------------------
(* Majority lost: ask the lost members who they are now.  An answer tells
   whether its member is in a group, and what it has executed. *)

Audible(n) == {m \in watch[n].lost : up[m] /\ SameSide(n, m)}
HeardFrom(n, heard) ==
    \/ heard = Audible(n) /\ UNCHANGED trouble
    \/ heard \subseteq Audible(n) /\ Spend("no_answer")

DepartedIfSilent(n, heard) == \A m \in watch[n].lost : m \in heard => view[m] = {}

(* The dwell outlasts a lost member's own stop and bootstrap, so one of its
   rounds finds that member active. *)
DwellOutlastsReform(n) ==
    "slow_reform" \in Troubles \/ \A m \in watch[n].lost : ~ At(m, "reform")

(* The members a round read are still its view when their answers are in. *)
RoundOutrunsView(n) ==
    "slow_round" \in Troubles \/ view[n] = watch[n].online \cup watch[n].lost

(* majority_loss_recovery_verdict: Force, when this lone survivor's every
   lost member answers that it is in no group. *)
ProvablyDeparted(n, heard) == watch[n].lost \subseteq {m \in heard : view[m] = {}}
MayForce(n, heard) == /\ Cardinality(watch[n].online) = 1
                      /\ ProvablyDeparted(n, heard)
                      /\ DwellOutlastsReform(n) /\ RoundOutrunsView(n)

NoGate(n) == TRUE

(* The final gate: no returning member holds what this node lacks. *)
HoldsAllOf(n) == \A m \in watch[n].lost : txns[m] \subseteq txns[n]

Dwelt(n) == watch[n].streak + 1 >= ForceDwell
OneMore(n) == IF Dwelt(n) THEN ForceDwell ELSE watch[n].streak + 1

Hold(n, heard) ==
    /\ ~ MayForce(n, heard)
    /\ watch' = [watch EXCEPT ![n] = [RoundOver(@) EXCEPT !.streak = 0]]

Dwell(n, heard) ==
    /\ MayForce(n, heard) /\ ~ Dwelt(n)
    /\ watch' = [watch EXCEPT ![n] = [RoundOver(@) EXCEPT !.streak = OneMore(n)]]

RefuseToForce(n, heard) ==
    /\ MayForce(n, heard) /\ Dwelt(n) /\ ~ HoldsAllOf(n)
    /\ watch' = [watch EXCEPT ![n] = [RoundOver(@) EXCEPT !.streak = 0]]

Exhausted(n, heard) ==
    /\ MayForce(n, heard) /\ Dwelt(n) /\ HoldsAllOf(n)
    /\ watch[n].attempts >= MaxAttempts
    /\ watch' = [watch EXCEPT ![n] = [RoundOver(@) EXCEPT !.streak = OneMore(n)]]

StartForcingForEver(n, heard) ==
    /\ MayForce(n, heard) /\ Dwelt(n) /\ HoldsAllOf(n)
    /\ watch' = [watch EXCEPT ![n] =
            [@ EXCEPT !.pc = "stop", !.streak = OneMore(n), !.attempts = watch[n].attempts + 1]]

StartForcing(n, heard) ==
    /\ MayForce(n, heard) /\ Dwelt(n) /\ HoldsAllOf(n)
    /\ watch[n].attempts < MaxAttempts
    /\ watch' = [watch EXCEPT ![n] =
            [@ EXCEPT !.pc = "stop", !.streak = OneMore(n), !.attempts = watch[n].attempts + 1]]

Judge(n) ==
    /\ At(n, "judge")
    /\ \E heard \in SUBSET watch[n].lost :
         /\ HeardFrom(n, heard)
         /\ \/ Hold(n, heard) \/ Dwell(n, heard) \/ RefuseToForce(n, heard)
            \/ Exhausted(n, heard) \/ StartForcing(n, heard)
    /\ UNCHANGED <<world, readOnly, txns, highWater, acked, reached>>

StopPlugin(n) ==
    /\ At(n, "stop")
    /\ view' = [view EXCEPT ![n] = {}]
    /\ primary' = [primary EXCEPT ![n] = FALSE]
    /\ readOnly' = [readOnly EXCEPT ![n] = TRUE]
    /\ watch' = [watch EXCEPT ![n] = [@ EXCEPT !.pc = "reform"]]
    /\ UNCHANGED <<up, split, txns, highWater, acked, reached, trouble>>

StopFails(n) ==
    /\ At(n, "stop") /\ Spend("stop_fails")
    /\ watch' = [watch EXCEPT ![n] = [RoundOver(@) EXCEPT !.streak = 0]]
    /\ UNCHANGED <<world, readOnly, txns, highWater, acked, reached>>

(* Bootstrapped under the same name.  The election lifted super_read_only;
   a fence that is up is put back at once. *)
Reform(n) ==
    /\ At(n, "reform")
    /\ view' = [view EXCEPT ![n] = {n}]
    /\ primary' = [primary EXCEPT ![n] = TRUE]
    /\ \/ readOnly' = [readOnly EXCEPT ![n] = watch[n].fenced] /\ UNCHANGED trouble
       \/ /\ watch[n].fenced /\ Spend("set_fails")
          /\ readOnly' = [readOnly EXCEPT ![n] = FALSE]
    /\ watch' = [watch EXCEPT ![n] = [RoundOver(@) EXCEPT !.streak = 0]]
    /\ UNCHANGED <<up, split, txns, highWater, acked, reached>>

(* The bootstrap failed: SHUTDOWN, and a fresh boot takes over. *)
ReformFails(n) ==
    /\ At(n, "reform") /\ Spend("reform_fails")
    /\ up' = [up EXCEPT ![n] = FALSE]
    /\ watch' = [watch EXCEPT ![n] = Unwatched]
    /\ UNCHANGED <<view, primary, split, readOnly, txns, highWater, acked, reached>>

-----------------------------------------------------------------------------
(* Group Replication. *)

(* The members S move to the view V, flushing what any of `from` had.  When
   none of them is primary one is elected, which makes it writable. *)
InstallView(S, V, from) ==
    /\ view' = [m \in Node |-> IF m \in S THEN V ELSE view[m]]
    /\ txns' = [m \in Node |-> IF m \in S THEN Flushed(from) ELSE txns[m]]
    /\ IF \E m \in S : primary[m] THEN UNCHANGED <<primary, readOnly>>
       ELSE \E p \in S : /\ primary' = [primary EXCEPT ![p] = TRUE]
                         /\ readOnly' = [readOnly EXCEPT ![p] = FALSE]

(* A majority expels the members it cannot reach. *)
Expel(n) ==
    /\ view[n] # {} /\ Operating(n) /\ Reachable(n) # view[n]
    /\ InstallView(Reachable(n), Reachable(n), Reachable(n))
    /\ UNCHANGED <<up, split, highWater, watch, acked, reached, trouble>>

(* A member its group went on without finds out: ERROR, read only, and the
   plugin's own rejoin from there. *)
NoticeExpulsion(n) ==
    /\ \E m \in view[n] : SameSide(n, m) /\ view[m] # {} /\ n \notin view[m]
    /\ view' = [view EXCEPT ![n] = {}]
    /\ primary' = [primary EXCEPT ![n] = FALSE]
    /\ readOnly' = [readOnly EXCEPT ![n] = TRUE]
    /\ UNCHANGED <<up, split, txns, highWater, watch, acked, reached, trouble>>

(* A member its group kept, but went on without, is heard again. *)
CatchUp(n) ==
    /\ \E m \in view[n] :
         /\ SameSide(n, m) /\ n \in view[m]
         /\ view[m] \subseteq view[n] /\ view[m] # view[n]
         /\ InstallView(Reachable(m) \cup {n}, view[m], Reachable(m) \cup {n})
    /\ UNCHANGED <<up, split, highWater, watch, acked, reached, trouble>>

(* A node outside any group joins the operating one; what it had beyond the
   group is discarded by a clone. *)
JoinGroup(n) ==
    /\ up[n] /\ view[n] = {} /\ ~ At(n, "reform")
    /\ \E p \in Node :
         /\ view[p] # {} /\ Reachable(p) = view[p] /\ SameSide(n, p)
         /\ InstallView(view[p] \cup {n}, view[p] \cup {n}, view[p])
    /\ UNCHANGED <<up, split, highWater, watch, acked, reached, trouble>>

(* orchestrate after a total outage: everyone answers, nobody is in a group,
   and the most advanced node bootstraps.  Its dwell outlasts a forced
   re-formation that is already decided. *)
ColdStart(n) ==
    /\ \A m \in Node : up[m] /\ view[m] = {} /\ ~ At(m, "stop") /\ ~ At(m, "reform")
    /\ \A m \in Node : txns[m] \subseteq txns[n]
    /\ view' = [view EXCEPT ![n] = {n}]
    /\ primary' = [primary EXCEPT ![n] = TRUE]
    /\ readOnly' = [readOnly EXCEPT ![n] = FALSE]
    /\ UNCHANGED <<up, split, txns, highWater, watch, acked, reached, trouble>>

(* A client's commit: a majority of the view has it when it is acknowledged. *)
ClientWrite(n) ==
    /\ view[n] # {} /\ primary[n] /\ ~ readOnly[n] /\ Operating(n)
    /\ Cardinality(acked) < MaxWrites
    /\ LET t == Cardinality(acked) + 1
       IN  /\ acked' = acked \cup {t}
           /\ \E D \in SUBSET Reachable(n) :
                /\ n \in D /\ 2 * Cardinality(D) > Cardinality(view[n])
                /\ D = Reachable(n) \/ "lag" \in Troubles
                /\ txns' = [m \in Node |-> IF m \in D THEN txns[m] \cup {t} ELSE txns[m]]
    /\ UNCHANGED <<world, readOnly, highWater, watch, reached, trouble>>

Deliver(n) ==
    /\ view[n] # {} /\ Operating(n) /\ txns[n] # Flushed(Reachable(n))
    /\ txns' = [txns EXCEPT ![n] = Flushed(Reachable(n))]
    /\ UNCHANGED <<world, readOnly, highWater, watch, acked, reached, trouble>>

-----------------------------------------------------------------------------
(* The platform. *)

Stopped(n) ==
    /\ up' = [up EXCEPT ![n] = FALSE]
    /\ watch' = [watch EXCEPT ![n] = Unwatched]
    /\ UNCHANGED <<split, highWater, acked, reached>>

(* A clean leave shrinks the view of a group that still operates.  The next
   primary is elected at once, or with the next view when some member of
   this one cannot be reached. *)
Leave(n) ==
    LET rest == Reachable(n) \ {n}
        V    == view[n] \ {n}
        next == IF Reachable(n) # view[n] \/ \E m \in rest : primary[m] THEN {} ELSE rest
    IN  /\ view[n] # {} /\ Operating(n) /\ Spend("leave")
        /\ view' = [m \in Node |-> IF m \in rest THEN V ELSE IF m = n THEN {} ELSE view[m]]
        /\ txns' = [m \in Node |-> IF m \in rest THEN Flushed(Reachable(n)) ELSE txns[m]]
        /\ \E p \in IF next = {} THEN {n} ELSE next :
             /\ primary' = [primary EXCEPT ![n] = FALSE, ![p] = p # n]
             /\ readOnly' = [readOnly EXCEPT ![n] = TRUE, ![p] = p = n]
        /\ Stopped(n)

Crash(n) ==
    /\ up[n] /\ Spend("crash")
    /\ view' = [view EXCEPT ![n] = {}]
    /\ primary' = [primary EXCEPT ![n] = FALSE]
    /\ readOnly' = [readOnly EXCEPT ![n] = TRUE]
    /\ UNCHANGED txns
    /\ Stopped(n)

Boot(n) ==
    /\ ~ up[n]
    /\ up' = [up EXCEPT ![n] = TRUE]
    /\ UNCHANGED <<view, primary, split, readOnly, txns, highWater, watch, acked, reached, trouble>>

Tear(n) ==
    /\ highWater[n] > 0 /\ Spend("marker_torn")
    /\ highWater' = [highWater EXCEPT ![n] = Unreadable]
    /\ UNCHANGED <<world, readOnly, txns, watch, acked, reached>>

Split ==
    /\ split = {} /\ Spend("split")
    /\ \E S \in SUBSET Node \ {{}} : 2 * Cardinality(S) <= Configured /\ split' = S
    /\ UNCHANGED <<up, view, primary, readOnly, txns, highWater, watch, acked, reached>>

Heal ==
    /\ split # {} /\ split' = {}
    /\ UNCHANGED <<up, view, primary, readOnly, txns, highWater, watch, acked, reached,
                   trouble>>

(* Time passes; a round reads the members and probes within one tick. *)
Older(clock) == IF clock \in {NoClock, GoneDwell} THEN clock ELSE clock + 1
Tick ==
    /\ \A n \in Node : ~ At(n, "fence")
    /\ watch' = [n \in Node |-> [watch[n] EXCEPT !.gone =
                                    [s \in Node |-> Older(watch[n].gone[s])]]]
    /\ UNCHANGED <<world, readOnly, txns, highWater, acked, reached, trouble>>

-----------------------------------------------------------------------------
Watch(n) ==
    \/ StartWatch(n) \/ Look(n) \/ LookAway(n)
    \/ RaiseFence(n) \/ LiftFence(n) \/ LiftFenceFails(n)
    \/ Judge(n) \/ StopPlugin(n) \/ StopFails(n) \/ Reform(n) \/ ReformFails(n)
GroupReplication(n) ==
    \/ Expel(n) \/ NoticeExpulsion(n) \/ CatchUp(n) \/ JoinGroup(n) \/ ColdStart(n)
    \/ ClientWrite(n) \/ Deliver(n)
Platform(n) == Leave(n) \/ Crash(n) \/ Boot(n) \/ Tear(n)

Next == \/ \E n \in Node : Watch(n) \/ GroupReplication(n) \/ Platform(n)
        \/ Split \/ Heal \/ Tick

Spec == Init /\ [][Next]_vars

(* The watch polls for ever, containers are started again, and a partition
   ends; troubles are bounded, so there is a last one. *)
FairSpec ==
    /\ Spec
    /\ WF_vars(Heal)
    /\ \A n \in Node :
         /\ WF_vars(Watch(n)) /\ WF_vars(Boot(n)) /\ WF_vars(JoinGroup(n))
         /\ WF_vars(Expel(n) \/ NoticeExpulsion(n) \/ CatchUp(n) \/ ColdStart(n))

-----------------------------------------------------------------------------
(* Properties. *)

(* Every variable has its type. *)
TypeOK ==
    /\ up \in [Node -> BOOLEAN] /\ view \in [Node -> SUBSET Node]
    /\ primary \in [Node -> BOOLEAN] /\ split \in SUBSET Node
    /\ readOnly \in [Node -> BOOLEAN]
    /\ txns \in [Node -> SUBSET (1 .. MaxWrites)]
    /\ highWater \in [Node -> Unreadable .. Configured]
    /\ watch \in [Node -> WatchSet]
    /\ acked \in SUBSET (1 .. MaxWrites)
    /\ reached \in [Node -> BOOLEAN] /\ trouble \in 0 .. MaxTrouble

(* Re-forming a group never forks it (the proof majority_loss_recovery_verdict
   asks for): two members that can commit share one view. *)
OneOperatingGroup ==
    \A n, m \in Node :
        view[n] # {} /\ view[m] # {} /\ Operating(n) /\ Operating(m) =>
            view[n] = view[m] /\ SameSide(n, m)

(* The final gate of a forced re-formation: whatever group can commit holds
   every transaction a client was told is committed. *)
AckedKept ==
    \A n \in Node : view[n] # {} /\ Operating(n) => acked \subseteq Flushed(Reachable(n))

(* The marker outlives the process (persist_membership_high_water): a watch
   works with the count on its volume, and a volume whose group has reached a
   declared majority says so at every later boot, unless the file is torn or was never written. *)
MarkerRemembers ==
    \A n \in Node : /\ ~ watch[n].torn
                    /\ ~ At(n, "off") => watch[n].peak = highWater[n]
                    /\ reached[n] => 2 * highWater[n] > Configured

FencePassed(n) == /\ At(n, "fence") /\ up'[n] /\ watch'[n].pc # "fence"
                  /\ reached[n] /\ ~ watch'[n].fenced

(* The membership fence (issue #33): once a volume's group has reached a
   declared majority, through restarts too, a round leaves writes open only
   with more than half of the seeds ONLINE, not counting absent ones. *)
LiftJustified ==
    [][\A n \in Node : FencePassed(n) =>
          2 * Cardinality(watch[n].online) >
              Cardinality({s \in Node : s \in watch[n].online \/ up[s]})]_vars

(* gr.rs:1056: "A reachable peer is present again by definition - its clock
   resets": after a round that read a seed ONLINE its NXDOMAIN clock is off. *)
ReturnResetsClock ==
    [][\A n \in Node : FencePassed(n) =>
          \A s \in watch[n].online : watch'[n].gone[s] = NoClock]_vars

(* gr.rs:571: "A real partition cannot fake that answer": when a survivor goes
   on to re-form the group nobody else is in a group that can commit. *)
ForcedAlone ==
    [][\A n, m \in Node : At(n, "judge") /\ At(n, "stop")' /\ m # n /\ view[m] # {} =>
          ~ Operating(m)]_vars

(* Recovery (issue #31): after the last trouble the group is whole again and
   its primary takes writes, unless the watch leaves a lone survivor to a
   human: a lost member has a transaction it lacks, or its attempts are spent. *)
WholeAndWritable ==
    \E p \in Node : /\ \A m \in Node : view[m] = Node
                    /\ split = {} /\ primary[p] /\ ~ readOnly[p] /\ ~ watch[p].fenced
LeftToHuman ==
    \E n \in Node : /\ view[n] # {} /\ ~ Operating(n)
                    /\ \/ watch[n].attempts = MaxAttempts
                       \/ \E m \in view[n] : ~ (txns[m] \subseteq txns[n])
WritesReturn == <>[](WholeAndWritable \/ LeftToHuman)
=============================================================================

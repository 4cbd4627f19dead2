---------------------------- MODULE Orchestrate ----------------------------
(***************************************************************************)
(* Group Replication orchestration, mysql-wrapper/src/gr.rs: every node    *)
(* runs `orchestrate` once per boot, which settles what its volume is,     *)
(* then polls its peers' /gr/state and either joins the live group or,     *)
(* when none is alive, decides whether bootstrapping here is safe.         *)
(*                                                                         *)
(* Three kinds of state:                                                   *)
(*   the volume    survives a restart (marker files and the datadir);      *)
(*   the process   one boot of the wrapper and its mysqld;                 *)
(*   the world     what the platform and mysqld's Group Replication do,    *)
(*                 as src/ relies on it (external).                        *)
(*                                                                         *)
(* A round of orchestrate takes two steps: Round reads the answers and     *)
(* leaves its decision in `plan`; a later step acts on it.  Anything may   *)
(* happen in between, as it may between the awaits of the code.            *)
(***************************************************************************)
EXTENDS BootstrapDecision, FiniteSets

CONSTANTS
    Node,         \* the hosts declared in GR_SEEDS
    Rank,         \* seed_rank: the declared order, a number per node
    AdoptedRoots, \* nodes whose volume is an adopted standalone database
    Pinned,       \* nodes that carry a GR_GROUP_NAME pin
    Retirable,    \* services the operator may stop for longer than the dwell
    Disposable,   \* services that may come back on an empty volume
    Faults,       \* which external faults happen, see FaultKinds
    MaxEra,       \* bound: groups formed, and group names minted
    MaxWrites,    \* bound: client transactions
    MaxStops,     \* bound: process ends (crash, stop, redeploy)
    NoNode, NoBase

FaultKinds == { "query_lost",          \* a peer that is up does not answer
                "flag_unread",         \* group_pre_gtid_flag returns Err
                "flag_unwritten",      \* post_bootstrap or the flag write fails
                "gtid_unread",         \* a joiner cannot read its own GTID set
                "reset_fails",         \* RESET BINARY LOGS AND GTIDS fails
                "bootstrap_fails",     \* bootstrap_group, set_group_name return Err
                "generation_unwritten", \* persist_waiver_generation returns Err
                "clone_drops_markers", \* CLONE INSTANCE loses the file markers
                "crash",               \* a member ends without leaving its view
                "empty_restart" }      \* a node restarts before it holds anything

ASSUME NodeAssumption == NoNode \notin Node /\ NoBase \notin Node
ASSUME UuidAssumption == Node \cap Nat = {}   \* no server's uuid is a group's name
ASSUME RankAssumption == /\ Rank \in [Node -> Nat]
                         /\ \A n, m \in Node : n # m => Rank[n] # Rank[m]
ASSUME SetsAssumption == /\ AdoptedRoots \subseteq Node /\ Pinned \subseteq Node
                         /\ Retirable \subseteq Node /\ Disposable \subseteq Node
                         /\ Faults \subseteq FaultKinds
ASSUME BoundAssumption == MaxEra \in Nat /\ MaxWrites \in Nat /\ MaxStops \in Nat

VARIABLES
    initialised,  \* volume: the `mysql` schema directory exists
    txns,         \* volume: transactions executed on this datadir
    base,         \* volume: the adopted root whose pre-GTID data it holds
    preGtid,      \* volume: .railway_pre_gtid_data
    generation,   \* volume: .railway_gr_waiver_generation
    groupName,    \* volume: .railway_gr_group_name; 0 is the derived name
    wasMember,    \* volume: .railway_gr_member
    pc,           \* process: off, boot (gate shut), loop, member (returned)
    fresh,        \* process: fresh_datadir
    safe,         \* process: safe_since is Some
    inflight,     \* process: the peers that were acting when safe_since was set
    plan,         \* process: what this round decided and has not done yet
    group,        \* process: the group mysqld is ONLINE in, 0 for none
    role,         \* process: its member role
    gone,         \* world: the name has answered NXDOMAIN for the dwell
    blocked,      \* world: groups whose view lost its majority
    eras,         \* world: groups formed so far
    names,        \* world: group names minted so far
    lastWaiver,   \* history: the last group formed past a waived peer
    writes, stops \* bounds

volume  == <<initialised, txns, base, preGtid, generation, groupName, wasMember>>
process == <<pc, fresh, safe, inflight, plan, group, role>>
world   == <<gone, blocked, eras, names, lastWaiver, writes, stops>>
vars    == <<volume, process, world>>

Peers(n) == Node \ {n}

(* A transaction: its GTID is <<src, seq>>; era tells apart two
   transactions that were given the same GTID by different groups. *)
Seqs == 1 .. (MaxWrites + MaxEra + 1)
Txn  == [src : Node \cup (0 .. MaxEra), seq : Seqs, era : 0 .. MaxEra, flag : BOOLEAN]
Gtid(t)  == <<t.src, t.seq>>
Gtids(S) == {Gtid(t) : t \in S}

(* What docker-entrypoint's init SQL mints under the node's own uuid. *)
InitNoise(n) == [src |-> n, seq |-> 1, era |-> 0, flag |-> FALSE]

(* Applying another server's transactions: a GTID already executed here is
   skipped, whatever it stood for there. *)
Merge(mine, theirs) == mine \cup {t \in theirs : Gtid(t) \notin Gtids(mine)}

(* "waive": the fresh name is minted and persisted, its generation is not. *)
PlanSet == [do : {"none", "join", "clone", "bootstrap", "waive", "bootstrap_waived", "flag"},
            of : Node \cup {NoNode}, gen : Nat]
Plan(d, m)   == [do |-> d, of |-> m, gen |-> 0]
Waive(n, g)  == [do |-> "waive", of |-> n, gen |-> g]
NoPlan       == Plan("none", NoNode)
Waiving(n)   == plan[n].do \in {"waive", "bootstrap_waived"}
Deciding(n)  == plan[n].do \in {"bootstrap", "waive", "bootstrap_waived"}
Acting(n)   == plan[n].do \in {"join", "clone"} \/ Deciding(n)

-----------------------------------------------------------------------------
(* What a node says of itself, and what it believes. *)

Flagged(n) == \E t \in txns[n] : t.flag        \* group_pre_gtid_flag

(* Mutants, here and below, stand before the definition they spoil. *)
PreGtidClaimByFlag(m, unread) == ~ unread /\ Flagged(m)

(* The answer of m to /gr/state; `unread`: its flag read failed, which the
   bootstrap decision reads as "no" and the joiner as "unknown". *)
PreGtidClaim(m, unread) == preGtid[m] \/ (~ unread /\ Flagged(m))
Advert(m, unread) == [gtids |-> Gtids(txns[m]), pre |-> PreGtidClaim(m, unread),
                      gen |-> generation[m], rank |-> Rank[m]]
Mine(n) == [gtids |-> Gtids(txns[n]), pre |-> preGtid[n],
            gen |-> generation[n], rank |-> Rank[n]]

BeenMemberByName(n, name) == n \in Node   \* every node writes the name marker
BeenMember(n, name) == wasMember[n] \/ \E t \in txns[n] : t.src = name
MayWaive(n) == BeenMember(n, groupName[n]) \/ preGtid[n]

(* The first and the last of a set of hosts in seed order. *)
First(S) == {m \in S : \A k \in S : Rank[m] <= Rank[k]}
Last(S)  == {m \in S : \A k \in S : Rank[m] >= Rank[k]}
Primaries(S) == {m \in S : role[m] = "PRIMARY"}
Donors(live) == Last(IF Primaries(live) # {} THEN Primaries(live) ELSE live)

-----------------------------------------------------------------------------
Init ==
    /\ initialised = [n \in Node |-> n \in AdoptedRoots]
    /\ txns = [n \in Node |-> {}]
    /\ base = [n \in Node |-> IF n \in AdoptedRoots THEN n ELSE NoBase]
    /\ preGtid = [n \in Node |-> FALSE]
    /\ generation = [n \in Node |-> 0]
    /\ groupName = [n \in Node |-> 0]
    /\ wasMember = [n \in Node |-> FALSE]
    /\ pc = [n \in Node |-> "off"]
    /\ fresh = [n \in Node |-> FALSE]
    /\ safe = [n \in Node |-> FALSE]
    /\ inflight = [n \in Node |-> {}]
    /\ plan = [n \in Node |-> NoPlan]
    /\ group = [n \in Node |-> 0]
    /\ role = [n \in Node |-> "NONE"]
    /\ gone = [n \in Node |-> FALSE]
    /\ blocked = {}
    /\ eras = 0 /\ names = 0 /\ lastWaiver = 0 /\ writes = 0 /\ stops = 0

(* The container starts.  An uninitialised datadir is initialised by
   docker-entrypoint, whose SQL leaves local GTIDs behind; a GR_GROUP_NAME
   pin overrides the name the volume carries (resolve_group_name). *)
Boot(n) ==
    /\ pc[n] = "off"
    /\ pc' = [pc EXCEPT ![n] = "boot"]
    /\ fresh' = [fresh EXCEPT ![n] = ~ initialised[n]]
    /\ initialised' = [initialised EXCEPT ![n] = TRUE]
    /\ txns' = [txns EXCEPT ![n] = IF initialised[n] THEN @ ELSE {InitNoise(n)}]
    /\ groupName' = [groupName EXCEPT ![n] = IF n \in Pinned THEN 0 ELSE @]
    /\ gone' = [gone EXCEPT ![n] = FALSE]
    /\ UNCHANGED <<base, preGtid, generation, wasMember, safe, inflight, plan,
                   group, role, blocked, eras, names, lastWaiver, writes, stops>>

(* Step 2a on a datadir this boot initialised: purge the init GTIDs.  A
   failed purge is reported and the gate opens all the same. *)
SettleFresh(n) ==
    /\ pc[n] = "boot" /\ fresh[n]
    /\ \/ txns' = [txns EXCEPT ![n] = {}]
       \/ "reset_fails" \in Faults /\ UNCHANGED txns
    /\ pc' = [pc EXCEPT ![n] = "loop"]
    /\ UNCHANGED <<initialised, base, preGtid, generation, groupName, wasMember,
                   fresh, safe, inflight, plan, group, role, world>>

(* Step 2a otherwise: adoption detection, data without any GTID. *)
SettleExisting(n) ==
    /\ pc[n] = "boot" /\ ~ fresh[n]
    /\ preGtid' = [preGtid EXCEPT ![n] = @ \/ txns[n] = {}]
    /\ pc' = [pc EXCEPT ![n] = "loop"]
    /\ UNCHANGED <<initialised, txns, base, generation, groupName, wasMember,
                   fresh, safe, inflight, plan, group, role, world>>

-----------------------------------------------------------------------------
(* The joining half of a round: some answer reports a live group.  `live`
   are the live members heard, `unread` those whose flag read failed. *)

Carries(live, unread) == \E m \in live : PreGtidClaim(m, m \in unread)
SomeUnknown(live, unread) == \E m \in live \cap unread : ~ preGtid[m]

HistoryDiverged(mine, live) ==
    mine # {} /\ \E p \in First(Primaries(live)) : ~ (mine \subseteq Gtids(txns[p]))

(* The joiner's own GTID set as it reads it: an error reads as empty. *)
ReadOwnGtids(n) == {Gtids(txns[n])} \cup IF "gtid_unread" \in Faults THEN {{}} ELSE {}

JoinPlan(n, name, donor, mine, live, unread) ==
    LET carries == Carries(live, unread)
        been    == BeenMember(n, groupName[n]) \/ BeenMember(n, name)
        method  == JoinMethod(preGtid[n], mine, carries, SomeUnknown(live, unread))
    IN  IF HistoryDiverged(mine, live) THEN Plan("clone", donor)
        ELSE IF \/ AdoptedDataVerdict(preGtid[n], been, carries) = "hold"
                \/ method = "hold"
        THEN NoPlan
        ELSE IF method = "clone" THEN Plan("clone", donor) ELSE Plan("join", NoNode)

(* A pinned node refuses a live identity other than its own. *)
RefuseIdentity(n, live) ==
    /\ n \in Pinned /\ \E from \in First(live) : groupName[from] # groupName[n]
    /\ safe' = [safe EXCEPT ![n] = FALSE]
    /\ inflight' = [inflight EXCEPT ![n] = {}]
    /\ UNCHANGED <<volume, pc, fresh, plan, group, role, world>>

(* Otherwise the live group's name, and its generation when higher, are
   adopted and persisted before anything else is judged. *)
AdoptIdentity(n, live, unread) ==
    \E from \in First(live), donor \in Donors(live), mine \in ReadOwnGtids(n) :
        LET differs == groupName[from] # groupName[n]
        IN  /\ n \notin Pinned \/ ~ differs
            /\ groupName' = [groupName EXCEPT ![n] = groupName[from]]
            /\ generation' = [generation EXCEPT ![n] =
                    IF differs /\ generation[from] > @ THEN generation[from] ELSE @]
            /\ plan' = [plan EXCEPT ![n] =
                    JoinPlan(n, groupName[from], donor, mine, live, unread)]
            /\ safe' = [safe EXCEPT ![n] = FALSE]
            /\ inflight' = [inflight EXCEPT ![n] = {}]
            /\ UNCHANGED <<initialised, txns, base, preGtid, wasMember,
                           pc, fresh, group, role, world>>

-----------------------------------------------------------------------------
(* The deciding half: no live group was heard.  `waived` are the peers this
   node stopped waiting for; every other peer must have answered. *)

DecidableByMajority(n, heard, waived) == 2 * (Cardinality(heard) + 1) > Cardinality(Node)

Considered(n, waived) == Peers(n) \ waived
Decidable(n, heard, waived) == Considered(n, waived) \subseteq heard
Standings(n, waived, unread) ==
    {Advert(m, m \in unread) : m \in Considered(n, waived)}
RoundIsSafeByMajority(n, heard, waived, unread) ==
    /\ DecidableByMajority(n, heard, waived)
    /\ SafeToBootstrap(Mine(n), {Advert(m, m \in unread) : m \in heard})
RoundIsSafe(n, heard, waived, unread) ==
    /\ Decidable(n, heard, waived)
    /\ SafeToBootstrap(Mine(n), Standings(n, waived, unread))

DwellSkipped(n) == safe[n]

(* The dwell is far longer than a round: a START, CLONE or bootstrap that a
   peer had already decided on when it began is over by the time it ends. *)
DwellOver(n) == safe[n] /\ inflight[n] = {}

NameRefused(n, waived) == waived # {} /\ DwellOver(n) /\ "bootstrap_fails" \in Faults

(* Undecidable, PeerIsMoreAdvanced, DeferToPeer, or the fresh name of a
   waiver bootstrap cannot be set: the dwell starts over. *)
Wait(n, heard, waived, unread) ==
    /\ ~ RoundIsSafe(n, heard, waived, unread) \/ NameRefused(n, waived)
    /\ safe' = [safe EXCEPT ![n] = FALSE]
    /\ inflight' = [inflight EXCEPT ![n] = {}]
    /\ UNCHANGED <<volume, pc, fresh, plan, group, role, world>>

StartDwell(n, heard, waived, unread) ==
    /\ RoundIsSafe(n, heard, waived, unread)
    /\ ~ safe[n]
    /\ safe' = [safe EXCEPT ![n] = TRUE]
    /\ inflight' = [inflight EXCEPT ![n] = {m \in Peers(n) : Acting(m)}]
    /\ UNCHANGED <<volume, pc, fresh, plan, group, role, world>>

DecideBootstrap(n, heard, waived, unread) ==
    /\ RoundIsSafe(n, heard, waived, unread)
    /\ DwellOver(n) /\ waived = {}
    /\ plan' = [plan EXCEPT ![n] = Plan("bootstrap", n)]
    /\ UNCHANGED <<volume, pc, fresh, safe, inflight, group, role, world>>

DecideWaiverBootstrapSameName(n, heard, waived, unread) ==
    /\ RoundIsSafe(n, heard, waived, unread)
    /\ DwellOver(n) /\ waived # {}
    /\ plan' = [plan EXCEPT ![n] = Waive(n, generation[n])]
    /\ UNCHANGED <<volume, pc, fresh, safe, inflight, group, role, world>>

(* Past a waived peer: mint a fresh name and persist it; its generation, above
   every one that was considered, is persisted next. *)
DecideWaiverBootstrap(n, heard, waived, unread) ==
    /\ RoundIsSafe(n, heard, waived, unread)
    /\ DwellOver(n) /\ waived # {}
    /\ names < MaxEra
    /\ names' = names + 1
    /\ groupName' = [groupName EXCEPT ![n] = names']
    /\ \E top \in {generation[m] : m \in Considered(n, waived) \cup {n}} :
         /\ \A m \in Considered(n, waived) \cup {n} : generation[m] <= top
         /\ plan' = [plan EXCEPT ![n] = Waive(n, top + 1)]
    /\ UNCHANGED <<initialised, txns, base, preGtid, generation, wasMember,
                   pc, fresh, safe, inflight, group, role, gone, blocked, eras,
                   lastWaiver, writes, stops>>

-----------------------------------------------------------------------------
(* One pass of the loop: query every peer.  Only a peer whose gate is open
   answers; a peer may be unreachable although it runs; a gone name is
   waived by a node that may, once its own clock has run for the dwell. *)
Answering(n) == {m \in Peers(n) : pc[m] \in {"loop", "member"}}
Heard(n) == IF "query_lost" \in Faults THEN SUBSET Answering(n) ELSE {Answering(n)}
Waivable(n) == IF MayWaive(n) THEN {m \in Peers(n) : pc[m] = "off" /\ gone[m]} ELSE {}
Unread(S) == IF "flag_unread" \in Faults THEN SUBSET S ELSE {{}}
Live(S) == {m \in S : group[m] # 0}

RoundSeeing(n, heard, waived, unread) ==
    \/ /\ Live(heard) # {}
       /\ \/ RefuseIdentity(n, Live(heard))
          \/ AdoptIdentity(n, Live(heard), unread)
    \/ /\ Live(heard) = {}
       /\ \/ Wait(n, heard, waived, unread)
          \/ StartDwell(n, heard, waived, unread)
          \/ DecideBootstrap(n, heard, waived, unread)
          \/ DecideWaiverBootstrap(n, heard, waived, unread)

Round(n) ==
    /\ pc[n] = "loop" /\ group[n] = 0 /\ plan[n] = NoPlan
    /\ \E heard \in Heard(n), waived \in SUBSET Waivable(n) :
         \E unread \in Unread(heard) : RoundSeeing(n, heard, waived, unread)

-----------------------------------------------------------------------------
(* Acting on the decision. *)

NotActing(n) == [k \in Node |-> inflight[k] \ {n}]

PersistGenerationDown(n) ==
    /\ plan[n].do = "waive"
    /\ generation' = [generation EXCEPT ![n] = @ - 1]
    /\ plan' = [plan EXCEPT ![n] = Plan("bootstrap_waived", n)]
    /\ UNCHANGED <<initialised, txns, base, preGtid, groupName, wasMember,
                   pc, fresh, safe, inflight, group, role, world>>

(* The waiver's generation is persisted before the group is formed; a failed
   write is reported, and the node forms the group without it. *)
PersistGeneration(n) ==
    /\ plan[n].do = "waive"
    /\ \/ generation' = [generation EXCEPT ![n] = plan[n].gen]
       \/ "generation_unwritten" \in Faults /\ UNCHANGED generation
    /\ plan' = [plan EXCEPT ![n] = Plan("bootstrap_waived", n)]
    /\ UNCHANGED <<initialised, txns, base, preGtid, groupName, wasMember,
                   pc, fresh, safe, inflight, group, role, world>>

(* bootstrap_group succeeded: a new group with this node its primary. *)
Bootstrap(n) ==
    /\ plan[n].do \in {"bootstrap", "bootstrap_waived"}
    /\ eras < MaxEra
    /\ eras' = eras + 1
    /\ group' = [group EXCEPT ![n] = eras']
    /\ role' = [role EXCEPT ![n] = "PRIMARY"]
    /\ plan' = [plan EXCEPT ![n] = IF preGtid[n] THEN Plan("flag", n) ELSE NoPlan]
    /\ lastWaiver' = IF plan[n].do = "bootstrap_waived" THEN eras' ELSE lastWaiver
    /\ inflight' = NotActing(n)
    /\ UNCHANGED <<volume, pc, fresh, safe, gone, blocked, names, writes, stops>>

(* bootstrap_group failed: re-evaluate from the next round on. *)
BootstrapFails(n) ==
    /\ plan[n].do \in {"bootstrap", "bootstrap_waived"} /\ "bootstrap_fails" \in Faults
    /\ safe' = [safe EXCEPT ![n] = FALSE]
    /\ plan' = [plan EXCEPT ![n] = NoPlan]
    /\ inflight' = [NotActing(n) EXCEPT ![n] = {}]
    /\ UNCHANGED <<volume, pc, fresh, group, role, world>>

(* The next GTID the group's name gives out on this server. *)
NextSeq(n, s) == /\ <<groupName[n], s>> \notin Gtids(txns[n])
                 /\ \A r \in 1 .. (s - 1) : <<groupName[n], r>> \in Gtids(txns[n])
Commit(n, flag) ==
    \E s \in Seqs :
        /\ NextSeq(n, s)
        /\ txns' = [txns EXCEPT ![n] = @ \cup
              {[src |-> groupName[n], seq |-> s, era |-> group[n], flag |-> flag]}]

(* The adopting root tells the group that its data predates its GTIDs. *)
WriteFlag(n) ==
    /\ plan[n].do = "flag" /\ group[n] \notin blocked
    /\ \/ Commit(n, TRUE)
       \/ "flag_unwritten" \in Faults /\ UNCHANGED txns
    /\ plan' = [plan EXCEPT ![n] = NoPlan]
    /\ UNCHANGED <<initialised, base, preGtid, generation, groupName, wasMember,
                   pc, fresh, safe, inflight, group, role, world>>

(* START GROUP_REPLICATION succeeded.  The group admits a joiner under its
   own name whose GTIDs it holds; distributed recovery brings the rest. *)
Join(n) ==
    /\ plan[n].do = "join"
    /\ \E p \in Primaries(Peers(n)) :
         /\ group[p] \notin blocked
         /\ groupName[p] = groupName[n]
         /\ Gtids(txns[n]) \subseteq Gtids(txns[p])
         /\ group' = [group EXCEPT ![n] = group[p]]
         /\ txns' = [txns EXCEPT ![n] = Merge(@, txns[p])]
    /\ role' = [role EXCEPT ![n] = "SECONDARY"]
    /\ plan' = [plan EXCEPT ![n] = NoPlan]
    /\ inflight' = NotActing(n)
    /\ UNCHANGED <<initialised, base, preGtid, generation, groupName, wasMember,
                   pc, fresh, safe, world>>

(* START or CLONE failed; the next pass decides again. *)
JoinFails(n) ==
    /\ plan[n].do \in {"join", "clone"}
    /\ plan' = [plan EXCEPT ![n] = NoPlan]
    /\ inflight' = NotActing(n)
    /\ UNCHANGED <<volume, pc, fresh, safe, group, role, world>>

(* CLONE INSTANCE replaces the datadir with the donor's and shuts mysqld
   down; the supervisor ends the container with it. *)
Clone(n) ==
    \E donor \in Peers(n) :
        /\ plan[n] = Plan("clone", donor) /\ group[donor] # 0
        /\ txns' = [txns EXCEPT ![n] = txns[donor]]
        /\ base' = [base EXCEPT ![n] = base[donor]]
        /\ IF "clone_drops_markers" \in Faults
           THEN /\ preGtid' = [preGtid EXCEPT ![n] = FALSE]
                /\ generation' = [generation EXCEPT ![n] = 0]
                /\ groupName' = [groupName EXCEPT ![n] = 0]
                /\ wasMember' = [wasMember EXCEPT ![n] = FALSE]
           ELSE UNCHANGED <<preGtid, generation, groupName, wasMember>>
        /\ pc' = [pc EXCEPT ![n] = "off"]
        /\ plan' = [plan EXCEPT ![n] = NoPlan]
        /\ inflight' = NotActing(n)
        /\ UNCHANGED <<initialised, fresh, safe, group, role, world>>

(* The next pass finds this node an active member: orchestrate notes the
   membership, spawns the majority watch and returns. *)
Activate(n) ==
    /\ pc[n] = "loop" /\ group[n] # 0 /\ plan[n] = NoPlan
    /\ pc' = [pc EXCEPT ![n] = "member"]
    /\ wasMember' = [wasMember EXCEPT ![n] = TRUE]
    /\ UNCHANGED <<initialised, txns, base, preGtid, generation, groupName,
                   fresh, safe, inflight, plan, group, role, world>>

(* A peer polls /gr/state of an ONLINE node: the handler notes membership. *)
AnswerPoll(n) ==
    /\ group[n] # 0 /\ ~ wasMember[n]
    /\ wasMember' = [wasMember EXCEPT ![n] = TRUE]
    /\ UNCHANGED <<initialised, txns, base, preGtid, generation, groupName,
                   process, world>>

-----------------------------------------------------------------------------
(* The world. *)

ClientWrite(n) ==
    /\ role[n] = "PRIMARY" /\ group[n] \notin blocked
    /\ writes < MaxWrites
    /\ writes' = writes + 1
    /\ Commit(n, FALSE)
    /\ UNCHANGED <<initialised, base, preGtid, generation, groupName, wasMember,
                   process, gone, blocked, eras, names, lastWaiver, stops>>

(* A secondary applies what its group has committed. *)
Apply(n) ==
    \E p \in Primaries(Peers(n)) :
        /\ group[p] = group[n] /\ group[n] \notin blocked
        /\ ~ (Gtids(txns[p]) \subseteq Gtids(txns[n]))
        /\ txns' = [txns EXCEPT ![n] = Merge(@, txns[p])]
        /\ UNCHANGED <<initialised, base, preGtid, generation, groupName, wasMember,
                       process, world>>

Mates(n) == {m \in Peers(n) : group[n] # 0 /\ group[m] = group[n]}
LosesMajority(n, clean) ==
    ~ clean /\ Mates(n) # {} /\ 2 * Cardinality(Mates(n)) <= Cardinality(Mates(n)) + 1

(* A node that holds nothing yet: a restart now makes it an existing
   datadir with an empty GTID set. *)
Newborn(n) == pc[n] = "boot" /\ fresh[n]
HoldsNothing(n) == Newborn(n) \/ (txns[n] = {} /\ base[n] = NoBase)

(* The process ends: cleanly (SIGTERM; the member leaves its view) or not
   (expelled, or the view loses its majority).  A primary is succeeded by a
   member that first applies the backlog it received. *)
Leave(n, clean) ==
    /\ pc[n] # "off" /\ stops < MaxStops
    /\ ~ clean => "crash" \in Faults
    /\ HoldsNothing(n) => "empty_restart" \in Faults
    /\ plan[n].do = "flag" => "flag_unwritten" \in Faults
    /\ stops' = stops + 1
    /\ blocked' = IF LosesMajority(n, clean) THEN blocked \cup {group[n]} ELSE blocked
    /\ IF role[n] = "PRIMARY" /\ Mates(n) # {} /\ group[n] \notin blocked'
       THEN \E p \in Mates(n) :
              /\ role' = [role EXCEPT ![n] = "NONE", ![p] = "PRIMARY"]
              /\ txns' = [txns EXCEPT ![p] = Merge(@, txns[n])]
       ELSE role' = [role EXCEPT ![n] = "NONE"] /\ UNCHANGED txns
    /\ group' = [group EXCEPT ![n] = 0]
    /\ pc' = [pc EXCEPT ![n] = "off"]
    /\ safe' = [safe EXCEPT ![n] = FALSE]
    /\ plan' = [plan EXCEPT ![n] = NoPlan]
    /\ inflight' = [NotActing(n) EXCEPT ![n] = {}]
    /\ UNCHANGED <<initialised, base, preGtid, generation, groupName, wasMember,
                   fresh, gone, eras, names, lastWaiver, writes>>

(* No container behind the name for the whole peer_gone_dwell. *)
Retire(n) ==
    /\ n \in Retirable /\ pc[n] = "off" /\ ~ gone[n]
    /\ gone' = [gone EXCEPT ![n] = TRUE]
    /\ UNCHANGED <<volume, process, blocked, eras, names, lastWaiver, writes, stops>>

(* The service comes back on an empty volume. *)
Reprovision(n) ==
    /\ n \in Disposable /\ pc[n] = "off" /\ initialised[n] /\ stops < MaxStops
    /\ stops' = stops + 1
    /\ initialised' = [initialised EXCEPT ![n] = FALSE]
    /\ txns' = [txns EXCEPT ![n] = {}]
    /\ base' = [base EXCEPT ![n] = NoBase]
    /\ preGtid' = [preGtid EXCEPT ![n] = FALSE]
    /\ generation' = [generation EXCEPT ![n] = 0]
    /\ groupName' = [groupName EXCEPT ![n] = 0]
    /\ wasMember' = [wasMember EXCEPT ![n] = FALSE]
    /\ UNCHANGED <<process, gone, blocked, eras, names, lastWaiver, writes>>

-----------------------------------------------------------------------------
Next ==
    \E n \in Node :
        \/ Boot(n) \/ SettleFresh(n) \/ SettleExisting(n)
        \/ Round(n)
        \/ PersistGeneration(n) \/ Bootstrap(n) \/ BootstrapFails(n) \/ WriteFlag(n)
        \/ Join(n) \/ JoinFails(n) \/ Clone(n)
        \/ Activate(n) \/ AnswerPoll(n)
        \/ ClientWrite(n) \/ Apply(n)
        \/ \E clean \in BOOLEAN : Leave(n, clean)
        \/ Retire(n) \/ Reprovision(n)

Spec == Init /\ [][Next]_vars

(* mysqld and the platform keep working: a stopped service is started again,
   an attempt that is made again and again succeeds at last, and a peer that
   stays gone is waived in the end (its clock only ever advances). *)
WaitOutGone(n) ==
    /\ pc[n] = "loop" /\ group[n] = 0 /\ plan[n] = NoPlan
    /\ \E unread \in Unread(Answering(n)) :
         RoundSeeing(n, Answering(n), Waivable(n), unread)
Proceed(n) == \/ n \notin Retirable /\ Boot(n)
              \/ Retire(n) \/ SettleFresh(n) \/ SettleExisting(n)
              \/ PersistGeneration(n)
              \/ JoinFails(n) \/ WriteFlag(n) \/ Activate(n)
FairSpec ==
    /\ Spec
    /\ \A n \in Node :
         /\ WF_vars(Proceed(n))
         /\ SF_vars(WaitOutGone(n)) /\ SF_vars(WaitOutGone(n) /\ plan' # plan)
         /\ SF_vars(Bootstrap(n) \/ Join(n) \/ Clone(n))

-----------------------------------------------------------------------------
(* Properties. *)

(* Every variable has its type; in particular a waiver generation, which
   the decisions compare, never leaves the naturals. *)
VolumeOK ==
    /\ initialised \in [Node -> BOOLEAN]
    /\ txns \in [Node -> SUBSET Txn]
    /\ base \in [Node -> AdoptedRoots \cup {NoBase}]
    /\ preGtid \in [Node -> BOOLEAN]
    /\ generation \in [Node -> Nat]
    /\ groupName \in [Node -> 0 .. MaxEra]
    /\ wasMember \in [Node -> BOOLEAN]
ProcessOK ==
    /\ pc \in [Node -> {"off", "boot", "loop", "member"}]
    /\ fresh \in [Node -> BOOLEAN]
    /\ safe \in [Node -> BOOLEAN]
    /\ inflight \in [Node -> SUBSET Node]
    /\ plan \in [Node -> PlanSet]
    /\ group \in [Node -> 0 .. MaxEra]
    /\ role \in [Node -> {"NONE", "PRIMARY", "SECONDARY"}]
WorldOK ==
    /\ gone \in [Node -> BOOLEAN]
    /\ blocked \subseteq 0 .. MaxEra
    /\ eras \in 0 .. MaxEra /\ names \in 0 .. MaxEra /\ lastWaiver \in 0 .. MaxEra
    /\ writes \in 0 .. MaxWrites /\ stops \in 0 .. MaxStops
TypeOK == VolumeOK /\ ProcessOK /\ WorldOK

Beats(n, m, unread) == SafeToBootstrap(Mine(n), {Advert(m, unread)})

(* gr.rs:42-45, "exactly one wins", its safety half: two nodes never both
   conclude from each other's answers that bootstrapping is theirs, whatever
   their histories, markers, generations and flag reads. *)
AtMostOneWinner ==
    \A n, m \in Node : \A b, c \in BOOLEAN :
        n # m => ~ (Beats(n, m, b) /\ Beats(m, n, c))

(* gr.rs:42-51, its progress half: once every node is in its loop and no
   group is alive, some node beats all the others. *)
ExactlyOneWinner ==
    (\A n \in Node : pc[n] = "loop" /\ group[n] = 0) =>
        \E n \in Node : \A m \in Peers(n) : Beats(n, m, FALSE)

(* The promise of the bootstrap guard (gr.rs:7-36): never two groups alive
   at once, through cold restarts, lost answers, crashes and waivers. *)
OneLiveGroup ==
    \A n, m \in Node : group[n] # 0 /\ group[m] # 0 => group[n] = group[m]

(* No two nodes ever hold different transactions under one GTID, which no
   GTID comparison and no join admission could ever tell apart (bootstrap arm
   of orchestrate, 2256-2281: a fork is structurally detectable). *)
NoInvisibleFork ==
    \A n, m \in Node : \A t \in txns[n], u \in txns[m] : Gtid(t) = Gtid(u) => t = u

(* What the fresh name of a waiver bootstrap does for a fork in any case: a
   node mints a GTID that another volume holds for a different transaction
   only under a name it was given by a waiver, and only when their histories
   have diverged already, so that the GTID comparison shows it. *)
Minted == UNION {txns'[n] : n \in Node} \ UNION {txns[n] : n \in Node}
ForkShowsFirst ==
    [][\A n, m \in Node : \A t \in txns'[n] \cap Minted, u \in txns[m] :
          Gtid(t) = Gtid(u) =>
             /\ groupName[n] # 0
             /\ ~ (Gtids(txns[n]) \subseteq Gtids(txns[m]))]_vars

(* gr.rs:46-51: a transaction is thrown away from a volume only when a later
   group was formed past a waived peer, or in favour of a node that took over
   the generation of such a group while it still holds an older tail of its
   own; init noise is not data. *)
TookOver(k, n) == /\ generation[n] <= generation[k]
                  /\ \E u \in txns[k] \ txns[n] : u.era # 0 /\ u.era < lastWaiver
DiscardsOnlyPastWaiver ==
    [][\A n \in Node : \A t \in txns[n] \ txns'[n] :
          t.era # 0 /\ initialised'[n] =>
             t.era < lastWaiver \/ TookOver(plan[n].of, n)]_vars

(* gr.rs:34-41: without a waiver, whoever forms a group is not behind any
   volume of the cluster, running or not. *)
BootstrapMostAdvanced ==
    [][\A n \in Node :
          plan[n].do = "bootstrap" /\ group'[n] # 0 =>
            \A m \in Node : ~ (/\ Gtids(txns[n]) \subseteq Gtids(txns[m])
                                /\ Gtids(txns[n]) # Gtids(txns[m]))]_vars

(* The clone path and the pre-GTID flag: members of a group agree on whose
   base data they hold, although no GTID describes it. *)
AdoptedDataShared ==
    \A n, m \in Node : group[n] # 0 /\ group[m] = group[n] => base[n] = base[m]

(* decide: an adopted standalone volume beats the fresh nodes its base data
   has not reached.  A group formed without a waiver while any volume holds
   adopted data is formed by a node that holds it. *)
AdoptedDataLeads ==
    [][\A n \in Node :
          plan[n].do = "bootstrap" /\ group'[n] # 0 /\ (\E m \in Node : base[m] # NoBase)
            => base[n] # NoBase]_vars

(* The waiver's standing rule (orchestrate, the 2026-09-08 incident): a node
   without history, without adopted data and without membership never gives
   up on a peer. *)
WaiverNeedsStanding ==
    \A n \in Node : Waiving(n) =>
        wasMember[n] \/ base[n] # NoBase \/ \E t \in txns[n] : t.era # 0

(* Recovery without a human (gr.rs:26-32): in the end every node that runs is
   a member of one group.  The one thing waited for on purpose is a stopped
   peer that none of the running nodes has the standing to give up on. *)
Settled == \E e \in 1 .. MaxEra : \A n \in Node : pc[n] # "off" => group[n] = e
HeldForPeer == /\ \E m \in Node : pc[m] = "off"
               /\ \A n \in Node : pc[n] # "off" => ~ MayWaive(n)
Recovers == <>[](Settled \/ HeldForPeer)

-----------------------------------------------------------------------------
(* The abstract specification: the lineage of the groups.  A volume holds
   what was committed once its init GTIDs are purged. *)
Held(n) == IF Newborn(n) THEN {} ELSE txns[n]

Lineage == INSTANCE GroupLineage WITH
    term   <- eras,
    leader <- Primaries(Node),
    log    <- UNION {Held(n) : n \in Node},
    held   <- [n \in Node |-> Held(n)]

(* gr.rs:7-16 and 34-41: while no service is given up on and none loses its
   volume, the groups are one lineage.  Each is formed by a node that holds
   all that was ever committed, on whichever volume it is; what is committed
   is never taken back; and nobody commits beside the one leader. *)
LineageKept == Lineage!Spec
=============================================================================

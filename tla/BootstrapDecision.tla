------------------------- MODULE BootstrapDecision -------------------------
(***************************************************************************)
(* The pure decisions of mysql-wrapper/src/gr.rs: how one node compares    *)
(* its executed-GTID set with a peer's /gr/state answer, and what it       *)
(* concludes when no group is alive (classify_round, decide) or when one   *)
(* is (adopted_data_verdict, the clone-first rule).                        *)
(*                                                                         *)
(* A standing is a record [gtids, pre, gen, rank]:                         *)
(*   gtids  the executed-GTID set, a set of coordinates                    *)
(*   pre    the pre-GTID-data claim: of a peer, what its answer says; of   *)
(*          the deciding node itself, its file marker                      *)
(*   gen    the waiver generation                                          *)
(*   rank   the position in GR_SEEDS                                       *)
(***************************************************************************)
EXTENDS Integers

(* Two histories of which neither contains the other. *)
Diverged(mine, peer) ==
    /\ ~ (peer.gtids \subseteq mine.gtids)
    /\ ~ (mine.gtids \subseteq peer.gtids)

(* Mutants, for the runs: what a slip in the definition after them would be. *)
DivergedFirstSeedWins(mine, peer) == peer.rank < mine.rank

(* diverged_peer_wins: the higher generation, then the lower seed rank. *)
DivergedPeerWins(mine, peer) ==
    \/ peer.gen > mine.gen
    \/ peer.gen = mine.gen /\ peer.rank < mine.rank

(* PeerRelation::Ahead as classify_round assigns it: a strict superset of
   ours, or a diverged history that wins the authority comparison. *)
Ahead(mine, peer) ==
    \/ mine.gtids \subseteq peer.gtids /\ mine.gtids # peer.gtids
    \/ Diverged(mine, peer) /\ DivergedPeerWins(mine, peer)

TieLostByRankAlone(mine, peer) == mine.gtids = peer.gtids /\ peer.rank < mine.rank
TieLostByAll(mine, peer) == mine.gtids = peer.gtids

(* decide's tie-break between equal sets: pre-GTID data first, then rank. *)
TieLost(mine, peer) ==
    /\ mine.gtids = peer.gtids
    /\ \/ peer.pre /\ ~ mine.pre
       \/ peer.pre = mine.pre /\ peer.rank < mine.rank

SafeAgainstOne(mine, peers) ==
    \E p \in peers : ~ Ahead(mine, p) /\ ~ TieLost(mine, p)

(* BootstrapVerdict::SafeToBootstrap over the standings of every considered
   peer; an unanswered peer is the caller's Undecidable. *)
SafeToBootstrap(mine, peers) ==
    \A p \in peers : ~ Ahead(mine, p) /\ ~ TieLost(mine, p)

(* adopted_data_verdict for a node with the file marker that was never a
   member: join only a group that says it carries the data.  "hold" is
   both Incomplete (a live member could not read the flag) and Refuse. *)
AdoptedDataVerdict(iHoldPreGtidData, beenMember, carries) ==
    IF ~ iHoldPreGtidData \/ beenMember \/ carries THEN "join" ELSE "hold"

JoinMethodGuessing(iHoldPreGtidData, gtids, carries, someUnknown) ==
    IF ~ iHoldPreGtidData /\ gtids = {} /\ carries THEN "clone" ELSE "join"

(* The joiner's side: an empty history joins by binlog only when every
   live member said no, and clones as soon as one says yes. *)
JoinMethod(iHoldPreGtidData, gtids, carries, someUnknown) ==
    CASE iHoldPreGtidData \/ gtids # {}  -> "join"
      [] ~ iHoldPreGtidData /\ gtids = {} /\ carries -> "clone"
      [] ~ iHoldPreGtidData /\ gtids = {} /\ ~ carries /\ someUnknown -> "hold"
      [] OTHER -> "join"
=============================================================================

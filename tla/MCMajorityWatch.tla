--------------------------- MODULE MCMajorityWatch ---------------------------
(* Small instances of MajorityWatch. *)
EXTENDS MajorityWatch, TLC

CONSTANTS a, b, c, d
Symmetry == Permutations(Node)

(* A start from where Spec gets to: every seed ONLINE in one group. *)
FormedInit ==
    /\ up = [n \in Node |-> TRUE]
    /\ view = [n \in Node |-> Node]
    /\ \E p \in Node : /\ primary = [n \in Node |-> n = p]
                       /\ readOnly = [n \in Node |-> n # p]
    /\ split = {}
    /\ txns = [n \in Node |-> {}]
    /\ highWater = [n \in Node |-> Configured]
    /\ watch = [n \in Node |-> [Unwatched EXCEPT !.pc = "look", !.peak = Configured]]
    /\ acked = {}
    /\ reached = [n \in Node |-> TRUE]
    /\ trouble = 0
FormedSpec == FormedInit /\ [][Next]_vars

(* Another start from where Spec gets to, with four seeds: three formed the
   group, one of them is cut off, and the other two went on and took in the
   fourth. *)
MovedOnInit ==
    /\ up = [n \in Node |-> TRUE]
    /\ view = [n \in Node |-> IF n = c THEN {a, b, c} ELSE {a, b, d}]
    /\ primary = [n \in Node |-> n = a]
    /\ readOnly = [n \in Node |-> n # a]
    /\ split = {c}
    /\ txns = [n \in Node |-> {}]
    /\ highWater = [n \in Node |-> IF n = d THEN 0 ELSE 3]
    /\ watch = [n \in Node |-> IF n = d THEN Unwatched
                               ELSE [Unwatched EXCEPT !.pc = "look", !.peak = 3]]
    /\ acked = {}
    /\ reached = [n \in Node |-> n # d]
    /\ trouble = 1
MovedOnSpec == MovedOnInit /\ [][Next]_vars
=============================================================================

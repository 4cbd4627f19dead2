---------------------------- MODULE GroupLineage ----------------------------
(***************************************************************************)
(* What the orchestration promises of the groups that succeed one another  *)
(* on the same volumes (gr.rs, "Invariants"): they are one lineage.  Each  *)
(* is formed by a node that holds all that any of them ever committed, one *)
(* node at a time commits, and a volume only ever catches up.              *)
(***************************************************************************)
EXTENDS Integers

CONSTANT Node

VARIABLES
    term,     \* groups formed so far
    leader,   \* who may commit: a node, or nobody
    log,      \* what was committed: entries of a term, in sequence
    held      \* how much of it each volume holds

vars == <<term, leader, log, held>>

Init ==
    /\ term = 0 /\ leader = {} /\ log = {}
    /\ held = [n \in Node |-> {}]

\* A group is formed: nobody leads, and this node holds the whole log.
Found(n) ==
    /\ leader = {} /\ held[n] = log
    /\ term' = term + 1 /\ leader' = {n}
    /\ UNCHANGED <<log, held>>

\* The leader commits the next entry, in its own term.
Extend(n) ==
    /\ leader = {n}
    /\ \E t \in log' :
         /\ log' = log \cup {t} /\ t.era = term
         /\ \A u \in log : u.seq < t.seq /\ u.era <= t.era
    /\ held' = [held EXCEPT ![n] = log']
    /\ UNCHANGED <<term, leader>>

\* A volume takes over what another holds, and loses nothing by it.
CatchUp(n) ==
    /\ \E m \in Node : held[n] \subseteq held[m] /\ held' = [held EXCEPT ![n] = held[m]]
    /\ UNCHANGED <<term, leader, log>>

\* A leader ends; its successor, if there is one, has applied all of the log.
StepDown(n) ==
    /\ leader = {n}
    /\ \/ leader' = {} /\ UNCHANGED held
       \/ \E p \in Node \ {n} : leader' = {p} /\ held' = [held EXCEPT ![p] = log]
    /\ UNCHANGED <<term, log>>

Next == \E n \in Node : Found(n) \/ Extend(n) \/ CatchUp(n) \/ StepDown(n)

Spec == Init /\ [][Next]_vars
=============================================================================

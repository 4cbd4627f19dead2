----------------------------- MODULE MCNodeBoot -----------------------------
(* Instances of NodeBoot for TLC. *)
EXTENDS NodeBoot
CONSTANTS b1, b2

\* A run stops where two containers have been past the lock together: the safety properties
\* and Settles are settled there for good, and none of them says anything beyond.
Apart == ~ past.overlap
=============================================================================

------------------------------ MODULE MCArchive ------------------------------
(* Model checking instance of Archive. *)
EXTENDS Archive

\* In a shared history the member that takes over has fewer binlogs than the first one.
Short == shared => Len(log[2]) < MaxFile
==============================================================================

----------------------------- MODULE BinlogSpool -----------------------------
(***************************************************************************)
(* What the archiver promises of a server's binlogs (archiver.rs's module  *)
(* doc, purge_cut's doc): the volume is the spool of the archive.  A       *)
(* closed binlog leaves the disk because it is in the archive, or because  *)
(* something other than the archiver took it.                              *)
(***************************************************************************)
EXTENDS Integers

CONSTANT MaxFile    \* bound: binlogs

VARIABLES
    open,       \* the number of the binlog being written
    disk,       \* the binlogs on the volume
    archive     \* the binlogs in the bucket

vars == <<open, disk, archive>>

Init == open = 1 /\ disk = {1} /\ archive = {}

Rotate ==
    /\ open < MaxFile
    /\ open' = open + 1
    /\ disk' = disk \cup {open'}
    /\ UNCHANGED archive

Ship(s) ==
    /\ s \in disk /\ s < open
    /\ archive' = archive \cup {s}
    /\ UNCHANGED <<open, disk>>

\* Closed binlogs are reclaimed oldest first, and only out of the archive.
Reclaim(first) ==
    /\ first <= open
    /\ \A s \in disk : s < first => s \in archive
    /\ disk' = {s \in disk : s >= first}
    /\ UNCHANGED <<open, archive>>

\* Deleted by hand, damaged, or expired by mysqld.
Lose(s) ==
    /\ s \in disk /\ s < open
    /\ disk' = disk \ {s}
    /\ UNCHANGED <<open, archive>>

Next ==
    \/ Rotate
    \/ \E s \in 1 .. MaxFile : Ship(s) \/ Reclaim(s) \/ Lose(s)

Spec == Init /\ [][Next]_vars
==============================================================================

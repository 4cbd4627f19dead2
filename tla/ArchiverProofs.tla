--------------------------- MODULE ArchiverProofs ---------------------------
(***************************************************************************)
(* What TLAPS proves of Archiver, for any number of binlogs and of         *)
(* external events: types, the upload record, and that the archiver        *)
(* implements BinlogSpool.                                                 *)
(***************************************************************************)
EXTENDS Archiver, TLAPS

USE ArchiverAssumption

(***************************************************************************)
(* The strengthening.  Copies of the state file are as true as the file;   *)
(* what a pass may call lost left the disk for good; a cut has only        *)
(* shipped or lost binlogs below it.                                       *)
(***************************************************************************)
Trusted(st) == st.uploaded \subseteq bucket /\ st.lost \subseteq gone

InPass == ship.pc # "rest"

SpoolInv ==
    /\ \A s \in gone : s < binlog.active
    /\ Trusted(state) /\ Trusted(ship.st) /\ Trusted(dump.st)
    /\ InPass => /\ 1 <= ship.first /\ ship.first <= ship.act
                 /\ ship.act <= binlog.active
    /\ ship.pc \in {"scan", "sent", "purge"} =>
         /\ ship.first <= binlog.oldest
         /\ \A s \in ship.first .. (binlog.oldest - 1) : s \in gone
    /\ ship.pc = "purge" =>
         /\ ship.cut \in ship.first .. ship.act
         /\ \A s \in ship.first .. (ship.cut - 1) : s \in ship.st.uploaded \cup ship.st.lost
    /\ ship.pc = "sent" => \A s \in 1 .. MaxFile : IsNext(s) => s \in bucket

IInv == TypeOK /\ SpoolInv

\* What an idle loop and an empty file look like is of the right type.
LEMMA RestTypes == NoState \in UploadState /\ Resting \in ShipPass /\ NoDump \in FullRun
BY DEF NoState, Resting, NoDump, UploadState, ShipPass, FullRun, Files

LEMMA InitKeeps == Init => IInv
<1> SUFFICES ASSUME Init PROVE IInv
  OBVIOUS
<1>1. FlagsOK
  BY Zenon DEF Init, FlagsOK
<1>2. FilesOK
  BY DEF Init, FilesOK, Files
<1>3. LoopsOK
  BY RestTypes DEF Init, LoopsOK
<1>4. SpoolInv
  BY DEF Init, SpoolInv, Trusted, InPass, NoState, Resting, NoDump
<1> QED
  BY <1>1, <1>2, <1>3, <1>4 DEF IInv, TypeOK

\* Types and the server's and the pass's bookkeeping, action by action.
(* The world: rotation, ageing, losses, expiry, role changes, crashes. *)
LEMMA SurroundingsKeeps == IInv /\ Surroundings => IInv'
<1> SUFFICES ASSUME IInv, Surroundings PROVE IInv'
  OBVIOUS
<1>1. CASE Rotate
  <2>1. FlagsOK'
    BY <1>1, Zenon DEF IInv, TypeOK, FilesOK, FlagsOK, Rotate, server
  <2>2. FilesOK'
    BY <1>1 DEF IInv, TypeOK, FlagsOK, FilesOK, LoopsOK, SpoolInv, Trusted, InPass, ShipPass,
       FullRun, UploadState, Files, Rotate, server
  <2>3. LoopsOK'
    BY <1>1, RestTypes DEF IInv, TypeOK, FlagsOK, FilesOK, LoopsOK, SpoolInv, Trusted, InPass,
       ShipPass, FullRun, UploadState, Files, Rotate, server
  <2>4. SpoolInv'
    BY <1>1 DEF IInv, TypeOK, FlagsOK, FilesOK, LoopsOK, SpoolInv, Trusted, InPass, ShipPass,
       FullRun, UploadState, Files, Rotate, server, IsNext, Left
  <2> QED BY <2>1, <2>2, <2>3, <2>4 DEF IInv, TypeOK
<1>2. CASE GrowOld
  <2>1. FlagsOK'
    BY <1>2, Zenon DEF IInv, TypeOK, FilesOK, FlagsOK, GrowOld, server
  <2>2. FilesOK'
    BY <1>2 DEF IInv, TypeOK, FlagsOK, FilesOK, LoopsOK, SpoolInv, Trusted, InPass, ShipPass,
       FullRun, UploadState, Files, GrowOld, server
  <2>3. LoopsOK'
    BY <1>2, RestTypes DEF IInv, TypeOK, FlagsOK, FilesOK, LoopsOK, SpoolInv, Trusted, InPass,
       ShipPass, FullRun, UploadState, Files, GrowOld, server
  <2>4. SpoolInv'
    BY <1>2 DEF IInv, TypeOK, FlagsOK, FilesOK, LoopsOK, SpoolInv, Trusted, InPass, ShipPass,
       FullRun, UploadState, Files, GrowOld, server, IsNext, Left
  <2> QED BY <2>1, <2>2, <2>3, <2>4 DEF IInv, TypeOK
<1>3. CASE Expire
  <2>1. FlagsOK'
    BY <1>3, Zenon DEF IInv, TypeOK, FilesOK, FlagsOK, Expire, server, Happens, OnDisk
  <2>2. FilesOK'
    BY <1>3 DEF IInv, TypeOK, FlagsOK, FilesOK, LoopsOK, SpoolInv, Trusted, InPass, ShipPass,
       FullRun, UploadState, Files, Expire, server, Happens, OnDisk
  <2>3. LoopsOK'
    BY <1>3, RestTypes DEF IInv, TypeOK, FlagsOK, FilesOK, LoopsOK, SpoolInv, Trusted, InPass,
       ShipPass, FullRun, UploadState, Files, Expire, server, Happens, OnDisk
  <2>4. SpoolInv'
    BY <1>3 DEF IInv, TypeOK, FlagsOK, FilesOK, LoopsOK, SpoolInv, Trusted, InPass, ShipPass,
       FullRun, UploadState, Files, Expire, server, Happens, OnDisk, IsNext, Left
  <2> QED BY <2>1, <2>2, <2>3, <2>4 DEF IInv, TypeOK
<1>4. CASE ChangeRole
  <2>1. FlagsOK'
    BY <1>4, Zenon DEF IInv, TypeOK, FilesOK, FlagsOK, ChangeRole, server, Happens
  <2>2. FilesOK'
    BY <1>4 DEF IInv, TypeOK, FlagsOK, FilesOK, LoopsOK, SpoolInv, Trusted, InPass, ShipPass,
       FullRun, UploadState, Files, ChangeRole, server, Happens
  <2>3. LoopsOK'
    BY <1>4, RestTypes DEF IInv, TypeOK, FlagsOK, FilesOK, LoopsOK, SpoolInv, Trusted, InPass,
       ShipPass, FullRun, UploadState, Files, ChangeRole, server, Happens
  <2>4. SpoolInv'
    BY <1>4 DEF IInv, TypeOK, FlagsOK, FilesOK, LoopsOK, SpoolInv, Trusted, InPass, ShipPass,
       FullRun, UploadState, Files, ChangeRole, server, Happens, IsNext, Left
  <2> QED BY <2>1, <2>2, <2>3, <2>4 DEF IInv, TypeOK
<1>5. CASE Crash
  <2>1. FlagsOK'
    BY <1>5, Zenon DEF IInv, TypeOK, FilesOK, FlagsOK, Crash, server, Happens
  <2>2. FilesOK'
    BY <1>5 DEF IInv, TypeOK, FlagsOK, FilesOK, LoopsOK, SpoolInv, Trusted, InPass, ShipPass,
       FullRun, UploadState, Files, Crash, server, Happens, Resting, NoState, NoDump
  <2>3. LoopsOK'
    BY <1>5, RestTypes DEF IInv, TypeOK, FlagsOK, FilesOK, LoopsOK, SpoolInv, Trusted, InPass,
       ShipPass, FullRun, UploadState, Files, Crash, server, Happens
  <2>4. SpoolInv'
    BY <1>5 DEF IInv, TypeOK, FlagsOK, FilesOK, LoopsOK, SpoolInv, Trusted, InPass, ShipPass,
       FullRun, UploadState, Files, Crash, server, Happens, Resting, NoState, NoDump, IsNext, Left
  <2> QED BY <2>1, <2>2, <2>3, <2>4 DEF IInv, TypeOK
<1>6. CASE Request
  <2>1. FlagsOK'
    BY <1>6, Zenon DEF IInv, TypeOK, FilesOK, FlagsOK, Request, server, Happens
  <2>2. FilesOK'
    BY <1>6 DEF IInv, TypeOK, FlagsOK, FilesOK, LoopsOK, SpoolInv, Trusted, InPass, ShipPass,
       FullRun, UploadState, Files, Request, server, Happens
  <2>3. LoopsOK'
    BY <1>6, RestTypes DEF IInv, TypeOK, FlagsOK, FilesOK, LoopsOK, SpoolInv, Trusted, InPass,
       ShipPass, FullRun, UploadState, Files, Request, server, Happens
  <2>4. SpoolInv'
    BY <1>6 DEF IInv, TypeOK, FlagsOK, FilesOK, LoopsOK, SpoolInv, Trusted, InPass, ShipPass,
       FullRun, UploadState, Files, Request, server, Happens, IsNext, Left
  <2> QED BY <2>1, <2>2, <2>3, <2>4 DEF IInv, TypeOK
<1>7. ASSUME NEW s \in 1 .. MaxFile, LoseFile(s) PROVE IInv'
  <2>1. FlagsOK'
    BY <1>7, Zenon DEF IInv, TypeOK, FilesOK, FlagsOK, LoseFile, server, Happens, OnDisk
  <2>2. FilesOK'
    BY <1>7 DEF IInv, TypeOK, FlagsOK, FilesOK, LoopsOK, SpoolInv, Trusted, InPass, ShipPass,
       FullRun, UploadState, Files, LoseFile, server, Happens, OnDisk
  <2>3. LoopsOK'
    BY <1>7, RestTypes DEF IInv, TypeOK, FlagsOK, FilesOK, LoopsOK, SpoolInv, Trusted, InPass,
       ShipPass, FullRun, UploadState, Files, LoseFile, server, Happens, OnDisk
  <2>4. SpoolInv'
    BY <1>7 DEF IInv, TypeOK, FlagsOK, FilesOK, LoopsOK, SpoolInv, Trusted, InPass, ShipPass,
       FullRun, UploadState, Files, LoseFile, server, Happens, OnDisk, IsNext, Left
  <2> QED BY <2>1, <2>2, <2>3, <2>4 DEF IInv, TypeOK
<1> QED
  BY <1>1, <1>2, <1>3, <1>4, <1>5, <1>6, <1>7 DEF Surroundings

(* The supervisor: starts, stops, the expiry. *)
LEMMA SupervisingKeeps == IInv /\ Supervising => IInv'
<1> SUFFICES ASSUME IInv, Supervising PROVE IInv'
  OBVIOUS
<1>1. CASE Start
  <2>1. FlagsOK'
    BY <1>1, Zenon DEF IInv, TypeOK, FilesOK, FlagsOK, Start, server, Happens
  <2>2. FilesOK'
    BY <1>1 DEF IInv, TypeOK, FlagsOK, FilesOK, LoopsOK, SpoolInv, Trusted, InPass, ShipPass,
       FullRun, UploadState, Files, Start, server, Happens
  <2>3. LoopsOK'
    BY <1>1, RestTypes DEF IInv, TypeOK, FlagsOK, FilesOK, LoopsOK, SpoolInv, Trusted, InPass,
       ShipPass, FullRun, UploadState, Files, Start, server, Happens
  <2>4. SpoolInv'
    BY <1>1 DEF IInv, TypeOK, FlagsOK, FilesOK, LoopsOK, SpoolInv, Trusted, InPass, ShipPass,
       FullRun, UploadState, Files, Start, server, Happens, IsNext, Left
  <2> QED BY <2>1, <2>2, <2>3, <2>4 DEF IInv, TypeOK
<1>2. CASE Refuse
  <2>1. FlagsOK'
    BY <1>2, Zenon DEF IInv, TypeOK, FilesOK, FlagsOK, Refuse, server
  <2>2. FilesOK'
    BY <1>2 DEF IInv, TypeOK, FlagsOK, FilesOK, LoopsOK, SpoolInv, Trusted, InPass, ShipPass,
       FullRun, UploadState, Files, Refuse, server
  <2>3. LoopsOK'
    BY <1>2, RestTypes DEF IInv, TypeOK, FlagsOK, FilesOK, LoopsOK, SpoolInv, Trusted, InPass,
       ShipPass, FullRun, UploadState, Files, Refuse, server
  <2>4. SpoolInv'
    BY <1>2 DEF IInv, TypeOK, FlagsOK, FilesOK, LoopsOK, SpoolInv, Trusted, InPass, ShipPass,
       FullRun, UploadState, Files, Refuse, server, IsNext, Left
  <2> QED BY <2>1, <2>2, <2>3, <2>4 DEF IInv, TypeOK
<1>3. CASE Reconcile
  <2>1. FlagsOK'
    BY <1>3, Zenon DEF IInv, TypeOK, FilesOK, FlagsOK, Reconcile, server
  <2>2. FilesOK'
    BY <1>3 DEF IInv, TypeOK, FlagsOK, FilesOK, LoopsOK, SpoolInv, Trusted, InPass, ShipPass,
       FullRun, UploadState, Files, Reconcile, server
  <2>3. LoopsOK'
    BY <1>3, RestTypes DEF IInv, TypeOK, FlagsOK, FilesOK, LoopsOK, SpoolInv, Trusted, InPass,
       ShipPass, FullRun, UploadState, Files, Reconcile, server
  <2>4. SpoolInv'
    BY <1>3 DEF IInv, TypeOK, FlagsOK, FilesOK, LoopsOK, SpoolInv, Trusted, InPass, ShipPass,
       FullRun, UploadState, Files, Reconcile, server, IsNext, Left
  <2> QED BY <2>1, <2>2, <2>3, <2>4 DEF IInv, TypeOK
<1>4. CASE Stop
  <2>1. FlagsOK'
    BY <1>4, Zenon DEF IInv, TypeOK, FilesOK, FlagsOK, Stop, server, Happens, HandBack
  <2>2. FilesOK'
    BY <1>4 DEF IInv, TypeOK, FlagsOK, FilesOK, LoopsOK, SpoolInv, Trusted, InPass, ShipPass,
       FullRun, UploadState, Files, Stop, server, Happens, HandBack, Resting, NoState, NoDump
  <2>3. LoopsOK'
    BY <1>4, RestTypes DEF IInv, TypeOK, FlagsOK, FilesOK, LoopsOK, SpoolInv, Trusted, InPass,
       ShipPass, FullRun, UploadState, Files, Stop, server, Happens, HandBack
  <2>4. SpoolInv'
    BY <1>4 DEF IInv, TypeOK, FlagsOK, FilesOK, LoopsOK, SpoolInv, Trusted, InPass, ShipPass,
       FullRun, UploadState, Files, Stop, server, Happens, HandBack, Resting, NoState, NoDump,
       IsNext, Left
  <2> QED BY <2>1, <2>2, <2>3, <2>4 DEF IInv, TypeOK
<1>5. CASE HandBackLater
  <2>1. FlagsOK'
    BY <1>5, Zenon DEF IInv, TypeOK, FilesOK, FlagsOK, HandBackLater, server, HandBack
  <2>2. FilesOK'
    BY <1>5 DEF IInv, TypeOK, FlagsOK, FilesOK, LoopsOK, SpoolInv, Trusted, InPass, ShipPass,
       FullRun, UploadState, Files, HandBackLater, server, HandBack
  <2>3. LoopsOK'
    BY <1>5, RestTypes DEF IInv, TypeOK, FlagsOK, FilesOK, LoopsOK, SpoolInv, Trusted, InPass,
       ShipPass, FullRun, UploadState, Files, HandBackLater, server, HandBack
  <2>4. SpoolInv'
    BY <1>5 DEF IInv, TypeOK, FlagsOK, FilesOK, LoopsOK, SpoolInv, Trusted, InPass, ShipPass,
       FullRun, UploadState, Files, HandBackLater, server, HandBack, IsNext, Left
  <2> QED BY <2>1, <2>2, <2>3, <2>4 DEF IInv, TypeOK
<1> QED
  BY <1>1, <1>2, <1>3, <1>4, <1>5 DEF Supervising

(* The shipping pass. *)
LEMMA ShippingKeeps == IInv /\ Shipping => IInv'
<1> SUFFICES ASSUME IInv, Shipping PROVE IInv'
  OBVIOUS
<1>1. CASE ShipBegin
  <2>1. FlagsOK'
    BY <1>1, Zenon DEF IInv, TypeOK, FilesOK, FlagsOK, ShipBegin, server
  <2>2. FilesOK'
    BY <1>1 DEF IInv, TypeOK, FlagsOK, FilesOK, LoopsOK, SpoolInv, Trusted, InPass, ShipPass,
       FullRun, UploadState, Files, ShipBegin, server
  <2>3. LoopsOK'
    BY <1>1, RestTypes DEF IInv, TypeOK, FlagsOK, FilesOK, LoopsOK, SpoolInv, Trusted, InPass,
       ShipPass, FullRun, UploadState, Files, ShipBegin, server
  <2>4. SpoolInv'
    BY <1>1 DEF IInv, TypeOK, FlagsOK, FilesOK, LoopsOK, SpoolInv, Trusted, InPass, ShipPass,
       FullRun, UploadState, Files, ShipBegin, server, IsNext, Left
  <2> QED BY <2>1, <2>2, <2>3, <2>4 DEF IInv, TypeOK
<1>2. CASE AskAndCut
  <2>1. FlagsOK'
    BY <1>2, Zenon DEF IInv, TypeOK, FilesOK, FlagsOK, AskAndCut, server, IsCut, Stops
  <2>2. FilesOK'
    BY <1>2 DEF IInv, TypeOK, FlagsOK, FilesOK, LoopsOK, SpoolInv, Trusted, InPass, ShipPass,
       FullRun, UploadState, Files, AskAndCut, server, IsCut, Stops, Resting, NoState
  <2>3. LoopsOK'
    <3>1. ship' = Resting \/ \E c \in 1 .. MaxFile : ship' = [ship EXCEPT !.pc = "purge", !.cut = c]
      BY <1>2 DEF AskAndCut
    <3>2. ship' \in ShipPass
      <4>1. ASSUME NEW c \in 1 .. MaxFile, ship' = [ship EXCEPT !.pc = "purge", !.cut = c]
            PROVE  ship' \in ShipPass
        <5>1. c \in 0 .. MaxFile
          OBVIOUS
        <5>2. ship \in ShipPass
          BY DEF IInv, TypeOK, LoopsOK
        <5> QED
          BY <4>1, <5>1, <5>2 DEF ShipPass
      <4> QED
        BY <3>1, <4>1, RestTypes
    <3> QED
      BY <1>2, <3>2 DEF AskAndCut, IInv, TypeOK, LoopsOK
  <2>4. SpoolInv'
    BY <1>2 DEF IInv, TypeOK, FlagsOK, FilesOK, LoopsOK, SpoolInv, Trusted, InPass, ShipPass,
       FullRun, UploadState, Files, AskAndCut, server, IsCut, Stops, Resting, NoState, IsNext, Left
  <2> QED BY <2>1, <2>2, <2>3, <2>4 DEF IInv, TypeOK
<1>3. CASE Purge
  <2>1. FlagsOK'
    BY <1>3, Zenon DEF IInv, TypeOK, FilesOK, FlagsOK, Purge, server
  <2>2. FilesOK'
    BY <1>3 DEF IInv, TypeOK, FlagsOK, FilesOK, LoopsOK, SpoolInv, Trusted, InPass, ShipPass,
       FullRun, UploadState, Files, Purge, server
  <2>3. LoopsOK'
    BY <1>3, RestTypes DEF IInv, TypeOK, FlagsOK, FilesOK, LoopsOK, SpoolInv, Trusted, InPass,
       ShipPass, FullRun, UploadState, Files, Purge, server
  <2>4. SpoolInv'
    BY <1>3 DEF IInv, TypeOK, FlagsOK, FilesOK, LoopsOK, SpoolInv, Trusted, InPass, ShipPass,
       FullRun, UploadState, Files, Purge, server, IsNext, Left
  <2> QED BY <2>1, <2>2, <2>3, <2>4 DEF IInv, TypeOK
<1>4. CASE PurgeRefused
  <2>1. FlagsOK'
    BY <1>4, Zenon DEF IInv, TypeOK, FilesOK, FlagsOK, PurgeRefused, server, Happens
  <2>2. FilesOK'
    BY <1>4 DEF IInv, TypeOK, FlagsOK, FilesOK, LoopsOK, SpoolInv, Trusted, InPass, ShipPass,
       FullRun, UploadState, Files, PurgeRefused, server, Happens, Resting, NoState
  <2>3. LoopsOK'
    BY <1>4, RestTypes DEF IInv, TypeOK, FlagsOK, FilesOK, LoopsOK, SpoolInv, Trusted, InPass,
       ShipPass, FullRun, UploadState, Files, PurgeRefused, server, Happens
  <2>4. SpoolInv'
    BY <1>4 DEF IInv, TypeOK, FlagsOK, FilesOK, LoopsOK, SpoolInv, Trusted, InPass, ShipPass,
       FullRun, UploadState, Files, PurgeRefused, server, Happens, Resting, NoState, IsNext, Left
  <2> QED BY <2>1, <2>2, <2>3, <2>4 DEF IInv, TypeOK
<1>5. CASE Forget
  <2>1. FlagsOK'
    BY <1>5, Zenon DEF IInv, TypeOK, FilesOK, FlagsOK, Forget, server
  <2>2. FilesOK'
    BY <1>5 DEF IInv, TypeOK, FlagsOK, FilesOK, LoopsOK, SpoolInv, Trusted, InPass, ShipPass,
       FullRun, UploadState, Files, Forget, server, Resting, NoState
  <2>3. LoopsOK'
    BY <1>5, RestTypes DEF IInv, TypeOK, FlagsOK, FilesOK, LoopsOK, SpoolInv, Trusted, InPass,
       ShipPass, FullRun, UploadState, Files, Forget, server
  <2>4. SpoolInv'
    BY <1>5 DEF IInv, TypeOK, FlagsOK, FilesOK, LoopsOK, SpoolInv, Trusted, InPass, ShipPass,
       FullRun, UploadState, Files, Forget, server, Resting, NoState, IsNext, Left
  <2> QED BY <2>1, <2>2, <2>3, <2>4 DEF IInv, TypeOK
<1>6. ASSUME NEW s \in 1 .. MaxFile, RecordLoss(s) PROVE IInv'
  <2>1. FlagsOK'
    BY <1>6, Zenon DEF IInv, TypeOK, FilesOK, FlagsOK, RecordLoss, server, IsNext, Left, OnDisk
  <2>2. FilesOK'
    BY <1>6 DEF IInv, TypeOK, FlagsOK, FilesOK, LoopsOK, SpoolInv, Trusted, InPass, ShipPass,
       FullRun, UploadState, Files, RecordLoss, server, IsNext, Left, OnDisk
  <2>3. LoopsOK'
    BY <1>6, RestTypes DEF IInv, TypeOK, FlagsOK, FilesOK, LoopsOK, SpoolInv, Trusted, InPass,
       ShipPass, FullRun, UploadState, Files, RecordLoss, server, IsNext, Left, OnDisk
  <2>4. SpoolInv'
    <3>1. s \in gone
      BY <1>6 DEF IInv, TypeOK, FilesOK, LoopsOK, SpoolInv, InPass, ShipPass, RecordLoss, IsNext,
         Left, OnDisk
    <3>2. ship'.st = state' /\ ship'.pc = "scan" /\ ship'.first = ship.first /\ ship'.act = ship.act
      BY <1>6 DEF IInv, TypeOK, LoopsOK, ShipPass, UploadState, RecordLoss
    <3>3. state'.uploaded = ship.st.uploaded /\ state'.lost = ship.st.lost \cup {s}
      BY <1>6 DEF IInv, TypeOK, LoopsOK, ShipPass, UploadState, RecordLoss
    <3>4. UNCHANGED <<gone, bucket, binlog, dump>>
      BY <1>6 DEF RecordLoss, server
    <3> QED
      BY <1>6, <3>1, <3>2, <3>3, <3>4 DEF IInv, SpoolInv, Trusted, InPass, RecordLoss
  <2> QED BY <2>1, <2>2, <2>3, <2>4 DEF IInv, TypeOK
<1>7. ASSUME NEW s \in 1 .. MaxFile, Upload(s) PROVE IInv'
  <2>1. FlagsOK'
    BY <1>7, Zenon DEF IInv, TypeOK, FilesOK, FlagsOK, Upload, server, IsNext, Left, OnDisk
  <2>2. FilesOK'
    BY <1>7 DEF IInv, TypeOK, FlagsOK, FilesOK, LoopsOK, SpoolInv, Trusted, InPass, ShipPass,
       FullRun, UploadState, Files, Upload, server, IsNext, Left, OnDisk
  <2>3. LoopsOK'
    BY <1>7, RestTypes DEF IInv, TypeOK, FlagsOK, FilesOK, LoopsOK, SpoolInv, Trusted, InPass,
       ShipPass, FullRun, UploadState, Files, Upload, server, IsNext, Left, OnDisk
  <2>4. SpoolInv'
    BY <1>7 DEF IInv, TypeOK, FlagsOK, FilesOK, LoopsOK, SpoolInv, Trusted, InPass, ShipPass,
       FullRun, UploadState, Files, Upload, server, IsNext, Left, OnDisk
  <2> QED BY <2>1, <2>2, <2>3, <2>4 DEF IInv, TypeOK
<1>8. ASSUME NEW s \in 1 .. MaxFile, UploadFails(s) PROVE IInv'
  <2>1. FlagsOK'
    BY <1>8, Zenon DEF IInv, TypeOK, FilesOK, FlagsOK, UploadFails, server
  <2>2. FilesOK'
    BY <1>8 DEF IInv, TypeOK, FlagsOK, FilesOK, LoopsOK, SpoolInv, Trusted, InPass, ShipPass,
       FullRun, UploadState, Files, UploadFails, server, Resting, NoState
  <2>3. LoopsOK'
    BY <1>8, RestTypes DEF IInv, TypeOK, FlagsOK, FilesOK, LoopsOK, SpoolInv, Trusted, InPass,
       ShipPass, FullRun, UploadState, Files, UploadFails, server
  <2>4. SpoolInv'
    BY <1>8 DEF IInv, TypeOK, FlagsOK, FilesOK, LoopsOK, SpoolInv, Trusted, InPass, ShipPass,
       FullRun, UploadState, Files, UploadFails, server, Resting, NoState, IsNext, Left
  <2> QED BY <2>1, <2>2, <2>3, <2>4 DEF IInv, TypeOK
<1>9. ASSUME NEW s \in 1 .. MaxFile, RecordUpload(s) PROVE IInv'
  <2>1. FlagsOK'
    BY <1>9, Zenon DEF IInv, TypeOK, FilesOK, FlagsOK, RecordUpload, server, IsNext, Left
  <2>2. FilesOK'
    BY <1>9 DEF IInv, TypeOK, FlagsOK, FilesOK, LoopsOK, SpoolInv, Trusted, InPass, ShipPass,
       FullRun, UploadState, Files, RecordUpload, server, IsNext, Left
  <2>3. LoopsOK'
    BY <1>9, RestTypes DEF IInv, TypeOK, FlagsOK, FilesOK, LoopsOK, SpoolInv, Trusted, InPass,
       ShipPass, FullRun, UploadState, Files, RecordUpload, server, IsNext, Left
  <2>4. SpoolInv'
    BY <1>9 DEF IInv, TypeOK, FlagsOK, FilesOK, LoopsOK, SpoolInv, Trusted, InPass, ShipPass,
       FullRun, UploadState, Files, RecordUpload, server, IsNext, Left
  <2> QED BY <2>1, <2>2, <2>3, <2>4 DEF IInv, TypeOK
<1> QED
  BY <1>1, <1>2, <1>3, <1>4, <1>5, <1>6, <1>7, <1>8, <1>9 DEF Shipping

(* The full-backup loop. *)
LEMMA DumpingKeeps == IInv /\ Dumping => IInv'
<1> SUFFICES ASSUME IInv, Dumping PROVE IInv'
  OBVIOUS
<1>1. CASE BeginFull
  <2>1. FlagsOK'
    BY <1>1, Zenon DEF IInv, TypeOK, FilesOK, FlagsOK, BeginFull, server, Happens
  <2>2. FilesOK'
    BY <1>1 DEF IInv, TypeOK, FlagsOK, FilesOK, LoopsOK, SpoolInv, Trusted, InPass, ShipPass,
       FullRun, UploadState, Files, BeginFull, server, Happens, NoDump, NoState
  <2>3. LoopsOK'
    BY <1>1, RestTypes DEF IInv, TypeOK, FlagsOK, FilesOK, LoopsOK, SpoolInv, Trusted, InPass,
       ShipPass, FullRun, UploadState, Files, BeginFull, server, Happens
  <2>4. SpoolInv'
    BY <1>1 DEF IInv, TypeOK, FlagsOK, FilesOK, LoopsOK, SpoolInv, Trusted, InPass, ShipPass,
       FullRun, UploadState, Files, BeginFull, server, Happens, NoDump, NoState, IsNext, Left
  <2> QED BY <2>1, <2>2, <2>3, <2>4 DEF IInv, TypeOK
<1>2. CASE EndFull
  <2>1. FlagsOK'
    BY <1>2, Zenon DEF IInv, TypeOK, FilesOK, FlagsOK, EndFull, server
  <2>2. FilesOK'
    BY <1>2 DEF IInv, TypeOK, FlagsOK, FilesOK, LoopsOK, SpoolInv, Trusted, InPass, ShipPass,
       FullRun, UploadState, Files, EndFull, server, NoDump, NoState
  <2>3. LoopsOK'
    BY <1>2, RestTypes DEF IInv, TypeOK, FlagsOK, FilesOK, LoopsOK, SpoolInv, Trusted, InPass,
       ShipPass, FullRun, UploadState, Files, EndFull, server
  <2>4. SpoolInv'
    BY <1>2 DEF IInv, TypeOK, FlagsOK, FilesOK, LoopsOK, SpoolInv, Trusted, InPass, ShipPass,
       FullRun, UploadState, Files, EndFull, server, NoDump, NoState, IsNext, Left
  <2> QED BY <2>1, <2>2, <2>3, <2>4 DEF IInv, TypeOK
<1>3. CASE LockForBackup
  <2>1. FlagsOK'
    BY <1>3, Zenon DEF IInv, TypeOK, FilesOK, FlagsOK, LockForBackup, server
  <2>2. FilesOK'
    BY <1>3 DEF IInv, TypeOK, FlagsOK, FilesOK, LoopsOK, SpoolInv, Trusted, InPass, ShipPass,
       FullRun, UploadState, Files, LockForBackup, server
  <2>3. LoopsOK'
    <3>1. binlog.active \in 0 .. MaxFile
      BY DEF IInv, TypeOK, FilesOK
    <3> QED
      BY <1>3, <3>1 DEF IInv, TypeOK, LoopsOK, FullRun, LockForBackup, server
  <2>4. SpoolInv'
    BY <1>3 DEF IInv, TypeOK, FlagsOK, FilesOK, LoopsOK, SpoolInv, Trusted, InPass, ShipPass,
       FullRun, UploadState, Files, LockForBackup, server, IsNext, Left
  <2> QED BY <2>1, <2>2, <2>3, <2>4 DEF IInv, TypeOK
<1>4. CASE DumpEnds
  <2>1. FlagsOK'
    BY <1>4, Zenon DEF IInv, TypeOK, FilesOK, FlagsOK, DumpEnds, server
  <2>2. FilesOK'
    BY <1>4 DEF IInv, TypeOK, FlagsOK, FilesOK, LoopsOK, SpoolInv, Trusted, InPass, ShipPass,
       FullRun, UploadState, Files, DumpEnds, server
  <2>3. LoopsOK'
    BY <1>4, RestTypes DEF IInv, TypeOK, FlagsOK, FilesOK, LoopsOK, SpoolInv, Trusted, InPass,
       ShipPass, FullRun, UploadState, Files, DumpEnds, server
  <2>4. SpoolInv'
    BY <1>4 DEF IInv, TypeOK, FlagsOK, FilesOK, LoopsOK, SpoolInv, Trusted, InPass, ShipPass,
       FullRun, UploadState, Files, DumpEnds, server, IsNext, Left
  <2> QED BY <2>1, <2>2, <2>3, <2>4 DEF IInv, TypeOK
<1>5. CASE PutMeta
  <2>1. FlagsOK'
    BY <1>5, Zenon DEF IInv, TypeOK, FilesOK, FlagsOK, PutMeta, server
  <2>2. FilesOK'
    BY <1>5 DEF IInv, TypeOK, FlagsOK, FilesOK, LoopsOK, SpoolInv, Trusted, InPass, ShipPass,
       FullRun, UploadState, Files, PutMeta, server, NoDump, NoState
  <2>3. LoopsOK'
    BY <1>5, RestTypes DEF IInv, TypeOK, FlagsOK, FilesOK, LoopsOK, SpoolInv, Trusted, InPass,
       ShipPass, FullRun, UploadState, Files, PutMeta, server
  <2>4. SpoolInv'
    BY <1>5 DEF IInv, TypeOK, FlagsOK, FilesOK, LoopsOK, SpoolInv, Trusted, InPass, ShipPass,
       FullRun, UploadState, Files, PutMeta, server, NoDump, NoState, IsNext, Left
  <2> QED BY <2>1, <2>2, <2>3, <2>4 DEF IInv, TypeOK
<1>6. CASE ReadAnchor
  <2>1. FlagsOK'
    BY <1>6, Zenon DEF IInv, TypeOK, FilesOK, FlagsOK, ReadAnchor, server
  <2>2. FilesOK'
    BY <1>6 DEF IInv, TypeOK, FlagsOK, FilesOK, LoopsOK, SpoolInv, Trusted, InPass, ShipPass,
       FullRun, UploadState, Files, ReadAnchor, server, NoDump, NoState
  <2>3. LoopsOK'
    BY <1>6, RestTypes DEF IInv, TypeOK, FlagsOK, FilesOK, LoopsOK, SpoolInv, Trusted, InPass,
       ShipPass, FullRun, UploadState, Files, ReadAnchor, server
  <2>4. SpoolInv'
    BY <1>6 DEF IInv, TypeOK, FlagsOK, FilesOK, LoopsOK, SpoolInv, Trusted, InPass, ShipPass,
       FullRun, UploadState, Files, ReadAnchor, server, NoDump, NoState, IsNext, Left
  <2> QED BY <2>1, <2>2, <2>3, <2>4 DEF IInv, TypeOK
<1>7. CASE ClearAnchor
  <2>1. FlagsOK'
    BY <1>7, Zenon DEF IInv, TypeOK, FilesOK, FlagsOK, ClearAnchor, server
  <2>2. FilesOK'
    BY <1>7 DEF IInv, TypeOK, FlagsOK, FilesOK, LoopsOK, SpoolInv, Trusted, InPass, ShipPass,
       FullRun, UploadState, Files, ClearAnchor, server, NoDump, NoState
  <2>3. LoopsOK'
    BY <1>7, RestTypes DEF IInv, TypeOK, FlagsOK, FilesOK, LoopsOK, SpoolInv, Trusted, InPass,
       ShipPass, FullRun, UploadState, Files, ClearAnchor, server
  <2>4. SpoolInv'
    BY <1>7 DEF IInv, TypeOK, FlagsOK, FilesOK, LoopsOK, SpoolInv, Trusted, InPass, ShipPass,
       FullRun, UploadState, Files, ClearAnchor, server, NoDump, NoState, IsNext, Left
  <2> QED BY <2>1, <2>2, <2>3, <2>4 DEF IInv, TypeOK
<1> QED
  BY <1>1, <1>2, <1>3, <1>4, <1>5, <1>6, <1>7 DEF Dumping

\* Stuttering changes nothing the invariant speaks of.
LEMMA StutterKeeps == IInv /\ UNCHANGED vars => IInv'
BY DEF vars, IInv, TypeOK, FlagsOK, FilesOK, LoopsOK, SpoolInv, Trusted, InPass, ShipPass,
   FullRun, UploadState, Files, IsNext, Left

LEMMA NextKeeps == IInv /\ [Next]_vars => IInv'
BY SurroundingsKeeps, SupervisingKeeps, ShippingKeeps, DumpingKeeps, StutterKeeps DEF Next

LEMMA Invariance == Spec => []IInv
<1>1. Init => IInv
  BY InitKeeps
<1>2. IInv /\ [Next]_vars => IInv'
  BY NextKeeps
<1> QED
  BY <1>1, <1>2, PTL DEF Spec

(***************************************************************************)
(* Every variable keeps its type; in particular the index never goes past  *)
(* the active binlog, whatever is purged, expired or lost.                 *)
(***************************************************************************)
THEOREM TypeCorrect == Spec => []TypeOK
<1>1. IInv => TypeOK
  BY DEF IInv
<1> QED
  BY <1>1, Invariance, PTL

(***************************************************************************)
(* The state file claims no upload that the bucket lacks, through crashes  *)
(* between any two steps and two loops writing the file (ship_once,        *)
(* clear_gap_anchor).                                                      *)
(***************************************************************************)
THEOREM RecordsTrue == Spec => []RecordTrue
<1>1. IInv => RecordTrue
  BY DEF IInv, SpoolInv, Trusted, RecordTrue
<1> QED
  BY <1>1, Invariance, PTL

(***************************************************************************)
(* The refinement.                                                         *)
(***************************************************************************)
OnVolume == {s \in binlog.oldest .. binlog.active : s \notin gone}

LEMMA SpoolInit == Init => Spool!Init
BY DEF Init, Spool!Init

\* What a purge takes from the disk is in the bucket.
LEMMA PurgeReclaims ==
    ASSUME IInv, Purge, ship.cut > binlog.oldest, NEW c \in 1 .. MaxFile, c = ship.cut
    PROVE  Spool!Reclaim(c)
<1>1. ship.cut \in 1 .. MaxFile /\ ship.cut <= binlog.active
  BY DEF IInv, TypeOK, FilesOK, LoopsOK, ShipPass, SpoolInv, InPass, Purge
<1>2. ASSUME NEW s \in OnVolume, s < ship.cut PROVE s \in bucket
  <2>1. s \in ship.first .. (ship.cut - 1) /\ s \notin gone
    BY <1>1, <1>2 DEF IInv, TypeOK, FilesOK, LoopsOK, ShipPass, SpoolInv, Purge, OnVolume
  <2>2. s \in ship.st.uploaded \cup ship.st.lost
    BY <2>1 DEF IInv, SpoolInv, Purge
  <2> QED
    BY <2>1, <2>2 DEF IInv, SpoolInv, Trusted
<1>3. binlog'.oldest = ship.cut /\ binlog'.active = binlog.active
  BY DEF Purge, IInv, TypeOK, FilesOK
<1>4. OnVolume' = {s \in OnVolume : s >= ship.cut}
  BY <1>1, <1>3 DEF OnVolume, Purge, IInv, TypeOK, FilesOK
<1> QED
  BY <1>1, <1>2, <1>3, <1>4 DEF Spool!Reclaim, OnVolume, Purge

\* What leaves the index or the disk otherwise is a loss, or was one.
LEMMA ExpireLoses ==
    ASSUME IInv, Expire, NEW s \in 1 .. MaxFile, s = binlog.oldest
    PROVE  Spool!Lose(s) \/ UNCHANGED Spool!vars
<1>1. binlog.oldest < binlog.active /\ binlog.oldest \in 1 .. MaxFile
  BY DEF IInv, TypeOK, FilesOK, Expire
<1>2. binlog'.oldest = binlog.oldest + 1 /\ binlog'.active = binlog.active
  BY DEF IInv, TypeOK, FilesOK, Expire
<1>3. OnVolume' = OnVolume \ {binlog.oldest}
  BY <1>1, <1>2 DEF IInv, TypeOK, FilesOK, Expire, OnVolume
<1>4. CASE binlog.oldest \in gone
  BY <1>2, <1>3, <1>4 DEF OnVolume, Expire, Spool!vars
<1>5. CASE binlog.oldest \notin gone
  BY <1>1, <1>2, <1>3, <1>5 DEF OnVolume, Expire, Spool!Lose, IInv, TypeOK, FilesOK
<1> QED
  BY <1>4, <1>5

LEMMA LoseFileLoses ==
    ASSUME IInv, NEW s \in 1 .. MaxFile, LoseFile(s)
    PROVE  Spool!Lose(s)
BY DEF IInv, TypeOK, FilesOK, LoseFile, OnDisk, Spool!Lose

\* A new binlog, by a rotation or by mysqld's start.
LEMMA NewBinlog ==
    ASSUME IInv, binlog.active < MaxFile, UNCHANGED <<gone, bucket>>,
           binlog' = [binlog EXCEPT !.active = @ + 1]
    PROVE  Spool!Rotate \/ UNCHANGED Spool!vars
<1>1. binlog'.active = binlog.active + 1 /\ binlog'.oldest = binlog.oldest
  BY DEF IInv, TypeOK, FilesOK
<1>2. binlog.active + 1 \notin gone
  BY DEF IInv, TypeOK, FilesOK, SpoolInv
<1> QED
  BY <1>1, <1>2 DEF Spool!Rotate, IInv, TypeOK, FilesOK

LEMMA UploadShips ==
    ASSUME IInv, NEW s \in 1 .. MaxFile, Upload(s)
    PROVE  Spool!Ship(s)
<1>1. s \in OnVolume /\ s < binlog.active
  BY DEF IInv, TypeOK, FilesOK, LoopsOK, ShipPass, SpoolInv, InPass, Upload, IsNext, Left, OnDisk,
     OnVolume
<1> QED
  BY <1>1 DEF Upload, Spool!Ship, server, OnVolume

LEMMA StepRefines == IInv /\ [Next]_vars => [Spool!Next]_Spool!vars
<1> SUFFICES ASSUME IInv, [Next]_vars PROVE Spool!Next \/ UNCHANGED Spool!vars
  OBVIOUS
<1> DEFINE Same == UNCHANGED <<binlog, gone, bucket>>
<1>1. ASSUME Same PROVE UNCHANGED Spool!vars
  BY <1>1 DEF Spool!vars
<1>2. CASE UNCHANGED vars
  BY <1>1, <1>2 DEF vars
<1>3. CASE Shipping
  <2>1. CASE Purge
    <3>1. CASE ship.cut > binlog.oldest
      <4>1. ship.cut \in 1 .. MaxFile
        BY <2>1, <3>1 DEF IInv, TypeOK, FilesOK, LoopsOK, ShipPass, SpoolInv, InPass, Purge
      <4>2. PICK c \in 1 .. MaxFile : c = ship.cut
        BY <4>1
      <4>3. Spool!Reclaim(c)
        BY <2>1, <3>1, <4>2, PurgeReclaims
      <4> QED
        BY <4>3 DEF Spool!Next
    <3>2. CASE ~ (ship.cut > binlog.oldest)
      BY <1>1, <2>1, <3>2 DEF Purge
    <3> QED
      BY <3>1, <3>2
  <2>2. ASSUME NEW s \in 1 .. MaxFile, Upload(s) PROVE Spool!Next
    BY <2>2, UploadShips DEF Spool!Next
  <2>3. ASSUME NEW s \in 1 .. MaxFile, RecordLoss(s) \/ UploadFails(s) \/ RecordUpload(s)
        PROVE  Same
    BY <2>3 DEF RecordLoss, UploadFails, RecordUpload, server
  <2>4. ASSUME ShipBegin \/ AskAndCut \/ PurgeRefused \/ Forget PROVE Same
    BY <2>4 DEF ShipBegin, AskAndCut, PurgeRefused, Forget, server
  <2> QED
    BY <1>1, <1>3, <2>1, <2>2, <2>3, <2>4 DEF Shipping
<1>4. CASE Dumping
  BY <1>1, <1>4 DEF Dumping, BeginFull, EndFull, LockForBackup, DumpEnds, PutMeta, ReadAnchor,
     ClearAnchor, server
<1>5. CASE Supervising
  BY <1>1, <1>5 DEF Supervising, Start, Refuse, Reconcile, Stop, HandBackLater, server
<1>6. CASE Surroundings
  <2>1. CASE Rotate
    BY <2>1, NewBinlog DEF Rotate, Spool!Next
  <2>2. CASE Crash
    BY <2>2, NewBinlog DEF Crash, Spool!Next
  <2>3. CASE Expire
    <3>1. binlog.oldest \in 1 .. MaxFile
      BY DEF IInv, TypeOK, FilesOK
    <3>2. PICK s \in 1 .. MaxFile : s = binlog.oldest
      BY <3>1
    <3>3. Spool!Lose(s) \/ UNCHANGED Spool!vars
      BY <2>3, <3>2, ExpireLoses
    <3> QED
      BY <3>3 DEF Spool!Next
  <2>4. ASSUME NEW s \in 1 .. MaxFile, LoseFile(s) PROVE Spool!Next
    BY <2>4, LoseFileLoses DEF Spool!Next
  <2>5. CASE GrowOld
    <3>1. binlog'.oldest = binlog.oldest /\ binlog'.active = binlog.active
      BY <2>5 DEF GrowOld, IInv, TypeOK, FilesOK
    <3> QED
      BY <2>5, <3>1 DEF GrowOld, Spool!vars
  <2>6. CASE ChangeRole \/ Request
    BY <1>1, <2>6 DEF ChangeRole, Request, server
  <2> QED
    BY <1>6, <2>1, <2>2, <2>3, <2>4, <2>5, <2>6 DEF Surroundings
<1> QED
  BY <1>2, <1>3, <1>4, <1>5, <1>6 DEF Next

(***************************************************************************)
(* The archiver implements the spool: whatever crashes, races, role        *)
(* changes and refused purges, the archiver takes a binlog from the disk   *)
(* only when the bucket has it (ship_once, purge_cut).                     *)
(***************************************************************************)
THEOREM ArchiverImplementsSpool == Spec => SpoolKept
<1>1. Init => Spool!Init
  BY SpoolInit
<1>2. IInv /\ [Next]_vars => [Spool!Next]_Spool!vars
  BY StepRefines
<1> QED
  BY <1>1, <1>2, Invariance, PTL DEF Spec, Spool!Spec, SpoolKept
(***************************************************************************)
(* The full-backup latch.                                                  *)
(***************************************************************************)
LEMMA LatchNext == IInv /\ LatchMeansDump /\ [Next]_vars => LatchMeansDump'
<1> SUFFICES ASSUME IInv, LatchMeansDump, [Next]_vars PROVE LatchMeansDump'
  OBVIOUS
<1> USE DEF LatchMeansDump, IInv, TypeOK, LoopsOK, FullRun
<1>1. CASE Shipping
  BY <1>1 DEF Shipping, ShipBegin, AskAndCut, Purge, PurgeRefused, Forget, RecordLoss, Upload,
     UploadFails, RecordUpload
<1>2. CASE Dumping
  <2>1. CASE BeginFull
    BY <2>1 DEF BeginFull, NoDump
  <2>2. CASE EndFull
    BY <2>2 DEF EndFull, NoDump
  <2>3. CASE LockForBackup \/ DumpEnds
    BY <2>3 DEF LockForBackup, DumpEnds
  <2>4. CASE PutMeta
    BY <2>4 DEF PutMeta, NoDump
  <2>5. CASE ReadAnchor \/ ClearAnchor
    <3>1. dump.pc \in {"taken", "read"} /\ latch' = latch
      BY <2>5 DEF ReadAnchor, ClearAnchor
    <3>2. dump' = NoDump \/ dump' = [dump EXCEPT !.pc = "read", !.st = state]
      BY <2>5 DEF ReadAnchor, ClearAnchor
    <3>3. NoDump.pc = "rest" /\ [dump EXCEPT !.pc = "read", !.st = state].pc = "read"
      BY Zenon DEF NoDump
    <3> QED BY <3>1, <3>2, <3>3
  <2> QED BY <1>2, <2>1, <2>2, <2>3, <2>4, <2>5 DEF Dumping
<1>3. CASE Supervising
  <2>1. CASE Stop
    BY <2>1 DEF Stop, NoDump
  <2>2. CASE Start \/ Refuse \/ Reconcile \/ HandBackLater
    BY <2>2 DEF Start, Refuse, Reconcile, HandBackLater
  <2> QED BY <1>3, <2>1, <2>2 DEF Supervising
<1>4. CASE Surroundings
  <2>1. CASE Crash
    BY <2>1 DEF Crash, NoDump
  <2>2. CASE Request
    BY <2>2 DEF Request, server
  <2>3. CASE Rotate \/ GrowOld \/ Expire \/ ChangeRole \/ \E s \in 1 .. MaxFile : LoseFile(s)
    BY <2>3 DEF Rotate, GrowOld, LoseFile, Expire, ChangeRole
  <2> QED BY <1>4, <2>1, <2>2, <2>3 DEF Surroundings
<1>5. CASE UNCHANGED vars
  BY <1>5 DEF vars
<1> QED
  BY <1>1, <1>2, <1>3, <1>4, <1>5 DEF Next

(***************************************************************************)
(* The latch says "running" exactly while a full is under way: no request, *)
(* role change, failed full or crash leaves two fulls running or one that  *)
(* blocks all others (FullBackupRun, stop_archiving).                      *)
(***************************************************************************)
THEOREM LatchIsTheDump == Spec => []LatchMeansDump
<1>1. Init => LatchMeansDump
  BY DEF Init, LatchMeansDump, NoDump
<1> QED
  BY <1>1, LatchNext, Invariance, PTL DEF Spec

(***************************************************************************)
(* Losses and the fulls that anchor them.  The flag travels in copies of   *)
(* the state file that two loops write back, so each copy must be covered: *)
(* by its own flag, by the newest full, or, from the coordinate on, by the *)
(* anchoring full under way.                                               *)
(***************************************************************************)
Anchored(st) == \A s \in st.lost : s \in late \/ st.anchor \/ newest > s
Covered(st) == \A s \in st.lost : s \in late \/ dump.coord > s

AnchorInv ==
    /\ Anchored(state) /\ Anchored(ship.st)
    /\ newest <= binlog.active
    /\ dump.pc \in {"locked", "dumped"} => newest <= dump.coord /\ dump.coord <= binlog.active
    /\ dump.pc \in {"taken", "read"} => dump.anchors /\ newest = dump.coord
    /\ dump.anchors /\ dump.pc \in {"locked", "dumped", "taken", "read"} =>
         Covered(state) /\ Covered(ship.st)
    /\ dump.pc = "read" => Covered(dump.st)

LEMMA SurroundingsAnchors == IInv /\ AnchorInv /\ Surroundings => AnchorInv'
<1> SUFFICES ASSUME IInv, AnchorInv, Surroundings PROVE AnchorInv'
  OBVIOUS
<1> USE DEF IInv, TypeOK, FilesOK, LoopsOK, ShipPass, FullRun, UploadState, Files, SpoolInv,
        Trusted, AnchorInv, Anchored, Covered, server
<1>1. CASE Rotate
  BY <1>1 DEF Rotate
<1>2. CASE GrowOld
  BY <1>2 DEF GrowOld
<1>3. CASE Expire
  BY <1>3 DEF Expire, Happens
<1>4. CASE ChangeRole
  BY <1>4 DEF ChangeRole, Happens
<1>5. CASE Crash
  BY <1>5 DEF Crash, Happens, Resting, NoState, NoDump
<1>6. CASE Request
  BY <1>6 DEF Request, Happens
<1>7. ASSUME NEW s \in 1 .. MaxFile, LoseFile(s) PROVE AnchorInv'
  BY <1>7 DEF LoseFile, Happens
<1> QED
  BY <1>1, <1>2, <1>3, <1>4, <1>5, <1>6, <1>7 DEF Surroundings

LEMMA SupervisingAnchors == IInv /\ AnchorInv /\ Supervising => AnchorInv'
<1> SUFFICES ASSUME IInv, AnchorInv, Supervising PROVE AnchorInv'
  OBVIOUS
<1> USE DEF IInv, TypeOK, FilesOK, LoopsOK, ShipPass, FullRun, UploadState, Files, SpoolInv,
        Trusted, AnchorInv, Anchored, Covered, server
<1>1. CASE Start
  BY <1>1 DEF Start, Happens
<1>2. CASE Refuse
  BY <1>2 DEF Refuse
<1>3. CASE Reconcile
  BY <1>3 DEF Reconcile
<1>4. CASE Stop
  BY <1>4 DEF Stop, Happens, Resting, NoState, NoDump
<1>5. CASE HandBackLater
  BY <1>5 DEF HandBackLater
<1> QED
  BY <1>1, <1>2, <1>3, <1>4, <1>5 DEF Supervising

LEMMA ShippingAnchors == IInv /\ AnchorInv /\ Shipping => AnchorInv'
<1> SUFFICES ASSUME IInv, AnchorInv, Shipping PROVE AnchorInv'
  OBVIOUS
<1> USE DEF IInv, TypeOK, FilesOK, LoopsOK, ShipPass, FullRun, UploadState, Files, SpoolInv,
        Trusted, AnchorInv, Anchored, Covered, server
<1>1. CASE ShipBegin
  BY <1>1 DEF ShipBegin
<1>2. CASE AskAndCut
  BY <1>2 DEF AskAndCut, Resting, NoState
<1>3. CASE Purge
  BY <1>3 DEF Purge
<1>4. CASE PurgeRefused
  BY <1>4 DEF PurgeRefused, Resting, NoState
<1>5. CASE Forget
  BY <1>5 DEF Forget, Resting, NoState
<1>6. ASSUME NEW s \in 1 .. MaxFile, RecordLoss(s) PROVE AnchorInv'
  BY <1>6 DEF RecordLoss, Anchoring, IsNext, Left, OnDisk
<1>7. ASSUME NEW s \in 1 .. MaxFile, Upload(s) PROVE AnchorInv'
  BY <1>7 DEF Upload
<1>8. ASSUME NEW s \in 1 .. MaxFile, UploadFails(s) PROVE AnchorInv'
  BY <1>8 DEF UploadFails, Resting, NoState
<1>9. ASSUME NEW s \in 1 .. MaxFile, RecordUpload(s) PROVE AnchorInv'
  BY <1>9 DEF RecordUpload
<1> QED
  BY <1>1, <1>2, <1>3, <1>4, <1>5, <1>6, <1>7, <1>8, <1>9 DEF Shipping

LEMMA DumpingAnchors == IInv /\ AnchorInv /\ Dumping => AnchorInv'
<1> SUFFICES ASSUME IInv, AnchorInv, Dumping PROVE AnchorInv'
  OBVIOUS
<1> USE DEF IInv, TypeOK, FilesOK, LoopsOK, ShipPass, FullRun, UploadState, Files, SpoolInv,
        Trusted, AnchorInv, Anchored, Covered, server
<1>1. CASE BeginFull
  BY <1>1 DEF BeginFull, NoDump, NoState
<1>2. CASE EndFull
  BY <1>2 DEF EndFull, NoDump, NoState
<1>3. CASE LockForBackup
  BY <1>3 DEF LockForBackup
<1>4. CASE DumpEnds
  BY <1>4 DEF DumpEnds
<1>5. CASE PutMeta
  BY <1>5 DEF PutMeta, NoDump, NoState
<1>6. CASE ReadAnchor
  BY <1>6 DEF ReadAnchor, NoDump, NoState
<1>7. CASE ClearAnchor
  BY <1>7 DEF ClearAnchor, NoDump, NoState
<1> QED
  BY <1>1, <1>2, <1>3, <1>4, <1>5, <1>6, <1>7 DEF Dumping

LEMMA AnchorNext == IInv /\ AnchorInv /\ [Next]_vars => AnchorInv'
<1>1. AnchorInv /\ UNCHANGED vars => AnchorInv'
  BY DEF vars, AnchorInv, Anchored, Covered
<1> QED
  BY <1>1, SurroundingsAnchors, SupervisingAnchors, ShippingAnchors, DumpingAnchors DEF Next

(***************************************************************************)
(* A recorded loss has a later full or the flag that will bring one, but   *)
(* for one recorded while an anchoring full was under way: no crash        *)
(* between the steps of either loop, and no stale copy of the state file   *)
(* written back, forgets it (ship_once, clear_gap_anchor).                 *)
(***************************************************************************)
THEOREM LossesAnchored == Spec => []LossAnchored
<1>1. Init => AnchorInv
  BY DEF Init, AnchorInv, Anchored, Covered, NoState, Resting, NoDump
<1>2. AnchorInv => LossAnchored
  BY DEF AnchorInv, Anchored, LossAnchored
<1> QED
  BY <1>1, <1>2, AnchorNext, Invariance, PTL DEF Spec
=============================================================================

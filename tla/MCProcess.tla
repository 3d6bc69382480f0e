------------------------------ MODULE MCProcess ------------------------------
(* The process and what it prepares when it starts, one part at a time:    *)
(* its life, the standard corpus on the volume, the database.  The         *)
(* variables of the other parts keep one initial value.                    *)
EXTENDS Lifecycle, StandardSync, StoreOpen, TLC

CONSTANTS file1, module1, module2, server, mcp, path1, path2, text1, text2

VARIABLE part

(* Three releases: path1 is changed and then dropped, path2 is added. *)
Ships(a, b) == [x \in Path |-> IF x = path1 THEN a ELSE IF x = path2 THEN b ELSE Absent]
MCImages == {Ships(text1, Absent), Ships(text2, text1), Ships(Absent, text1)}

processVars == <<part, vars, syncVars, openVars>>

ProcessInit ==
  /\ part \in {"life", "volume", "database"}
  /\ Init /\ (part # "life" => present = {})
  /\ SyncInit /\ (part # "volume" => image = Ships(text1, Absent) /\ writable /\ legacy = {})
  /\ OpenInit /\ (part # "database" => generation = 1 /\ modules = Module)

Life == part = "life" /\ Next /\ UNCHANGED <<part, syncVars, openVars>>
Volume == part = "volume" /\ SyncNext /\ UNCHANGED <<part, vars, openVars>>
Database == part = "database" /\ OpenNext /\ UNCHANGED <<part, vars, syncVars>>
(* Only the life of the process is to go on for ever. *)
AtBounds == part # "life" /\ UNCHANGED processVars

ProcessNext == Life \/ Volume \/ Database \/ AtBounds

ProcessSpec == ProcessInit /\ [][ProcessNext]_processVars
FairProcess == ProcessSpec /\ WF_vars(part = "life" /\ System)
LifeSpec == ProcessInit /\ part = "life" /\ [][ProcessNext]_processVars

ProcessTypeOK == TypeOK /\ SyncTypeOK /\ OpenTypeOK
=============================================================================

------------------------------ MODULE AlarmExport ------------------------------
(***************************************************************************)
(* The event configuration of one module, made while imports replace the   *)
(* module (handleModuleEvents): one query lists the notifications, one for *)
(* each of them its objects, then come the relationships and the pairs,    *)
(* each from what is stored at its moment.                                 *)
(***************************************************************************)
EXTENDS EventExport

CONSTANTS
  Modules,     \* the sets of notifications that an edition of the module may define
  Entities     \* what traps are about: interfaces, power supplies

(* UNIQUE (module_name, name) of table symbol. *)
ASSUME ExportAssumption ==
  \A N \in Modules :
    /\ IsFiniteSet(N)
    /\ \A n \in N : n.name \in Nat /\ Len(n.objects) \in Nat /\ DOMAIN n.objects = 1..Len(n.objects)
    /\ \A n, m \in N : n.name = m.name => n = m

VARIABLES
  traps,       \* the notifications that are stored
  export       \* the request; "replaced", "parted": history, an import came after the list, after the relationships

exportVars == <<traps, export>>
NoExport == [step |-> "none"]

ExportInit == traps \in Modules /\ export = NoExport

ListNotifications ==
  /\ export = NoExport /\ traps # {}
  /\ export' = [step |-> "objects", names |-> {n.name : n \in traps}, listed |-> {},
                rows |-> <<>>, rel |-> <<>>, replaced |-> FALSE, parted |-> FALSE]
  /\ UNCHANGED traps

(* notificationObjectRefs and the symbols of the objects; nothing, if the  *)
(* notification is gone by now.                                            *)
ReadObjects(m) ==
  /\ export.step = "objects" /\ \A n \in export.listed : n.name # m
  /\ \E os \in IF \E n \in traps : n.name = m THEN {n.objects : n \in {n \in traps : n.name = m}} ELSE {<<>>} :
       export' = [export EXCEPT !.listed = export.listed \cup {[name |-> m, objects |-> os]}]
  /\ UNCHANGED traps

ReadRelationships ==
  /\ export.step = "objects" /\ export.names = {n.name : n \in export.listed}
  /\ export' = [export EXCEPT !.step = "pairs", !.rows = RelationshipRows(traps)]
  /\ UNCHANGED traps

ReadPairs ==
  /\ export.step = "pairs"
  /\ export' = [export EXCEPT !.step = "written", !.rel = Attached(export.listed, export.rows, PairRows(traps))]
  /\ UNCHANGED traps

(* ReplaceModule (or the removal of the module): one transaction. *)
ReplaceTraps(N) ==
  /\ N # traps /\ traps' = N
  /\ export' = IF export.step \notin {"objects", "pairs"} THEN export
               ELSE [export EXCEPT !.replaced = TRUE, !.parted = (export.step = "pairs")]

Answering ==
  \/ ListNotifications \/ ReadRelationships \/ ReadPairs
  \/ export.step = "objects" /\ \E m \in export.names : ReadObjects(m)

ExportNext ==
  \/ Answering
  \/ \E N \in Modules : ReplaceTraps(N)

ExportSpec == ExportInit /\ [][ExportNext]_exportVars

-----------------------------------------------------------------------------
(* What the export says, with either way of naming parameters: clear-keys  *)
(* never dangle; unless an import comes between the relationships and the  *)
(* pairs, an exported clear resolves exactly one raise; unless an import   *)
(* comes at all, that raise is exported, and pairs with equal OBJECTS clear*)
(* exactly their entity's alarm.  (An import in between can export a clear *)
(* without its raise, which handlers.go:437-440 rules out.)                *)
ExportedAlarmsClear ==
  export.step = "written" =>
    \A positional \in BOOLEAN :
      /\ KeysResolve(export.rel, positional)
      /\ ~export.parted => ClearsResolve(export.rel, positional)
      /\ ~export.replaced => /\ \A n \in DOMAIN export.rel : export.rel[n].listed
                            /\ SameObjectsRoundTrip(export.rel, positional, Entities)
=============================================================================

-------------------------------- MODULE MibMigrate --------------------------------
(***************************************************************************)
(* mib-migrate (cmd/mib-migrate): `plan` writes a table of moves for the   *)
(* MIB files of a source directory, the maintainer looks at it and may     *)
(* change the tree, `apply` carries it out row by row with `git mv`.  The  *)
(* source directory may lie in the tree that the files move to, so that a  *)
(* destination can be another row's source.                                *)
(***************************************************************************)
EXTENDS Classify, FiniteSets

CONSTANTS
  Place,      \* places of the work tree: the source paths and all destinations
  FirstRow,   \* Place |-> its position in the order of the source paths
  Source,     \* places under the source directory, MIB-shaped files
  NameAt,     \* Place |-> base name
  Blob,       \* contents
  NoFile,
  Opens,      \* contents with the MIB marker
  Parsed,     \* contents |-> the module smidump makes of it, or NoFile
  Removable,  \* places whose file the maintainer may remove after planning
  Editable,   \* places whose row the maintainer may edit wrongly
  MaxApplies  \* bound: runs of apply

(* A destination that is empty or outside the root. *)
Astray == <<>>

ASSUME MigrateAssumption ==
  /\ NoFile \notin Blob /\ Opens \subseteq Blob /\ MaxApplies \in Nat
  /\ Source \subseteq Place /\ Removable \subseteq Place /\ Astray \notin Place
  /\ \A p \in Source : <<"unsorted", NameAt[p]>> \in Place
  /\ \A p \in Source, c \in Opens : Parsed[c] # NoFile => MigratePlace(Parsed[c], NameAt[p]) \in Place
  /\ \A S \in SUBSET Source : S # {} => \E p \in S : \A q \in S : FirstRow[p] <= FirstRow[q]

VARIABLES
  worktree,   \* Place |-> content
  plan,       \* the rows: source |-> [dst, planned]
  apply,      \* the apply run
  outcome,    \* counts of the last run, as flags
  applies

migrateVars == <<worktree, plan, apply, outcome, applies>>

NoApply == [step |-> "none"]
MigrateInit ==
  /\ worktree \in [Place -> Blob \cup {NoFile}]
  /\ plan = <<>> /\ apply = NoApply /\ outcome = [step |-> "none"] /\ applies = 0

(* planCmd: walkSource takes the MIBs; a module that does not compile or   *)
(* is bad goes to unsorted/.                                               *)
Files == {p \in Source : worktree[p] \in Opens}
Planned(p) ==
  LET m == Parsed[worktree[p]] IN
  IF m = NoFile THEN <<"unsorted", NameAt[p]>> ELSE MigratePlace(m, NameAt[p])

(* dedupDestinations: all members of a group go to unsorted/, counted once.*)
Rerouted(p) ==
  IF \E q \in Files \ {p} : Planned(q) = Planned(p) THEN <<"unsorted", NameAt[p]>> ELSE Planned(p)

PlanMigration ==
  /\ plan = <<>> /\ apply = NoApply /\ Files # {}
  /\ plan' = [p \in Files |-> [dst |-> Rerouted(p), item |-> worktree[p]]]
  /\ UNCHANGED <<worktree, apply, outcome, applies>>

(* Between the two commands, or two applies: a file goes, or a row of the  *)
(* table is edited wrongly.                                                *)
MaintainerRemoves(p) ==
  /\ plan # <<>> /\ apply = NoApply /\ p \in Removable /\ worktree[p] # NoFile
  /\ worktree' = [worktree EXCEPT ![p] = NoFile]
  /\ UNCHANGED <<plan, apply, outcome, applies>>

MaintainerSpoils(p) ==
  /\ apply = NoApply /\ p \in Editable /\ plan[p].dst # Astray
  /\ plan' = [plan EXCEPT ![p].dst = Astray]
  /\ UNCHANGED <<worktree, apply, outcome, applies>>

-----------------------------------------------------------------------------
ApplyStart(dry) ==
  /\ plan # <<>> /\ apply = NoApply /\ applies < MaxApplies /\ applies' = applies + 1
  /\ apply' = [step |-> "rows", dry |-> dry, rows |-> DOMAIN plan, skipped |-> FALSE, failed |-> FALSE]
  /\ outcome' = [step |-> "none"]
  /\ UNCHANGED <<worktree, plan>>

NextRow == CHOOSE p \in apply.rows : \A q \in apply.rows : FirstRow[p] <= FirstRow[q]

(* A row is skipped when its destination leads nowhere, when its file is   *)
(* in place, or when its destination is occupied.                          *)
RowSkips(p) == plan[p].dst \in {Astray, p} \cup {q \in Place : worktree[q] # NoFile}

ApplySkips ==
  /\ apply.step = "rows" /\ apply.rows # {} /\ RowSkips(NextRow)
  /\ apply' = [apply EXCEPT !.rows = @ \ {NextRow}, !.skipped = TRUE]
  /\ UNCHANGED <<worktree, plan, outcome, applies>>

(* git mv; a dry run prints it and counts it as moved. *)
ApplyMoves ==
  /\ apply.step = "rows" /\ apply.rows # {} /\ ~RowSkips(NextRow)
  /\ apply.dry \/ worktree[NextRow] # NoFile
  /\ apply' = [apply EXCEPT !.rows = @ \ {NextRow}]
  /\ worktree' = IF apply.dry THEN worktree
                 ELSE [worktree EXCEPT ![NextRow] = NoFile, ![plan[NextRow].dst] = worktree[NextRow]]
  /\ UNCHANGED <<plan, outcome, applies>>

(* Mutant of ApplyFails: the row is logged and not counted. *)
ApplyFailsUncounted ==
  /\ apply.step = "rows" /\ apply.rows # {} /\ ~RowSkips(NextRow)
  /\ apply' = [apply EXCEPT !.rows = @ \ {NextRow}]
  /\ UNCHANGED <<worktree, plan, outcome, applies>>

(* stat, mkdir or git mv fails; the next row goes on. *)
ApplyFails ==
  /\ apply.step = "rows" /\ apply.rows # {} /\ ~RowSkips(NextRow)
  /\ apply' = [apply EXCEPT !.rows = @ \ {NextRow}, !.failed = TRUE]
  /\ UNCHANGED <<worktree, plan, outcome, applies>>

ApplyDone ==
  /\ apply.step = "rows" /\ apply.rows = {} /\ apply' = NoApply
  /\ outcome' = [step |-> IF apply.dry THEN "dry" ELSE "applied",
                 skipped |-> apply.skipped, failed |-> apply.failed]
  /\ UNCHANGED <<worktree, plan, applies>>

ApplyKilled ==
  /\ apply # NoApply /\ apply' = NoApply /\ UNCHANGED <<worktree, plan, outcome, applies>>

MigrateNext ==
  \/ PlanMigration \/ \E p \in Place : MaintainerRemoves(p)
  \/ \E p \in DOMAIN plan : MaintainerSpoils(p)
  \/ \E dry \in BOOLEAN : ApplyStart(dry)
  \/ ApplySkips \/ ApplyMoves \/ ApplyFails \/ ApplyDone \/ ApplyKilled

MigrateSpec == MigrateInit /\ [][MigrateNext]_migrateVars

-----------------------------------------------------------------------------
(* An apply that reports neither skipped nor failed rows has put every     *)
(* planned file where the plan says, even as a row's destination may be    *)
(* another row's source (apply.go:61-125).                                 *)
AppliedAsPlanned ==
  [][apply.step = "rows" /\ outcome'.step = "applied" /\ ~outcome'.skipped /\ ~outcome'.failed =>
       \A p \in DOMAIN plan : plan[p].dst # Astray /\ worktree[plan[p].dst] = plan[p].item]_migrateVars
=============================================================================

---------------------------- MODULE ImportEngine ----------------------------
(***************************************************************************)
(* Engine.run: one pass of the import pipeline over a batch of intake      *)
(* files, under the engine mutex.  The pass is cut into steps wherever a   *)
(* lock-free actor (operator, upload handler, another process stopping the *)
(* server) can slip in between two accesses to the disk or the store.      *)
(***************************************************************************)
EXTENDS Corpus

VARIABLES
  job,        \* arguments and running totals of the pass
  cand,       \* [Name -> candidate of the pass, or None]
  todo,       \* candidates the current phase has still to treat
  cur,        \* the candidate being filed and its destination, or None
  outcome,    \* [Name -> outcome reported for the file by this pass]
  poisoned    \* intake names skipped until restart

engineVars == <<job, cand, todo, cur, outcome, poisoned>>

RunPc == {"settle", "check", "build", "route", "forget", "move", "save", "mark"}

Status == {"imported", "failed", "duplicate"}

(* seen: the stamp stat'ed, and hashed once the file has settled;          *)
(* built: the stamp smidump read, or why there is no result.               *)
Candidate ==
  [seen: Stamp, built: Stamp \cup {None, "error", "exhausted"}]

ASSUME CandidateAssumption == None \notin Candidate

(* live is FALSE once the caller's context is cancelled; changed records   *)
(* that some file was imported.                                            *)
Job == [by: {"background", "request"}, replace: BOOLEAN, live: BOOLEAN,
        changed: BOOLEAN]

NoJob == [by |-> "background", replace |-> FALSE, live |-> TRUE,
          changed |-> FALSE]

NoCandidates == [n \in Name |-> None]

EngineTypeOK ==
  /\ job \in Job
  /\ cand \in [Name -> Candidate \cup {None}]
  /\ todo \subseteq Name
  /\ cur \in [n: Name, p: Path] \cup {None}
  /\ outcome \in [Name -> Status \cup {None}]
  /\ poisoned \subseteq Name

EngineInit ==
  /\ job = NoJob
  /\ cand = NoCandidates
  /\ todo = {}
  /\ cur = None
  /\ outcome = [n \in Name |-> None]
  /\ poisoned = {}

Active(cs) == {n \in Name : cs[n] # None}

(* The pass is over.  A cancelled background pass means the process is     *)
(* shutting down; a cancelled request only lost its client.                *)
Release ==
  /\ pc' = IF job.by = "background" /\ ~job.live THEN "down" ELSE "idle"
  /\ job' = NoJob
  /\ cand' = NoCandidates
  /\ todo' = {}
  /\ cur' = None
  /\ outcome' = [n \in Name |-> None]
  /\ poisoned' = IF pc' = "down" THEN {} ELSE poisoned

(* n leaves the pass. *)
Drop(n) ==
  /\ cand' = [cand EXCEPT ![n] = None]
  /\ todo' = todo \ {n}

-----------------------------------------------------------------------------
(* Mutant of QuarantineMoved: the path is poisoned whether it moved or not. *)
QuarantinePoisons(n, k) ==
  /\ intake[n] # None
  /\ \E d \in UniqueNames(quar[k], n), mv \in Moves(intake[n]) :
       /\ quar' = [quar EXCEPT ![k][d] = mv.dst]
       /\ intake' = [intake EXCEPT ![n] = mv.src]
       /\ written' = mv.wr
  /\ poisoned' = poisoned \cup {n}

(* Engine.quarantine: move the file into the outcome directory; a move     *)
(* that fails, for whatever reason, poisons the path.                      *)
QuarantineMoved(n, k) ==
  /\ intake[n] # None
  /\ \E d \in UniqueNames(quar[k], n), mv \in Moves(intake[n]) :
       /\ quar' = [quar EXCEPT ![k][d] = mv.dst]
       /\ intake' = [intake EXCEPT ![n] = mv.src]
       /\ written' = mv.wr
  /\ UNCHANGED poisoned

QuarantineStuck(n) ==
  /\ intake[n] = None \/ "rofs" \in Faults
  /\ poisoned' = poisoned \cup {n}
  /\ UNCHANGED <<quar, intake, written>>

Quarantined(n, k) ==
  /\ QuarantineMoved(n, k) \/ QuarantineStuck(n)
  /\ outcome' = [outcome EXCEPT ![n] = k]
  /\ Drop(n)
  /\ UNCHANGED <<tree, store, job>>

-----------------------------------------------------------------------------
(* Lock, keep the batch's regular, unpoisoned files and stat them. *)
Begin(batch, who, rep) ==
  /\ pc = "idle"
  /\ pc' = "settle"
  /\ job' = [NoJob EXCEPT !.by = who, !.replace = rep]
  /\ cand' = [n \in Name |->
                IF n \in batch \ poisoned /\ intake[n] # None
                THEN [seen |-> intake[n], built |-> None] ELSE None]
  /\ UNCHANGED <<disk, store, todo, cur, outcome, poisoned>>

(* After the settle window: drop the files whose stat moved, hash the rest. *)
Settle ==
  /\ pc = "settle"
  /\ pc' = "check"
  /\ cand' = [n \in Name |->
                IF cand[n] # None /\ intake[n] = cand[n].seen
                THEN cand[n] ELSE None]
  /\ todo' = Active(cand')
  /\ UNCHANGED <<disk, store, job, cur, outcome, poisoned>>

Sniffs(n) == intake[n] # None /\ written[intake[n]] \in Opener

(* Mutant of KnownContent: replacement does not lift the dedupe. *)
KnownContentAlways(n) ==
  job.live /\ FindSourceFileBySHA(written[cand[n].seen])

(* With a dead context the lookup fails, which reads as "not found". *)
KnownContent(n) ==
  ~job.replace /\ job.live /\ FindSourceFileBySHA(written[cand[n].seen])

(* Sniff and byte-identical dedupe of one file. *)
Check(n) ==
  /\ pc = "check" /\ n \in todo
  /\ UNCHANGED <<pc, cur>>
  /\ \/ /\ ~Sniffs(n)
        /\ Quarantined(n, "failed")
     \/ /\ Sniffs(n) /\ KnownContent(n)
        /\ Quarantined(n, "duplicate")
     \/ /\ Sniffs(n) /\ ~KnownContent(n)
        /\ todo' = todo \ {n}
        /\ UNCHANGED <<disk, store, job, cand, outcome, poisoned>>

(* Nothing left to compile ends the pass without touching the OID trie. *)
EndCheck ==
  /\ pc = "check" /\ todo = {}
  /\ \/ Active(cand) = {} /\ Release
     \/ /\ Active(cand) # {}
        /\ pc' = "build"
        /\ todo' = Active(cand)
        /\ UNCHANGED <<job, cand, cur, outcome, poisoned>>
  /\ UNCHANGED <<disk, store>>

(* Compiler.Compile on one file of the batch. *)
BuildResult(n) ==
  IF ~job.live \/ intake[n] = None \/ ModuleOf[written[intake[n]]] = None
  THEN "error" ELSE intake[n]

Build(n) ==
  /\ pc = "build" /\ n \in todo
  /\ \E res \in {BuildResult(n)}
        \cup (IF "budget" \in Faults THEN {"exhausted"} ELSE {}) :
       cand' = [cand EXCEPT ![n].built = res]
  /\ todo' = todo \ {n}
  /\ UNCHANGED <<disk, store, pc, job, cur, outcome, poisoned>>

EndBuild ==
  /\ pc = "build" /\ todo = {}
  /\ pc' = "route"
  /\ todo' = Active(cand)
  /\ UNCHANGED <<disk, store, job, cand, cur, outcome, poisoned>>

-----------------------------------------------------------------------------
Compiled(n) == cand[n].built \in Stamp
BuiltContent(n) == written[cand[n].built]
BuiltModule(n) == ModuleOf[BuiltContent(n)]

(* budgetExhausted: the file stays in import/ for the next pass. *)
RouteDeferred(n) ==
  /\ cand[n].built = "exhausted"
  /\ Drop(n)
  /\ UNCHANGED <<disk, store, pc, job, cur, outcome, poisoned>>

(* Compile error, disallowed name, or a module lookup with a dead context. *)
RouteFailed(n) ==
  /\ \/ cand[n].built = "error"
     \/ Compiled(n) /\ (BuiltModule(n) \in BadModule \/ ~job.live)
  /\ Quarantined(n, "failed")
  /\ UNCHANGED <<pc, cur>>

Routable(n) == Compiled(n) /\ BuiltModule(n) \notin BadModule /\ job.live

RouteDuplicate(n) ==
  /\ Routable(n)
  /\ module[BuiltModule(n)] # None /\ ~job.replace
  /\ Quarantined(n, "duplicate")
  /\ UNCHANGED <<pc, cur>>

(* Classify's directory; unsorted/ is keyed by a unique file name. *)
Destinations(n) ==
  IF DirOf[BuiltContent(n)] = Unsorted
  THEN {<<Unsorted, k>> : k \in UniqueNames([u \in Name |-> tree[<<Unsorted, u>>]], n)}
  ELSE {<<DirOf[BuiltContent(n)], BuiltModule(n)>>}

(* Mutant of Superseded: the old source stays beside the new one. *)
NothingSuperseded(n, p) == {}

(* The superseded source of a replaced module. *)
Superseded(n, p) ==
  IF module[BuiltModule(n)] # None THEN {module[BuiltModule(n)].src} \ {p} ELSE {}

(* A destination is found; the superseded source is removed before the     *)
(* move, and a removal that fails is ignored ...                           *)
RouteFile(n) ==
  /\ Routable(n)
  /\ module[BuiltModule(n)] = None \/ job.replace
  /\ \E p \in Destinations(n) :
       /\ cur' = [n |-> n, p |-> p]
       /\ \/ tree' = [q \in Path |-> IF q \in Superseded(n, p) THEN None ELSE tree[q]]
          \/ "rofs" \in Faults /\ tree' = tree
       /\ pc' = IF Superseded(n, p) = {} THEN "move" ELSE "forget"
  /\ UNCHANGED <<written, intake, quar, store, job, cand, todo, outcome, poisoned>>

(* ... and then its fingerprint, in a statement that a dead context fails. *)
RouteForget ==
  /\ pc = "forget"
  /\ pc' = "move"
  /\ row' = [q \in Path |-> IF job.live /\ q \in Superseded(cur.n, cur.p)
                           THEN None ELSE row[q]]
  /\ UNCHANGED <<disk, module, trie, job, cand, todo, cur, outcome, poisoned>>

Route(n) ==
  /\ pc = "route" /\ n \in todo
  /\ RouteDeferred(n) \/ RouteFailed(n) \/ RouteDuplicate(n) \/ RouteFile(n)

-----------------------------------------------------------------------------
(* Mutant of MoveDone: the fingerprint is recorded before the module. *)
MoveDoneMarksEarly ==
  /\ intake[cur.n] # None
  /\ \E mv \in Moves(intake[cur.n]) :
       /\ tree' = [tree EXCEPT ![cur.p] = mv.dst]
       /\ intake' = [intake EXCEPT ![cur.n] = mv.src]
       /\ written' = mv.wr
       /\ UpsertSourceFile(cur.p, mv.dst, written[cand[cur.n].seen], BuiltModule(cur.n))
  /\ pc' = "save"
  /\ UNCHANGED <<quar, module, trie, job, cand, todo, cur, outcome, poisoned>>

(* moveFile into the curated tree.  A vanished source is skipped silently, *)
(* any other failure quarantines the file.                                 *)
MoveDone ==
  /\ intake[cur.n] # None
  /\ \E mv \in Moves(intake[cur.n]) :
       /\ tree' = [tree EXCEPT ![cur.p] = mv.dst]
       /\ intake' = [intake EXCEPT ![cur.n] = mv.src]
       /\ written' = mv.wr
  /\ pc' = "save"
  /\ UNCHANGED <<quar, store, job, cand, todo, cur, outcome, poisoned>>

MoveVanished ==
  /\ intake[cur.n] = None
  /\ pc' = "route" /\ cur' = None
  /\ Drop(cur.n)
  /\ UNCHANGED <<disk, store, job, outcome, poisoned>>

MoveFailed ==
  /\ intake[cur.n] # None /\ "rofs" \in Faults
  /\ pc' = "route" /\ cur' = None
  /\ Quarantined(cur.n, "failed")

Move == pc = "move" /\ (MoveDone \/ MoveVanished \/ MoveFailed)

(* ReplaceModule; with a dead context the file stays curated, unrecorded. *)
Save ==
  /\ pc = "save"
  /\ \/ /\ job.live
        /\ ReplaceModule(BuiltContent(cur.n), cur.p)
        /\ pc' = "mark"
        /\ UNCHANGED <<job, cand, todo, cur, outcome>>
     \/ /\ ~job.live
        /\ pc' = "route" /\ cur' = None
        /\ outcome' = [outcome EXCEPT ![cur.n] = "failed"]
        /\ Drop(cur.n)
        /\ UNCHANGED <<module, job>>
  /\ UNCHANGED <<disk, row, trie, poisoned>>

(* UpsertSourceFile with the stat of the destination and the hash taken at *)
(* settle time; errors of the upsert are ignored.                          *)
Mark ==
  /\ pc = "mark"
  /\ IF tree[cur.p] # None /\ job.live
     THEN UpsertSourceFile(cur.p, tree[cur.p], written[cand[cur.n].seen],
                           BuiltModule(cur.n))
     ELSE UNCHANGED row
  /\ job' = [job EXCEPT !.changed = TRUE]
  /\ outcome' = [outcome EXCEPT ![cur.n] = "imported"]
  /\ pc' = "route" /\ cur' = None
  /\ Drop(cur.n)
  /\ UNCHANGED <<disk, module, trie, poisoned>>

(* Refresh the OID trie and unlock. *)
Finish ==
  /\ pc = "route" /\ todo = {}
  /\ IF job.live THEN RefreshOIDTree(job.changed) ELSE UNCHANGED trie
  /\ Release
  /\ UNCHANGED <<disk, module, row>>

(* The caller's context is cancelled. *)
Cancel ==
  /\ "cancel" \in Faults
  /\ pc \in RunPc /\ job.live
  /\ job' = [job EXCEPT !.live = FALSE]
  /\ UNCHANGED <<disk, store, pc, cand, todo, cur, outcome, poisoned>>

EngineStep ==
  \/ Settle \/ EndCheck \/ EndBuild \/ RouteForget \/ Move \/ Save \/ Mark \/ Finish
  \/ \E n \in Name : Check(n) \/ Build(n) \/ Route(n)
=============================================================================

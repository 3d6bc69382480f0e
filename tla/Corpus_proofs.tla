---------------------------- MODULE Corpus_proofs ----------------------------
(***************************************************************************)
(* What the store, the fingerprints and the curated tree say of each       *)
(* other, for every corpus and every number of passes, requests, crashes   *)
(* and restarts, and with moves that cross filesystems, as long as nobody  *)
(* edits the curated tree by hand, no context is cancelled, the compile    *)
(* budget lasts and no move fails (Quiet).                                 *)
(***************************************************************************)
EXTENDS Fingerprint_proofs

USE ConstantsAssumption, SentinelAssumption, PickAssumption, RowAssumption, ResultAssumption

Quiet == Faults \cap {"race", "cancel", "budget", "rofs", "edit"} = {}

Declared(p) == ModuleOf[written[tree[p]]]
Loaded(p) == module[Declared(p)] = [c |-> written[tree[p]], src |-> p]

(* The curated paths of which a boot takes notice, and the module each     *)
(* stands for: its file's, or its row's where the file is gone.            *)
Own(p) == (tree[p] # None /\ InWalk(p)) \/ row[p] # None
Claim(p) == IF tree[p] # None THEN Declared(p) ELSE row[p].mod

-----------------------------------------------------------------------------
(* What holds of the tree and the tables wherever a process stopped.       *)

(* A curated file declares a module, the one its path is named after. *)
FilesNamed ==
  \A p \in Path : tree[p] # None =>
    /\ written[tree[p]] \in Opener /\ Declared(p) # None
    /\ \A d \in Dir, m \in Module : p = <<d, m>> => Declared(p) = m

(* A fingerprint is under the module of its file, while that is there. *)
RowsNamed ==
  \A p \in Path : row[p] # None => row[p].mod = Claim(p)

(* No two of them stand for one module. *)
OneFilePerModule ==
  \A p, q \in Path : Own(p) /\ Own(q) /\ Claim(p) = Claim(q) => p = q

(* A hash on record that is still the file's is a hash of what was loaded. *)
HashLoaded ==
  \A p \in Path :
    row[p] # None /\ tree[p] # None /\ row[p].sha = written[tree[p]] => Loaded(p)

TreeInv == FilesNamed /\ RowsNamed /\ OneFilePerModule /\ HashLoaded

-----------------------------------------------------------------------------
(* What holds while a server is up.                                        *)

(* The candidates of a pass were compiled from what was stat'ed, and have  *)
(* passed the sniffer.                                                     *)
CandidatesRead ==
  \A n \in Name : cand[n] # None =>
    /\ cand[n].built \in Stamp => cand[n].built = cand[n].seen
    /\ pc \in RunPc \ {"settle"} /\ (pc = "check" => n \notin todo) =>
         written[cand[n].seen] \in Opener

InHand == pc \in {"forget", "move", "save", "mark"}
Moved == pc \in {"save", "mark"}

(* The fingerprint of a removed file that the pass has yet to forget. *)
ToForget == IF pc = "forget" THEN Superseded(cur.n, cur.p) ELSE {}

(* The file in hand goes where it belongs, over nothing but a file it is   *)
(* to replace, and no other file or fingerprint stands for its module, but *)
(* for the superseded one's.                                               *)
FilingState ==
  InHand =>
    LET m == BuiltModule(cur.n) IN
    /\ cur.n \in todo
    /\ \A d \in Dir, k \in Module : cur.p = <<d, k>> => k = m
    /\ tree[cur.p] # None => Declared(cur.p) = m /\ (~Moved => job.replace)
    /\ \A q \in Path \ ({cur.p} \cup ToForget) : Own(q) => Claim(q) # m
    /\ \A q \in ToForget : tree[q] = None /\ (row[q] # None => row[q].mod = m)
    /\ pc = "mark" => Loaded(cur.p)

(* Every fingerprint but that one is of a file that is there. *)
RowsThere ==
  pc \in {"idle"} \cup RunPc =>
    \A p \in Path : row[p] # None => tree[p] # None \/ p \in ToForget

(* While the server is up every curated file is trusted and loaded, but    *)
(* for the one in hand, and for those that a boot does not see.            *)
SettledFiles ==
  pc \in {"idle"} \cup RunPc =>
    \A p \in Path : tree[p] # None =>
      \/ Matches(p) /\ Loaded(p)
      \/ ~InWalk(p) /\ row[p] = None
      \/ Moved /\ p = cur.p

(* The module of the file in hand is the only one without a fingerprint. *)
GhostsInHand ==
  /\ pc \in {"idle", "refresh"} \cup RunPc /\ ~InHand => Ghosts = {}
  /\ InHand => Ghosts \subseteq {BuiltModule(cur.n)}

PassInv ==
  /\ job.live /\ CandidatesRead /\ FilingState /\ RowsThere
  /\ SettledFiles /\ GhostsInHand

-----------------------------------------------------------------------------
(* What holds of a boot validation: its stats and rows stay true.          *)
Validating == SyncPc \ {"walk"}

StatsCurrent ==
  pc \in Validating =>
    onDisk = [p \in Path |-> IF InWalk(p) THEN tree[p] ELSE None]

KnownRows ==
  pc \in {"diff", "vanish", "drop"} =>
    /\ \A p \in Path : row[p] # None => known[p] # None /\ known[p].mod = row[p].mod
    /\ \A p, q \in Kept(known) : known[p].mod = known[q].mod => p = q
    /\ pc = "diff" => \A p \in left : row[p] = known[p]

(* The rows to forget are of paths the walk did not find. *)
Forgetting ==
  /\ pc \in {"vanish", "drop"} => left \subseteq Kept(known) \ Kept(onDisk)
  /\ pc = "drop" => at \in Kept(known) \ Kept(onDisk) /\ row[at] = None

(* The file's result waits to be stored. *)
Pending(p) ==
  /\ fresh[p] # None
  /\ pc \in {"load", "stamp"} => p \in left \/ (pc = "stamp" /\ p = at)

(* Every file found is trusted by now or still to be treated; rows without *)
(* a file are gone once the vanished ones are forgotten.                   *)
FoundFiles ==
  pc \in Validating =>
    \A p \in Kept(onDisk) :
      \/ Matches(p)
      \/ pc = "diff" /\ p \in left
      \/ pc \notin {"prune", "refresh"} /\ Pending(p)

LostFiles ==
  pc \in Validating \ {"diff"} =>
    \A p \in Path \ Kept(onDisk) :
      row[p] # None => pc \in {"vanish", "drop"} /\ p \in left

(* A compile read the file that was hashed. *)
ResultsCurrent ==
  /\ \A p \in Path : fresh[p] # None =>
       /\ fresh[p].sha = written[tree[p]]
       /\ fresh[p].built \in {None, tree[p]}
       /\ pc \in {"load", "stamp"} \/ (pc = "compile" /\ p \notin left) =>
            fresh[p].built = tree[p]
  /\ pc = "stamp" => Loaded(at)

ValidationInv ==
  /\ StatsCurrent /\ KnownRows /\ Forgetting
  /\ FoundFiles /\ LostFiles /\ ResultsCurrent

(* The inductive invariant of a quiet corpus. *)
QuietInv == TreeInv /\ PassInv /\ ValidationInv

-----------------------------------------------------------------------------
LEMMA InitQuiet == Init => QuietInv
<1> SUFFICES ASSUME Init PROVE QuietInv
  OBVIOUS
<1> USE DEF Init, CorpusInit, EngineInit, SyncInit, ClientInit, NoCandidates, NoPaths,
            NoJob, RunPc, SyncPc
<1>1. TreeInv
  BY DEF TreeInv, FilesNamed, RowsNamed, OneFilePerModule, HashLoaded, Own
<1>2. PassInv
  BY DEF PassInv, CandidatesRead, FilingState, RowsThere, SettledFiles, GhostsInHand, InHand
<1>3. ValidationInv
  BY DEF ValidationInv, Validating, StatsCurrent, KnownRows, Forgetting, FoundFiles,
     LostFiles, ResultsCurrent
<1> QED
  BY <1>1, <1>2, <1>3 DEF QuietInv

(* A curated file has content, which declares a module or nothing. *)
LEMMA TreeFacts ==
  ASSUME TypeInv, NEW p \in Path, tree[p] # None
  PROVE  /\ tree[p] \in Stamp /\ written[tree[p]] \in Content
         /\ Declared(p) \in Module \cup {None}
BY DEF TypeInv, CorpusInv, CorpusTypeOK, TreeWritten, Declared

LEMMA RowFacts ==
  ASSUME TypeInv, NEW p \in Path, row[p] # None
  PROVE  row[p].m \in Stamp /\ row[p].sha \in Content /\ row[p].mod \in Module
BY DEF TypeInv, CorpusInv, CorpusTypeOK, SourceRow

(* Writes to other files do not change what a file contains ... *)
LEMMA FileKept ==
  ASSUME TypeInv, Grows, NEW p \in Path, tree[p] # None, tree'[p] = tree[p]
  PROVE  written'[tree'[p]] = written[tree[p]] /\ Declared(p)' = Declared(p)
BY TreeFacts DEF Grows, Declared, TypeInv, CorpusInv, TreeWritten

(* ... nor whether it is loaded. *)
LEMMA LoadedKept ==
  ASSUME TypeInv, Grows, NEW p \in Path, tree[p] # None, tree'[p] = tree[p],
         module'[Declared(p)] = module[Declared(p)], Loaded(p)
  PROVE  Loaded(p)'
BY FileKept DEF Loaded

(* Files and rows only disappear, and no module is touched. *)
LEMMA TreeFrame ==
  ASSUME TypeInv, TreeInv, Grows, UNCHANGED module,
         \A p \in Path : tree'[p] \in {tree[p], None},
         \A p \in Path : row'[p] \in {row[p], None}
  PROVE  TreeInv'
<1>1. ASSUME NEW p \in Path, tree'[p] # None
      PROVE  /\ tree[p] # None /\ tree'[p] = tree[p]
             /\ written'[tree'[p]] = written[tree[p]]
             /\ Declared(p)' = Declared(p)
  BY <1>1, FileKept
<1>2. FilesNamed'
  BY <1>1 DEF TreeInv, FilesNamed
<1>3. ASSUME NEW p \in Path, row'[p] # None
      PROVE  row'[p] = row[p] /\ row[p] # None
  BY <1>3
<1>4. ASSUME NEW p \in Path, Own(p)'
      PROVE  Own(p) /\ Claim(p)' = Claim(p)
  <2>1. CASE tree'[p] # None
    BY <1>1, <1>3, <1>4, <2>1 DEF Own, Claim, InWalk
  <2>2. CASE tree'[p] = None
    <3>1. row'[p] # None
      BY <1>4, <2>2 DEF Own
    <3>2. row'[p] = row[p] /\ row[p] # None /\ row[p].mod = Claim(p)
      BY <1>3, <3>1 DEF TreeInv, RowsNamed
    <3> QED
      BY <2>2, <3>2 DEF Own, Claim
  <2> QED
    BY <2>1, <2>2
<1>5. RowsNamed'
  BY <1>3, <1>4 DEF TreeInv, RowsNamed, Own
<1>6. OneFilePerModule'
  BY <1>4 DEF TreeInv, OneFilePerModule
<1>7. HashLoaded'
  BY <1>1, <1>3, LoadedKept DEF TreeInv, HashLoaded
<1> QED
  BY <1>2, <1>5, <1>6, <1>7 DEF TreeInv

(* What was found by the walk is still there. *)
LEMMA FoundFacts ==
  ASSUME TypeInv, StatsCurrent, pc \in Validating, NEW p \in Path
  PROVE  /\ onDisk[p] # None => InWalk(p) /\ tree[p] = onDisk[p]
         /\ InWalk(p) => onDisk[p] = tree[p]
         /\ fresh[p] # None => onDisk[p] # None
BY DEF StatsCurrent, TypeInv, SyncInv, FreshGood

LEMMA FreshFacts ==
  ASSUME TypeInv, StatsCurrent, NEW p \in Path, fresh[p] # None
  PROVE  /\ pc \in Validating
         /\ onDisk[p] = tree[p] /\ InWalk(p) /\ tree[p] # None
<1>1. pc \in Validating
  BY DEF Validating, TypeInv, SyncInv, SyncState, NoPaths
<1> QED
  BY <1>1, FoundFacts

(* Outside a validation it has nothing to keep. *)
LEMMA NoValidation ==
  ASSUME TypeInv', pc' \notin Validating
  PROVE  ValidationInv'
BY DEF TypeInv, SyncInv, SyncState, NoPaths, SyncPc, Validating, ValidationInv,
   StatsCurrent, KnownRows, Forgetting, FoundFiles, LostFiles, ResultsCurrent

(* Outside a pass a server has little to keep. *)
LEMMA NoPass ==
  ASSUME pc' \notin {"idle", "refresh"} \cup RunPc, job'.live,
         \A n \in Name : cand'[n] # None /\ cand'[n].built \in Stamp =>
           cand'[n].built = cand'[n].seen
  PROVE  PassInv'
BY DEF PassInv, CandidatesRead, FilingState, RowsThere, SettledFiles, GhostsInHand, InHand,
   RunPc

LEMMA ToForgetPaths ==
  ASSUME TypeInv
  PROVE  ToForget \subseteq Path
<1> SUFFICES ASSUME pc = "forget" PROVE Superseded(cur.n, cur.p) \subseteq Path
  BY DEF ToForget
<1>1. cur.n \in Name /\ cand[cur.n] # None /\ Compiled(cur.n)
  BY DEF TypeInv, EngineInv, PassState, Compiled
<1>2. BuiltModule(cur.n) \in Module
  BY <1>1, BuiltFacts DEF TypeInv
<1> QED
  BY <1>2 DEF Superseded, TypeInv, CorpusInv, CorpusTypeOK, ModuleRow

-----------------------------------------------------------------------------
(* Steps of the environment and the web client: the curated side is left   *)
(* alone.                                                                  *)
LEMMA OutsideQuiet ==
  ASSUME TypeInv, HashInv, QuietInv, Grows,
         UNCHANGED <<tree, store, pc, engineVars, syncVars>>
  PROVE  QuietInv'
<1> USE DEF QuietInv, store, engineVars, syncVars
<1>1. TreeInv'
  BY TreeFrame
<1>2. ASSUME NEW p \in Path, tree[p] # None
      PROVE  /\ written'[tree'[p]] = written[tree[p]]
             /\ Declared(p)' = Declared(p)
             /\ Loaded(p)' = Loaded(p)
  BY <1>2, FileKept DEF Loaded
<1>3. ASSUME NEW n \in Name, cand[n] # None
      PROVE  /\ written'[cand'[n].seen] = written[cand[n].seen]
             /\ cand[n].built \in Stamp => BuiltModule(n)' = BuiltModule(n)
  BY <1>3 DEF Grows, BuiltModule, BuiltContent, TypeInv, EngineInv, EngineTypeOK,
     CandWritten, GoodBuild, Candidate
<1>4. CandidatesRead'
  BY <1>3 DEF PassInv, CandidatesRead
<1>5. InHand => /\ cur.n \in Name /\ cur.p \in Path
                /\ BuiltModule(cur.n)' = BuiltModule(cur.n)
                /\ pc = "mark" => tree[cur.p] # None
  BY <1>3 DEF InHand, TypeInv, EngineInv, PassState, HashInv, PassMoved
<1>6. FilingState' /\ RowsThere'
  <2>1. ToForget' = ToForget
    BY <1>5 DEF ToForget, Superseded, InHand
  <2>2. \A q \in Path : Own(q)' = Own(q) /\ Claim(q)' = Claim(q)
    BY <1>2 DEF Own, Claim, InWalk
  <2>3. ToForget \subseteq Path
    BY ToForgetPaths
  <2> QED
    BY <1>2, <1>5, <2>1, <2>2, <2>3 DEF PassInv, FilingState, RowsThere, InHand, Moved
<1>7. SettledFiles'
  BY <1>2 DEF PassInv, SettledFiles, Matches, Moved
<1>8. GhostsInHand'
  BY <1>5 DEF PassInv, GhostsInHand, InHand, Ghosts, Rows
<1>9. PassInv'
  BY <1>4, <1>6, <1>7, <1>8 DEF PassInv
<1>10. StatsCurrent' /\ KnownRows' /\ Forgetting'
  BY DEF ValidationInv, StatsCurrent, KnownRows, Forgetting, Kept
<1>11. FoundFiles' /\ LostFiles'
  BY DEF ValidationInv, FoundFiles, LostFiles, Matches, Pending, Kept
<1>12. ResultsCurrent'
  <2>1. \A p \in Path : fresh[p] # None => tree[p] # None
    BY FreshFacts DEF ValidationInv
  <2>2. pc = "stamp" => at \in Path /\ tree[at] # None
    BY <2>1 DEF TypeInv, SyncInv, SyncState
  <2> QED
    BY <1>2, <2>1, <2>2 DEF ValidationInv, ResultsCurrent
<1> QED
  BY <1>1, <1>9, <1>10, <1>11, <1>12 DEF ValidationInv

LEMMA EnvironmentQuiet ==
  ASSUME Quiet, TypeInv, HashInv, QuietInv, Environment
  PROVE  QuietInv'
<1>1. ASSUME NEW n \in Name, NEW c \in Content, NEW s \in Stamp, DropFile(n, c, s)
      PROVE  QuietInv'
  BY <1>1, WriteFacts, OutsideQuiet DEF DropFile, TypeInv, CorpusInv
<1>2. ASSUME NEW n \in Name, NEW c \in Content, NEW s \in Stamp, NEW rep \in BOOLEAN,
             UploadPart(n, c, s, rep)
      PROVE  QuietInv'
  BY <1>2, WriteFacts, OutsideQuiet DEF UploadPart, TypeInv, CorpusInv
<1>3. ASSUME NEW n \in Name, DeletePending(n) PROVE QuietInv'
  BY <1>3, OutsideQuiet DEF DeletePending, Grows
<1>4. ASSUME NEW k \in Quarantine, NEW q \in Name,
             DeleteQuarantined(k, q) \/ ReplacePick(k, q)
      PROVE  QuietInv'
  BY <1>4, OutsideQuiet DEF DeleteQuarantined, ReplacePick, Grows, disk
<1>5. ~MayEdit
  BY DEF MayEdit, Quiet
<1> QED
  BY <1>1, <1>2, <1>3, <1>4, <1>5 DEF Environment, EditTree, RemoveFromTree

LEMMA ReplaceStageGrows ==
  ASSUME TypeInv, ReplaceStage
  PROVE  Grows
<1> USE DEF ReplaceStage
<1>1. pick \in Picks
  BY DEF TypeInv, ClientInv
<1>2. CASE UNCHANGED written
  BY <1>2 DEF Grows
<1>3. ASSUME NEW mv \in Moves(quar[pick.k][pick.q]), quar[pick.k][pick.q] # None,
             written' = mv.wr
      PROVE  Grows
  BY <1>1, <1>3, MoveGrows DEF Picks, TypeInv, CorpusInv, CorpusTypeOK, QuarWritten
<1> QED
  BY <1>2, <1>3

LEMMA StagingQuiet ==
  ASSUME TypeInv, HashInv, QuietInv, UploadStaged \/ ReplaceStage \/ UNCHANGED vars
  PROVE  QuietInv'
<1>1. Grows
  BY ReplaceStageGrows DEF UploadStaged, vars, disk, Grows
<1> QED
  BY <1>1, OutsideQuiet DEF UploadStaged, ReplaceStage, vars, disk

-----------------------------------------------------------------------------
(* A pass that has no file in hand leaves the curated side alone. *)
AtRest == pc \in {"idle"} \cup RunPc /\ ~InHand

LEMMA PassQuiet ==
  ASSUME TypeInv, TypeInv', QuietInv, Grows, UNCHANGED <<tree, row, module>>,
         AtRest, AtRest', job'.live, CandidatesRead'
  PROVE  QuietInv'
<1> USE DEF QuietInv
<1>1. TreeInv'
  BY TreeFrame
<1>2. FilingState' /\ RowsThere'
  BY DEF PassInv, FilingState, RowsThere, ToForget, AtRest, InHand
<1>3. SettledFiles'
  BY LoadedKept DEF PassInv, SettledFiles, AtRest, InHand, Moved, Matches
<1>4. GhostsInHand'
  BY DEF PassInv, GhostsInHand, AtRest, Ghosts, Rows
<1>5. ValidationInv'
  BY NoValidation DEF AtRest, RunPc, Validating, SyncPc
<1> QED
  BY <1>1, <1>2, <1>3, <1>4, <1>5 DEF PassInv

(* What the candidates were read from stays readable. *)
LEMMA CandidateKept ==
  ASSUME TypeInv, Grows, NEW n \in Name, cand[n] # None
  PROVE  /\ written'[cand[n].seen] = written[cand[n].seen]
         /\ cand[n].seen \in Stamp
         /\ cand[n].built \in Stamp \cup {None, "error", "exhausted"}
BY DEF Grows, TypeInv, EngineInv, EngineTypeOK, CandWritten, Candidate

(* A file of the pass is still in import/, until it moves. *)
LEMMA CandidateThere ==
  ASSUME TypeInv, HashInv, NEW n \in Name, cand[n] # None, pc \in RunPc \ {"save", "mark"}
  PROVE  intake[n] = cand[n].seen /\ intake[n] \in Stamp
BY DEF HashInv, PassFiles, TypeInv, EngineInv, EngineTypeOK, Candidate

LEMMA BeginQuiet ==
  ASSUME TypeInv, TypeInv', QuietInv, NEW batch \in SUBSET Name,
         NEW who \in {"background", "request"}, NEW rep \in BOOLEAN,
         Begin(batch, who, rep)
  PROVE  QuietInv'
<1> USE DEF Begin
<1>1. CandidatesRead'
  BY DEF CandidatesRead
<1>2. AtRest /\ AtRest' /\ job'.live
  BY DEF AtRest, InHand, RunPc, NoJob
<1> QED
  BY <1>1, <1>2, PassQuiet DEF Grows, disk, store

LEMMA SettleQuiet ==
  ASSUME TypeInv, TypeInv', QuietInv, Settle
  PROVE  QuietInv'
<1> USE DEF Settle
<1>1. CandidatesRead'
  BY DEF CandidatesRead, QuietInv, PassInv, Active
<1>2. AtRest /\ AtRest' /\ job'.live
  BY DEF AtRest, InHand, RunPc, QuietInv, PassInv
<1> QED
  BY <1>1, <1>2, PassQuiet DEF Grows, disk, store

(* The pass ends with nothing in hand. *)
LEMMA ReleaseQuiet ==
  ASSUME TypeInv, TypeInv', QuietInv, Release, UNCHANGED <<disk, module, row>>, AtRest
  PROVE  QuietInv'
<1> USE DEF Release
<1>1. CandidatesRead'
  BY DEF CandidatesRead, NoCandidates
<1>2. AtRest' /\ job'.live
  BY DEF AtRest, InHand, NoJob, QuietInv, PassInv
<1> QED
  BY <1>1, <1>2, PassQuiet DEF Grows, disk

(* The next phase of a pass starts when every candidate went through the   *)
(* one before.                                                             *)
LEMMA NextPhaseQuiet ==
  ASSUME TypeInv, TypeInv', QuietInv, UNCHANGED <<disk, store, job, cand>>,
         pc \in {"check", "build"}, pc' \in {"build", "route"}, todo = {}
  PROVE  QuietInv'
<1>1. CandidatesRead'
  BY DEF CandidatesRead, QuietInv, PassInv, RunPc, disk
<1>2. AtRest /\ AtRest' /\ job'.live
  BY DEF AtRest, InHand, RunPc, QuietInv, PassInv
<1> QED
  BY <1>1, <1>2, PassQuiet DEF Grows, disk, store

LEMMA EndPhaseQuiet ==
  ASSUME TypeInv, TypeInv', QuietInv, EndCheck \/ EndBuild \/ Finish
  PROVE  QuietInv'
<1>1. CASE (EndCheck /\ Release) \/ Finish
  <2>1. AtRest /\ Release /\ UNCHANGED <<disk, module, row>>
    BY <1>1 DEF EndCheck, Finish, AtRest, InHand, RunPc, store
  <2> QED
    BY <2>1, ReleaseQuiet
<1>2. CASE (EndCheck /\ ~Release) \/ EndBuild
  BY <1>2, NextPhaseQuiet DEF EndCheck, EndBuild
<1> QED
  BY <1>1, <1>2

LEMMA BuildQuiet ==
  ASSUME Quiet, TypeInv, TypeInv', HashInv, QuietInv, NEW n \in Name, Build(n)
  PROVE  QuietInv'
<1> USE DEF Build
<1>1. cand[n] # None
  BY DEF TypeInv, EngineInv, PassState, RunPc, Active
<1>2. intake[n] = cand[n].seen
  BY <1>1, CandidateThere DEF RunPc
<1>3. PICK res : cand' = [cand EXCEPT ![n].built = res] /\ res \in {"error", intake[n]}
  BY DEF Quiet, BuildResult
<1>4. /\ \A u \in Name : cand'[u] # None => cand[u] # None /\ cand'[u].seen = cand[u].seen
      /\ \A u \in Name \ {n} : cand'[u] = cand[u]
      /\ cand'[n].built = res
  BY <1>1, <1>3 DEF TypeInv, EngineInv, EngineTypeOK, Candidate
<1>5. CandidatesRead'
  BY <1>2, <1>3, <1>4 DEF CandidatesRead, QuietInv, PassInv, RunPc, disk
<1>6. AtRest /\ AtRest' /\ job'.live
  BY DEF AtRest, InHand, RunPc, QuietInv, PassInv
<1> QED
  BY <1>5, <1>6, PassQuiet DEF Grows, disk, store

LEMMA QuarantineGrows ==
  ASSUME TypeInv, NEW n \in Name, NEW k \in Quarantine, Quarantined(n, k)
  PROVE  Grows
<1>1. CASE QuarantineMoved(n, k)
  <2>1. PICK mv \in Moves(intake[n]) : written' = mv.wr /\ intake[n] # None
    BY <1>1 DEF QuarantineMoved
  <2> QED
    BY <2>1, MoveGrows DEF TypeInv, CorpusInv, CorpusTypeOK, IntakeWritten
<1>2. CASE QuarantineStuck(n)
  BY <1>2 DEF QuarantineStuck, Grows
<1> QED
  BY <1>1, <1>2 DEF Quarantined

LEMMA QuarantinedQuiet ==
  ASSUME TypeInv, TypeInv', QuietInv, NEW n \in Name, NEW k \in Quarantine,
         Quarantined(n, k), pc \in {"check", "route"}, UNCHANGED pc
  PROVE  QuietInv'
<1> USE DEF Quarantined, Drop
<1>1. Grows
  BY QuarantineGrows
<1>2. CandidatesRead'
  <2>1. \A u \in Name : cand'[u] # None => cand'[u] = cand[u] /\ u # n
    BY DEF TypeInv, EngineInv, EngineTypeOK
  <2> QED
    BY <1>1, <2>1, CandidateKept DEF CandidatesRead, QuietInv, PassInv
<1>3. AtRest /\ AtRest' /\ job'.live
  BY DEF AtRest, InHand, RunPc, QuietInv, PassInv
<1> QED
  BY <1>1, <1>2, <1>3, PassQuiet DEF store

LEMMA CheckQuiet ==
  ASSUME TypeInv, TypeInv', HashInv, QuietInv, NEW n \in Name, Check(n)
  PROVE  QuietInv'
<1> USE DEF Check
<1>1. CASE Quarantined(n, "failed") \/ Quarantined(n, "duplicate")
  BY <1>1, QuarantinedQuiet DEF Quarantine
<1>2. CASE /\ Sniffs(n) /\ todo' = todo \ {n}
           /\ UNCHANGED <<disk, store, job, cand, outcome, poisoned>>
  <2>1. cand[n] # None
    BY DEF TypeInv, EngineInv, PassState, RunPc, Active
  <2>2. written[cand[n].seen] \in Opener
    BY <1>2, <2>1, CandidateThere DEF Sniffs, RunPc
  <2>3. CandidatesRead'
    BY <1>2, <2>2 DEF CandidatesRead, QuietInv, PassInv, disk
  <2>4. AtRest /\ AtRest' /\ job'.live
    BY <1>2 DEF AtRest, InHand, RunPc, QuietInv, PassInv
  <2> QED
    BY <1>2, <2>3, <2>4, PassQuiet DEF Grows, disk, store
<1> QED
  BY <1>1, <1>2

(* Between files, a stored module has a fingerprint, its source's; and a   *)
(* curated file a boot would notice has its module stored.                 *)
LEMMA StoredBacked ==
  ASSUME TypeInv, QuietInv, AtRest, NEW m \in Module, module[m] # None
  PROVE  LET p == module[m].src IN
         /\ p \in Path /\ row[p] # None /\ row[p].mod = m
         /\ \A q \in Path : row[q] # None /\ row[q].mod = m => q = p
<1> USE DEF QuietInv, PassInv, AtRest
<1>1. PICK r \in Path : row[r] # None /\ row[r].mod = m
  BY DEF GhostsInHand, Ghosts, Rows
<1>2. ASSUME NEW q \in Path, row[q] # None, row[q].mod = m
      PROVE  q = module[m].src
  <2>1. tree[q] # None /\ Declared(q) = m
    BY <1>2 DEF TreeInv, RowsNamed, RowsThere, ToForget, InHand, Claim
  <2>2. Loaded(q)
    BY <1>2, <2>1 DEF SettledFiles, InHand, Moved
  <2> QED
    BY <2>1, <2>2 DEF Loaded
<1> QED
  BY <1>1, <1>2

LEMMA OwnLoaded ==
  ASSUME TypeInv, QuietInv, AtRest, NEW q \in Path, Own(q)
  PROVE  /\ tree[q] # None /\ row[q] # None
         /\ row[q].mod = Declared(q) /\ Declared(q) \in Module
         /\ Loaded(q) /\ module[Declared(q)] # None
<1>0. tree[q] # None
  BY DEF QuietInv, PassInv, AtRest, RowsThere, ToForget, InHand, Own
<1>1. Matches(q) /\ Loaded(q)
  BY <1>0 DEF QuietInv, PassInv, AtRest, SettledFiles, InHand, Moved, Own
<1>2. row[q] # None /\ row[q].mod = Declared(q) /\ Declared(q) \in Module
  BY <1>0, <1>1, RowFacts DEF Matches, QuietInv, TreeInv, RowsNamed, Claim
<1>3. module[Declared(q)] \in ModuleRow
  BY <1>0, <1>1, TreeFacts DEF Loaded, ModuleRow
<1> QED
  BY <1>0, <1>1, <1>2, <1>3

(* A routed file's destination is named after its module, a new name of    *)
(* unsorted/ is free.                                                      *)
LEMMA DestinationFacts ==
  ASSUME TypeInv, NEW n \in Name, cand[n] # None, Compiled(n), NEW p \in Destinations(n)
  PROVE  /\ p \in Path
         /\ p[1] = Unsorted => tree[p] = None
         /\ p[1] # Unsorted => p[1] \in Dir /\ p = <<p[1], BuiltModule(n)>>
<1>1. BuiltContent(n) \in Content /\ BuiltModule(n) \in Module
  BY BuiltFacts DEF TypeInv
<1>2. CASE DirOf[BuiltContent(n)] = Unsorted
  <2>1. PICK k \in UniqueNames([u \in Name |-> tree[<<Unsorted, u>>]], n) : p = <<Unsorted, k>>
    BY <1>2 DEF Destinations
  <2>2. k \in Name /\ tree[<<Unsorted, k>>] = None
    BY <2>1 DEF UniqueNames
  <2> QED
    BY <2>1, <2>2 DEF Path
<1>3. CASE DirOf[BuiltContent(n)] # Unsorted
  BY <1>1, <1>3 DEF Destinations, Path
<1> QED
  BY <1>2, <1>3

LEMMA RouteFileQuiet ==
  ASSUME Quiet, TypeInv, TypeInv', HashInv, QuietInv,
         NEW n \in Name, pc = "route", n \in todo, RouteFile(n)
  PROVE  QuietInv'
<1> DEFINE m == BuiltModule(n)
<1> USE DEF QuietInv, PassInv
<1>1. AtRest /\ cand[n] # None /\ Compiled(n) /\ m \in Module
  BY BuiltFacts DEF AtRest, InHand, RunPc, TypeInv, EngineInv, PassState, Active,
     RouteFile, Routable
<1>2. PICK p \in Destinations(n) :
        /\ cur' = [n |-> n, p |-> p]
        /\ tree' = [q \in Path |-> IF q \in Superseded(n, p) THEN None ELSE tree[q]]
        /\ pc' = IF Superseded(n, p) = {} THEN "move" ELSE "forget"
  BY DEF RouteFile, Quiet
<1>3. /\ p \in Path
      /\ p[1] = Unsorted => tree[p] = None
      /\ p[1] # Unsorted => p[1] \in Dir /\ p = <<p[1], m>>
  BY <1>1, DestinationFacts
<1>4. /\ Grows /\ UNCHANGED <<written, row, module, cand, todo, job>>
      /\ pc' \in {"forget", "move"}
      /\ module[m] = None \/ job.replace
  BY <1>2 DEF Grows, RouteFile, store
<1> HIDE DEF m
<1>5. \A q \in Path : tree'[q] \in {tree[q], None} /\ row'[q] \in {row[q], None}
  BY <1>2, <1>4
<1>6. TreeInv'
  BY <1>4, <1>5, TreeFrame
<1>7. BuiltModule(n)' = m
  BY <1>4 DEF BuiltModule, BuiltContent, m
<1>8. Superseded(n, p) = IF module[m] # None THEN {module[m].src} \ {p} ELSE {}
  BY DEF Superseded, m
<1>9. ToForget' = Superseded(n, p)
  <2>1. cur'.n = n /\ cur'.p = p
    BY <1>2
  <2>2. UNCHANGED <<module, cand, written>>
    BY <1>4
  <2> QED
    BY ONLY <1>2, <2>1, <2>2 DEF ToForget, Superseded, BuiltModule, BuiltContent
<1>10. ASSUME NEW q \in Superseded(n, p)
       PROVE  q \in Path /\ tree'[q] = None /\ (row'[q] # None => row'[q].mod = m)
  <2>1. module[m] # None /\ q = module[m].src
    BY <1>8, <1>10
  <2>2. q \in Path /\ row[q].mod = m
    BY <1>1, <2>1, StoredBacked
  <2> QED
    BY <1>2, <1>4, <1>10, <2>2
<1>11. ASSUME NEW q \in Path, q # p, q \notin Superseded(n, p), Own(q)', Claim(q)' = m
       PROVE  FALSE
  <2>1. Own(q) /\ Claim(q) = m
    BY <1>2, <1>4, <1>11 DEF Own, InWalk, Claim, Declared
  <2>2. tree[q] # None /\ Loaded(q) /\ module[Declared(q)] # None
    BY <1>1, <2>1, OwnLoaded
  <2>3. Declared(q) = m /\ module[m].src = q
    BY <2>1, <2>2 DEF Loaded, Claim
  <2> QED
    BY <1>8, <1>11, <2>2, <2>3
<1>12. ASSUME tree'[p] # None PROVE Declared(p)' = m /\ job.replace
  <2>1. tree[p] # None /\ tree'[p] = tree[p] /\ p[1] \in Dir /\ p = <<p[1], m>>
    BY <1>2, <1>3, <1>12
  <2>2. Declared(p) = m
    BY <1>1, <1>3, <2>1 DEF TreeInv, FilesNamed
  <2>3. Own(p)
    BY <2>1 DEF Own, InWalk
  <2>4. module[m] # None
    BY <1>1, <1>3, <2>2, <2>3, OwnLoaded DEF Loaded
  <2> QED
    BY <1>4, <2>1, <2>2, <2>4 DEF Declared
<1>13. FilingState' /\ RowsThere'
  <2>1. \A d \in Dir, k \in Module : p = <<d, k>> => k = m
    BY <1>3
  <2>2. cur'.n = n /\ cur'.p = p /\ n \in todo'
    BY <1>2, <1>4
  <2>3. FilingState'
    BY <1>3, <1>4, <1>7, <1>9, <1>10, <1>11, <1>12, <2>1, <2>2 DEF FilingState, Moved
  <2>4. \A q \in Path : row[q] # None => tree[q] # None
    BY <1>1 DEF RowsThere, ToForget, AtRest, InHand
  <2>5. RowsThere'
    BY <1>2, <1>4, <1>9, <2>4 DEF RowsThere
  <2> QED
    BY <2>3, <2>5
<1>14. SettledFiles'
  <2> SUFFICES ASSUME NEW q \in Path, tree'[q] # None
               PROVE  \/ Matches(q)' /\ Loaded(q)'
                      \/ ~InWalk(q) /\ row'[q] = None
    BY DEF SettledFiles, InWalk
  <2>1. tree'[q] = tree[q] /\ row'[q] = row[q]
    BY <1>2, <1>4
  <2>2. (Matches(q) /\ Loaded(q)) \/ (~InWalk(q) /\ row[q] = None)
    BY <1>1, <2>1 DEF SettledFiles, AtRest, InHand, Moved
  <2> QED
    BY <1>4, <2>1, <2>2, LoadedKept DEF Matches
<1>15. GhostsInHand'
  <2>1. Ghosts = {} /\ Ghosts' = Ghosts
    BY <1>1, <1>4 DEF GhostsInHand, AtRest, Ghosts, Rows
  <2> QED
    BY <1>4, <2>1 DEF GhostsInHand, InHand
<1>16. CandidatesRead'
  BY <1>4 DEF CandidatesRead, RunPc
<1>17. ValidationInv'
  BY <1>4, NoValidation DEF Validating, SyncPc
<1> QED
  BY <1>4, <1>6, <1>13, <1>14, <1>15, <1>16, <1>17

LEMMA RouteQuiet ==
  ASSUME Quiet, TypeInv, TypeInv', HashInv, QuietInv, NEW n \in Name, Route(n)
  PROVE  QuietInv'
<1> USE DEF Route
<1>1. CASE RouteFailed(n) \/ RouteDuplicate(n)
  BY <1>1, QuarantinedQuiet DEF RouteFailed, RouteDuplicate, Quarantine
<1>2. CASE RouteFile(n)
  BY <1>2, RouteFileQuiet
<1>3. CASE RouteDeferred(n)
  <2> USE <1>3 DEF RouteDeferred, Drop
  <2>1. CandidatesRead'
    BY DEF CandidatesRead, QuietInv, PassInv, disk, TypeInv, EngineInv, EngineTypeOK
  <2>2. AtRest /\ AtRest' /\ job'.live
    BY DEF AtRest, InHand, RunPc, QuietInv, PassInv
  <2> QED
    BY <2>1, <2>2, PassQuiet DEF Grows, disk, store
<1> QED
  BY <1>1, <1>2, <1>3

(* The file in hand and its bytes: what was stat'ed, sniffed and compiled. *)
LEMMA HandFacts ==
  ASSUME TypeInv, QuietInv, InHand
  PROVE  /\ cur.n \in Name /\ cur.p \in Path /\ cand[cur.n] # None
         /\ cand[cur.n].built = cand[cur.n].seen /\ cand[cur.n].seen \in Stamp
         /\ BuiltContent(cur.n) = written[cand[cur.n].seen]
         /\ BuiltContent(cur.n) \in Opener
         /\ BuiltModule(cur.n) \in Module
<1>1. cur.n \in Name /\ cur.p \in Path /\ cand[cur.n] # None /\ Compiled(cur.n)
  BY DEF InHand, TypeInv, EngineInv, PassState, Compiled
<1>2. BuiltModule(cur.n) \in Module
  BY <1>1, BuiltFacts DEF TypeInv
<1>3. cand[cur.n].seen \in Stamp
  BY <1>1 DEF TypeInv, EngineInv, EngineTypeOK, Candidate
<1>4. cand[cur.n].built = cand[cur.n].seen /\ written[cand[cur.n].seen] \in Opener
  BY <1>1 DEF Compiled, InHand, RunPc, QuietInv, PassInv, CandidatesRead
<1> QED
  BY <1>1, <1>2, <1>3, <1>4 DEF BuiltContent

(* The fingerprint of the superseded file goes: its module is in hand. *)
LEMMA RouteForgetQuiet ==
  ASSUME TypeInv, TypeInv', HashInv, QuietInv, RouteForget
  PROVE  QuietInv'
<1> DEFINE m == BuiltModule(cur.n)
<1> USE DEF QuietInv, PassInv
<1>1. /\ cur.n \in Name /\ cur.p \in Path /\ cand[cur.n] # None
      /\ m \in Module
  BY HandFacts DEF RouteForget, InHand
<1>2. /\ Grows /\ UNCHANGED <<written, tree, module, cand, todo, cur, job>>
      /\ pc = "forget" /\ pc' = "move" /\ InHand /\ job.live
  BY DEF Grows, RouteForget, disk, InHand
<1>3. BuiltModule(cur.n)' = m
  BY <1>2 DEF BuiltModule, BuiltContent
<1> HIDE DEF m
<1>4. row' = [q \in Path |-> IF q \in ToForget THEN None ELSE row[q]] /\ ToForget' = {}
  BY <1>2 DEF RouteForget, ToForget
<1>5. \A q \in Path : tree'[q] \in {tree[q], None} /\ row'[q] \in {row[q], None}
  BY <1>2, <1>4
<1>6. TreeInv'
  BY <1>2, <1>5, TreeFrame
<1>7. /\ cur.n \in todo
      /\ \A d \in Dir, k \in Module : cur.p = <<d, k>> => k = m
      /\ tree[cur.p] # None => Declared(cur.p) = m /\ job.replace
      /\ \A q \in Path \ ({cur.p} \cup ToForget) : Own(q) => Claim(q) # m
      /\ \A q \in ToForget : tree[q] = None /\ (row[q] # None => row[q].mod = m)
  BY <1>2 DEF FilingState, Moved, m
<1>8. ASSUME NEW q \in Path \ {cur.p}, Own(q)', Claim(q)' = m
      PROVE  FALSE
  <2>1. q \notin ToForget
    BY <1>2, <1>4, <1>7, <1>8 DEF Own
  <2>2. Own(q) /\ Claim(q) = m
    BY <1>2, <1>4, <1>8, <2>1 DEF Own, Claim, InWalk, Declared
  <2> QED
    BY <1>7, <1>8, <2>1, <2>2
<1>9. FilingState'
  <2>1. Declared(cur.p)' = Declared(cur.p)
    BY <1>2 DEF Declared
  <2> QED
    BY <1>2, <1>3, <1>4, <1>7, <1>8, <2>1 DEF FilingState, Moved
<1>10. RowsThere'
  BY <1>2, <1>4 DEF RowsThere, RunPc
<1>11. SettledFiles'
  <2> SUFFICES ASSUME NEW q \in Path, tree'[q] # None
               PROVE  \/ Matches(q)' /\ Loaded(q)'
                      \/ ~InWalk(q) /\ row'[q] = None
    BY DEF SettledFiles, InWalk
  <2>1. tree'[q] = tree[q] /\ row'[q] = row[q]
    BY <1>2, <1>4, <1>7
  <2>2. (Matches(q) /\ Loaded(q)) \/ (~InWalk(q) /\ row[q] = None)
    BY <1>2, <2>1 DEF SettledFiles, Moved, RunPc
  <2> QED
    BY <1>2, <2>1, <2>2, LoadedKept DEF Matches
<1>12. GhostsInHand'
  <2>1. ASSUME NEW k \in Module, k # m, module[k] # None
        PROVE  \E q \in Path : row'[q] # None /\ row'[q].mod = k
    <3>1. PICK q \in Path : row[q] # None /\ row[q].mod = k
      BY <1>2, <2>1 DEF GhostsInHand, Ghosts, Rows, m
    <3>2. q \notin ToForget
      BY <1>7, <2>1, <3>1
    <3> QED
      BY <1>4, <3>1, <3>2
  <2>2. Ghosts' \subseteq {m}
    BY <1>2, <2>1 DEF Ghosts, Rows
  <2> QED
    BY <1>2, <1>3, <2>2 DEF GhostsInHand, InHand
<1>13. CandidatesRead'
  BY <1>2 DEF CandidatesRead, RunPc
<1>14. ValidationInv'
  BY <1>2, NoValidation DEF Validating, SyncPc
<1> QED
  BY <1>2, <1>6, <1>9, <1>10, <1>11, <1>12, <1>13, <1>14

(* The file arrives: it declares the module it was compiled to. *)
LEMMA MoveDoneQuiet ==
  ASSUME TypeInv, TypeInv', HashInv, QuietInv, pc = "move", MoveDone
  PROVE  QuietInv'
<1> DEFINE m == BuiltModule(cur.n)
<1> DEFINE c == BuiltContent(cur.n)
<1>1. /\ cur.n \in Name /\ cur.p \in Path /\ cand[cur.n] # None
      /\ cand[cur.n].built = cand[cur.n].seen /\ cand[cur.n].seen \in Stamp
      /\ c = written[cand[cur.n].seen] /\ c \in Opener /\ m \in Module
  BY HandFacts DEF InHand
<1>2. intake[cur.n] = cand[cur.n].seen
  BY <1>1, CandidateThere DEF RunPc
<1>3. PICK mv \in Moves(intake[cur.n]) : tree' = [tree EXCEPT ![cur.p] = mv.dst] /\ written' = mv.wr
  BY DEF MoveDone
<1>4. /\ mv.dst \in Stamp /\ written'[mv.dst] = c /\ Grows
  <2>1. written[intake[cur.n]] # None
    BY <1>1, <1>2 DEF TypeInv, EngineInv, CandWritten
  <2> QED
    BY <1>1, <1>2, <1>3, <2>1, MovesFacts, MoveGrows DEF TypeInv, CorpusInv
<1>5. /\ UNCHANGED <<row, module, cand, todo, cur, job>> /\ pc' = "save"
  BY DEF MoveDone, store
<1>6. tree'[cur.p] = mv.dst /\ \A q \in Path \ {cur.p} : tree'[q] = tree[q]
  BY <1>1, <1>3 DEF TypeInv, CorpusInv, CorpusTypeOK
<1>7. ModuleOf[c] = m
  BY DEF BuiltModule
<1>8. /\ BuiltContent(cur.n)' = c /\ BuiltModule(cur.n)' = m
      /\ written'[cand[cur.n].seen] = c
  BY <1>1, <1>4, <1>5, CandidateKept DEF BuiltModule, BuiltContent
<1> HIDE DEF m, c
<1>9. /\ \A d \in Dir, k \in Module : cur.p = <<d, k>> => k = m
      /\ tree[cur.p] # None => Declared(cur.p) = m
      /\ \A q \in Path \ {cur.p} : Own(q) => Claim(q) # m
      /\ \A q \in Path : row[q] # None => tree[q] # None
      /\ cur.n \in todo
  BY DEF QuietInv, PassInv, FilingState, RowsThere, ToForget, InHand, RunPc, m
<1>10. tree'[cur.p] # None /\ written'[tree'[cur.p]] = c /\ Declared(cur.p)' = m
  BY <1>4, <1>5, <1>6, <1>7 DEF Declared
<1>11. ASSUME NEW q \in Path \ {cur.p}, tree[q] # None
       PROVE  /\ written'[tree'[q]] = written[tree[q]]
              /\ Declared(q)' = Declared(q)
              /\ Loaded(q) => Loaded(q)'
  BY <1>4, <1>5, <1>6, <1>11, FileKept, LoadedKept
<1>12. FilesNamed'
  BY <1>1, <1>5, <1>6, <1>9, <1>10, <1>11 DEF QuietInv, TreeInv, FilesNamed
<1>13. RowsNamed'
  BY <1>5, <1>6, <1>9, <1>10, <1>11 DEF QuietInv, TreeInv, RowsNamed, Claim
<1>14. \A q \in Path \ {cur.p} : Own(q)' => Own(q) /\ Claim(q)' = Claim(q)
  BY <1>5, <1>6, <1>11 DEF Own, InWalk, Claim
<1>15. OneFilePerModule'
  <2>1. Claim(cur.p)' = m
    BY <1>5, <1>10 DEF Claim
  <2> QED
    BY <1>5, <1>9, <1>14, <2>1 DEF QuietInv, TreeInv, OneFilePerModule
<1>16. HashLoaded'
  <2>1. ASSUME row[cur.p] # None, row[cur.p].sha = c PROVE Loaded(cur.p)'
    <3>1. tree[cur.p] # None
      BY <1>1, <1>9, <2>1
    <3>2. Matches(cur.p) /\ Loaded(cur.p)
      BY <1>1, <2>1, <3>1 DEF QuietInv, PassInv, SettledFiles, RunPc, Moved
    <3>3. written[tree[cur.p]] = c
      BY <1>1, <2>1, <3>2 DEF HashInv, FingerprintSound
    <3> QED
      BY <1>5, <1>9, <1>10, <3>1, <3>2, <3>3 DEF Loaded
  <2> QED
    BY <1>5, <1>6, <1>10, <1>11, <2>1 DEF QuietInv, TreeInv, HashLoaded
<1>17. CandidatesRead'
  BY <1>4, <1>5, CandidateKept DEF QuietInv, PassInv, CandidatesRead, RunPc
<1>18. FilingState' /\ RowsThere'
  <2>1. ToForget' = {}
    BY <1>5 DEF ToForget
  <2>2. FilingState'
    BY <1>5, <1>8, <1>9, <1>10, <1>14, <2>1 DEF FilingState, Moved
  <2>3. RowsThere'
    BY <1>5, <1>6, <1>9, <1>10, <2>1 DEF RowsThere
  <2> QED
    BY <2>2, <2>3
<1>19. SettledFiles'
  <2>1. ASSUME NEW q \in Path \ {cur.p}, tree'[q] # None
        PROVE  (Matches(q)' /\ Loaded(q)') \/ (~InWalk(q) /\ row'[q] = None)
    <3>1. tree[q] # None /\ tree'[q] = tree[q]
      BY <1>6, <2>1
    <3>2. (Matches(q) /\ Loaded(q)) \/ (~InWalk(q) /\ row[q] = None)
      BY <3>1 DEF QuietInv, PassInv, SettledFiles, RunPc, Moved
    <3> QED
      BY <1>5, <1>11, <3>1, <3>2 DEF Matches
  <2> QED
    BY <1>5, <2>1 DEF SettledFiles, Moved, InWalk
<1>20. GhostsInHand'
  BY <1>5, <1>8 DEF QuietInv, PassInv, GhostsInHand, InHand, Ghosts, Rows, m
<1>21. ValidationInv'
  BY <1>5, NoValidation DEF Validating, SyncPc
<1> QED
  BY <1>5, <1>12, <1>13, <1>15, <1>16, <1>17, <1>18, <1>19, <1>20, <1>21
     DEF QuietInv, TreeInv, PassInv

LEMMA MoveQuiet ==
  ASSUME Quiet, TypeInv, TypeInv', HashInv, QuietInv, Move
  PROVE  QuietInv'
<1>1. pc = "move" /\ cur.n \in Name /\ cand[cur.n] # None
  BY HandFacts DEF Move, InHand
<1>2. intake[cur.n] # None
  BY <1>1, CandidateThere DEF RunPc
<1> QED
  BY <1>1, <1>2, MoveDoneQuiet DEF Move, MoveVanished, MoveFailed, Quiet

(* The module is stored from the file that arrived; no other file loses    *)
(* its module by it.                                                       *)
LEMMA SaveQuiet ==
  ASSUME TypeInv, TypeInv', HashInv, QuietInv, Save
  PROVE  QuietInv'
<1> DEFINE m == BuiltModule(cur.n)
<1> DEFINE c == BuiltContent(cur.n)
<1>1. InHand /\ pc = "save"
  BY DEF Save, InHand
<1>2. /\ cur.n \in Name /\ cur.p \in Path /\ cand[cur.n] # None
      /\ c = written[cand[cur.n].seen] /\ m \in Module /\ ModuleOf[c] = m
  BY <1>1, HandFacts DEF BuiltModule
<1>3. /\ module' = [module EXCEPT ![m] = [c |-> c, src |-> cur.p]]
      /\ UNCHANGED <<written, tree, row, job, cand, todo, cur>> /\ pc' = "mark"
  BY DEF Save, QuietInv, PassInv, ReplaceModule, BuiltModule, disk
<1>4. /\ \A k \in Module \ {m} : module'[k] = module[k]
      /\ module'[m] = [c |-> c, src |-> cur.p]
  BY <1>2, <1>3 DEF TypeInv, CorpusInv, CorpusTypeOK
<1>5. BuiltModule(cur.n)' = m
  BY <1>3 DEF BuiltModule, BuiltContent
<1>6. tree[cur.p] # None /\ written[tree[cur.p]] = c /\ Declared(cur.p) = m
  BY <1>1, <1>2 DEF HashInv, PassMoved, Declared
<1>7. /\ \A q \in Path \ {cur.p} : Own(q) => Claim(q) # m
      /\ \A q \in Path : row[q] # None => tree[q] # None
      /\ cur.n \in todo
      /\ \A d \in Dir, k \in Module : cur.p = <<d, k>> => k = m
  BY <1>1 DEF QuietInv, PassInv, FilingState, RowsThere, ToForget, RunPc
<1> HIDE DEF m, c
<1>8. Loaded(cur.p)'
  BY <1>3, <1>4, <1>6 DEF Loaded, Declared
<1>9. ASSUME NEW q \in Path \ {cur.p}, Own(q), Loaded(q) PROVE Loaded(q)'
  <2>1. tree[q] # None /\ Declared(q) \in Module
    BY <1>7, <1>9, TreeFacts DEF QuietInv, TreeInv, FilesNamed, Own
  <2>2. Declared(q) # m
    BY <1>7, <1>9, <2>1 DEF Claim
  <2> QED
    BY <1>3, <1>4, <1>9, <2>1, <2>2 DEF Loaded, Declared
<1>10. TreeInv'
  <2>1. FilesNamed' /\ RowsNamed' /\ OneFilePerModule'
    BY <1>3 DEF QuietInv, TreeInv, FilesNamed, RowsNamed, OneFilePerModule, Own, InWalk, Claim,
       Declared
  <2>2. HashLoaded'
    <3> SUFFICES ASSUME NEW q \in Path, row[q] # None, tree[q] # None,
                        row[q].sha = written[tree[q]]
                 PROVE  Loaded(q)'
      BY <1>3 DEF HashLoaded
    <3>1. Own(q) /\ Loaded(q)
      BY DEF QuietInv, TreeInv, HashLoaded, Own
    <3> QED
      BY <1>3, <1>8, <1>9, <3>1
  <2> QED
    BY <2>1, <2>2 DEF TreeInv
<1>11. CandidatesRead'
  BY <1>1, <1>3 DEF QuietInv, PassInv, CandidatesRead, RunPc
<1>12. FilingState' /\ RowsThere'
  <2>1. ToForget' = {}
    BY <1>3 DEF ToForget
  <2>2. \A q \in Path : Own(q)' = Own(q) /\ Claim(q)' = Claim(q)
    BY <1>3 DEF Own, InWalk, Claim, Declared
  <2>3. FilingState'
    BY <1>3, <1>5, <1>6, <1>7, <1>8, <2>1, <2>2 DEF FilingState, Moved, Declared
  <2>4. RowsThere'
    BY <1>3, <1>7, <2>1 DEF RowsThere
  <2> QED
    BY <2>3, <2>4
<1>13. SettledFiles'
  <2> SUFFICES ASSUME NEW q \in Path \ {cur.p}, tree[q] # None
               PROVE  (Matches(q)' /\ Loaded(q)') \/ (~InWalk(q) /\ row'[q] = None)
    BY <1>3 DEF SettledFiles, Moved, InWalk
  <2>1. (Matches(q) /\ Loaded(q)) \/ (~InWalk(q) /\ row[q] = None)
    BY <1>1 DEF QuietInv, PassInv, SettledFiles, RunPc, Moved
  <2> QED
    BY <1>3, <1>9, <2>1 DEF Matches, Own
<1>14. GhostsInHand'
  BY <1>1, <1>3, <1>4, <1>5 DEF QuietInv, PassInv, GhostsInHand, InHand, Ghosts, Rows, m
<1>15. ValidationInv'
  BY <1>3, NoValidation DEF Validating, SyncPc
<1> QED
  BY <1>3, <1>10, <1>11, <1>12, <1>13, <1>14, <1>15 DEF QuietInv, PassInv

(* The fingerprint is recorded last: the file is trusted from here on, and *)
(* its module was stored from its bytes.                                   *)
LEMMA MarkQuiet ==
  ASSUME TypeInv, TypeInv', HashInv, QuietInv, Mark
  PROVE  QuietInv'
<1> DEFINE m == BuiltModule(cur.n)
<1> DEFINE r == [m |-> tree[cur.p], sha |-> written[cand[cur.n].seen], mod |-> m]
<1>1. InHand /\ pc = "mark"
  BY DEF Mark, InHand
<1>2. cur.n \in Name /\ cur.p \in Path /\ m \in Module /\ cand[cur.n].seen \in Stamp
  BY <1>1, HandFacts
<1>3. tree[cur.p] # None /\ written[tree[cur.p]] = written[cand[cur.n].seen]
  BY <1>1 DEF HashInv, PassMoved
<1>4. /\ row' = [row EXCEPT ![cur.p] = r]
      /\ UNCHANGED <<written, tree, module>>
      /\ job' = [job EXCEPT !.changed = TRUE]
      /\ cand' = [cand EXCEPT ![cur.n] = None] /\ pc' = "route"
  BY <1>3 DEF Mark, UpsertSourceFile, QuietInv, PassInv, Drop, disk
<1>5. r \in SourceRow /\ r # None /\ r.mod = m /\ r.m = tree[cur.p]
  BY <1>2, <1>3, TreeFacts DEF SourceRow
<1>6. /\ Loaded(cur.p) /\ Declared(cur.p) = m
      /\ \A q \in Path \ {cur.p} : Own(q) => Claim(q) # m
      /\ \A q \in Path : row[q] # None => tree[q] # None
  BY <1>1, <1>3 DEF QuietInv, PassInv, FilingState, RowsThere, ToForget, RunPc
<1> HIDE DEF m, r
<1>7. row'[cur.p] = r /\ \A q \in Path \ {cur.p} : row'[q] = row[q]
  BY <1>2, <1>4 DEF TypeInv, CorpusInv, CorpusTypeOK
<1>8. \A q \in Path : Loaded(q)' = Loaded(q) /\ Declared(q)' = Declared(q)
  BY <1>4 DEF Loaded, Declared
<1>9. FilesNamed' /\ RowsNamed'
  BY <1>3, <1>4, <1>5, <1>6, <1>7, <1>8 DEF QuietInv, TreeInv, FilesNamed, RowsNamed, Claim
<1>10. OneFilePerModule'
  <2>1. \A q \in Path \ {cur.p} : Own(q)' => Own(q) /\ Claim(q)' = Claim(q)
    BY <1>4, <1>7, <1>8 DEF Own, InWalk, Claim
  <2>2. \A q \in Path : q = cur.p => Claim(q)' = m
    BY <1>3, <1>4, <1>6, <1>8 DEF Claim
  <2> QED
    BY <1>6, <2>1, <2>2 DEF QuietInv, TreeInv, OneFilePerModule
<1>11. HashLoaded'
  BY <1>4, <1>6, <1>7, <1>8 DEF QuietInv, TreeInv, HashLoaded
<1>12. CandidatesRead'
  <2>1. \A u \in Name : cand'[u] # None => cand'[u] = cand[u]
    BY <1>4 DEF TypeInv, EngineInv, EngineTypeOK
  <2> QED
    BY <1>1, <1>4, <2>1 DEF QuietInv, PassInv, CandidatesRead, RunPc
<1>13. FilingState' /\ RowsThere'
  BY <1>3, <1>4, <1>6, <1>7 DEF FilingState, RowsThere, InHand
<1>14. SettledFiles'
  <2> SUFFICES ASSUME NEW q \in Path, tree[q] # None
               PROVE  (Matches(q)' /\ Loaded(q)') \/ (~InWalk(q) /\ row'[q] = None)
    BY <1>4 DEF SettledFiles, InWalk
  <2>1. CASE q = cur.p
    BY <1>4, <1>5, <1>6, <1>7, <1>8, <2>1 DEF Matches
  <2>2. CASE q # cur.p
    <3>1. (Matches(q) /\ Loaded(q)) \/ (~InWalk(q) /\ row[q] = None)
      BY <1>1, <2>2 DEF QuietInv, PassInv, SettledFiles, RunPc
    <3> QED
      BY <1>4, <1>7, <1>8, <2>2, <3>1 DEF Matches
  <2> QED
    BY <2>1, <2>2
<1>15. GhostsInHand'
  <2> SUFFICES ASSUME NEW k \in Module, module[k] # None
               PROVE  \E q \in Path : row'[q] # None /\ row'[q].mod = k
    BY <1>4 DEF GhostsInHand, InHand, Ghosts, Rows
  <2>1. CASE k = m
    BY <1>2, <1>5, <1>7, <2>1
  <2>2. CASE k # m
    <3>1. PICK q \in Path : row[q] # None /\ row[q].mod = k
      BY <1>1, <2>2 DEF QuietInv, PassInv, GhostsInHand, Ghosts, Rows, m
    <3>2. q # cur.p
      BY <1>3, <1>6, <2>2, <3>1 DEF QuietInv, TreeInv, RowsNamed, Claim
    <3> QED
      BY <1>7, <3>1, <3>2
  <2> QED
    BY <2>1, <2>2
<1>16. ValidationInv'
  BY <1>4, NoValidation DEF Validating, SyncPc
<1>17. job'.live
  BY <1>4 DEF QuietInv, PassInv, TypeInv, EngineInv, EngineTypeOK, Job
<1> QED
  BY <1>9, <1>10, <1>11, <1>12, <1>13, <1>14, <1>15, <1>16, <1>17
     DEF QuietInv, TreeInv, PassInv

LEMMA EngineRunsQuiet ==
  ASSUME Quiet, TypeInv, TypeInv', HashInv, QuietInv, EngineRuns
  PROVE  QuietInv'
BY SettleQuiet, EndPhaseQuiet, RouteForgetQuiet, MoveQuiet, SaveQuiet, MarkQuiet,
   CheckQuiet, BuildQuiet, RouteQuiet DEF EngineRuns, EngineStep

-----------------------------------------------------------------------------
(* A boot validation, and the pass that it is not.                         *)
LEMMA ValidationOnly ==
  ASSUME TypeInv, QuietInv, UNCHANGED <<job, cand>>, pc' \in SyncPc \ {"refresh"}
  PROVE  PassInv'
BY NoPass DEF QuietInv, PassInv, CandidatesRead, RunPc, SyncPc

LEMMA BootQuiet ==
  ASSUME TypeInv, TypeInv', QuietInv, NEW rebuild \in BOOLEAN, Boot(rebuild)
  PROVE  QuietInv'
<1> USE DEF Boot, disk, engineVars
<1>1. TreeInv'
  BY TreeFrame DEF QuietInv, Grows
<1>2. PassInv'
  BY ValidationOnly DEF SyncPc
<1>3. ValidationInv'
  BY NoValidation DEF Validating
<1> QED
  BY <1>1, <1>2, <1>3 DEF QuietInv

LEMMA StopQuiet ==
  ASSUME TypeInv, TypeInv', QuietInv, Stop
  PROVE  QuietInv'
<1> USE DEF Stop, disk, store
<1>1. TreeInv'
  BY TreeFrame DEF QuietInv, Grows
<1>2. PassInv'
  BY NoPass DEF NoJob, NoCandidates, RunPc
<1>3. ValidationInv'
  BY NoValidation DEF Validating, SyncPc
<1> QED
  BY <1>1, <1>2, <1>3 DEF QuietInv

(* The rows listed by a validation are the ones of the store. *)
LEMMA SyncWalkQuiet ==
  ASSUME TypeInv, TypeInv', QuietInv, UNCHANGED engineVars, SyncWalk
  PROVE  QuietInv'
<1> USE DEF SyncWalk, disk, store, engineVars
<1>1. TreeInv'
  BY TreeFrame DEF QuietInv, Grows
<1>2. fresh = NoPaths
  BY DEF TypeInv, SyncInv, SyncState
<1>3. StatsCurrent'
  BY DEF StatsCurrent, InWalk
<1>4. KnownRows'
  <2>1. \A p, q \in Kept(row) : row[p].mod = row[q].mod => p = q
    BY DEF Kept, QuietInv, TreeInv, RowsNamed, OneFilePerModule, Own, Claim
  <2> QED
    BY <2>1 DEF KnownRows, Kept
<1>5. Forgetting'
  BY DEF Forgetting
<1>6. FoundFiles' /\ LostFiles'
  BY DEF FoundFiles, LostFiles, Validating
<1>7. ResultsCurrent'
  BY <1>2 DEF ResultsCurrent, NoPaths
<1>8. PassInv'
  BY ValidationOnly DEF SyncPc
<1> QED
  BY <1>1, <1>3, <1>4, <1>5, <1>6, <1>7, <1>8 DEF QuietInv, ValidationInv

(* A step of a validation leaves the disk and the stats alone. *)
LEMMA ValidationStats ==
  ASSUME QuietInv, UNCHANGED <<tree, onDisk>>, pc \in Validating
  PROVE  StatsCurrent'
BY DEF QuietInv, ValidationInv, StatsCurrent, InWalk

LEMMA RowsDisappear ==
  ASSUME TypeInv, QuietInv, UNCHANGED <<disk, module>>,
         \A p \in Path : row'[p] \in {row[p], None}
  PROVE  TreeInv'
BY TreeFrame DEF QuietInv, Grows, disk

(* A path of the walk is trusted, recorded again, or queued to compile. *)
LEMMA SyncDiffQuiet ==
  ASSUME TypeInv, TypeInv', QuietInv, UNCHANGED engineVars, NEW p \in Path, SyncDiff(p)
  PROVE  QuietInv'
<1> USE DEF SyncDiff
<1>1. /\ pc = "diff" /\ pc' = "diff" /\ p \in left /\ left' = left \ {p}
      /\ UNCHANGED <<disk, written, tree, module, known, onDisk, job, cand>>
  BY DEF disk, engineVars
<1>2. /\ InWalk(p) /\ tree[p] # None /\ onDisk[p] = tree[p] /\ p \in Kept(onDisk)
      /\ row[p] = known[p] /\ HasMIBOpener(p)
  <2>1. p \in Kept(onDisk) /\ onDisk[p] # None
    BY <1>1 DEF TypeInv, SyncInv, SyncState, Kept
  <2>2. InWalk(p) /\ tree[p] = onDisk[p]
    BY <1>1, <2>1, FoundFacts DEF QuietInv, ValidationInv, Validating, SyncPc
  <2>3. HasMIBOpener(p)
    BY <2>1, <2>2 DEF HasMIBOpener, QuietInv, TreeInv, FilesNamed
  <2> QED
    BY <1>1, <2>1, <2>2, <2>3 DEF QuietInv, ValidationInv, KnownRows
<1>3. PassInv'
  BY <1>1, ValidationOnly DEF SyncPc
<1>4. StatsCurrent' /\ Forgetting' /\ LostFiles'
  BY <1>1, ValidationStats DEF Validating, SyncPc, Forgetting, LostFiles
<1>5. CASE Trusted(p) /\ UNCHANGED <<row, fresh>>
  <2>1. Matches(p)
    BY <1>2, <1>5 DEF Trusted, Matches
  <2>2. TreeInv'
    BY <1>1, <1>5, RowsDisappear
  <2>3. KnownRows' /\ FoundFiles'
    BY <1>1, <1>5, <2>1 DEF QuietInv, ValidationInv, KnownRows, FoundFiles, Kept, Matches,
       Pending, Validating, SyncPc
  <2>4. ResultsCurrent'
    BY <1>1, <1>5 DEF QuietInv, ValidationInv, ResultsCurrent
  <2> QED
    BY <1>3, <1>4, <2>2, <2>3, <2>4 DEF QuietInv, ValidationInv
<1>6. CASE /\ known[p] # None /\ known[p].sha = written[tree[p]] /\ UNCHANGED fresh
           /\ UpsertSourceFile(p, onDisk[p], known[p].sha, known[p].mod)
  <2> DEFINE r == [m |-> onDisk[p], sha |-> known[p].sha, mod |-> known[p].mod]
  <2>1. r \in SourceRow /\ r # None /\ r.m = tree[p] /\ r.sha = written[tree[p]]
        /\ r.mod = row[p].mod /\ row[p] # None /\ row[p].sha = written[tree[p]]
    BY <1>2, <1>6, TreeFacts, RowFacts DEF SourceRow
  <2>2. row' = [row EXCEPT ![p] = r]
    BY <1>6 DEF UpsertSourceFile
  <2> HIDE DEF r
  <2>3. row'[p] = r /\ \A q \in Path \ {p} : row'[q] = row[q]
    BY <2>2 DEF TypeInv, CorpusInv, CorpusTypeOK
  <2>4. \A q \in Path : /\ Loaded(q)' = Loaded(q) /\ Declared(q)' = Declared(q)
                        /\ Own(q)' = Own(q) /\ Claim(q)' = Claim(q)
    BY <1>1, <2>1, <2>3 DEF Loaded, Declared, Own, Claim, InWalk
  <2>5. TreeInv'
    BY <1>1, <2>1, <2>3, <2>4 DEF QuietInv, TreeInv, FilesNamed, RowsNamed, OneFilePerModule,
       HashLoaded
  <2>6. KnownRows'
    BY <1>1, <1>6, <2>1, <2>3 DEF QuietInv, ValidationInv, KnownRows, Kept, TypeInv,
       SyncInv, SyncTypeOK
  <2>7. FoundFiles'
    BY <1>1, <1>6, <2>1, <2>3 DEF QuietInv, ValidationInv, FoundFiles, Kept, Matches,
       Pending, Validating, SyncPc
  <2>8. ResultsCurrent'
    BY <1>1, <1>6 DEF QuietInv, ValidationInv, ResultsCurrent
  <2> QED
    BY <1>3, <1>4, <2>5, <2>6, <2>7, <2>8 DEF QuietInv, ValidationInv
<1>7. CASE /\ fresh' = [fresh EXCEPT ![p] = [sha |-> written[tree[p]], built |-> None]]
           /\ UNCHANGED row
  <2> DEFINE r == [sha |-> written[tree[p]], built |-> None]
  <2>1. r \in SyncResult /\ r # None /\ r.sha = written[tree[p]] /\ r.built = None
    BY <1>2, TreeFacts DEF SyncResult
  <2>2. fresh' = [fresh EXCEPT ![p] = r]
    BY <1>7
  <2> HIDE DEF r
  <2>3. fresh'[p] = r /\ \A q \in Path \ {p} : fresh'[q] = fresh[q]
    BY <2>2 DEF TypeInv, SyncInv, SyncTypeOK
  <2>4. TreeInv'
    BY <1>1, <1>7, RowsDisappear
  <2>5. KnownRows'
    BY <1>1, <1>7 DEF QuietInv, ValidationInv, KnownRows, Kept
  <2>6. FoundFiles'
    BY <1>1, <1>7, <2>1, <2>3 DEF QuietInv, ValidationInv, FoundFiles, Kept, Matches,
       Pending, Validating, SyncPc
  <2>7. ResultsCurrent'
    BY <1>1, <2>1, <2>3 DEF QuietInv, ValidationInv, ResultsCurrent
  <2> QED
    BY <1>3, <1>4, <2>4, <2>5, <2>6, <2>7 DEF QuietInv, ValidationInv
<1> QED
  <2>1. CASE known[p] # None /\ known[p].sha = written[tree[p]]
    BY <1>2, <1>5, <1>6, <2>1
  <2>2. CASE ~(known[p] # None /\ known[p].sha = written[tree[p]])
    BY <1>2, <1>5, <1>7, <2>2
  <2> QED
    BY <2>1, <2>2

(* A phase ends: what it had to do is done. *)
LEMMA EndDiffQuiet ==
  ASSUME TypeInv, TypeInv', QuietInv, UNCHANGED engineVars, EndDiff
  PROVE  QuietInv'
<1> USE DEF EndDiff, disk, store, engineVars
<1>1. TreeInv' /\ PassInv'
  BY RowsDisappear, ValidationOnly DEF SyncPc
<1>2. StatsCurrent'
  BY ValidationStats DEF Validating, SyncPc
<1>3. KnownRows' /\ Forgetting'
  BY DEF QuietInv, ValidationInv, KnownRows, Forgetting
<1>4. FoundFiles'
  BY DEF QuietInv, ValidationInv, FoundFiles, Matches, Pending, Kept, Validating, SyncPc
<1>5. LostFiles'
  BY DEF QuietInv, ValidationInv, LostFiles, KnownRows, Kept
<1>6. ResultsCurrent'
  BY DEF QuietInv, ValidationInv, ResultsCurrent
<1> QED
  BY <1>1, <1>2, <1>3, <1>4, <1>5, <1>6 DEF QuietInv, ValidationInv

(* The row of a path that the walk did not find goes. *)
LEMMA SyncForgetQuiet ==
  ASSUME TypeInv, TypeInv', QuietInv, UNCHANGED engineVars, NEW p \in Path, SyncForget(p)
  PROVE  QuietInv'
<1> USE DEF SyncForget, disk, engineVars
<1>1. \A q \in Path : row'[q] = IF q = p THEN None ELSE row[q]
  BY DEF TypeInv, CorpusInv, CorpusTypeOK
<1>2. p \in Kept(known) \ Kept(onDisk) /\ pc' \in {"vanish", "drop"}
  BY DEF QuietInv, ValidationInv, Forgetting
<1>3. TreeInv' /\ PassInv'
  BY <1>1, <1>2, RowsDisappear, ValidationOnly DEF SyncPc
<1>4. StatsCurrent'
  BY ValidationStats DEF Validating, SyncPc
<1>5. KnownRows'
  BY <1>1, <1>2 DEF QuietInv, ValidationInv, KnownRows, Kept
<1>6. Forgetting'
  BY <1>1, <1>2 DEF QuietInv, ValidationInv, Forgetting, Kept
<1>7. FoundFiles'
  BY <1>1, <1>2 DEF QuietInv, ValidationInv, FoundFiles, Matches, Pending, Kept,
     Validating, SyncPc
<1>8. LostFiles'
  BY <1>1, <1>2 DEF QuietInv, ValidationInv, LostFiles, Kept, Validating, SyncPc
<1>9. ResultsCurrent'
  BY <1>2 DEF QuietInv, ValidationInv, ResultsCurrent
<1> QED
  BY <1>3, <1>4, <1>5, <1>6, <1>7, <1>8, <1>9 DEF QuietInv, ValidationInv

(* The module nobody backs goes; no other file's row is under its name.    *)
LEMMA SyncDropQuiet ==
  ASSUME TypeInv, TypeInv', QuietInv, UNCHANGED engineVars, SyncDrop
  PROVE  QuietInv'
<1> USE DEF SyncDrop, disk, engineVars
<1>1. at \in Kept(known) /\ row[at] = None
  BY DEF QuietInv, ValidationInv, Forgetting
<1>2. \A k \in Module : k # known[at].mod => module'[k] = module[k]
  BY DEF TypeInv, CorpusInv, CorpusTypeOK
<1>3. ASSUME NEW q \in Path, row[q] # None, tree[q] # None, Loaded(q)
      PROVE  Loaded(q)'
  <2>1. Declared(q) = row[q].mod /\ row[q].mod \in Module
    BY <1>3, RowFacts DEF QuietInv, TreeInv, RowsNamed, Claim
  <2>2. Declared(q) # known[at].mod
    BY <1>1, <1>3, <2>1 DEF QuietInv, ValidationInv, KnownRows, Kept
  <2> QED
    BY <1>2, <1>3, <2>1, <2>2 DEF Loaded, Declared
<1>4. TreeInv'
  <2>1. FilesNamed' /\ RowsNamed' /\ OneFilePerModule'
    BY DEF QuietInv, TreeInv, FilesNamed, RowsNamed, OneFilePerModule, Own, InWalk, Claim,
       Declared
  <2>2. HashLoaded'
    BY <1>3 DEF QuietInv, TreeInv, HashLoaded
  <2> QED
    BY <2>1, <2>2 DEF TreeInv
<1>5. PassInv' /\ StatsCurrent'
  BY ValidationOnly, ValidationStats DEF Validating, SyncPc
<1>6. KnownRows' /\ Forgetting'
  BY DEF QuietInv, ValidationInv, KnownRows, Forgetting, Kept
<1>7. FoundFiles' /\ LostFiles'
  BY DEF QuietInv, ValidationInv, FoundFiles, LostFiles, Matches, Pending, Kept,
     Validating, SyncPc
<1>8. ResultsCurrent'
  BY DEF QuietInv, ValidationInv, ResultsCurrent
<1> QED
  BY <1>4, <1>5, <1>6, <1>7, <1>8 DEF QuietInv, ValidationInv

LEMMA EndVanishQuiet ==
  ASSUME TypeInv, TypeInv', QuietInv, UNCHANGED engineVars, EndVanish
  PROVE  QuietInv'
<1> USE DEF EndVanish, disk, store, engineVars
<1>1. TreeInv' /\ PassInv'
  BY RowsDisappear, ValidationOnly DEF SyncPc
<1>2. StatsCurrent'
  BY ValidationStats DEF Validating, SyncPc
<1>3. KnownRows' /\ Forgetting'
  BY DEF KnownRows, Forgetting
<1>4. FoundFiles' /\ LostFiles'
  BY DEF QuietInv, ValidationInv, FoundFiles, LostFiles, Matches, Pending, Kept,
     Validating, SyncPc
<1>5. ResultsCurrent'
  BY DEF QuietInv, ValidationInv, ResultsCurrent, Kept
<1> QED
  BY <1>1, <1>2, <1>3, <1>4, <1>5 DEF QuietInv, ValidationInv

(* smidump reads the file that was hashed, and accepts it. *)
LEMMA SyncBuildQuiet ==
  ASSUME Quiet, TypeInv, TypeInv', QuietInv, UNCHANGED engineVars,
         NEW p \in Path, SyncBuild(p)
  PROVE  QuietInv'
<1> USE DEF SyncBuild, disk, store, engineVars
<1>1. fresh[p] # None
  BY DEF TypeInv, SyncInv, SyncState, Kept
<1>2. tree[p] # None
  BY <1>1, FreshFacts DEF QuietInv, ValidationInv
<1>3. SyncResults(p) = {tree[p]}
  BY <1>2 DEF SyncResults, Quiet, QuietInv, TreeInv, FilesNamed, Declared
<1>4. fresh' = [fresh EXCEPT ![p].built = tree[p]]
  BY <1>3
<1>5. /\ \A q \in Path \ {p} : fresh'[q] = fresh[q]
      /\ fresh'[p] # None /\ fresh'[p].sha = fresh[p].sha /\ fresh'[p].built = tree[p]
  <2> DEFINE r == [fresh[p] EXCEPT !.built = tree[p]]
  <2>1. fresh[p] \in SyncResult /\ tree[p] \in Stamp
    BY <1>1, <1>2, TreeFacts DEF TypeInv, SyncInv, SyncTypeOK
  <2>2. r \in SyncResult /\ r # None /\ r.sha = fresh[p].sha /\ r.built = tree[p]
    BY <2>1 DEF SyncResult
  <2>3. fresh' = [fresh EXCEPT ![p] = r]
    BY <1>4
  <2> HIDE DEF r
  <2> QED
    BY <2>2, <2>3 DEF TypeInv, SyncInv, SyncTypeOK
<1>6. TreeInv' /\ PassInv'
  BY RowsDisappear, ValidationOnly DEF SyncPc
<1>7. StatsCurrent'
  BY ValidationStats DEF Validating, SyncPc
<1>8. KnownRows' /\ Forgetting'
  BY DEF KnownRows, Forgetting
<1>9. FoundFiles' /\ LostFiles'
  BY <1>1, <1>5 DEF QuietInv, ValidationInv, FoundFiles, LostFiles, Matches, Pending,
     Kept, Validating, SyncPc
<1>10. ResultsCurrent'
  BY <1>1, <1>5 DEF QuietInv, ValidationInv, ResultsCurrent
<1> QED
  BY <1>6, <1>7, <1>8, <1>9, <1>10 DEF QuietInv, ValidationInv

LEMMA EndSyncBuildQuiet ==
  ASSUME TypeInv, TypeInv', QuietInv, UNCHANGED engineVars, EndSyncBuild
  PROVE  QuietInv'
<1> USE DEF EndSyncBuild, disk, store, engineVars
<1>1. TreeInv' /\ PassInv'
  BY RowsDisappear, ValidationOnly DEF SyncPc
<1>2. StatsCurrent'
  BY ValidationStats DEF Validating, SyncPc
<1>3. KnownRows' /\ Forgetting'
  BY DEF KnownRows, Forgetting
<1>4. FoundFiles' /\ LostFiles'
  BY DEF QuietInv, ValidationInv, FoundFiles, LostFiles, Matches, Pending, Kept,
     Validating, SyncPc
<1>5. ResultsCurrent'
  BY DEF QuietInv, ValidationInv, ResultsCurrent
<1> QED
  BY <1>1, <1>2, <1>3, <1>4, <1>5 DEF QuietInv, ValidationInv

(* The module of the file is stored from what is there now. *)
LEMMA SyncLoadQuiet ==
  ASSUME TypeInv, TypeInv', QuietInv, UNCHANGED engineVars, NEW p \in Path, SyncLoad(p)
  PROVE  QuietInv'
<1> DEFINE c == written[tree[p]]
<1>1. /\ pc = "load" /\ p \in left /\ left' = left \ {p}
      /\ UNCHANGED <<disk, written, tree, trie, known, onDisk, fresh, job, cand>>
  BY DEF SyncLoad, disk, engineVars
<1>2. fresh[p] # None
  BY <1>1 DEF TypeInv, SyncInv, SyncState, Kept
<1>3. tree[p] \in Stamp /\ onDisk[p] = tree[p] /\ InWalk(p) /\ tree[p] # None
  BY <1>2, FreshFacts, TreeFacts DEF QuietInv, ValidationInv
<1>4. fresh[p].built = tree[p]
  BY <1>1, <1>2 DEF QuietInv, ValidationInv, ResultsCurrent
<1>5. /\ module' = [module EXCEPT ![Declared(p)] = [c |-> c, src |-> p]]
      /\ pc' = "stamp" /\ at' = p /\ UNCHANGED row
  BY <1>3, <1>4 DEF SyncLoad, ReplaceModule, Declared
<1>6. Declared(p) \in Module
  BY <1>3, TreeFacts DEF QuietInv, TreeInv, FilesNamed
<1>7. /\ module'[Declared(p)] = [c |-> c, src |-> p]
      /\ \A k \in Module \ {Declared(p)} : module'[k] = module[k]
  BY <1>5, <1>6 DEF TypeInv, CorpusInv, CorpusTypeOK
<1>8. Loaded(p)'
  BY <1>1, <1>7 DEF Loaded, Declared
<1>9. ASSUME NEW q \in Path, q # p, row[q] # None, tree[q] # None, Loaded(q)
      PROVE  Loaded(q)'
  <2>1. Declared(q) \in Module
    BY <1>9, RowFacts DEF QuietInv, TreeInv, RowsNamed, Claim
  <2>2. Own(q) /\ Own(p)
    BY <1>3, <1>9 DEF Own
  <2>3. Declared(q) # Declared(p)
    BY <1>3, <1>9, <2>2 DEF QuietInv, TreeInv, OneFilePerModule, Claim
  <2> QED
    BY <1>1, <1>7, <1>9, <2>1, <2>3 DEF Loaded, Declared
<1>10. TreeInv'
  <2>1. FilesNamed' /\ RowsNamed' /\ OneFilePerModule'
    BY <1>1, <1>5 DEF QuietInv, TreeInv, FilesNamed, RowsNamed, OneFilePerModule, Own,
       InWalk, Claim, Declared
  <2>2. HashLoaded'
    BY <1>1, <1>5, <1>8, <1>9 DEF QuietInv, TreeInv, HashLoaded
  <2> QED
    BY <2>1, <2>2 DEF TreeInv
<1>11. PassInv' /\ StatsCurrent'
  BY <1>1, <1>5, ValidationOnly, ValidationStats DEF Validating, SyncPc
<1>12. KnownRows' /\ Forgetting'
  BY <1>5 DEF KnownRows, Forgetting
<1>13. FoundFiles' /\ LostFiles'
  BY <1>1, <1>5 DEF QuietInv, ValidationInv, FoundFiles, LostFiles, Matches, Pending,
     Kept, Validating, SyncPc
<1>14. ResultsCurrent'
  BY <1>1, <1>5, <1>8 DEF QuietInv, ValidationInv, ResultsCurrent
<1> QED
  BY <1>10, <1>11, <1>12, <1>13, <1>14 DEF QuietInv, ValidationInv

(* ... and only then its fingerprint. *)
LEMMA SyncStampQuiet ==
  ASSUME TypeInv, TypeInv', QuietInv, UNCHANGED engineVars, SyncStamp
  PROVE  QuietInv'
<1> DEFINE r == [m |-> onDisk[at], sha |-> fresh[at].sha,
                 mod |-> ModuleOf[written[fresh[at].built]]]
<1>1. /\ pc = "stamp" /\ pc' = "load" /\ at' = None
      /\ UNCHANGED <<disk, written, tree, module, known, onDisk, fresh, left, job, cand>>
      /\ row' = [row EXCEPT ![at] = r]
  BY DEF SyncStamp, UpsertSourceFile, disk, engineVars
<1>2. at \in Path /\ fresh[at] # None
  BY <1>1 DEF TypeInv, SyncInv, SyncState
<1>3. /\ tree[at] \in Stamp /\ onDisk[at] = tree[at] /\ InWalk(at) /\ tree[at] # None
      /\ written[tree[at]] \in Content /\ Declared(at) \in Module
  BY <1>2, FreshFacts, TreeFacts DEF QuietInv, ValidationInv, TreeInv, FilesNamed
<1>4. fresh[at].built = tree[at] /\ fresh[at].sha = written[tree[at]] /\ Loaded(at)
  BY <1>1, <1>2 DEF QuietInv, ValidationInv, ResultsCurrent
<1>5. /\ r \in SourceRow /\ r # None
      /\ r.m = tree[at] /\ r.sha = written[tree[at]] /\ r.mod = Declared(at)
  BY <1>3, <1>4 DEF SourceRow, Declared
<1> HIDE DEF r
<1>6. row'[at] = r /\ \A q \in Path \ {at} : row'[q] = row[q]
  BY <1>1, <1>2 DEF TypeInv, CorpusInv, CorpusTypeOK
<1>7. \A q \in Path : Loaded(q)' = Loaded(q) /\ Declared(q)' = Declared(q)
  BY <1>1 DEF Loaded, Declared
<1>8. \A q \in Path : Own(q)' = Own(q) /\ Claim(q)' = Claim(q)
  BY <1>1, <1>3, <1>6, <1>7 DEF Own, Claim, InWalk
<1>9. TreeInv'
  <2>1. Claim(at) = Declared(at)
    BY <1>3 DEF Claim
  <2> QED
    BY <1>1, <1>2, <1>3, <1>4, <1>5, <1>6, <1>7, <1>8, <2>1 DEF QuietInv, TreeInv, FilesNamed,
       RowsNamed, OneFilePerModule, HashLoaded
<1>10. PassInv' /\ StatsCurrent'
  BY <1>1, ValidationOnly, ValidationStats DEF Validating, SyncPc
<1>11. KnownRows' /\ Forgetting'
  BY <1>1 DEF KnownRows, Forgetting
<1>12. FoundFiles'
  BY <1>1, <1>5, <1>6 DEF QuietInv, ValidationInv, FoundFiles, Matches, Pending,
     Kept, Validating, SyncPc
<1>13. LostFiles'
  BY <1>1, <1>3, <1>6 DEF QuietInv, ValidationInv, LostFiles, Kept, Validating, SyncPc
<1>14. ResultsCurrent'
  BY <1>1 DEF QuietInv, ValidationInv, ResultsCurrent
<1> QED
  BY <1>9, <1>10, <1>11, <1>12, <1>13, <1>14 DEF QuietInv, ValidationInv

LEMMA EndLoadQuiet ==
  ASSUME TypeInv, TypeInv', QuietInv, UNCHANGED engineVars, EndLoad
  PROVE  QuietInv'
<1> USE DEF EndLoad, disk, store, engineVars, syncVars
<1>1. TreeInv' /\ PassInv'
  BY RowsDisappear, ValidationOnly DEF SyncPc
<1>2. StatsCurrent'
  BY ValidationStats DEF Validating, SyncPc
<1>3. KnownRows' /\ Forgetting'
  BY DEF KnownRows, Forgetting
<1>4. FoundFiles' /\ LostFiles'
  BY DEF QuietInv, ValidationInv, FoundFiles, LostFiles, Matches, Pending, Kept,
     Validating, SyncPc
<1>5. ResultsCurrent'
  BY DEF QuietInv, ValidationInv, ResultsCurrent
<1> QED
  BY <1>1, <1>2, <1>3, <1>4, <1>5 DEF QuietInv, ValidationInv

(* A module without a row goes: no file with a row is under its name. *)
LEMMA SyncPruneQuiet ==
  ASSUME TypeInv, TypeInv', QuietInv, UNCHANGED engineVars, NEW m \in Module, SyncPrune(m)
  PROVE  QuietInv'
<1> USE DEF SyncPrune, disk, engineVars
<1>1. \A k \in Module \ {m} : module'[k] = module[k]
  BY DEF TypeInv, CorpusInv, CorpusTypeOK
<1>2. ASSUME NEW q \in Path, row[q] # None, tree[q] # None, Loaded(q)
      PROVE  Loaded(q)'
  <2>1. Declared(q) = row[q].mod /\ row[q].mod \in Module
    BY <1>2, RowFacts DEF QuietInv, TreeInv, RowsNamed, Claim
  <2>2. Declared(q) # m
    BY <1>2, <2>1 DEF Ghosts, Rows
  <2> QED
    BY <1>1, <1>2, <2>1, <2>2 DEF Loaded, Declared
<1>3. TreeInv'
  <2>1. FilesNamed' /\ RowsNamed' /\ OneFilePerModule'
    BY DEF QuietInv, TreeInv, FilesNamed, RowsNamed, OneFilePerModule, Own, InWalk, Claim,
       Declared
  <2>2. HashLoaded'
    BY <1>2 DEF QuietInv, TreeInv, HashLoaded
  <2> QED
    BY <2>1, <2>2 DEF TreeInv
<1>4. PassInv' /\ StatsCurrent'
  BY ValidationOnly, ValidationStats DEF Validating, SyncPc
<1>5. KnownRows' /\ Forgetting'
  BY DEF KnownRows, Forgetting
<1>6. FoundFiles' /\ LostFiles'
  BY DEF QuietInv, ValidationInv, FoundFiles, LostFiles, Matches, Pending, Kept,
     Validating, SyncPc
<1>7. ResultsCurrent'
  BY DEF QuietInv, ValidationInv, ResultsCurrent
<1> QED
  BY <1>3, <1>4, <1>5, <1>6, <1>7 DEF QuietInv, ValidationInv

(* No such module is left. *)
LEMMA EndPruneQuiet ==
  ASSUME TypeInv, TypeInv', QuietInv, UNCHANGED engineVars, EndPrune
  PROVE  QuietInv'
<1> USE DEF EndPrune, disk, store, engineVars, syncVars
<1>1. TreeInv'
  BY RowsDisappear
<1>2. GhostsInHand'
  BY DEF GhostsInHand, InHand, Ghosts, Rows
<1>3. PassInv'
  BY <1>2 DEF QuietInv, PassInv, CandidatesRead, FilingState, RowsThere, SettledFiles,
     InHand, RunPc
<1>4. StatsCurrent'
  BY ValidationStats DEF Validating, SyncPc
<1>5. KnownRows' /\ Forgetting'
  BY DEF KnownRows, Forgetting
<1>6. FoundFiles' /\ LostFiles'
  BY DEF QuietInv, ValidationInv, FoundFiles, LostFiles, Matches, Pending, Kept,
     Validating, SyncPc
<1>7. ResultsCurrent'
  BY DEF QuietInv, ValidationInv, ResultsCurrent
<1> QED
  BY <1>1, <1>3, <1>4, <1>5, <1>6, <1>7 DEF QuietInv, ValidationInv

(* Every file the walk found is trusted, every row is of such a file. *)
LEMMA ValidatedFacts ==
  ASSUME TypeInv, HashInv, QuietInv, pc = "refresh", NEW p \in Path
  PROVE  /\ tree[p] # None /\ InWalk(p) => Matches(p) /\ Loaded(p)
         /\ row[p] # None => tree[p] # None /\ InWalk(p)
<1> USE DEF QuietInv, ValidationInv, Validating, SyncPc
<1>1. /\ onDisk[p] # None => InWalk(p) /\ tree[p] = onDisk[p]
      /\ InWalk(p) => onDisk[p] = tree[p]
  BY FoundFacts
<1>2. onDisk[p] # None => Matches(p)
  BY DEF FoundFiles, Kept
<1>3. row[p] # None => onDisk[p] # None
  BY DEF LostFiles, Kept
<1>4. Matches(p) => Loaded(p)
  BY RowFacts DEF HashInv, FingerprintSound, Matches, TreeInv, HashLoaded
<1> QED
  BY <1>1, <1>2, <1>3, <1>4

LEMMA SyncRefreshQuiet ==
  ASSUME TypeInv, TypeInv', HashInv, QuietInv, UNCHANGED engineVars, SyncRefresh
  PROVE  QuietInv'
<1> USE DEF SyncRefresh, disk, engineVars
<1>1. TreeInv'
  BY RowsDisappear
<1>2. SettledFiles' /\ RowsThere'
  BY ValidatedFacts DEF SettledFiles, RowsThere, Matches, Loaded, Declared, InWalk
<1>3. GhostsInHand'
  BY DEF QuietInv, PassInv, GhostsInHand, InHand, Ghosts, Rows
<1>4. PassInv'
  BY <1>2, <1>3 DEF QuietInv, PassInv, CandidatesRead, FilingState, InHand, RunPc
<1>5. ValidationInv'
  BY NoValidation DEF Validating, SyncPc
<1> QED
  BY <1>1, <1>4, <1>5 DEF QuietInv

LEMMA SyncRunsQuiet ==
  ASSUME Quiet, TypeInv, TypeInv', HashInv, QuietInv, SyncRuns
  PROVE  QuietInv'
BY SyncWalkQuiet, EndDiffQuiet, SyncDropQuiet, EndVanishQuiet, EndSyncBuildQuiet,
   SyncStampQuiet, EndLoadQuiet, SyncPruneQuiet, EndPruneQuiet, SyncRefreshQuiet,
   SyncDiffQuiet, SyncForgetQuiet, SyncBuildQuiet, SyncLoadQuiet DEF SyncRuns, SyncStep

-----------------------------------------------------------------------------
LEMMA NextQuiet ==
  ASSUME Quiet, TypeInv, TypeInv', HashInv, QuietInv, [Next]_vars
  PROVE  QuietInv'
<1>1. ASSUME NEW batch \in SUBSET Name, WatcherBegin(batch) PROVE QuietInv'
  BY <1>1, BeginQuiet DEF WatcherBegin
<1>2. CASE Client
  <2>1. Active(sent) \in SUBSET Name /\ repl \in BOOLEAN
    BY DEF Active, TypeInv, ClientInv
  <2>2. CASE RequestBegin
    BY <2>1, <2>2, BeginQuiet, ZenonT(60) DEF RequestBegin
  <2> QED
    BY <1>2, <2>2, StagingQuiet DEF Client
<1>3. CASE RescanBegin
  <2>1. Active(intake) \in SUBSET Name
    BY DEF Active
  <2> QED
    BY <1>1, <1>3, <2>1 DEF RescanBegin
<1>4. ~RequestCancel
  BY DEF RequestCancel, Cancel, Quiet
<1> QED
  BY <1>1, <1>2, <1>3, <1>4, EnvironmentQuiet, EngineRunsQuiet, SyncRunsQuiet, BootQuiet,
     StopQuiet, StagingQuiet DEF Next

-----------------------------------------------------------------------------
(* What the invariant says of the corpus.                                  *)

LEMMA QuietTrusted ==
  ASSUME TypeInv, HashInv, QuietInv
  PROVE  TrustedFilesAreLoaded
<1> SUFFICES ASSUME NEW p \in Path, Matches(p)
             PROVE  module[row[p].mod] = [c |-> written[tree[p]], src |-> p]
  BY DEF TrustedFilesAreLoaded
<1>1. row[p] # None /\ tree[p] # None /\ row[p].sha = written[tree[p]]
  BY RowFacts DEF Matches, HashInv, FingerprintSound
<1>2. Loaded(p) /\ row[p].mod = Declared(p)
  BY <1>1 DEF QuietInv, TreeInv, HashLoaded, RowsNamed, Claim
<1> QED
  BY <1>2 DEF Loaded

LEMMA QuietServed ==
  ASSUME TypeInv, HashInv, QuietInv
  PROVE  ServedFromDisk
<1> SUFFICES ASSUME pc = "refresh", NEW m \in Module, module[m] # None
             PROVE  /\ tree[module[m].src] # None
                    /\ written[tree[module[m].src]] = module[m].c
  BY DEF ServedFromDisk
<1>1. PICK r \in Path : row[r] # None /\ row[r].mod = m
  BY DEF QuietInv, PassInv, GhostsInHand, InHand, Ghosts, Rows
<1>2. tree[r] # None /\ Loaded(r)
  BY <1>1, ValidatedFacts
<1>3. Declared(r) = m
  BY <1>1, <1>2 DEF QuietInv, TreeInv, RowsNamed, Claim
<1> QED
  BY <1>2, <1>3 DEF Loaded

LEMMA QuietCurated ==
  ASSUME QuietInv, \A p \in Path : InWalk(p)
  PROVE  OneCuratedCopy
BY DEF OneCuratedCopy, QuietInv, TreeInv, OneFilePerModule, Own, Claim, Declared

(* The invariant holds of every quiet corpus, with the types and the       *)
(* hashes it rests on.                                                     *)
THEOREM QuietCorpus ==
  ASSUME Quiet
  PROVE  Spec => [](TypeInv /\ HashInv /\ QuietInv)
<1>1. NoRace
  BY DEF Quiet, NoRace
<1>2. TypeInv /\ HashInv /\ QuietInv /\ [Next]_vars => TypeInv' /\ HashInv' /\ QuietInv'
  BY <1>1, NextTypeInv, NextHash, NextQuiet
<1> QED
  BY <1>2, InitTypeInv, InitHashInv, InitQuiet, PTL DEF Spec

(* What boot trusts without reading it is loaded: where the stat of a file *)
(* matches its row, the store holds the module built from its bytes,       *)
(* wherever earlier processes stopped between moveFile, ReplaceModule and  *)
(* UpsertSourceFile.                                                       *)
THEOREM TrustedAreLoaded ==
  ASSUME Quiet
  PROVE  Spec => []TrustedFilesAreLoaded
BY QuietCorpus, QuietTrusted, PTL

(* Whenever a validation ends, every served module was built from the      *)
(* bytes now at its source path (SyncCorpus).                              *)
THEOREM ServedIsOnDisk ==
  ASSUME Quiet
  PROVE  Spec => []ServedFromDisk
BY QuietCorpus, QuietServed, PTL

(* Between passes every stored module has its fingerprint: interrupted     *)
(* passes leave no ghosts past the next boot (pruneGhosts).                *)
THEOREM NoGhosts ==
  ASSUME Quiet
  PROVE  Spec => []NoGhostModules
<1>1. QuietInv => NoGhostModules
  BY DEF QuietInv, PassInv, GhostsInHand, NoGhostModules, InHand
<1> QED
  BY <1>1, QuietCorpus, PTL

(* Where the walk sees every name, no content is curated twice, not even   *)
(* when a cross-device move leaves its source behind and the process dies  *)
(* before it has recorded the file.                                        *)
THEOREM CuratedOnce ==
  ASSUME Quiet, \A p \in Path : InWalk(p)
  PROVE  Spec => []OneCuratedCopy
BY QuietCorpus, QuietCurated, PTL

-----------------------------------------------------------------------------
(* No move destroys a file.                                                *)

(* The bytes of s are still somewhere after the step. *)
LEMMA StillThere ==
  ASSUME TypeInv, Grows, NEW s \in Stamp, Placed(s),
         NEW t \in Stamp, Placed(t)', written'[t] = written[s]
  PROVE  Preserved(written[s])'
<1>1. written[s] # None
  BY DEF Placed, TypeInv, CorpusInv, IntakeWritten, QuarWritten, TreeWritten
<1> QED
  BY <1>1 DEF Preserved, Grows

LEMMA DiskKept ==
  ASSUME TypeInv, UNCHANGED disk, NEW s \in Stamp, Placed(s)
  PROVE  Preserved(written[s])'
<1>1. Grows /\ Placed(s)' /\ written'[s] = written[s]
  BY DEF disk, Grows, Placed
<1> QED
  BY <1>1, StillThere

LEMMA QuarantineKeeps ==
  ASSUME TypeInv, NEW n \in Name, NEW k \in Quarantine, Quarantined(n, k),
         NEW s \in Stamp, Placed(s)
  PROVE  Preserved(written[s])'
<1>1. CASE QuarantineStuck(n)
  BY <1>1, DiskKept DEF QuarantineStuck, Quarantined, disk
<1>2. CASE QuarantineMoved(n, k)
  <2>1. PICK d \in UniqueNames(quar[k], n), mv \in Moves(intake[n]) :
          /\ quar' = [quar EXCEPT ![k][d] = mv.dst]
          /\ intake' = [intake EXCEPT ![n] = mv.src]
          /\ written' = mv.wr /\ intake[n] # None
    BY <1>2 DEF QuarantineMoved
  <2>2. d \in Name /\ quar[k][d] = None
    BY <2>1 DEF UniqueNames
  <2>3. intake[n] \in Stamp /\ written[intake[n]] # None
    BY <2>1 DEF TypeInv, CorpusInv, CorpusTypeOK, IntakeWritten
  <2>4. /\ mv.dst \in Stamp /\ written'[mv.dst] = written[intake[n]]
        /\ Grows
    BY <2>1, <2>3, MovesFacts, MoveGrows DEF TypeInv, CorpusInv
  <2>5. quar'[k][d] = mv.dst
    BY <2>1, <2>2 DEF TypeInv, CorpusInv, CorpusTypeOK
  <2>6. CASE s = intake[n]
    <3>1. Placed(mv.dst)'
      BY <2>2, <2>5 DEF Placed
    <3> QED
      BY <2>4, <2>6, <3>1, StillThere
  <2>7. CASE s # intake[n]
    <3>1. Placed(s)'
      BY <2>1, <2>2, <2>7 DEF Placed, Quarantined, TypeInv, CorpusInv, CorpusTypeOK
    <3>2. written'[s] = written[s]
      BY <2>4 DEF Grows, Placed, TypeInv, CorpusInv, IntakeWritten, QuarWritten, TreeWritten
    <3> QED
      BY <2>4, <3>1, <3>2, StillThere
  <2> QED
    BY <2>6, <2>7
<1> QED
  BY <1>1, <1>2 DEF Quarantined

LEMMA ReplaceStageKeeps ==
  ASSUME TypeInv, HashInv, ReplaceStage, NEW s \in Stamp, Placed(s)
  PROVE  Preserved(written[s])'
<1> DEFINE t == quar[pick.k][pick.q]
<1>1. /\ pick.k \in Quarantine /\ pick.q \in Name /\ pick.n \in Name /\ pick # None
  BY DEF ReplaceStage, TypeInv, ClientInv, Picks
<1>2. CASE UNCHANGED <<intake, quar, written>>
  BY <1>2, DiskKept DEF ReplaceStage, disk
<1>3. ASSUME t # None, NEW mv \in Moves(t),
             intake' = [intake EXCEPT ![pick.n] = mv.dst],
             quar' = [quar EXCEPT ![pick.k][pick.q] = mv.src],
             written' = mv.wr, UNCHANGED tree
      PROVE  Preserved(written[s])'
  <2>1. t \in Stamp /\ written[t] # None
    BY <1>1, <1>3 DEF TypeInv, CorpusInv, CorpusTypeOK, QuarWritten
  <2>2. mv.dst \in Stamp /\ written'[mv.dst] = written[t] /\ Grows
    BY <1>3, <2>1, MovesFacts, MoveGrows DEF TypeInv, CorpusInv
  <2>3. intake[pick.n] = None /\ intake'[pick.n] = mv.dst
    BY <1>1, <1>3 DEF HashInv, PickFree, TypeInv, CorpusInv, CorpusTypeOK
  <2>4. CASE s = t
    <3>1. Placed(mv.dst)'
      BY <1>1, <2>3 DEF Placed
    <3> QED
      BY <2>2, <2>4, <3>1, StillThere
  <2>5. CASE s # t
    <3>1. Placed(s)'
      BY <1>1, <1>3, <2>3, <2>5 DEF Placed, TypeInv, CorpusInv, CorpusTypeOK
    <3>2. written'[s] = written[s]
      BY <2>2 DEF Grows, Placed, TypeInv, CorpusInv, IntakeWritten, QuarWritten, TreeWritten
    <3> QED
      BY <2>2, <3>1, <3>2, StillThere
  <2> QED
    BY <2>4, <2>5
<1> QED
  BY <1>2, <1>3 DEF ReplaceStage

(* The superseded source is the one of the module to replace. *)
LEMMA RouteFileKeeps ==
  ASSUME Quiet, TypeInv, QuietInv, NEW n \in Name, pc = "route", n \in todo, RouteFile(n),
         NEW s \in Stamp, Placed(s)
  PROVE  Preserved(written[s])' \/ Replaceable(s)
<1> DEFINE m == BuiltModule(n)
<1>1. AtRest /\ cand[n] # None /\ Compiled(n) /\ m \in Module
  BY BuiltFacts DEF AtRest, InHand, RunPc, TypeInv, EngineInv, PassState, Active,
     RouteFile, Routable
<1>2. PICK p : tree' = [q \in Path |-> IF q \in Superseded(n, p) THEN None ELSE tree[q]]
  BY DEF RouteFile, Quiet
<1>3. Grows /\ UNCHANGED <<written, intake, quar>>
  BY DEF RouteFile, Grows
<1>4. CASE \E q \in Path : tree[q] = s /\ q \in Superseded(n, p)
  <2>1. PICK q \in Path : tree[q] = s /\ q \in Superseded(n, p)
    BY <1>4
  <2>2. module[m] # None /\ q = module[m].src
    BY <2>1 DEF Superseded
  <2>3. ModuleOf[written[s]] = m
    BY <1>1, <2>1, <2>2, StoredBacked DEF QuietInv, TreeInv, RowsNamed, Claim, Declared
  <2>4. job.replace
    BY <2>2 DEF RouteFile
  <2> QED
    BY <1>1, <2>3, <2>4 DEF Replaceable
<1>5. CASE ~ \E q \in Path : tree[q] = s /\ q \in Superseded(n, p)
  <2>1. Placed(s)'
    BY <1>2, <1>3, <1>5 DEF Placed
  <2> QED
    BY <1>3, <2>1, StillThere
<1> QED
  BY <1>4, <1>5

(* A file that is overwritten in the tree is a revision to be replaced. *)
LEMMA MoveDoneKeeps ==
  ASSUME TypeInv, HashInv, QuietInv, pc = "move", MoveDone, NEW s \in Stamp, Placed(s)
  PROVE  Preserved(written[s])' \/ Replaceable(s)
<1> DEFINE n == cur.n
<1>1. n \in Name /\ cur.p \in Path /\ cand[n] # None /\ Compiled(n)
  BY HandFacts DEF InHand, Compiled
<1>2. PICK mv \in Moves(intake[n]) :
        /\ tree' = [tree EXCEPT ![cur.p] = mv.dst]
        /\ intake' = [intake EXCEPT ![n] = mv.src]
        /\ written' = mv.wr /\ intake[n] # None
  BY DEF MoveDone
<1>3. intake[n] \in Stamp /\ written[intake[n]] # None
  BY <1>1, <1>2 DEF TypeInv, CorpusInv, CorpusTypeOK, IntakeWritten
<1>4. mv.dst \in Stamp /\ written'[mv.dst] = written[intake[n]] /\ Grows
  BY <1>2, <1>3, MovesFacts, MoveGrows DEF TypeInv, CorpusInv
<1>5. tree'[cur.p] = mv.dst
  BY <1>1, <1>2 DEF TypeInv, CorpusInv, CorpusTypeOK
<1> HIDE DEF n
<1>6. CASE s = intake[n]
  <2>1. Placed(mv.dst)'
    BY <1>1, <1>5 DEF Placed, MoveDone
  <2> QED
    BY <1>4, <1>6, <2>1, StillThere
<1>7. CASE s = tree[cur.p]
  <2>1. tree[cur.p] # None
    BY <1>7
  <2> QED
    BY <1>1, <1>7, <2>1 DEF Replaceable, QuietInv, PassInv, FilingState, InHand, Moved,
       Declared, n
<1>8. CASE s # intake[n] /\ s # tree[cur.p]
  <2>1. Placed(s)'
    BY <1>2, <1>8 DEF Placed, MoveDone, TypeInv, CorpusInv, CorpusTypeOK
  <2>2. written'[s] = written[s]
    BY <1>4 DEF Grows, Placed, TypeInv, CorpusInv, IntakeWritten, QuarWritten, TreeWritten
  <2> QED
    BY <1>4, <2>1, <2>2, StillThere
<1> QED
  BY <1>6, <1>7, <1>8

LEMMA EngineKeeps ==
  ASSUME Quiet, TypeInv, HashInv, QuietInv, EngineRuns, NEW s \in Stamp, Placed(s)
  PROVE  Preserved(written[s])' \/ Replaceable(s)
<1>1. CASE \/ Settle \/ EndCheck \/ EndBuild \/ RouteForget \/ Save \/ Mark \/ Finish
           \/ \E n \in Name : Build(n)
  BY <1>1, DiskKept DEF Settle, EndCheck, EndBuild, RouteForget, Save, Mark, Finish, Build
<1>2. ASSUME NEW n \in Name, Check(n)
      PROVE  Preserved(written[s])'
  BY <1>2, DiskKept, QuarantineKeeps DEF Check, Quarantine
<1>3. ASSUME NEW n \in Name, Route(n)
      PROVE  Preserved(written[s])' \/ Replaceable(s)
  BY <1>3, DiskKept, QuarantineKeeps, RouteFileKeeps DEF Route, RouteDeferred, RouteFailed,
     RouteDuplicate, Quarantine
<1>4. CASE Move
  BY <1>4, DiskKept, MoveDoneKeeps DEF Move, MoveVanished, MoveFailed, Quiet
<1> QED
  BY <1>1, <1>2, <1>3, <1>4 DEF EngineRuns, EngineStep

(* No step of a pass, and no staging of a replacement, destroys the last   *)
(* copy of a file's bytes, other than a revision of the module a caller    *)
(* asked to replace (uniquePath, moveFile, removal of the superseded file).*)
THEOREM NothingIsLost ==
  ASSUME Quiet
  PROVE  Spec => NothingLost
<1>1. TypeInv /\ HashInv /\ QuietInv =>
        (EngineRuns \/ ReplaceStage =>
           \A s \in Stamp : Placed(s) => Preserved(written[s])' \/ Replaceable(s))
  BY EngineKeeps, ReplaceStageKeeps
<1> QED
  BY <1>1, QuietCorpus, PTL DEF NothingLost

-----------------------------------------------------------------------------
(* The OID trie, in a server that is neither killed nor cancelled.         *)

Undisturbed == Faults \cap {"crash", "cancel"} = {}

(* The trie shows the stored modules, or whoever holds the mutex knows     *)
(* that it has to be rebuilt: it changed a module, or is about to note it, *)
(* or finds no version marker.                                             *)
TrieInv ==
  /\ job.live
  /\ pc \in {"idle", "settle", "check", "build"} => trie = Projection
  /\ pc \in RunPc => trie = Projection \/ job.changed \/ pc = "mark"
  /\ pc \in SyncPc \cup {"down"} =>
       trie \in {None, Projection} \/ changed \/ pc = "stamp"

LEMMA InitTrie == Init => TrieInv
BY DEF Init, CorpusInit, EngineInit, SyncInit, TrieInv, NoJob, RunPc

LEMMA TrieFrame ==
  ASSUME TrieInv, UNCHANGED <<module, trie, pc, job, changed>>
  PROVE  TrieInv'
BY DEF TrieInv, Projection

(* A step of a pass that stores nothing. *)
LEMMA TriePass ==
  ASSUME TrieInv, UNCHANGED <<module, trie, job>>, pc \in RunPc, pc' \in RunPc,
         pc # "mark", pc' \in {"settle", "check", "build"} => pc \in {"settle", "check", "build"}
  PROVE  TrieInv'
BY DEF TrieInv, Projection, RunPc, SyncPc

LEMMA EngineRunsTrie ==
  ASSUME TypeInv, TrieInv, EngineRuns
  PROVE  TrieInv'
<1>1. CASE \/ Settle \/ EndBuild \/ RouteForget \/ Move
           \/ \E n \in Name : Check(n) \/ Build(n) \/ Route(n)
  <2>1. /\ UNCHANGED <<module, trie, job>> /\ pc \in RunPc /\ pc' \in RunPc /\ pc # "mark"
        /\ pc' \in {"settle", "check", "build"} => pc \in {"settle", "check", "build"}
    BY <1>1 DEF Settle, EndBuild, RouteForget, Move, MoveDone, MoveVanished, MoveFailed, Check,
       Build, Route, RouteDeferred, RouteFailed, RouteDuplicate, RouteFile, Quarantined, store,
       RunPc
  <2> QED
    BY <2>1, TriePass
<1>2. CASE EndCheck
  <2>1. UNCHANGED <<module, trie>> /\ trie = Projection /\ job.live
    BY <1>2 DEF EndCheck, store, TrieInv
  <2> QED
    BY <1>2, <2>1 DEF EndCheck, Release, NoJob, TrieInv, Projection, RunPc, SyncPc
<1>3. CASE Save
  BY <1>3 DEF Save, TrieInv, RunPc, SyncPc
<1>4. CASE Mark
  BY <1>4 DEF Mark, TrieInv, RunPc, SyncPc, TypeInv, EngineInv, EngineTypeOK, Job
<1>5. CASE Finish
  <2>1. trie' = Projection /\ UNCHANGED module /\ pc' = "idle" /\ job' = NoJob
    BY <1>5 DEF Finish, RefreshOIDTree, Release, TrieInv, RunPc
  <2> QED
    BY <2>1 DEF TrieInv, Projection, NoJob, RunPc, SyncPc
<1> QED
  BY <1>1, <1>2, <1>3, <1>4, <1>5 DEF EngineRuns, EngineStep

(* A step of a validation that stores nothing. *)
LEMMA TrieValidation ==
  ASSUME TrieInv, UNCHANGED <<module, trie, job, changed>>, pc \in SyncPc \ {"stamp"},
         pc' \in SyncPc
  PROVE  TrieInv'
BY DEF TrieInv, Projection, RunPc, SyncPc

LEMMA SyncRunsTrie ==
  ASSUME TypeInv, TrieInv, SyncRuns
  PROVE  TrieInv'
<1> USE DEF SyncRuns, engineVars
<1>1. CASE SyncWalk \/ EndDiff \/ EndVanish \/ EndSyncBuild \/ EndLoad \/ EndPrune
  BY <1>1, TrieValidation DEF SyncWalk, EndDiff, EndVanish, EndSyncBuild, EndLoad, EndPrune,
     syncVars, store, SyncPc
<1>2. ASSUME NEW p \in Path, SyncDiff(p) \/ SyncForget(p) \/ SyncBuild(p) PROVE TrieInv'
  BY <1>2, TrieValidation DEF SyncDiff, SyncForget, SyncBuild, store, SyncPc
<1>3. ASSUME NEW p \in Path, SyncLoad(p) PROVE TrieInv'
  <2>1. CASE UNCHANGED <<module, pc, at>>
    BY <1>3, <2>1, TrieValidation DEF SyncLoad, SyncPc
  <2>2. CASE pc' = "stamp"
    BY <1>3, <2>2 DEF SyncLoad, TrieInv, RunPc
  <2> QED
    BY <1>3, <2>1, <2>2 DEF SyncLoad
<1>4. CASE SyncDrop \/ SyncStamp
  BY <1>4 DEF SyncDrop, SyncStamp, TrieInv, RunPc
<1>5. ASSUME NEW m \in Module, SyncPrune(m) PROVE TrieInv'
  BY <1>5 DEF SyncPrune, TrieInv, RunPc, SyncPc
<1>6. CASE SyncRefresh
  <2>1. trie' = Projection /\ UNCHANGED module /\ pc' = "idle" /\ UNCHANGED job
    BY <1>6 DEF SyncRefresh, RefreshOIDTree, OIDTreeStale, TrieInv, SyncPc
  <2> QED
    BY <2>1 DEF TrieInv, Projection, RunPc, SyncPc
<1> QED
  BY <1>1, <1>2, <1>3, <1>4, <1>5, <1>6 DEF SyncStep

LEMMA NextTrie ==
  ASSUME Undisturbed, TypeInv, TrieInv, [Next]_vars
  PROVE  TrieInv'
<1>1. CASE Environment \/ UploadStaged \/ ReplaceStage \/ UNCHANGED vars
  <2>1. UNCHANGED <<store, pc, engineVars, syncVars>>
    BY <1>1 DEF Environment, DropFile, EditTree, RemoveFromTree, DeletePending,
       DeleteQuarantined, ReplacePick, UploadPart, UploadStaged, ReplaceStage, vars
  <2> QED
    BY <2>1, TrieFrame DEF store, engineVars, syncVars
<1>2. ASSUME NEW batch, NEW who, NEW rep \in BOOLEAN, Begin(batch, who, rep), UNCHANGED syncVars
      PROVE  TrieInv'
  BY <1>2 DEF Begin, TrieInv, Projection, NoJob, RunPc, SyncPc, store
<1>3. CASE Client
  <2>1. CASE RequestBegin
    BY <1>2, <2>1 DEF RequestBegin, TypeInv, ClientInv
  <2> QED
    BY <1>1, <1>3, <2>1 DEF Client
<1>4. ASSUME NEW batch, WatcherBegin(batch) PROVE TrieInv'
  BY <1>2, <1>4 DEF WatcherBegin
<1>5. ~RequestCancel
  BY DEF RequestCancel, Cancel, Undisturbed
<1>6. ASSUME NEW rebuild \in BOOLEAN, Boot(rebuild) PROVE TrieInv'
  BY <1>6 DEF Boot, TrieInv, Projection, RunPc, SyncPc, engineVars, syncVars
<1>7. CASE Stop
  BY <1>7 DEF Stop, Undisturbed, TrieInv, Projection, NoJob, RunPc, SyncPc, store
<1> QED
  BY <1>1, <1>3, <1>4, <1>5, <1>6, <1>7, EngineRunsTrie, SyncRunsTrie DEF Next, RescanBegin

(* Between passes the OID trie shows exactly the stored modules, with any  *)
(* number of edits, races and failures, as long as no process dies and no  *)
(* context is cancelled before refreshOIDTree.                             *)
THEOREM TrieIsFresh ==
  ASSUME Undisturbed
  PROVE  Spec => []TrieFresh
<1>1. Spec => []TypeInv
  BY InitTypeInv, NextTypeInv, PTL DEF Spec
<1>2. TypeInv /\ TrieInv /\ [Next]_vars => TrieInv'
  BY NextTrie
<1>3. TrieInv => TrieFresh
  BY DEF TrieInv, TrieFresh
<1> QED
  BY <1>1, <1>2, <1>3, InitTrie, PTL DEF Spec

-----------------------------------------------------------------------------
(* What boot takes for vanished, when nobody edits the tree of a running   *)
(* server and the walk sees every name.                                    *)

TreeSteady == ~({"edit", "liveedit"} \subseteq Faults)

(* The stats of the walk hold through the validation; what it is about to  *)
(* forget or drop was not found.                                           *)
NotFound ==
  /\ pc \in {"vanish", "drop"} => left \cap Kept(onDisk) = {}
  /\ pc = "drop" => at \in Path /\ onDisk[at] = None

VanishInv == StatsCurrent /\ NotFound

LEMMA NoVanish ==
  ASSUME pc' \notin Validating
  PROVE  VanishInv'
BY DEF VanishInv, StatsCurrent, NotFound, Validating, SyncPc

LEMMA SyncRunsVanish ==
  ASSUME TypeInv, VanishInv, SyncRuns
  PROVE  VanishInv'
<1>1. CASE SyncWalk
  BY <1>1 DEF SyncWalk, VanishInv, StatsCurrent, NotFound, InWalk, disk
<1>2. CASE SyncRefresh
  BY <1>2, NoVanish DEF SyncRefresh, Validating, SyncPc
<1>3. ASSUME ~SyncWalk, ~SyncRefresh PROVE VanishInv'
  <2>1. UNCHANGED <<tree, onDisk>> /\ pc \in Validating
    BY <1>3 DEF SyncRuns, SyncStep, EndDiff, SyncDrop, EndVanish, EndSyncBuild, SyncStamp,
       EndLoad, SyncPrune, EndPrune, SyncDiff, SyncForget, SyncBuild, SyncLoad, disk,
       syncVars, Validating, SyncPc
  <2>2. StatsCurrent'
    BY <2>1 DEF VanishInv, StatsCurrent, InWalk
  <2>3. NotFound'
    <3>1. CASE EndDiff
      BY <3>1 DEF EndDiff, NotFound
    <3>2. CASE \/ SyncDrop \/ EndVanish \/ EndSyncBuild \/ SyncStamp \/ EndLoad \/ EndPrune
               \/ \E m \in Module : SyncPrune(m)
      BY <3>2 DEF SyncDrop, EndVanish, EndSyncBuild, SyncStamp, EndLoad, SyncPrune, EndPrune,
         VanishInv, NotFound, Kept, syncVars
    <3>3. ASSUME NEW p \in Path, SyncForget(p) PROVE NotFound'
      BY <3>3 DEF SyncForget, VanishInv, NotFound, Kept
    <3>4. ASSUME NEW p \in Path, SyncDiff(p) \/ SyncBuild(p) \/ SyncLoad(p) PROVE NotFound'
      BY <3>4 DEF SyncDiff, SyncBuild, SyncLoad, NotFound
    <3> QED
      BY <1>3, <3>1, <3>2, <3>3, <3>4 DEF SyncRuns, SyncStep
  <2> QED
    BY <2>2, <2>3 DEF VanishInv
<1> QED
  BY <1>1, <1>2, <1>3

LEMMA NextVanish ==
  ASSUME TreeSteady, TypeInv, TypeInv', VanishInv, [Next]_vars
  PROVE  VanishInv'
<1>1. ASSUME UNCHANGED <<tree, pc, syncVars>> PROVE VanishInv'
  BY <1>1 DEF VanishInv, StatsCurrent, NotFound, InWalk, Kept, syncVars
<1>2. CASE Environment
  <2>1. ASSUME NEW p \in Path, RemoveFromTree(p) \/ \E c \in Content, s \in Stamp : EditTree(p, c, s)
        PROVE  VanishInv'
    <3>1. pc' = "down"
      BY <2>1 DEF RemoveFromTree, EditTree, MayEdit, Up, TreeSteady
    <3> QED
      BY <3>1, NoVanish DEF Validating, SyncPc
  <2> QED
    BY <1>1, <1>2, <2>1 DEF Environment, DropFile, DeletePending, DeleteQuarantined,
       ReplacePick, UploadPart, disk
<1>3. CASE UploadStaged \/ ReplaceStage \/ UNCHANGED vars
  BY <1>1, <1>3 DEF UploadStaged, ReplaceStage, vars, disk
<1>4. CASE EngineRuns \/ RequestCancel
  <2>1. pc' \in {"idle", "down"} \cup RunPc
    BY <1>4, EngineStepInv DEF EngineRuns, RequestCancel, Cancel, TypeInv
  <2> QED
    BY <2>1, NoVanish DEF Validating, SyncPc, RunPc
<1>5. CASE RequestBegin \/ RescanBegin \/ (\E batch \in SUBSET Name : WatcherBegin(batch))
  BY <1>5, NoVanish DEF RequestBegin, RescanBegin, WatcherBegin, Begin, Validating, SyncPc
<1>6. CASE Stop \/ \E rebuild \in BOOLEAN : Boot(rebuild)
  BY <1>6, NoVanish DEF Stop, Boot, Validating, SyncPc
<1> QED
  BY <1>2, <1>3, <1>4, <1>5, <1>6, SyncRunsVanish DEF Next, Client

(* SyncCorpus drops the module of a fingerprint only when the file is gone *)
(* from the tree, through crashes, exhausted budgets, failed moves, races  *)
(* in import/ and edits of a stopped server's tree.                        *)
THEOREM DropsOnlyVanished ==
  ASSUME TreeSteady, \A p \in Path : InWalk(p)
  PROVE  Spec => OnlyVanishedDropped
<1>1. Spec => []TypeInv
  BY InitTypeInv, NextTypeInv, PTL DEF Spec
<1>2. TypeInv /\ TypeInv' /\ VanishInv /\ [Next]_vars => VanishInv'
  BY NextVanish
<1>3. Init => VanishInv
  BY DEF Init, VanishInv, StatsCurrent, NotFound, Validating, SyncPc
<1>4. VanishInv => (SyncDrop => tree[at] = None)
  BY DEF VanishInv, StatsCurrent, NotFound, SyncDrop, Validating, SyncPc
<1> QED
  BY <1>1, <1>2, <1>3, <1>4, PTL DEF Spec, OnlyVanishedDropped

-----------------------------------------------------------------------------
(* What a request is told.                                                 *)

StagedContents == {written[sent[k]] : k \in Active(sent)}

(* A staged file stays as it was put until an engine call takes it. *)
StagedFiles ==
  /\ req \in {"none", "claimed"} => \A n \in Name : sent[n] = None
  /\ \A n \in Name : sent[n] # None =>
       written[sent[n]] # None /\ intake[n] \in {None, sent[n]}

(* The pass of a running request is over its staged files. *)
RequestPass ==
  /\ req = "running" <=> (pc \in RunPc /\ job.by = "request")
  /\ req = "running" =>
       /\ job.replace = repl
       /\ \A n \in Name : cand[n] # None => sent[n] # None /\ cand[n].seen = sent[n]
  /\ pc \notin RunPc => \A n \in Name : outcome[n] = None

(* A compile fails on a file that declares no module. *)
BuildsFailed ==
  \A n \in Name : cand[n] # None /\ cand[n].built = "error" =>
    ModuleOf[written[cand[n].seen]] = None

(* The outcome noted for n is true already, and stays so. *)
Told(n) ==
  LET c == written[sent[n]]
      m == ModuleOf[c]
  IN
  /\ outcome[n] \in {"imported", "duplicate"} => m # None /\ module[m] # None
  /\ outcome[n] = "imported" => module[m].c \in StagedContents
  /\ outcome[n] = "duplicate" => ~repl
  /\ outcome[n] = "failed" => Refused(c)

AnswersTold == req = "running" => \A n \in Active(sent) : Told(n)

AnswerInv == StagedFiles /\ RequestPass /\ BuildsFailed /\ AnswersTold

LEMMA InitAnswer == Init => AnswerInv
BY DEF Init, EngineInit, ClientInit, NoCandidates, RunPc, AnswerInv, StagedFiles,
   RequestPass, BuildsFailed, AnswersTold

(* A build that failed stays failed. *)
LEMMA BuildsKept ==
  ASSUME TypeInv, AnswerInv, Grows,
         \A n \in Name : cand'[n] # None /\ cand'[n].built = "error" =>
           cand[n] # None /\ cand[n].built = "error" /\ cand'[n].seen = cand[n].seen
  PROVE  BuildsFailed'
BY DEF AnswerInv, BuildsFailed, Grows, TypeInv, EngineInv, EngineTypeOK, CandWritten, Candidate

(* Staged files keep their bytes. *)
LEMMA StagedFacts ==
  ASSUME TypeInv, AnswerInv, Grows, UNCHANGED sent, NEW n \in Name, sent[n] # None
  PROVE  /\ sent[n] \in Stamp /\ written[sent[n]] \in Content
         /\ written'[sent'[n]] = written[sent[n]]
BY DEF AnswerInv, StagedFiles, Grows, TypeInv, ClientInv, CorpusInv, CorpusTypeOK

LEMMA StagedKept ==
  ASSUME TypeInv, AnswerInv, Grows, UNCHANGED <<req, sent>>,
         \A n \in Name : sent[n] # None => intake'[n] \in {None, intake[n]}
  PROVE  StagedFiles'
BY StagedFacts DEF AnswerInv, StagedFiles

LEMMA ContentsKept ==
  ASSUME TypeInv, AnswerInv, Grows, UNCHANGED sent
  PROVE  StagedContents' = StagedContents
BY StagedFacts DEF StagedContents, Active

(* What was told stays true while modules are only replaced by revisions   *)
(* from the same request.                                                  *)
LEMMA ToldKept ==
  ASSUME TypeInv, AnswerInv, Grows, UNCHANGED clientVars, req = "running",
         NEW n \in Active(sent), outcome'[n] = outcome[n],
         \A m \in Module : module[m] # None =>
           /\ module'[m] # None
           /\ module'[m].c \in {module[m].c} \cup StagedContents
  PROVE  Told(n)'
<1> USE DEF clientVars
<1>1. n \in Name /\ sent[n] # None
  BY DEF Active
<1>2. /\ written'[sent'[n]] = written[sent[n]] /\ written[sent[n]] \in Content
      /\ StagedContents' = StagedContents
  BY <1>1, StagedFacts, ContentsKept
<1>3. Told(n) /\ ModuleOf[written[sent[n]]] \in Module \cup {None}
  BY <1>2 DEF AnswerInv, AnswersTold
<1> QED
  BY <1>2, <1>3 DEF Told

(* Steps outside a request's pass. *)
LEMMA AnswerOutside ==
  ASSUME TypeInv, AnswerInv, Grows, UNCHANGED engineVars,
         pc' = pc \/ (pc \notin RunPc /\ pc' \notin RunPc),
         req # "running", req' # "running", StagedFiles'
  PROVE  AnswerInv'
<1> USE DEF engineVars
<1>1. BuildsFailed'
  BY BuildsKept
<1>2. RequestPass'
  BY DEF AnswerInv, RequestPass
<1> QED
  BY <1>1, <1>2 DEF AnswerInv, AnswersTold

(* A step beside a pass that touches none of the staged files. *)
LEMMA AnswerBeside ==
  ASSUME TypeInv, AnswerInv, Grows, UNCHANGED <<pc, engineVars, module, req, sent, repl>>,
         \A n \in Name : sent[n] # None => intake'[n] \in {None, intake[n]}
  PROVE  AnswerInv'
<1> USE DEF engineVars
<1>1. StagedFiles' /\ BuildsFailed' /\ StagedContents' = StagedContents
  BY StagedKept, BuildsKept, ContentsKept
<1>2. RequestPass'
  BY DEF AnswerInv, RequestPass
<1>3. AnswersTold'
  BY <1>1, StagedFacts DEF AnswerInv, AnswersTold, Told, Active
<1> QED
  BY <1>1, <1>2, <1>3 DEF AnswerInv

LEMMA EnvironmentAnswer ==
  ASSUME Quiet, TypeInv, AnswerInv, Environment
  PROVE  AnswerInv'
<1> USE DEF Quiet, MayTouch, InUse, Active
<1>1. ASSUME NEW n \in Name, NEW c \in Content, NEW s \in Stamp, DropFile(n, c, s)
      PROVE  AnswerInv'
  <2>1. Grows
    BY <1>1, WriteFacts DEF DropFile, TypeInv, CorpusInv
  <2>2. \A u \in Name : sent[u] # None => intake'[u] = intake[u]
    BY <1>1 DEF DropFile, TypeInv, CorpusInv, CorpusTypeOK
  <2> QED
    BY <1>1, <2>1, <2>2, AnswerBeside DEF DropFile, store, clientVars
<1>2. ASSUME NEW n \in Name, NEW c \in Content, NEW s \in Stamp, NEW rep \in BOOLEAN,
             UploadPart(n, c, s, rep)
      PROVE  AnswerInv'
  <2>1. Grows /\ written'[s] = c /\ c # None
    BY <1>2, WriteFacts DEF UploadPart, TypeInv, CorpusInv, CorpusTypeOK
  <2>2. /\ \A u \in Name \ {n} : sent'[u] = sent[u] /\ intake'[u] = intake[u]
        /\ sent'[n] = s /\ intake'[n] = s
    BY <1>2 DEF UploadPart, TypeInv, ClientInv, CorpusInv, CorpusTypeOK
  <2>3. \A u \in Name \ {n} : sent[u] # None => written'[sent[u]] = written[sent[u]]
    BY <2>1 DEF Grows, AnswerInv, StagedFiles, TypeInv, ClientInv
  <2>4. StagedFiles'
    BY <1>2, <2>1, <2>2, <2>3 DEF UploadPart, AnswerInv, StagedFiles
  <2> QED
    BY <1>2, <2>1, <2>4, AnswerOutside DEF UploadPart
<1>3. ASSUME NEW n \in Name, DeletePending(n) PROVE AnswerInv'
  <2>1. \A u \in Name : intake'[u] \in {None, intake[u]}
    BY <1>3 DEF DeletePending, TypeInv, CorpusInv, CorpusTypeOK
  <2> QED
    BY <1>3, <2>1, AnswerBeside DEF DeletePending, store, clientVars, Grows
<1>4. ASSUME NEW k \in Quarantine, NEW q \in Name, DeleteQuarantined(k, q)
      PROVE  AnswerInv'
  BY <1>4, AnswerBeside DEF DeleteQuarantined, store, clientVars, Grows
<1>5. ASSUME NEW k \in Quarantine, NEW q \in Name, ReplacePick(k, q)
      PROVE  AnswerInv'
  <2>1. StagedFiles'
    BY <1>5 DEF ReplacePick, AnswerInv, StagedFiles, disk
  <2> QED
    BY <1>5, <2>1, AnswerOutside DEF ReplacePick, Grows, disk
<1>6. ~MayEdit
  BY DEF MayEdit
<1> QED
  BY <1>1, <1>2, <1>3, <1>4, <1>5, <1>6 DEF Environment, EditTree, RemoveFromTree

LEMMA StagingAnswer ==
  ASSUME TypeInv, AnswerInv, UploadStaged \/ ReplaceStage
  PROVE  AnswerInv'
<1>1. CASE UploadStaged
  <2>1. StagedFiles'
    BY <1>1 DEF UploadStaged, AnswerInv, StagedFiles, disk
  <2> QED
    BY <1>1, <2>1, AnswerOutside DEF UploadStaged, Grows, disk
<1>2. CASE ReplaceStage
  <2> DEFINE s == quar[pick.k][pick.q]
  <2>1. Grows /\ req = "claimed" /\ pick \in Picks
    BY <1>2, ReplaceStageGrows DEF ReplaceStage, TypeInv, ClientInv
  <2>2. CASE ClientDone /\ UNCHANGED <<intake, quar, written>>
    BY <1>2, <2>1, <2>2, AnswerOutside DEF ReplaceStage, ClientDone, StagedFiles
  <2>3. ASSUME s # None, NEW mv \in Moves(s),
               intake' = [intake EXCEPT ![pick.n] = mv.dst], written' = mv.wr,
               sent' = [sent EXCEPT ![pick.n] = mv.dst], req' = "queued"
        PROVE  AnswerInv'
    <3>1. s \in Stamp /\ written[s] # None
      BY <2>1, <2>3 DEF Picks, TypeInv, CorpusInv, CorpusTypeOK, QuarWritten
    <3>2. mv.dst \in Stamp /\ written'[mv.dst] # None
      BY <2>3, <3>1, MovesFacts DEF TypeInv, CorpusInv
    <3>3. /\ \A u \in Name \ {pick.n} : sent'[u] = None
          /\ sent'[pick.n] = mv.dst /\ intake'[pick.n] = mv.dst
      BY <2>1, <2>3 DEF AnswerInv, StagedFiles, Picks, TypeInv, ClientInv, CorpusInv, CorpusTypeOK
    <3>4. StagedFiles'
      BY <2>3, <3>2, <3>3 DEF StagedFiles
    <3> QED
      BY <1>2, <2>1, <2>3, <3>4, AnswerOutside DEF ReplaceStage
  <2> QED
    BY <1>2, <2>2, <2>3 DEF ReplaceStage
<1> QED
  BY <1>1, <1>2

LEMMA WatcherBeginAnswer ==
  ASSUME TypeInv, AnswerInv, NEW batch, WatcherBegin(batch)
  PROVE  AnswerInv'
<1> USE DEF WatcherBegin, Begin, clientVars, disk, store
<1>1. Grows /\ StagedFiles'
  BY DEF Grows, AnswerInv, StagedFiles
<1>2. BuildsFailed'
  BY DEF BuildsFailed
<1>3. req # "running" /\ RequestPass'
  BY DEF AnswerInv, RequestPass, RunPc, NoJob
<1> QED
  BY <1>1, <1>2, <1>3 DEF AnswerInv, AnswersTold

LEMMA RequestBeginAnswer ==
  ASSUME TypeInv, AnswerInv, RequestBegin
  PROVE  AnswerInv'
<1> USE DEF RequestBegin, Begin, disk, store
<1>1. Grows /\ StagedFiles'
  BY DEF Grows, AnswerInv, StagedFiles
<1>2. BuildsFailed'
  BY DEF BuildsFailed
<1>3. \A n \in Name : cand'[n] # None =>
        sent[n] # None /\ intake[n] = sent[n] /\ cand'[n].seen = intake[n]
  BY DEF AnswerInv, StagedFiles, Active
<1>4. \A n \in Name : outcome'[n] = None
  BY DEF AnswerInv, RequestPass, RunPc
<1>5. RequestPass'
  <2>1. job'.by = "request" /\ job'.replace = repl
    BY DEF NoJob, TypeInv, ClientInv
  <2> QED
    BY <1>3, <2>1 DEF RequestPass, RunPc
<1>6. AnswersTold'
  BY <1>4 DEF AnswersTold, Told, Active
<1> QED
  BY <1>1, <1>2, <1>5, <1>6 DEF AnswerInv

(* Steps of the validation, boot and stop. *)
LEMMA ProcessAnswer ==
  ASSUME TypeInv, AnswerInv, SyncRuns \/ Stop \/ \E rebuild \in BOOLEAN : Boot(rebuild)
  PROVE  AnswerInv'
<1>1. CASE SyncRuns
  <2>1. pc \in SyncPc /\ pc' \in SyncPc \cup {"idle"} /\ UNCHANGED <<engineVars, clientVars, disk>>
    BY <1>1 DEF SyncRuns, SyncStep, SyncWalk, SyncDiff, EndDiff, SyncForget, SyncDrop,
       EndVanish, SyncBuild, EndSyncBuild, SyncLoad, EndLoad, SyncStamp, SyncPrune, EndPrune,
       SyncRefresh, SyncPc, syncVars
  <2>2. pc \notin RunPc /\ pc' \notin RunPc /\ Grows
    BY <2>1 DEF RunPc, SyncPc, Grows, disk
  <2>3. req # "running" /\ UNCHANGED <<req, sent, intake>>
    BY <2>1, <2>2 DEF AnswerInv, RequestPass, clientVars, disk
  <2> QED
    BY <2>1, <2>2, <2>3, StagedKept, AnswerOutside
<1>2. CASE \E rebuild \in BOOLEAN : Boot(rebuild)
  <2>1. /\ pc \notin RunPc /\ pc' \notin RunPc /\ UNCHANGED <<engineVars, clientVars, disk>>
        /\ Grows
    BY <1>2 DEF Boot, RunPc, Grows, disk
  <2>2. req # "running" /\ UNCHANGED <<req, sent, intake>>
    BY <2>1 DEF AnswerInv, RequestPass, clientVars, disk
  <2> QED
    BY <2>1, <2>2, StagedKept, AnswerOutside
<1>3. CASE Stop
  <2> USE <1>3 DEF Stop, ClientDone, disk, NoJob, NoCandidates
  <2>1. StagedFiles' /\ BuildsFailed' /\ RequestPass' /\ AnswersTold'
    BY DEF StagedFiles, BuildsFailed, RequestPass, AnswersTold, RunPc
  <2> QED
    BY <2>1 DEF AnswerInv
<1> QED
  BY <1>1, <1>2, <1>3

(* A step of a pass that goes on. *)
LEMMA AnswerPass ==
  ASSUME TypeInv, AnswerInv, Grows, UNCHANGED clientVars, pc \in RunPc, pc' \in RunPc,
         job'.by = job.by, job'.replace = job.replace,
         \A n \in Name : cand'[n] # None => cand[n] # None /\ cand'[n].seen = cand[n].seen,
         \A n \in Name : intake'[n] \in {None, intake[n]},
         BuildsFailed', AnswersTold'
  PROVE  AnswerInv'
<1> USE DEF clientVars
<1>1. StagedFiles'
  BY StagedKept
<1>2. RequestPass'
  BY DEF AnswerInv, RequestPass
<1> QED
  BY <1>1, <1>2 DEF AnswerInv

(* A step that only looks. *)
LEMMA AnswerLooking ==
  ASSUME TypeInv, AnswerInv, UNCHANGED <<disk, module, outcome, job, clientVars>>,
         pc \in RunPc, pc' \in RunPc,
         \A n \in Name : cand'[n] # None => cand[n] # None /\ cand'[n].seen = cand[n].seen,
         BuildsFailed'
  PROVE  AnswerInv'
<1> USE DEF disk
<1>1. Grows
  BY DEF Grows
<1>2. AnswersTold'
  BY <1>1, ToldKept DEF AnswersTold, clientVars, Active
<1> QED
  BY <1>1, <1>2, AnswerPass

(* A candidate of a request's pass is a file it staged. *)
LEMMA CandidateStaged ==
  ASSUME TypeInv, AnswerInv, NEW n \in Name, cand[n] # None, req = "running"
  PROVE  /\ n \in Active(sent) /\ cand[n].seen = sent[n]
         /\ written[sent[n]] \in Content /\ written[sent[n]] \in StagedContents
BY DEF AnswerInv, RequestPass, StagedFiles, Active, StagedContents, TypeInv, ClientInv,
   CorpusInv, CorpusTypeOK

(* Why a pass puts a file aside. *)
Reason(c, k) ==
  /\ k = "failed" => Refused(c)
  /\ k = "duplicate" => ModuleOf[c] # None /\ module[ModuleOf[c]] # None /\ ~job.replace

LEMMA QuarantinedAnswer ==
  ASSUME TypeInv, AnswerInv, NEW n \in Name, cand[n] # None, NEW k \in Quarantine,
         Quarantined(n, k), Reason(written[cand[n].seen], k),
         UNCHANGED clientVars, pc \in RunPc, pc' \in RunPc
  PROVE  AnswerInv'
<1> USE DEF Quarantined, Drop
<1>1. Grows /\ \A u \in Name : intake'[u] \in {None, intake[u]}
  <2>1. CASE QuarantineStuck(n)
    BY <2>1 DEF QuarantineStuck, Grows
  <2>2. CASE QuarantineMoved(n, k)
    <3>1. PICK mv \in Moves(intake[n]) :
            intake' = [intake EXCEPT ![n] = mv.src] /\ written' = mv.wr /\ intake[n] # None
      BY <2>2 DEF QuarantineMoved
    <3>2. intake[n] \in Stamp /\ written[intake[n]] # None
      BY <3>1 DEF TypeInv, CorpusInv, CorpusTypeOK, IntakeWritten
    <3>3. Grows /\ mv.src \in {None, intake[n]}
      BY <3>1, <3>2, MovesFacts, MoveGrows DEF TypeInv, CorpusInv
    <3> QED
      BY <3>1, <3>3 DEF TypeInv, CorpusInv, CorpusTypeOK
  <2> QED
    BY <2>1, <2>2
<1>2. \A u \in Name : cand'[u] # None => cand'[u] = cand[u]
  BY DEF TypeInv, EngineInv, EngineTypeOK
<1>3. BuildsFailed'
  BY <1>1, <1>2, BuildsKept
<1>4. UNCHANGED <<module, job>>
  BY DEF store
<1>5. outcome'[n] = k /\ \A u \in Name \ {n} : outcome'[u] = outcome[u]
  BY DEF TypeInv, EngineInv, EngineTypeOK
<1>6. ASSUME req = "running" PROVE Told(n)'
  <2>1. sent[n] # None /\ cand[n].seen = sent[n] /\ job.replace = repl
    BY <1>6, CandidateStaged DEF Active, AnswerInv, RequestPass
  <2>2. written'[sent'[n]] = written[sent[n]]
    BY <1>1, <2>1, StagedFacts DEF clientVars
  <2> QED
    BY <1>4, <1>5, <1>6, <2>1, <2>2, SentinelAssumption DEF Told, Reason, Quarantine, clientVars
<1>7. AnswersTold'
  <2>1. ASSUME req = "running", NEW u \in Active(sent), u # n PROVE Told(u)'
    BY <1>1, <1>4, <1>5, <2>1, ToldKept DEF Active
  <2> QED
    BY <1>6, <2>1 DEF AnswersTold, Active, clientVars
<1> QED
  BY <1>1, <1>2, <1>3, <1>4, <1>7, AnswerPass

LEMMA LookingAnswer ==
  ASSUME Quiet, TypeInv, HashInv, QuietInv, AnswerInv, UNCHANGED clientVars,
         \/ Settle \/ EndBuild \/ (EndCheck /\ ~Release) \/ RouteForget
         \/ \E n \in Name : Build(n)
  PROVE  AnswerInv'
<1> USE DEF disk, store, RunPc
<1>1. CASE Settle
  <2>1. \A n \in Name : cand'[n] # None => cand'[n] = cand[n]
    BY <1>1 DEF Settle
  <2>2. BuildsFailed'
    BY <1>1, <2>1, BuildsKept DEF Settle, Grows
  <2> QED
    BY <1>1, <2>1, <2>2, AnswerLooking DEF Settle
<1>2. CASE EndBuild \/ (EndCheck /\ ~Release) \/ RouteForget
  <2>1. BuildsFailed'
    BY <1>2, BuildsKept DEF EndBuild, EndCheck, RouteForget, Grows
  <2> QED
    BY <1>2, <2>1, AnswerLooking DEF EndBuild, EndCheck, RouteForget
<1>3. ASSUME NEW n \in Name, Build(n) PROVE AnswerInv'
  <2>1. PICK res \in {BuildResult(n)} : cand' = [cand EXCEPT ![n].built = res]
    BY <1>3 DEF Build, Quiet
  <2>2. cand[n] # None /\ intake[n] = cand[n].seen /\ intake[n] \in Stamp
    BY <1>3 DEF Build, TypeInv, EngineInv, PassState, Active, HashInv, PassFiles, EngineTypeOK,
       Candidate
  <2>3. /\ cand'[n] = [cand[n] EXCEPT !.built = res]
        /\ \A u \in Name \ {n} : cand'[u] = cand[u]
    BY <2>1 DEF TypeInv, EngineInv, EngineTypeOK
  <2>4. cand'[n].seen = cand[n].seen /\ cand'[n].built = res
    BY <2>2, <2>3 DEF TypeInv, EngineInv, EngineTypeOK, Candidate
  <2>5. res = "error" => ModuleOf[written[cand[n].seen]] = None
    BY <2>1, <2>2, SentinelAssumption DEF BuildResult, QuietInv, PassInv
  <2>6. UNCHANGED written
    BY <1>3 DEF Build
  <2>7. BuildsFailed'
    BY <2>3, <2>4, <2>5, <2>6 DEF AnswerInv, BuildsFailed
  <2> QED
    BY <1>3, <2>2, <2>3, <2>4, <2>7, AnswerLooking DEF Build
<1> QED
  BY <1>1, <1>2, <1>3

(* A byte-identical file that is on record is served. *)
LEMMA KnownIsServed ==
  ASSUME TypeInv, HashInv, QuietInv, AtRest, NEW c \in Content, FindSourceFileBySHA(c)
  PROVE  ModuleOf[c] # None /\ module[ModuleOf[c]] # None
<1>1. PICK p \in Path : row[p] # None /\ row[p].sha = c
  BY DEF FindSourceFileBySHA, Rows
<1>2. tree[p] # None
  BY <1>1 DEF QuietInv, PassInv, RowsThere, ToForget, AtRest, InHand
<1>3. Matches(p) /\ Loaded(p)
  BY <1>1, <1>2 DEF QuietInv, PassInv, SettledFiles, AtRest, Moved, InHand
<1>4. c = written[tree[p]]
  BY <1>1, <1>3 DEF HashInv, FingerprintSound
<1>5. Declared(p) # None
  BY <1>2 DEF QuietInv, TreeInv, FilesNamed
<1>6. module[Declared(p)] # None
  <2>1. tree[p] \in Stamp /\ written[tree[p]] \in Content
    BY <1>2, TreeFacts
  <2>2. [c |-> written[tree[p]], src |-> p] \in ModuleRow
    BY <2>1 DEF ModuleRow
  <2> QED
    BY <1>3, <2>2 DEF Loaded
<1> QED
  BY <1>4, <1>5, <1>6 DEF Declared

(* A file is put aside for a reason that is true of it. *)
LEMMA CheckCases ==
  ASSUME TypeInv, HashInv, QuietInv, NEW n \in Name, Check(n)
  PROVE  /\ pc = "check" /\ pc' = "check" /\ cand[n] # None
         /\ \/ \E k \in Quarantine :
                 Quarantined(n, k) /\ Reason(written[cand[n].seen], k)
            \/ UNCHANGED <<disk, store, job, cand, outcome, poisoned>>
<1>1. /\ pc = "check" /\ pc' = "check" /\ cand[n] # None /\ pc \in RunPc /\ AtRest
      /\ intake[n] = cand[n].seen /\ cand[n].seen \in Stamp
      /\ written[cand[n].seen] \in Content
  BY DEF Check, RunPc, AtRest, InHand, TypeInv, EngineInv, PassState, Active, HashInv, PassFiles,
     EngineTypeOK, Candidate, CorpusInv, CorpusTypeOK, CandWritten
<1>2. CASE ~Sniffs(n) /\ Quarantined(n, "failed")
  BY <1>1, <1>2 DEF Sniffs, Reason, Refused, Quarantine
<1>3. CASE KnownContent(n) /\ Quarantined(n, "duplicate")
  <2>1. Reason(written[cand[n].seen], "duplicate")
    BY <1>1, <1>3, KnownIsServed DEF KnownContent, Reason
  <2> QED
    BY <1>1, <1>3, <2>1 DEF Quarantine
<1> QED
  BY <1>1, <1>2, <1>3 DEF Check

LEMMA RouteCases ==
  ASSUME Quiet, TypeInv, QuietInv, BuildsFailed, NEW n \in Name, Route(n)
  PROVE  /\ pc = "route" /\ cand[n] # None
         /\ \/ UNCHANGED pc /\ \E k \in Quarantine :
                 Quarantined(n, k) /\ Reason(written[cand[n].seen], k)
            \/ RouteDeferred(n) \/ RouteFile(n)
<1>1. /\ pc = "route" /\ cand[n] # None /\ job.live
      /\ Compiled(n) => BuiltContent(n) = written[cand[n].seen]
  BY DEF Route, RunPc, TypeInv, EngineInv, PassState, Active, QuietInv, PassInv, CandidatesRead,
     Compiled, BuiltContent
<1>2. CASE RouteFailed(n)
  <2>1. Reason(written[cand[n].seen], "failed")
    BY <1>1, <1>2 DEF RouteFailed, BuiltModule, BuildsFailed, Reason, Refused
  <2> QED
    BY <1>1, <1>2, <2>1 DEF RouteFailed, Quarantine
<1>3. CASE RouteDuplicate(n)
  <2>1. /\ ModuleOf[written[cand[n].seen]] = BuiltModule(n) /\ BuiltModule(n) \in Module
        /\ module[BuiltModule(n)] # None /\ ~job.replace
    BY <1>1, <1>3, BuiltFacts DEF RouteDuplicate, Routable, BuiltModule, TypeInv
  <2>2. Reason(written[cand[n].seen], "duplicate")
    BY <2>1 DEF Reason
  <2> QED
    BY <1>1, <1>3, <2>2 DEF RouteDuplicate, Quarantine
<1> QED
  BY <1>1, <1>2, <1>3 DEF Route

LEMMA CheckAnswer ==
  ASSUME TypeInv, HashInv, QuietInv, AnswerInv, UNCHANGED clientVars,
         NEW n \in Name, Check(n)
  PROVE  AnswerInv'
<1>1. pc \in RunPc /\ pc' \in RunPc /\ cand[n] # None
  BY CheckCases DEF RunPc
<1>2. CASE \E k \in Quarantine : Quarantined(n, k) /\ Reason(written[cand[n].seen], k)
  BY <1>1, <1>2, QuarantinedAnswer
<1>3. CASE UNCHANGED <<disk, store, job, cand, outcome, poisoned>>
  <2>1. BuildsFailed'
    BY <1>3, BuildsKept DEF disk, Grows
  <2> QED
    BY <1>1, <1>3, <2>1, AnswerLooking DEF store
<1> QED
  BY <1>2, <1>3, CheckCases

LEMMA RouteAnswer ==
  ASSUME Quiet, TypeInv, QuietInv, AnswerInv, UNCHANGED clientVars,
         NEW n \in Name, Route(n)
  PROVE  AnswerInv'
<1>0. BuildsFailed
  BY DEF AnswerInv
<1>1. pc = "route" /\ pc \in RunPc /\ cand[n] # None
  BY <1>0, RouteCases DEF RunPc
<1>2. CASE UNCHANGED pc /\ \E k \in Quarantine :
             Quarantined(n, k) /\ Reason(written[cand[n].seen], k)
  BY <1>1, <1>2, QuarantinedAnswer
<1>3. CASE RouteDeferred(n)
  <2>1. \A u \in Name : cand'[u] # None => cand'[u] = cand[u]
    BY <1>3 DEF RouteDeferred, Drop, TypeInv, EngineInv, EngineTypeOK
  <2>2. BuildsFailed'
    BY <1>3, <2>1, BuildsKept DEF RouteDeferred, disk, Grows
  <2> QED
    BY <1>1, <1>3, <2>1, <2>2, AnswerLooking DEF RouteDeferred, store
<1>4. CASE RouteFile(n)
  <2>1. Grows /\ UNCHANGED <<written, intake, module, job, cand, outcome>> /\ pc' \in RunPc
    BY <1>4 DEF RouteFile, Grows, RunPc, store
  <2>2. BuildsFailed'
    BY <2>1, BuildsKept
  <2>3. AnswersTold'
    BY <2>1, ToldKept DEF AnswersTold, clientVars, Active
  <2> QED
    BY <1>1, <2>1, <2>2, <2>3, AnswerPass
<1> QED
  BY <1>0, <1>2, <1>3, <1>4, RouteCases

LEMMA MoveAnswer ==
  ASSUME Quiet, TypeInv, HashInv, QuietInv, AnswerInv, UNCHANGED clientVars, Move
  PROVE  AnswerInv'
<1>1. pc = "move" /\ pc \in RunPc /\ pc' \in RunPc
  BY DEF Move, MoveDone, MoveVanished, MoveFailed, RunPc
<1>2. cur.n \in Name /\ cand[cur.n] # None
  BY <1>1, HandFacts DEF InHand
<1>3. CASE MoveVanished
  <2>1. \A u \in Name : cand'[u] # None => cand'[u] = cand[u]
    BY <1>3 DEF MoveVanished, Drop, TypeInv, EngineInv, EngineTypeOK
  <2>2. BuildsFailed'
    BY <1>3, <2>1, BuildsKept DEF MoveVanished, disk, Grows
  <2> QED
    BY <1>1, <1>3, <2>1, <2>2, AnswerLooking DEF MoveVanished, store
<1>4. CASE MoveDone
  <2>1. PICK mv \in Moves(intake[cur.n]) :
          intake' = [intake EXCEPT ![cur.n] = mv.src] /\ written' = mv.wr /\ intake[cur.n] # None
    BY <1>4 DEF MoveDone
  <2>2. intake[cur.n] \in Stamp /\ written[intake[cur.n]] # None
    BY <1>2, <2>1 DEF TypeInv, CorpusInv, CorpusTypeOK, IntakeWritten
  <2>3. Grows /\ mv.src \in {None, intake[cur.n]}
    BY <2>1, <2>2, MovesFacts, MoveGrows DEF TypeInv, CorpusInv
  <2>4. \A u \in Name : intake'[u] \in {None, intake[u]}
    BY <1>2, <2>1, <2>3 DEF TypeInv, CorpusInv, CorpusTypeOK
  <2>5. UNCHANGED <<module, job, cand, outcome>>
    BY <1>4 DEF MoveDone, store
  <2>6. BuildsFailed'
    BY <2>3, <2>5, BuildsKept
  <2>7. AnswersTold'
    BY <2>3, <2>5, ToldKept DEF AnswersTold, clientVars, Active
  <2> QED
    BY <1>1, <2>3, <2>4, <2>5, <2>6, <2>7, AnswerPass
<1> QED
  BY <1>3, <1>4 DEF Move, MoveFailed, Quiet

(* ReplaceModule stores a revision of the same request. *)
LEMMA SaveAnswer ==
  ASSUME TypeInv, HashInv, QuietInv, AnswerInv, UNCHANGED clientVars, Save
  PROVE  AnswerInv'
<1> DEFINE n == cur.n
           c == BuiltContent(n)
<1>1. /\ pc = "save" /\ pc' = "mark" /\ ReplaceModule(c, cur.p) /\ Grows
      /\ UNCHANGED <<disk, job, cand, outcome>>
  BY DEF Save, QuietInv, PassInv, disk, Grows
<1>2. /\ n \in Name /\ cand[n] # None /\ cur.p \in Path
      /\ c = written[cand[n].seen] /\ c \in Content /\ ModuleOf[c] \in Module
  BY <1>1, HandFacts DEF InHand, BuiltModule
<1>3. /\ module'[ModuleOf[c]] = [c |-> c, src |-> cur.p]
      /\ \A m \in Module \ {ModuleOf[c]} : module'[m] = module[m]
  BY <1>1, <1>2 DEF ReplaceModule, TypeInv, CorpusInv, CorpusTypeOK
<1>4. [c |-> c, src |-> cur.p] # None
  BY <1>2 DEF ModuleRow
<1>5. req = "running" => c \in StagedContents
  BY <1>2, CandidateStaged
<1>6. BuildsFailed'
  BY <1>1, BuildsKept
<1> HIDE DEF c
<1>7. AnswersTold'
  <2>1. ASSUME req = "running", NEW u \in Active(sent) PROVE Told(u)'
    <3>1. \A m \in Module : module[m] # None =>
            module'[m] # None /\ module'[m].c \in {module[m].c} \cup StagedContents
      BY <1>3, <1>4, <1>5, <2>1
    <3>2. outcome'[u] = outcome[u]
      BY <1>1
    <3> QED
      BY <1>1, <2>1, <3>1, <3>2, ToldKept
  <2> QED
    BY <2>1 DEF AnswersTold, clientVars, Active
<1> QED
  BY <1>1, <1>6, <1>7, AnswerPass DEF RunPc, disk

LEMMA MarkAnswer ==
  ASSUME TypeInv, HashInv, QuietInv, AnswerInv, UNCHANGED clientVars, Mark
  PROVE  AnswerInv'
<1>0. PICK n : n = cur.n
  OBVIOUS
<1>1. /\ pc = "mark" /\ pc' = "route" /\ Grows /\ UNCHANGED <<disk, module>>
      /\ job' = [job EXCEPT !.changed = TRUE]
  BY DEF Mark, disk, Grows
<1>2. /\ n \in Name /\ cand[n] # None /\ cur.p \in Path
      /\ BuiltContent(n) = written[cand[n].seen] /\ BuiltModule(n) \in Module
  BY <1>0, <1>1, HandFacts DEF InHand
<1>3. /\ tree[cur.p] # None /\ written[tree[cur.p]] = written[cand[n].seen]
      /\ Loaded(cur.p)
  BY <1>0, <1>1 DEF HashInv, PassMoved, QuietInv, PassInv, FilingState, InHand
<1>4. /\ outcome'[n] = "imported"
      /\ \A u \in Name \ {n} : outcome'[u] = outcome[u]
      /\ \A u \in Name : cand'[u] # None => cand'[u] = cand[u]
  BY <1>0, <1>2 DEF Mark, Drop, TypeInv, EngineInv, EngineTypeOK
<1>5. job'.by = job.by /\ job'.replace = job.replace
  BY <1>1 DEF TypeInv, EngineInv, EngineTypeOK, Job
<1>6. BuildsFailed'
  BY <1>1, <1>4, BuildsKept
<1>7. ASSUME req = "running" PROVE Told(n)'
  <2>1. /\ cand[n].seen = sent[n] /\ n \in Active(sent)
        /\ written[sent[n]] \in Content /\ written[sent[n]] \in StagedContents
    BY <1>2, <1>7, CandidateStaged
  <2>2. /\ written'[sent'[n]] = written[sent[n]] /\ StagedContents' = StagedContents
    BY <1>1, <1>2, <2>1, StagedFacts, ContentsKept DEF Active, clientVars
  <2>3. ModuleOf[written[sent[n]]] \in Module
    BY <1>2, <2>1 DEF BuiltModule
  <2>4. module[ModuleOf[written[sent[n]]]] = [c |-> written[sent[n]], src |-> cur.p]
    BY <1>3, <2>1 DEF Loaded, Declared
  <2>5. [c |-> written[sent[n]], src |-> cur.p] # None
    BY <1>2, <2>1 DEF ModuleRow
  <2>6. module'[ModuleOf[written[sent[n]]]] # None
    BY <1>1, <2>4, <2>5
  <2>7. module'[ModuleOf[written[sent[n]]]].c = written[sent[n]]
    BY <1>1, <2>4
  <2> QED
    BY <1>4, <2>1, <2>2, <2>3, <2>6, <2>7 DEF Told
<1>8. AnswersTold'
  <2>1. ASSUME req = "running", NEW u \in Active(sent), u # n PROVE Told(u)'
    BY <1>1, <1>4, <2>1, ToldKept DEF Active
  <2> QED
    BY <1>7, <2>1 DEF AnswersTold, Active, clientVars
<1> QED
  BY <1>1, <1>4, <1>5, <1>6, <1>8, AnswerPass DEF RunPc, disk

(* The end of a pass; a request is answered. *)
LEMMA ReleaseAnswer ==
  ASSUME TypeInv, QuietInv, AnswerInv, EngineRuns, Release, pc \in RunPc, UNCHANGED disk
  PROVE  AnswerInv'
<1>1. pc' = "idle" /\ Grows
  BY DEF Release, QuietInv, PassInv, disk, Grows
<1>2. BuildsFailed'
  BY DEF Release, NoCandidates, BuildsFailed
<1>3. \A n \in Name : outcome'[n] = None
  BY DEF Release
<1>4. CASE job.by = "request"
  <2>1. ClientDone
    BY <1>1, <1>4 DEF EngineRuns
  <2> QED
    BY <1>1, <1>2, <1>3, <2>1
    DEF ClientDone, AnswerInv, StagedFiles, RequestPass, AnswersTold, RunPc
<1>5. CASE job.by # "request"
  <2>1. UNCHANGED clientVars /\ req # "running"
    BY <1>1, <1>5 DEF EngineRuns, AnswerInv, RequestPass
  <2>2. StagedFiles'
    BY <1>1, <2>1, StagedKept DEF clientVars, disk
  <2> QED
    BY <1>1, <1>2, <1>3, <2>1, <2>2 DEF AnswerInv, RequestPass, AnswersTold, RunPc, clientVars
<1> QED
  BY <1>4, <1>5

LEMMA EngineRunsAnswer ==
  ASSUME Quiet, TypeInv, HashInv, QuietInv, AnswerInv, EngineRuns
  PROVE  AnswerInv'
<1>1. CASE Release /\ (EndCheck \/ Finish)
  BY <1>1, ReleaseAnswer DEF EndCheck, Finish, RunPc, disk
<1>2. CASE ~Release
  <2>1. ~Finish
    BY <1>2 DEF Finish
  <2>2. pc' \in RunPc
    BY <1>2, <2>1 DEF EngineRuns, EngineStep, Settle, EndCheck, EndBuild, RouteForget, Move,
       MoveDone, MoveVanished, MoveFailed, Save, Mark, Check, Build, Route, RouteDeferred,
       RouteFailed, RouteDuplicate, RouteFile, RunPc
  <2>3. UNCHANGED clientVars
    BY <2>2 DEF EngineRuns, RunPc
  <2> QED
    BY <1>2, <2>1, <2>3, LookingAnswer, CheckAnswer, RouteAnswer, MoveAnswer, SaveAnswer, MarkAnswer
    DEF EngineRuns, EngineStep
<1>3. CASE Release /\ ~(EndCheck \/ Finish)
  <2>1. pc' = "idle"
    BY <1>3 DEF Release, QuietInv, PassInv
  <2> QED
    BY <1>3, <2>1 DEF EngineRuns, EngineStep, Settle, EndBuild, RouteForget, Move, MoveDone,
       MoveVanished, MoveFailed, Save, Mark, Check, Build, Route, RouteDeferred, RouteFailed,
       RouteDuplicate, RouteFile
<1> QED
  BY <1>1, <1>2, <1>3

LEMMA NextAnswer ==
  ASSUME Quiet, TypeInv, HashInv, QuietInv, AnswerInv, [Next]_vars
  PROVE  AnswerInv'
<1>1. ASSUME NEW batch, WatcherBegin(batch) PROVE AnswerInv'
  BY <1>1, WatcherBeginAnswer
<1>2. ~RequestCancel
  BY DEF RequestCancel, Cancel, Quiet
<1>3. CASE UNCHANGED vars
  BY <1>3, AnswerBeside DEF vars, disk, store, clientVars, Grows
<1> QED
  BY <1>1, <1>2, <1>3, EnvironmentAnswer, StagingAnswer, RequestBeginAnswer, EngineRunsAnswer,
     ProcessAnswer DEF Next, Client, RescanBegin

-----------------------------------------------------------------------------
(* Where a staged file is when its pass has no outcome for it.             *)

(* A pass skips no file, defers none, and has all it holds still to treat. *)
NoneSkipped ==
  /\ poisoned = {}
  /\ \A n \in Name : cand[n] # None => cand[n].built # "exhausted"
  /\ pc \in {"route", "forget", "move", "save", "mark"} => Active(cand) \subseteq todo

Unanswered ==
  req = "running" =>
    \A n \in Active(sent) : outcome[n] = None /\ cand[n] = None => intake[n] # sent[n]

(* What was staged as n is refused, or its module is served ... *)
Handled(n) ==
  Refused(written[sent[n]]) \/ module[ModuleOf[written[sent[n]]]] # None

(* ... or is about to be stored. *)
Storing(n) == pc = "save" /\ n = cur.n /\ cand[n].seen = sent[n]

(* A staged file leaves import/ with a pass that handles it. *)
TakenAway ==
  \A n \in Active(sent) : intake[n] # sent[n] =>
    pc \notin {"down"} \cup SyncPc /\ (Handled(n) \/ Storing(n))

TakenInv == NoneSkipped /\ Unanswered /\ TakenAway

LEMMA InitTaken == Init => TakenInv
BY DEF Init, EngineInit, ClientInit, NoCandidates, Active, TakenInv, NoneSkipped, Unanswered,
   TakenAway

LEMMA HandledKept ==
  ASSUME TypeInv, AnswerInv, Grows, UNCHANGED sent, NEW n \in Active(sent), Handled(n),
         \A m \in Module : module[m] # None => module'[m] # None
  PROVE  Handled(n)'
<1>1. /\ written'[sent'[n]] = written[sent[n]] /\ written[sent[n]] \in Content
      /\ n \in Name /\ sent[n] # None
  BY StagedFacts DEF Active
<1>2. ModuleOf[written[sent[n]]] \in Module \cup {None}
  BY <1>1
<1> QED
  BY <1>1, <1>2 DEF Handled, Refused

(* A step beside a pass leaves the staged files, or stages one more. *)
LEMMA TakenBeside ==
  ASSUME TypeInv, AnswerInv, TakenInv, Grows, UNCHANGED <<module, pc, engineVars>>,
         req' = "running" => req = "running",
         \A n \in Name : sent'[n] # None =>
           \/ sent'[n] = sent[n] /\ intake'[n] = intake[n]
           \/ intake'[n] = sent'[n] /\ req' # "running"
  PROVE  TakenInv'
<1> USE DEF engineVars
<1>1. NoneSkipped'
  BY DEF TakenInv, NoneSkipped, Active
<1>2. Unanswered'
  BY DEF TakenInv, Unanswered, Active
<1>3. TakenAway'
  <2> SUFFICES ASSUME NEW n \in Name, sent'[n] # None, intake'[n] # sent'[n]
               PROVE  pc \notin {"down"} \cup SyncPc /\ (Handled(n)' \/ Storing(n)')
    BY DEF TakenAway, Active
  <2>1. n \in Active(sent) /\ sent'[n] = sent[n] /\ intake[n] # sent[n]
    BY DEF Active
  <2>2. pc \notin {"down"} \cup SyncPc /\ (Handled(n) \/ Storing(n))
    BY <2>1 DEF TakenInv, TakenAway
  <2>3. written'[sent'[n]] = written[sent[n]]
    BY <2>1 DEF AnswerInv, StagedFiles, Grows, TypeInv, ClientInv, Active
  <2> QED
    BY <2>1, <2>2, <2>3 DEF Handled, Storing
<1> QED
  BY <1>1, <1>2, <1>3 DEF TakenInv

LEMMA EnvironmentTaken ==
  ASSUME Quiet, TypeInv, AnswerInv, TakenInv, Environment
  PROVE  TakenInv'
<1> USE DEF Quiet, MayTouch, InUse, Active
<1>1. ASSUME NEW n \in Name, NEW c \in Content, NEW s \in Stamp, DropFile(n, c, s)
      PROVE  TakenInv'
  <2>1. Grows
    BY <1>1, WriteFacts DEF DropFile, TypeInv, CorpusInv
  <2>2. \A u \in Name : sent[u] # None => intake'[u] = intake[u]
    BY <1>1 DEF DropFile, TypeInv, CorpusInv, CorpusTypeOK
  <2> QED
    BY <1>1, <2>1, <2>2, TakenBeside DEF DropFile, store, clientVars
<1>2. ASSUME NEW n \in Name, NEW c \in Content, NEW s \in Stamp, NEW rep \in BOOLEAN,
             UploadPart(n, c, s, rep)
      PROVE  TakenInv'
  <2>1. Grows
    BY <1>2, WriteFacts DEF UploadPart, TypeInv, CorpusInv
  <2>2. /\ \A u \in Name \ {n} : sent'[u] = sent[u] /\ intake'[u] = intake[u]
        /\ sent'[n] = s /\ intake'[n] = s
    BY <1>2 DEF UploadPart, TypeInv, ClientInv, CorpusInv, CorpusTypeOK
  <2> QED
    BY <1>2, <2>1, <2>2, TakenBeside DEF UploadPart, store
<1>3. ASSUME NEW n \in Name, DeletePending(n) PROVE TakenInv'
  <2>1. \A u \in Name : sent[u] # None => intake'[u] = intake[u]
    BY <1>3 DEF DeletePending, TypeInv, CorpusInv, CorpusTypeOK
  <2> QED
    BY <1>3, <2>1, TakenBeside DEF DeletePending, store, clientVars, Grows
<1>4. ASSUME NEW k \in Quarantine, NEW q \in Name,
             DeleteQuarantined(k, q) \/ ReplacePick(k, q)
      PROVE  TakenInv'
  BY <1>4, TakenBeside DEF DeleteQuarantined, ReplacePick, store, clientVars, Grows, disk
<1>5. ~MayEdit
  BY DEF MayEdit
<1> QED
  BY <1>1, <1>2, <1>3, <1>4, <1>5 DEF Environment, EditTree, RemoveFromTree

LEMMA StagingTaken ==
  ASSUME TypeInv, AnswerInv, TakenInv, UploadStaged \/ ReplaceStage \/ UNCHANGED vars
  PROVE  TakenInv'
<1>1. CASE UploadStaged \/ UNCHANGED vars
  BY <1>1, TakenBeside DEF UploadStaged, vars, clientVars, store, Grows, disk
<1>2. CASE ReplaceStage
  <2>1. Grows /\ req = "claimed" /\ pick \in Picks
    BY <1>2, ReplaceStageGrows DEF ReplaceStage, TypeInv, ClientInv
  <2>2. \A n \in Name : sent[n] = None
    BY <2>1 DEF AnswerInv, StagedFiles
  <2>3. \A n \in Name : sent'[n] # None => intake'[n] = sent'[n]
    BY <1>2, <2>1, <2>2 DEF ReplaceStage, ClientDone, Picks, TypeInv, ClientInv, CorpusInv,
       CorpusTypeOK
  <2>4. req' # "running"
    BY <1>2 DEF ReplaceStage, ClientDone
  <2> QED
    BY <1>2, <2>1, <2>3, <2>4, TakenBeside DEF ReplaceStage, store
<1> QED
  BY <1>1, <1>2

(* A pass begins with every staged file that is still in import/. *)
LEMMA BeginTaken ==
  ASSUME TypeInv, AnswerInv, TakenInv, NEW batch, NEW who, NEW rep, Begin(batch, who, rep),
         UNCHANGED sent, req' = "running" => batch = Active(sent)
  PROVE  TakenInv'
<1> USE DEF Begin, disk, store
<1>1. NoneSkipped'
  BY DEF TakenInv, NoneSkipped
<1>2. Unanswered'
  <2> SUFFICES ASSUME req' = "running", NEW n \in Name, sent[n] # None, cand'[n] = None
               PROVE  intake[n] = None
    BY DEF Unanswered, Active
  <2>1. n \in batch \ poisoned
    BY DEF Active, TakenInv, NoneSkipped
  <2>2. intake[n] # None => [seen |-> intake[n], built |-> None] # None
    BY CandidateAssumption DEF Candidate, TypeInv, CorpusInv, CorpusTypeOK
  <2> QED
    BY <2>1, <2>2
<1>3. Grows
  BY DEF Grows
<1>4. TakenAway'
  <2> SUFFICES ASSUME NEW n \in Active(sent), intake[n] # sent[n]
               PROVE  Handled(n)'
    BY DEF TakenAway, Active, SyncPc
  <2> QED
    BY <1>3, HandledKept DEF TakenInv, TakenAway, Storing
<1> QED
  BY <1>1, <1>2, <1>4 DEF TakenInv

(* A step of a pass that does not store a module. *)
LEMMA TakenPass ==
  ASSUME TypeInv, AnswerInv, TakenInv, Grows, UNCHANGED <<module, clientVars>>,
         pc \in RunPc \ {"save"}, pc' \in RunPc, NoneSkipped',
         \A n \in Active(sent) :
           /\ intake'[n] = intake[n] \/ intake'[n] # sent[n]
           /\ intake'[n] # intake[n] /\ intake[n] = sent[n] => Handled(n) \/ Storing(n)'
           /\ outcome'[n] = None /\ cand'[n] = None =>
                (outcome[n] = None /\ cand[n] = None) \/ intake'[n] # sent[n]
  PROVE  TakenInv'
<1> USE DEF clientVars
<1>1. Unanswered'
  BY DEF TakenInv, Unanswered, Active
<1>2. TakenAway'
  <2> SUFFICES ASSUME NEW n \in Active(sent), intake'[n] # sent[n]
               PROVE  Handled(n)' \/ Storing(n)'
    BY DEF TakenAway, Active, RunPc, SyncPc
  <2>1. Handled(n) \/ Storing(n)'
    BY DEF TakenInv, TakenAway, Storing
  <2> QED
    BY <2>1, HandledKept
<1> QED
  BY <1>1, <1>2 DEF TakenInv

LEMMA QuarantinedTaken ==
  ASSUME Quiet, TypeInv, HashInv, AnswerInv, TakenInv, NEW n \in Name, cand[n] # None,
         NEW k \in Quarantine, Quarantined(n, k), Reason(written[cand[n].seen], k),
         UNCHANGED <<pc, clientVars>>, pc \in {"check", "route"}
  PROVE  TakenInv'
<1> USE DEF Quarantined, Drop
<1>1. intake[n] = cand[n].seen /\ intake[n] \in Stamp
  BY CandidateThere DEF RunPc
<1>2. QuarantineMoved(n, k)
  BY <1>1 DEF QuarantineStuck, Quiet
<1>3. PICK mv \in Moves(intake[n]) :
        intake' = [intake EXCEPT ![n] = mv.src] /\ written' = mv.wr
  BY <1>2 DEF QuarantineMoved
<1>4. Grows /\ mv.src \in {None, intake[n]}
  <2>1. written[intake[n]] # None
    BY <1>1 DEF TypeInv, CorpusInv, IntakeWritten
  <2> QED
    BY <1>1, <1>3, <2>1, MovesFacts, MoveGrows DEF TypeInv, CorpusInv
<1>5. /\ intake'[n] \in {None, intake[n]}
      /\ \A u \in Name \ {n} : intake'[u] = intake[u]
  BY <1>3, <1>4 DEF TypeInv, CorpusInv, CorpusTypeOK
<1>6. /\ \A u \in Name \ {n} : cand'[u] = cand[u] /\ outcome'[u] = outcome[u]
      /\ cand'[n] = None /\ outcome'[n] = k
  BY DEF TypeInv, EngineInv, EngineTypeOK
<1>7. NoneSkipped'
  BY <1>2, <1>6 DEF TakenInv, NoneSkipped, QuarantineMoved, Active
<1>8. ASSUME n \in Active(sent), intake[n] = sent[n] PROVE Handled(n)
  BY <1>1, <1>8 DEF Handled, Reason, Quarantine
<1>9. UNCHANGED module /\ k # None
  BY DEF store, Quarantine
<1> QED
  BY <1>4, <1>5, <1>6, <1>7, <1>8, <1>9, TakenPass DEF RunPc, Active

(* A step of a pass that leaves import/ alone. *)
LEMMA LookingTaken ==
  ASSUME TypeInv, AnswerInv, TakenInv, UNCHANGED <<intake, written, module, clientVars>>,
         pc \in RunPc \ {"save"}, pc' \in RunPc, NoneSkipped',
         \A n \in Name : outcome'[n] = None /\ cand'[n] = None =>
           (outcome[n] = None /\ cand[n] = None) \/ intake[n] # sent[n]
  PROVE  TakenInv'
<1>1. Grows
  BY DEF Grows
<1> QED
  BY <1>1, TakenPass DEF Active

LEMMA CheckTaken ==
  ASSUME Quiet, TypeInv, HashInv, QuietInv, AnswerInv, TakenInv, UNCHANGED clientVars,
         NEW n \in Name, Check(n)
  PROVE  TakenInv'
<1>1. CASE \E k \in Quarantine : Quarantined(n, k) /\ Reason(written[cand[n].seen], k)
  BY <1>1, CheckCases, QuarantinedTaken
<1>2. CASE UNCHANGED <<disk, store, job, cand, outcome, poisoned>>
  <2>1. pc = "check" /\ pc' = "check"
    BY CheckCases
  <2>2. NoneSkipped'
    BY <1>2, <2>1 DEF TakenInv, NoneSkipped
  <2> QED
    BY <1>2, <2>1, <2>2, LookingTaken DEF disk, store, RunPc
<1> QED
  BY <1>1, <1>2, CheckCases

LEMMA RouteTaken ==
  ASSUME Quiet, TypeInv, HashInv, QuietInv, AnswerInv, TakenInv, UNCHANGED clientVars,
         NEW n \in Name, Route(n)
  PROVE  TakenInv'
<1>0. BuildsFailed
  BY DEF AnswerInv
<1>1. pc = "route" /\ cand[n] # None
  BY <1>0, RouteCases
<1>2. CASE UNCHANGED pc /\ \E k \in Quarantine :
             Quarantined(n, k) /\ Reason(written[cand[n].seen], k)
  BY <1>1, <1>2, QuarantinedTaken
<1>3. ~RouteDeferred(n)
  BY <1>1 DEF RouteDeferred, TakenInv, NoneSkipped
<1>4. CASE RouteFile(n)
  <2>1. /\ UNCHANGED <<intake, written, module, cand, todo, outcome, poisoned>>
        /\ pc' \in {"forget", "move"}
    BY <1>4 DEF RouteFile, store
  <2>2. NoneSkipped'
    BY <1>1, <2>1 DEF TakenInv, NoneSkipped, Active
  <2> QED
    BY <1>1, <2>1, <2>2, LookingTaken DEF RunPc
<1> QED
  BY <1>0, <1>2, <1>3, <1>4, RouteCases

(* The pass reads, compiles, forgets a row or notes the end of a file. *)
LEMMA PassTaken ==
  ASSUME Quiet, TypeInv, HashInv, QuietInv, AnswerInv, TakenInv, UNCHANGED clientVars,
         Settle \/ EndBuild \/ (EndCheck /\ ~Release) \/ RouteForget \/ Mark
           \/ \E n \in Name : Build(n)
  PROVE  TakenInv'
<1> USE DEF disk, store, RunPc
<1>1. CASE Settle
  <2>1. NoneSkipped'
    BY <1>1 DEF Settle, TakenInv, NoneSkipped
  <2>2. ASSUME NEW n \in Name, cand'[n] = None PROVE cand[n] = None
    <3> SUFFICES ASSUME cand[n] # None PROVE FALSE
      OBVIOUS
    <3>1. intake[n] = cand[n].seen
      BY <1>1, CandidateThere DEF Settle
    <3> QED
      BY <1>1, <2>2, <3>1 DEF Settle
  <2> QED
    BY <1>1, <2>1, <2>2, LookingTaken DEF Settle
<1>2. CASE EndBuild \/ (EndCheck /\ ~Release)
  <2>1. NoneSkipped'
    BY <1>2 DEF EndBuild, EndCheck, TakenInv, NoneSkipped, Active
  <2> QED
    BY <1>2, <2>1, LookingTaken DEF EndBuild, EndCheck
<1>3. CASE RouteForget
  <2>1. NoneSkipped'
    BY <1>3 DEF RouteForget, TakenInv, NoneSkipped, Active
  <2> QED
    BY <1>3, <2>1, LookingTaken DEF RouteForget
<1>4. CASE Mark
  <2>0. PICK n : n = cur.n
    OBVIOUS
  <2>1. pc = "mark" /\ pc' = "route" /\ n \in Name
    BY <1>4, <2>0, HandFacts DEF Mark, InHand
  <2>2. /\ outcome'[n] = "imported"
        /\ \A u \in Name \ {n} : outcome'[u] = outcome[u] /\ cand'[u] = cand[u]
        /\ cand'[n] = None /\ todo' = todo \ {n} /\ poisoned' = poisoned
    BY <1>4, <2>0, <2>1 DEF Mark, Drop, TypeInv, EngineInv, EngineTypeOK
  <2>3. NoneSkipped'
    BY <2>1, <2>2 DEF TakenInv, NoneSkipped, Active
  <2>4. "imported" # None
    BY SentinelAssumption
  <2> QED
    BY <1>4, <2>1, <2>2, <2>3, <2>4, LookingTaken DEF Mark
<1>5. ASSUME NEW n \in Name, Build(n) PROVE TakenInv'
  <2>1. PICK res \in {BuildResult(n)} : cand' = [cand EXCEPT ![n].built = res]
    BY <1>5 DEF Build, Quiet
  <2>2. cand[n] # None /\ intake[n] \in Stamp /\ cand[n].seen \in Stamp
    BY <1>5 DEF Build, TypeInv, EngineInv, PassState, Active, HashInv, PassFiles, EngineTypeOK,
       Candidate
  <2>3. res \in Stamp \cup {"error"}
    BY <2>1, <2>2 DEF BuildResult
  <2>4. /\ cand'[n] = [cand[n] EXCEPT !.built = res]
        /\ \A u \in Name \ {n} : cand'[u] = cand[u]
    BY <2>1 DEF TypeInv, EngineInv, EngineTypeOK
  <2>5. cand'[n] \in Candidate /\ cand'[n].built = res
    BY <2>2, <2>3, <2>4 DEF TypeInv, EngineInv, EngineTypeOK, Candidate
  <2>6. cand'[n] # None /\ res # "exhausted"
    BY <2>3, <2>5, CandidateAssumption, SentinelAssumption
  <2>7. NoneSkipped'
    BY <1>5, <2>4, <2>5, <2>6 DEF Build, TakenInv, NoneSkipped
  <2> QED
    BY <1>5, <2>4, <2>6, <2>7, LookingTaken DEF Build
<1> QED
  BY <1>1, <1>2, <1>3, <1>4, <1>5

(* The file in hand leaves import/, to be stored next. *)
LEMMA MoveTaken ==
  ASSUME Quiet, TypeInv, HashInv, QuietInv, AnswerInv, TakenInv, UNCHANGED clientVars, Move
  PROVE  TakenInv'
<1>0. PICK n : n = cur.n
  OBVIOUS
<1>1. pc = "move" /\ n \in Name /\ cand[n] # None
  BY <1>0, HandFacts DEF Move, InHand
<1>2. intake[n] = cand[n].seen /\ intake[n] \in Stamp
  BY <1>1, CandidateThere DEF RunPc
<1>3. MoveDone
  BY <1>0, <1>2 DEF Move, MoveVanished, MoveFailed, Quiet
<1>4. PICK mv \in Moves(intake[n]) :
        intake' = [intake EXCEPT ![n] = mv.src] /\ written' = mv.wr
  BY <1>0, <1>3 DEF MoveDone
<1>5. Grows /\ mv.src \in {None, intake[n]}
  <2>1. written[intake[n]] # None
    BY <1>1, <1>2 DEF TypeInv, CorpusInv, IntakeWritten
  <2> QED
    BY <1>2, <1>4, <2>1, MovesFacts, MoveGrows DEF TypeInv, CorpusInv
<1>6. /\ intake'[n] \in {None, intake[n]}
      /\ \A u \in Name \ {n} : intake'[u] = intake[u]
  BY <1>1, <1>4, <1>5 DEF TypeInv, CorpusInv, CorpusTypeOK
<1>7. UNCHANGED <<module, cand, todo, cur, outcome, poisoned>> /\ pc' = "save"
  BY <1>3 DEF MoveDone, store
<1>8. NoneSkipped'
  BY <1>1, <1>7 DEF TakenInv, NoneSkipped, Active
<1>9. intake[n] = sent[n] => Storing(n)'
  BY <1>0, <1>2, <1>7 DEF Storing, clientVars
<1> QED
  BY <1>1, <1>5, <1>6, <1>7, <1>8, <1>9, TakenPass DEF RunPc, Active

(* What was about to be stored is. *)
LEMMA SaveTaken ==
  ASSUME TypeInv, HashInv, QuietInv, AnswerInv, TakenInv, UNCHANGED clientVars, Save
  PROVE  TakenInv'
<1> DEFINE c == BuiltContent(cur.n)
<1> USE DEF clientVars
<1>1. /\ pc = "save" /\ pc' = "mark" /\ ReplaceModule(c, cur.p) /\ Grows
      /\ UNCHANGED <<intake, written, cand, todo, outcome, poisoned>>
  BY DEF Save, QuietInv, PassInv, disk, Grows
<1>2. /\ cur.n \in Name /\ cand[cur.n] # None /\ cur.p \in Path
      /\ c = written[cand[cur.n].seen] /\ c \in Content /\ ModuleOf[c] \in Module
  BY <1>1, HandFacts DEF InHand, BuiltModule
<1>3. /\ module'[ModuleOf[c]] = [c |-> c, src |-> cur.p]
      /\ \A m \in Module \ {ModuleOf[c]} : module'[m] = module[m]
  BY <1>1, <1>2 DEF ReplaceModule, TypeInv, CorpusInv, CorpusTypeOK
<1>4. [c |-> c, src |-> cur.p] # None
  BY <1>2 DEF ModuleRow
<1> HIDE DEF c
<1>5. NoneSkipped' /\ Unanswered'
  BY <1>1 DEF TakenInv, NoneSkipped, Unanswered, Active
<1>6. TakenAway'
  <2> SUFFICES ASSUME NEW n \in Active(sent), intake[n] # sent[n]
               PROVE  Handled(n)'
    BY <1>1 DEF TakenAway, Active, SyncPc
  <2>1. CASE Handled(n)
    BY <1>1, <1>3, <1>4, <2>1, HandledKept
  <2>2. CASE Storing(n)
    <3>1. written[sent[n]] = c
      BY <1>2, <2>2 DEF Storing
    <3> QED
      BY <1>1, <1>3, <1>4, <3>1 DEF Handled
  <2> QED
    BY <2>1, <2>2 DEF TakenInv, TakenAway
<1> QED
  BY <1>5, <1>6 DEF TakenInv

(* The end of a pass. *)
LEMMA ReleaseTaken ==
  ASSUME TypeInv, QuietInv, AnswerInv, TakenInv, EngineRuns, Release, pc \in RunPc \ {"save"},
         UNCHANGED <<intake, written, module>>
  PROVE  TakenInv'
<1>1. pc' = "idle" /\ Grows
  BY DEF Release, QuietInv, PassInv, Grows
<1>2. NoneSkipped'
  BY <1>1 DEF Release, TakenInv, NoneSkipped, NoCandidates
<1>3. CASE job.by = "request"
  <2>1. \A n \in Name : sent'[n] = None
    BY <1>1, <1>3 DEF EngineRuns, ClientDone
  <2> QED
    BY <1>2, <2>1 DEF TakenInv, Unanswered, TakenAway, Active
<1>4. CASE job.by # "request"
  <2>1. UNCHANGED clientVars /\ req # "running"
    BY <1>1, <1>4 DEF EngineRuns, AnswerInv, RequestPass
  <2>2. TakenAway'
    <3> SUFFICES ASSUME NEW n \in Active(sent), intake[n] # sent[n]
                 PROVE  Handled(n)'
      BY <1>1, <2>1 DEF TakenAway, Active, SyncPc, clientVars
    <3> QED
      BY <1>1, <2>1, HandledKept DEF TakenInv, TakenAway, Storing, clientVars
  <2> QED
    BY <1>2, <2>1, <2>2 DEF TakenInv, Unanswered, clientVars
<1> QED
  BY <1>3, <1>4

(* Only the end of a pass releases the mutex. *)
LEMMA PassEnds ==
  ASSUME QuietInv, EngineRuns
  PROVE  /\ Release => EndCheck \/ Finish
         /\ ~Release => UNCHANGED clientVars
         /\ pc' = "idle" => Release
<1>1. pc' \in {"idle", "down"} => EndCheck \/ Finish
  BY DEF EngineRuns, EngineStep, Settle, EndBuild, RouteForget, Move, MoveDone, MoveVanished,
     MoveFailed, Save, Mark, Check, Build, Route, RouteDeferred, RouteFailed, RouteDuplicate,
     RouteFile
<1>2. EndCheck \/ Finish => Release \/ pc' = "build"
  BY DEF EndCheck, Finish
<1>3. Release => pc' = "idle"
  BY DEF Release, QuietInv, PassInv
<1>4. pc' \notin {"idle", "down"} => UNCHANGED clientVars
  BY DEF EngineRuns
<1> QED
  BY <1>1, <1>2, <1>3, <1>4

LEMMA EngineRunsTaken ==
  ASSUME Quiet, TypeInv, HashInv, QuietInv, AnswerInv, TakenInv, EngineRuns
  PROVE  TakenInv'
<1>1. CASE Release
  <2>1. EndCheck \/ Finish
    BY <1>1, PassEnds
  <2>2. pc \in RunPc \ {"save"} /\ UNCHANGED <<intake, written, module>>
    BY <2>1 DEF EndCheck, Finish, RunPc, disk, store
  <2> QED
    BY <1>1, <2>2, ReleaseTaken
<1>2. CASE ~Release
  <2>1. UNCHANGED clientVars /\ ~Finish
    BY <1>2, PassEnds DEF Finish
  <2> QED
    BY <1>2, <2>1, PassTaken, CheckTaken, RouteTaken, MoveTaken, SaveTaken
    DEF EngineRuns, EngineStep
<1> QED
  BY <1>1, <1>2

(* A validation and a boot find every staged file where it was put. *)
LEMMA ProcessTaken ==
  ASSUME TypeInv, AnswerInv, TakenInv,
         SyncRuns \/ Stop \/ \E rebuild \in BOOLEAN : Boot(rebuild)
  PROVE  TakenInv'
<1>1. CASE SyncRuns \/ \E rebuild \in BOOLEAN : Boot(rebuild)
  <2>1. /\ pc \in {"down"} \cup SyncPc /\ pc' \in {"idle"} \cup SyncPc
        /\ UNCHANGED <<engineVars, clientVars, intake>>
    BY <1>1 DEF SyncRuns, SyncStep, SyncWalk, SyncDiff, EndDiff, SyncForget, SyncDrop,
       EndVanish, SyncBuild, EndSyncBuild, SyncLoad, EndLoad, SyncStamp, SyncPrune, EndPrune,
       SyncRefresh, Boot, SyncPc, disk, syncVars
  <2>2. TakenAway' /\ NoneSkipped'
    BY <2>1 DEF TakenInv, TakenAway, NoneSkipped, engineVars, clientVars, Active, SyncPc
  <2>3. req # "running"
    BY <2>1 DEF AnswerInv, RequestPass, RunPc, SyncPc
  <2> QED
    BY <2>1, <2>2, <2>3 DEF TakenInv, Unanswered, clientVars
<1>2. CASE Stop
  BY <1>2 DEF Stop, ClientDone, NoCandidates, Active, TakenInv, NoneSkipped, Unanswered,
     TakenAway
<1> QED
  BY <1>1, <1>2

LEMMA NextTaken ==
  ASSUME Quiet, TypeInv, HashInv, QuietInv, AnswerInv, TakenInv, [Next]_vars
  PROVE  TakenInv'
<1>1. ASSUME NEW batch, WatcherBegin(batch) PROVE TakenInv'
  <2>1. req # "running" /\ UNCHANGED clientVars
    BY <1>1 DEF WatcherBegin, Begin, AnswerInv, RequestPass, RunPc
  <2> QED
    BY <1>1, <2>1, BeginTaken DEF WatcherBegin, clientVars
<1>2. CASE RequestBegin
  BY <1>2, BeginTaken DEF RequestBegin
<1>3. ~RequestCancel
  BY DEF RequestCancel, Cancel, Quiet
<1> QED
  BY <1>1, <1>2, <1>3, EnvironmentTaken, StagingTaken, EngineRunsTaken, ProcessTaken
  DEF Next, Client, RescanBegin

(* The step that answers a request ends its pass. *)
LEMMA AnswerGiven ==
  ASSUME Quiet, TypeInv, QuietInv, AnswerInv, TakenInv, [Next]_vars,
         req = "running", req' = "none", Up'
  PROVE  \A n \in Active(sent) : AnswerIsTrue(n)
<1>1. EngineRuns
  <2>1. ~Environment
    BY DEF Environment, DropFile, EditTree, RemoveFromTree, DeletePending, DeleteQuarantined,
       ReplacePick, UploadPart, clientVars
  <2>2. ~Client
    BY DEF Client, UploadStaged, ReplaceStage, RequestBegin
  <2>3. ~(RescanBegin \/ \E batch \in SUBSET Name : WatcherBegin(batch))
    BY DEF RescanBegin, WatcherBegin, clientVars
  <2>4. ~(RequestCancel \/ SyncRuns \/ \E rebuild \in BOOLEAN : Boot(rebuild))
    BY DEF RequestCancel, SyncRuns, Boot, clientVars
  <2>5. ~Stop
    BY DEF Stop, Up
  <2>6. ~UNCHANGED vars
    BY DEF vars, clientVars
  <2> QED
    BY <2>1, <2>2, <2>3, <2>4, <2>5, <2>6 DEF Next
<1>2. (EndCheck \/ Finish) /\ Release /\ AtRest
  <2>1. pc' = "idle"
    BY <1>1 DEF EngineRuns, Up, clientVars
  <2>2. (EndCheck \/ Finish) /\ Release
    BY <1>1, <2>1, PassEnds
  <2> QED
    BY <2>2 DEF EndCheck, Finish, AtRest, InHand, RunPc
<1>3. ASSUME NEW m \in Module, module[m] # None PROVE Matches(module[m].src)
  <2>1. module[m].src \in Path /\ row[module[m].src] # None
    BY <1>2, <1>3, StoredBacked
  <2>2. tree[module[m].src] # None
    BY <1>2, <2>1 DEF QuietInv, PassInv, RowsThere, ToForget, AtRest, InHand
  <2> QED
    BY <1>2, <2>1, <2>2 DEF QuietInv, PassInv, SettledFiles, AtRest, Moved, InHand
<1>4. ASSUME NEW n \in Active(sent) PROVE AnswerIsTrue(n)
  <2>1. Told(n) /\ n \in Name /\ sent[n] # None
    BY <1>4 DEF AnswerInv, AnswersTold, Active
  <2>2. ModuleOf[written[sent[n]]] \in Module \cup {None}
    BY <2>1 DEF AnswerInv, StagedFiles, TypeInv, ClientInv, CorpusInv, CorpusTypeOK
  <2>3. CASE outcome[n] = "imported"
    BY <1>3, <2>1, <2>2, <2>3 DEF Told, AnswerIsTrue, StagedContents
  <2>4. CASE outcome[n] = "duplicate"
    BY <2>1, <2>4 DEF Told, AnswerIsTrue
  <2>5. CASE outcome[n] = "failed"
    BY <2>1, <2>5 DEF Told, AnswerIsTrue
  <2>6. CASE outcome[n] \notin {"imported", "duplicate", "failed"}
    <3>1. outcome[n] = None
      BY <2>1, <2>6 DEF TypeInv, EngineInv, EngineTypeOK, Status
    <3>2. pc # "save" /\ cand[n] = None
      BY <1>2, <2>1 DEF EndCheck, Finish, Release, Active, TakenInv, NoneSkipped
    <3>3. intake[n] # sent[n]
      BY <1>4, <3>1, <3>2 DEF TakenInv, Unanswered
    <3>4. Handled(n)
      BY <1>4, <3>2, <3>3 DEF TakenInv, TakenAway, Storing
    <3> QED
      BY <2>6, <3>3, <3>4 DEF AnswerIsTrue, Handled
  <2> QED
    BY <2>3, <2>4, <2>5, <2>6
<1> QED
  BY <1>4

(* What a request is told of each of its files is true when it is told:    *)
(* whatever passes, validations, drops and deletions came before, and with *)
(* several parts of one module in one request (handleUpload, run).         *)
THEOREM AnswersTrue ==
  ASSUME Quiet
  PROVE  Spec => AnswersAreTrue
<1> DEFINE Inv == AnswerInv /\ TakenInv
<1>1. TypeInv /\ HashInv /\ QuietInv /\ Inv /\ [Next]_vars => Inv'
  BY NextAnswer, NextTaken
<1>2. TypeInv /\ HashInv /\ QuietInv /\ Inv /\ [Next]_vars =>
        (req = "running" /\ req' = "none" /\ Up' => \A n \in Active(sent) : AnswerIsTrue(n))
  BY AnswerGiven
<1>3. Init => Inv
  BY InitAnswer, InitTaken
<1> QED
  BY <1>1, <1>2, <1>3, QuietCorpus, PTL DEF Spec, AnswersAreTrue
=============================================================================

-------------------------- MODULE MibImport_proofs --------------------------
(***************************************************************************)
(* Proofs about MibImport, for every corpus, every batch and any number of *)
(* writes: the state stays in its types, and a fingerprint that matches a  *)
(* file's stat carries the hash of its bytes as long as nobody touches a   *)
(* file that the engine or a request has in use.                           *)
(***************************************************************************)
EXTENDS MibImport, TLAPS

-----------------------------------------------------------------------------
USE ConstantsAssumption, SentinelAssumption, PickAssumption

(* The inductive strengthening of TypeOK, one part per component.          *)

IntakeWritten == \A n \in Name : intake[n] # None => written[intake[n]] # None
QuarWritten ==
  \A k \in Quarantine, n \in Name : quar[k][n] # None => written[quar[k][n]] # None
TreeWritten == \A p \in Path : tree[p] # None => written[tree[p]] # None
RowWritten == \A p \in Path : row[p] # None => written[row[p].m] # None

CorpusInv ==
  CorpusTypeOK /\ IntakeWritten /\ QuarWritten /\ TreeWritten /\ RowWritten

(* A successful compile read a written file that declares a module. *)
GoodBuild(s) == s \in Stamp =>
  written[s] # None /\ ModuleOf[written[s]] # None

CandWritten == \A n \in Name : cand[n] # None =>
  written[cand[n].seen] # None /\ GoodBuild(cand[n].built)

(* What a pass has in hand. *)
PassState ==
  /\ pc \in RunPc \ {"settle"} => todo \subseteq Active(cand)
  /\ pc \in {"forget", "move", "save", "mark"} =>
       /\ cur \in [n: Name, p: Path]
       /\ cand[cur.n] # None
       /\ cand[cur.n].built \in Stamp

EngineInv == EngineTypeOK /\ CandWritten /\ PassState

OnDiskWritten == \A p \in Path : onDisk[p] # None => written[onDisk[p]] # None
FreshGood == \A p \in Path : fresh[p] # None =>
  onDisk[p] # None /\ GoodBuild(fresh[p].built)

(* What a boot validation has in hand. *)
SyncState ==
  /\ pc = "diff" => left \subseteq Kept(onDisk)
  /\ pc \in {"compile", "load", "stamp"} => left \subseteq Kept(fresh)
  /\ pc = "stamp" =>
       at \in Path /\ fresh[at] # None /\ fresh[at].built \in Stamp
  /\ pc \notin SyncPc \ {"walk"} => fresh = NoPaths

SyncInv == SyncTypeOK /\ OnDiskWritten /\ FreshGood /\ SyncState

ClientInv ==
  /\ req \in {"none", "staging", "claimed", "queued", "running"}
  /\ sent \in [Name -> Stamp \cup {None}]
  /\ repl \in BOOLEAN
  /\ pick \in Picks \cup {None}
  /\ req = "claimed" => pick \in Picks

PcOK == pc \in {"idle", "down"} \cup RunPc \cup SyncPc

TypeInv == CorpusInv /\ EngineInv /\ SyncInv /\ ClientInv /\ PcOK

(* Every type and invariant part that reads the stamps survives writes     *)
(* that only use up fresh ones.                                            *)
Grows == \A s \in Stamp : written[s] # None => written'[s] = written[s]

-----------------------------------------------------------------------------
LEMMA TypeInvImpliesTypeOK == TypeInv => TypeOK
BY DEF TypeInv, CorpusInv, EngineInv, SyncInv, ClientInv, PcOK, TypeOK

LEMMA InitTypeInv == Init => TypeInv
<1> SUFFICES ASSUME Init PROVE TypeInv
  OBVIOUS
<1> USE DEF Init, CorpusInit, EngineInit, SyncInit, ClientInit, NoCandidates, NoPaths
<1>1. CorpusInv
  <2>1. CorpusTypeOK
    BY DEF CorpusTypeOK
  <2> QED
    BY <2>1 DEF CorpusInv, IntakeWritten, QuarWritten, TreeWritten, RowWritten
<1>2. EngineInv
  <2>1. EngineTypeOK
    BY DEF EngineTypeOK, NoJob, Job
  <2> QED
    BY <2>1 DEF EngineInv, CandWritten, PassState, RunPc
<1>3. SyncInv
  <2>1. SyncTypeOK
    BY DEF SyncTypeOK
  <2> QED
    BY <2>1 DEF SyncInv, OnDiskWritten, FreshGood, SyncState, SyncPc
<1>4. ClientInv /\ PcOK
  BY DEF ClientInv, PcOK
<1> QED
  BY <1>1, <1>2, <1>3, <1>4 DEF TypeInv

(* moveFile puts the same bytes under its destination and forgets none. *)
LEMMA MovesFacts ==
  ASSUME CorpusTypeOK, NEW s \in Stamp, written[s] # None, NEW mv \in Moves(s)
  PROVE  /\ mv.dst \in Stamp /\ mv.src \in {None, s}
         /\ mv.wr \in [Stamp -> Content \cup {None}]
         /\ mv.wr[mv.dst] = written[s]
         /\ \A t \in Stamp : written[t] # None => mv.wr[t] = written[t]
         /\ (mv.dst = s /\ mv.src = None) \/ written[mv.dst] = None
BY DEF Moves, Fresh, CorpusTypeOK

LEMMA EngineGrows ==
  ASSUME CorpusTypeOK, EngineInv, Grows, UNCHANGED <<engineVars, pc>>
  PROVE  EngineInv'
<1> USE DEF EngineInv, engineVars
<1>1. EngineTypeOK'
  BY DEF EngineTypeOK
<1>2. CandWritten'
  BY DEF CandWritten, GoodBuild, Grows, EngineTypeOK, Candidate
<1>3. PassState'
  BY DEF PassState, Active
<1> QED
  BY <1>1, <1>2, <1>3

LEMMA SyncGrows ==
  ASSUME CorpusTypeOK, SyncInv, Grows, UNCHANGED syncVars,
         pc' = pc \/ (pc \notin SyncPc /\ pc' \notin SyncPc)
  PROVE  SyncInv'
<1> USE DEF SyncInv, syncVars
<1>1. SyncTypeOK'
  BY DEF SyncTypeOK
<1>2. OnDiskWritten' /\ FreshGood'
  BY DEF OnDiskWritten, FreshGood, GoodBuild, Grows, SyncTypeOK
<1>3. SyncState'
  BY DEF SyncState, Kept, SyncPc
<1> QED
  BY <1>1, <1>2, <1>3

LEMMA ClientUnchanged ==
  ASSUME ClientInv, UNCHANGED clientVars
  PROVE  ClientInv'
BY DEF ClientInv, clientVars

LEMMA ClientDoneInv ==
  ASSUME ClientDone
  PROVE  ClientInv'
BY DEF ClientInv, ClientDone

(* The parts of CorpusInv about files and rows that a step leaves alone.   *)
LEMMA CorpusGrows ==
  ASSUME CorpusInv, Grows
  PROVE  /\ UNCHANGED intake => IntakeWritten'
         /\ UNCHANGED quar => QuarWritten'
         /\ UNCHANGED tree => TreeWritten'
         /\ UNCHANGED row => RowWritten'
<1> USE DEF CorpusInv, CorpusTypeOK, Grows
<1>1. UNCHANGED intake => IntakeWritten'
  BY DEF IntakeWritten
<1>2. UNCHANGED quar => QuarWritten'
  BY DEF QuarWritten
<1>3. UNCHANGED tree => TreeWritten'
  BY DEF TreeWritten
<1>4. UNCHANGED row => RowWritten'
  BY DEF RowWritten, SourceRow
<1> QED
  BY <1>1, <1>2, <1>3, <1>4

(* A new file takes a fresh stamp. *)
LEMMA WriteFacts ==
  ASSUME CorpusTypeOK, NEW s \in Fresh, NEW c \in Content,
         written' = [written EXCEPT ![s] = c]
  PROVE  /\ Grows
         /\ written' \in [Stamp -> Content \cup {None}]
         /\ written'[s] = c
BY DEF CorpusTypeOK, Fresh, Grows

-----------------------------------------------------------------------------
(* The environment and the web client disturb the files and the request.   *)

LEMMA WriteIntakeInv ==
  ASSUME CorpusInv, NEW n \in Name, NEW s \in Fresh, NEW c \in Content,
         written' = [written EXCEPT ![s] = c],
         intake' = [intake EXCEPT ![n] = s],
         UNCHANGED <<quar, tree, store>>
  PROVE  CorpusInv' /\ Grows
<1> USE DEF CorpusInv
<1>1. Grows /\ written' \in [Stamp -> Content \cup {None}] /\ written'[s] = c
  BY WriteFacts
<1>2. CorpusTypeOK'
  BY <1>1 DEF CorpusTypeOK, Fresh, store
<1>3. IntakeWritten'
  BY <1>1 DEF IntakeWritten, CorpusTypeOK, Fresh, Grows
<1> QED
  BY <1>1, <1>2, <1>3, CorpusGrows DEF store

LEMMA DropFileTypeInv ==
  ASSUME TypeInv, NEW n \in Name, NEW c \in Content, NEW s \in Stamp,
         DropFile(n, c, s)
  PROVE  TypeInv'
<1> USE DEF TypeInv, DropFile
<1>1. CorpusInv' /\ Grows
  BY WriteIntakeInv
<1>2. EngineInv'
  BY <1>1, EngineGrows DEF CorpusInv
<1>3. SyncInv'
  BY <1>1, SyncGrows DEF CorpusInv
<1> QED
  BY <1>1, <1>2, <1>3, ClientUnchanged DEF PcOK

LEMMA EditTreeTypeInv ==
  ASSUME TypeInv, NEW p \in Path, NEW c \in Content, NEW s \in Stamp,
         EditTree(p, c, s)
  PROVE  TypeInv'
<1> USE DEF TypeInv, EditTree, CorpusInv
<1>1. Grows /\ written' \in [Stamp -> Content \cup {None}] /\ written'[s] = c
  BY WriteFacts
<1>2. CorpusTypeOK'
  BY <1>1 DEF CorpusTypeOK, store
<1>3. TreeWritten'
  BY <1>1 DEF TreeWritten, CorpusTypeOK, Grows
<1>4. CorpusInv'
  BY <1>1, <1>2, <1>3, CorpusGrows DEF store
<1>5. EngineInv' /\ SyncInv'
  BY <1>1, EngineGrows, SyncGrows
<1> QED
  BY <1>4, <1>5, ClientUnchanged DEF PcOK

(* Nothing is written: only files disappear or the request moves on. *)
LEMMA RemovalInv ==
  ASSUME CorpusInv, UNCHANGED <<written, store>>,
         \/ \E n \in Name : intake' = [intake EXCEPT ![n] = None]
         \/ UNCHANGED intake,
         \/ \E k \in Quarantine, q \in Name :
              quar' = [quar EXCEPT ![k][q] = None]
         \/ UNCHANGED quar,
         \/ \E p \in Path : tree' = [tree EXCEPT ![p] = None]
         \/ UNCHANGED tree
  PROVE  CorpusInv' /\ Grows
<1> USE DEF CorpusInv, CorpusTypeOK
<1>1. Grows
  BY DEF Grows
<1>2. IntakeWritten'
  BY DEF IntakeWritten
<1>3. QuarWritten'
  BY DEF QuarWritten
<1>4. TreeWritten'
  BY DEF TreeWritten
<1>5. RowWritten'
  BY <1>1, CorpusGrows DEF store
<1>6. intake' \in [Name -> Stamp \cup {None}]
  OBVIOUS
<1>7. quar' \in [Quarantine -> [Name -> Stamp \cup {None}]]
  <2>1. ASSUME NEW k \in Quarantine, NEW q \in Name,
               quar' = [quar EXCEPT ![k][q] = None]
        PROVE  quar' \in [Quarantine -> [Name -> Stamp \cup {None}]]
    <3>1. [quar[k] EXCEPT ![q] = None] \in [Name -> Stamp \cup {None}]
      OBVIOUS
    <3> QED
      BY <2>1, <3>1
  <2> QED
    BY <2>1
<1>8. tree' \in [Path -> Stamp \cup {None}]
  OBVIOUS
<1>9. CorpusTypeOK'
  BY <1>6, <1>7, <1>8 DEF store
<1> QED
  BY <1>1, <1>2, <1>3, <1>4, <1>5, <1>9

LEMMA RemoveFromTreeTypeInv ==
  ASSUME TypeInv, NEW p \in Path, RemoveFromTree(p)
  PROVE  TypeInv'
<1> USE DEF TypeInv, RemoveFromTree
<1>1. CorpusInv' /\ Grows
  BY RemovalInv
<1> QED
  BY <1>1, EngineGrows, SyncGrows, ClientUnchanged DEF PcOK, CorpusInv

LEMMA DeletePendingTypeInv ==
  ASSUME TypeInv, NEW n \in Name, DeletePending(n)
  PROVE  TypeInv'
<1> USE DEF TypeInv, DeletePending
<1>1. CorpusInv' /\ Grows
  BY RemovalInv
<1> QED
  BY <1>1, EngineGrows, SyncGrows, ClientUnchanged DEF PcOK, CorpusInv

LEMMA DeleteQuarantinedTypeInv ==
  ASSUME TypeInv, NEW k \in Quarantine, NEW q \in Name, DeleteQuarantined(k, q)
  PROVE  TypeInv'
<1> USE DEF TypeInv, DeleteQuarantined
<1>1. CorpusInv' /\ Grows
  BY RemovalInv
<1> QED
  BY <1>1, EngineGrows, SyncGrows, ClientUnchanged DEF PcOK, CorpusInv

LEMMA UploadPartTypeInv ==
  ASSUME TypeInv, NEW n \in Name, NEW c \in Content, NEW s \in Stamp,
         NEW rep \in BOOLEAN, UploadPart(n, c, s, rep)
  PROVE  TypeInv'
<1> USE DEF TypeInv, UploadPart
<1>1. CorpusInv' /\ Grows
  BY WriteIntakeInv
<1>2. EngineInv' /\ SyncInv'
  BY <1>1, EngineGrows, SyncGrows DEF CorpusInv
<1>3. ClientInv'
  BY DEF ClientInv
<1> QED
  BY <1>1, <1>2, <1>3 DEF PcOK

LEMMA UploadStagedTypeInv ==
  ASSUME TypeInv, UploadStaged
  PROVE  TypeInv'
<1> USE DEF TypeInv, UploadStaged
<1>1. CorpusInv' /\ Grows
  BY RemovalInv DEF disk, store
<1>2. EngineInv' /\ SyncInv'
  BY <1>1, EngineGrows, SyncGrows DEF CorpusInv
<1>3. ClientInv'
  BY DEF ClientInv
<1> QED
  BY <1>1, <1>2, <1>3 DEF PcOK

LEMMA ReplacePickTypeInv ==
  ASSUME TypeInv, NEW k \in Quarantine, NEW q \in Name, ReplacePick(k, q)
  PROVE  TypeInv'
<1> USE DEF TypeInv, ReplacePick
<1>1. CorpusInv' /\ Grows
  BY RemovalInv DEF disk, store
<1>2. EngineInv' /\ SyncInv'
  BY <1>1, EngineGrows, SyncGrows DEF CorpusInv
<1>3. ClientInv'
  BY DEF Picks, ClientInv, UniqueNames
<1> QED
  BY <1>1, <1>2, <1>3 DEF PcOK

(* A move from the place of stamp s to a place of the intake, with the     *)
(* source in quarantine, or the other way round.                           *)
LEMMA MoveGrows ==
  ASSUME CorpusTypeOK, NEW s \in Stamp, written[s] # None, NEW mv \in Moves(s),
         written' = mv.wr
  PROVE  Grows /\ written'[mv.dst] # None
BY MovesFacts DEF Grows, CorpusTypeOK

LEMMA ReplaceStageTypeInv ==
  ASSUME TypeInv, ReplaceStage
  PROVE  TypeInv'
<1> USE DEF TypeInv, ReplaceStage
<1> DEFINE s == quar[pick.k][pick.q]
<1>1. pick \in Picks /\ s \in Stamp \cup {None}
  BY DEF Picks, ClientInv, CorpusInv, CorpusTypeOK
<1>2. CASE /\ s = None \/ "rofs" \in Faults
           /\ ClientDone
           /\ UNCHANGED <<intake, quar, written>>
  <2>1. CorpusInv' /\ Grows
    BY <1>2, RemovalInv
  <2> QED
    BY <1>2, <2>1, EngineGrows, SyncGrows, ClientDoneInv DEF PcOK, CorpusInv
<1>3. ASSUME s # None, NEW mv \in Moves(s),
             intake' = [intake EXCEPT ![pick.n] = mv.dst],
             quar' = [quar EXCEPT ![pick.k][pick.q] = mv.src],
             written' = mv.wr,
             sent' = [sent EXCEPT ![pick.n] = mv.dst],
             req' = "queued" /\ repl' = TRUE /\ pick' = None
      PROVE  TypeInv'
  <2>1. s \in Stamp /\ written[s] # None
    BY <1>1, <1>3 DEF CorpusInv, QuarWritten, Picks
  <2> HIDE DEF s
  <2>2. /\ mv.dst \in Stamp /\ mv.src \in {None, s}
        /\ written' \in [Stamp -> Content \cup {None}]
        /\ Grows
        /\ written'[mv.dst] # None /\ (mv.src # None => written'[mv.src] # None)
    BY <1>3, <2>1, MovesFacts, MoveGrows DEF CorpusInv, CorpusTypeOK, Grows
  <2>3. CorpusTypeOK'
    BY <1>1, <1>3, <2>1, <2>2 DEF CorpusInv, CorpusTypeOK, Picks, store
  <2>4. IntakeWritten' /\ QuarWritten'
    BY <1>1, <1>3, <2>1, <2>2 DEF CorpusInv, CorpusTypeOK, Grows, IntakeWritten, QuarWritten, Picks
  <2>5. TreeWritten' /\ RowWritten'
    BY <2>2, CorpusGrows DEF store
  <2>6. CorpusInv'
    BY <2>3, <2>4, <2>5 DEF CorpusInv
  <2>7. ClientInv'
    BY <1>1, <1>3, <2>2 DEF ClientInv, Picks
  <2> QED
    BY <2>2, <2>6, <2>7, EngineGrows, SyncGrows DEF PcOK, CorpusInv
<1> QED
  BY <1>2, <1>3

-----------------------------------------------------------------------------
(* The steps of a pass.  Each keeps the corpus and the engine well formed, *)
(* only uses up fresh stamps and stays outside a validation.               *)

StepInv == CorpusInv' /\ EngineInv' /\ Grows

LEMMA StampsUnchanged ==
  ASSUME CorpusInv, UNCHANGED disk
  PROVE  Grows /\ UNCHANGED <<written, intake, quar, tree>>
BY DEF disk, Grows

LEMMA CorpusUnchanged ==
  ASSUME CorpusInv, UNCHANGED <<disk, store>>
  PROVE  CorpusInv' /\ Grows
<1>1. UNCHANGED <<written, store>> /\ UNCHANGED <<intake, quar, tree>>
  BY DEF disk
<1> QED
  BY <1>1, RemovalInv

LEMMA ReleaseInv ==
  ASSUME EngineInv, Release
  PROVE  EngineInv' /\ pc' \in {"idle", "down"}
<1> USE DEF Release, NoCandidates
<1>1. EngineTypeOK'
  BY DEF EngineInv, EngineTypeOK, NoJob, Job
<1> QED
  BY <1>1 DEF EngineInv, CandWritten, PassState, RunPc

LEMMA DropInv ==
  ASSUME EngineInv, Grows, CorpusTypeOK, NEW n \in Name, Drop(n)
  PROVE  /\ cand' \in [Name -> Candidate \cup {None}]
         /\ todo' \subseteq Name
         /\ CandWritten'
         /\ todo \subseteq Active(cand) => todo' \subseteq Active(cand')
<1> USE DEF Drop, EngineInv, EngineTypeOK
<1>1. cand' \in [Name -> Candidate \cup {None}] /\ todo' \subseteq Name
  OBVIOUS
<1>2. CandWritten'
  BY DEF CandWritten, GoodBuild, Grows, Candidate
<1>3. todo \subseteq Active(cand) => todo' \subseteq Active(cand')
  BY DEF Active
<1> QED
  BY <1>1, <1>2, <1>3

LEMMA BeginInv ==
  ASSUME CorpusInv, EngineInv, NEW batch \in SUBSET Name,
         NEW who \in {"background", "request"}, NEW rep \in BOOLEAN,
         Begin(batch, who, rep)
  PROVE  StepInv
<1> USE DEF Begin
<1>1. CorpusInv' /\ Grows
  BY CorpusUnchanged
<1>2. EngineTypeOK'
  <2>1. job' \in Job
    BY DEF NoJob, Job
  <2>2. cand' \in [Name -> Candidate \cup {None}]
    BY DEF CorpusInv, CorpusTypeOK, Candidate
  <2> QED
    BY <2>1, <2>2 DEF EngineInv, EngineTypeOK
<1>3. CandWritten'
  BY StampsUnchanged DEF CandWritten, GoodBuild, CorpusInv, IntakeWritten
<1>4. PassState'
  BY DEF PassState
<1> QED
  BY <1>1, <1>2, <1>3, <1>4 DEF EngineInv, StepInv

LEMMA SettleInv ==
  ASSUME CorpusInv, EngineInv, Settle
  PROVE  StepInv
<1> USE DEF Settle
<1>1. CorpusInv' /\ Grows
  BY CorpusUnchanged
<1>2. EngineTypeOK'
  BY DEF EngineInv, EngineTypeOK, Active
<1>3. CandWritten'
  BY StampsUnchanged DEF CandWritten, GoodBuild, EngineInv
<1>4. PassState'
  BY DEF PassState, Active
<1> QED
  BY <1>1, <1>2, <1>3, <1>4 DEF EngineInv, StepInv

(* The next phase starts over with every candidate. *)
LEMMA NextPhaseInv ==
  ASSUME CorpusInv, EngineInv, UNCHANGED <<disk, store, job, cand, cur, outcome, poisoned>>,
         todo' = Active(cand), pc' \in {"build", "route"}
  PROVE  StepInv
<1>1. CorpusInv' /\ Grows
  BY CorpusUnchanged
<1>2. EngineTypeOK'
  BY DEF EngineInv, EngineTypeOK, Active
<1>3. CandWritten'
  BY StampsUnchanged DEF CandWritten, GoodBuild, EngineInv
<1>4. PassState'
  BY DEF PassState, Active
<1> QED
  BY <1>1, <1>2, <1>3, <1>4 DEF EngineInv, StepInv

LEMMA EndCheckInv ==
  ASSUME CorpusInv, EngineInv, EndCheck
  PROVE  StepInv
<1>1. CASE Release
  BY <1>1, ReleaseInv, CorpusUnchanged DEF EndCheck, StepInv
<1>2. CASE ~Release
  BY <1>2, NextPhaseInv DEF EndCheck
<1> QED
  BY <1>1, <1>2

LEMMA EndBuildInv ==
  ASSUME CorpusInv, EngineInv, EndBuild
  PROVE  StepInv
BY NextPhaseInv DEF EndBuild

LEMMA BuildInv ==
  ASSUME CorpusInv, EngineInv, NEW n \in Name, Build(n)
  PROVE  StepInv
<1> USE DEF Build
<1>1. CorpusInv' /\ Grows
  BY CorpusUnchanged
<1>2. PICK res : cand' = [cand EXCEPT ![n].built = res] /\
        (res \in {"error", "exhausted"} \/ (res \in Stamp /\ GoodBuild(res)))
  BY DEF BuildResult, GoodBuild, CorpusInv, CorpusTypeOK, IntakeWritten
<1>3. n \in Active(cand)
  BY DEF EngineInv, PassState, RunPc
<1>4. EngineTypeOK'
  BY <1>2, <1>3 DEF EngineInv, EngineTypeOK, Active, Candidate
<1>5. CandWritten'
  BY <1>2, <1>3, StampsUnchanged DEF CandWritten, GoodBuild, EngineInv, EngineTypeOK, Active, Candidate
<1>6. PassState'
  BY <1>2, <1>3 DEF EngineInv, PassState, EngineTypeOK, Active, Candidate, RunPc
<1> QED
  BY <1>1, <1>4, <1>5, <1>6 DEF EngineInv, StepInv

(* A file moved between the intake and a place of the same corpus: both    *)
(* ends keep the types and are written.                                    *)
LEMMA MoveFacts ==
  ASSUME CorpusInv, NEW n \in Name, intake[n] # None, NEW mv \in Moves(intake[n]),
         intake' = [intake EXCEPT ![n] = mv.src], written' = mv.wr
  PROVE  /\ Grows
         /\ written' \in [Stamp -> Content \cup {None}]
         /\ mv.dst \in Stamp /\ written'[mv.dst] = written[intake[n]]
         /\ intake' \in [Name -> Stamp \cup {None}]
         /\ IntakeWritten'
<1> USE DEF CorpusInv
<1>1. intake[n] \in Stamp /\ written[intake[n]] # None
  BY DEF CorpusTypeOK, IntakeWritten
<1>2. /\ mv.dst \in Stamp /\ mv.src \in {None, intake[n]}
      /\ written' \in [Stamp -> Content \cup {None}]
      /\ written'[mv.dst] = written[intake[n]]
  BY <1>1, MovesFacts
<1>3. Grows
  BY <1>1, MoveGrows
<1>4. intake' \in [Name -> Stamp \cup {None}]
  BY <1>2 DEF CorpusTypeOK
<1>5. IntakeWritten'
  BY <1>1, <1>2, <1>3 DEF CorpusTypeOK, IntakeWritten, Grows
<1> QED
  BY <1>2, <1>3, <1>4, <1>5

LEMMA QuarantineMovedInv ==
  ASSUME CorpusInv, NEW n \in Name, NEW k \in Quarantine, QuarantineMoved(n, k),
         UNCHANGED <<tree, store>>
  PROVE  CorpusInv' /\ Grows
<1> USE DEF QuarantineMoved
<1>1. PICK d \in Name, mv \in Moves(intake[n]) :
        /\ quar' = [quar EXCEPT ![k][d] = mv.dst]
        /\ intake' = [intake EXCEPT ![n] = mv.src]
        /\ written' = mv.wr
  BY DEF UniqueNames
<1>2. /\ Grows
      /\ written' \in [Stamp -> Content \cup {None}]
      /\ mv.dst \in Stamp /\ written'[mv.dst] = written[intake[n]]
      /\ intake' \in [Name -> Stamp \cup {None}]
      /\ IntakeWritten'
  BY <1>1, MoveFacts
<1>3. quar' \in [Quarantine -> [Name -> Stamp \cup {None}]]
  BY <1>1, <1>2 DEF CorpusInv, CorpusTypeOK
<1>4. QuarWritten'
  BY <1>1, <1>2 DEF CorpusInv, CorpusTypeOK, IntakeWritten, QuarWritten, Grows
<1>5. TreeWritten' /\ RowWritten'
  BY <1>2, CorpusGrows DEF store
<1> QED
  BY <1>2, <1>3, <1>4, <1>5 DEF CorpusInv, CorpusTypeOK, store

LEMMA QuarantinedInv ==
  ASSUME CorpusInv, EngineInv, NEW n \in Name, NEW k \in Quarantine,
         Quarantined(n, k), pc \in {"check", "route", "move"},
         \/ pc' = pc /\ pc # "move" /\ UNCHANGED cur
         \/ pc' = "route" /\ cur' = None
  PROVE  StepInv
<1> USE DEF Quarantined
<1>1. CorpusInv' /\ Grows
  <2>1. CASE QuarantineMoved(n, k)
    BY <2>1, QuarantineMovedInv
  <2>2. CASE QuarantineStuck(n)
    BY <2>2, RemovalInv DEF QuarantineStuck
  <2> QED
    BY <2>1, <2>2
<1>2. /\ cand' \in [Name -> Candidate \cup {None}]
      /\ todo' \subseteq Name
      /\ CandWritten'
      /\ todo \subseteq Active(cand) => todo' \subseteq Active(cand')
  BY <1>1, DropInv DEF CorpusInv
<1>3. poisoned' \subseteq Name
  BY DEF QuarantineMoved, QuarantineStuck, EngineInv, EngineTypeOK
<1>4. EngineTypeOK'
  BY <1>2, <1>3 DEF EngineInv, EngineTypeOK, Quarantine, Status
<1>5. PassState'
  BY <1>2 DEF EngineInv, PassState, RunPc
<1> QED
  BY <1>1, <1>2, <1>4, <1>5 DEF EngineInv, StepInv

LEMMA CheckInv ==
  ASSUME CorpusInv, EngineInv, NEW n \in Name, Check(n)
  PROVE  StepInv
<1> USE DEF Check
<1>1. CASE Quarantined(n, "failed")
  BY <1>1, QuarantinedInv DEF Quarantine
<1>2. CASE Quarantined(n, "duplicate")
  BY <1>2, QuarantinedInv DEF Quarantine
<1>3. CASE /\ todo' = todo \ {n}
           /\ UNCHANGED <<disk, store, job, cand, outcome, poisoned>>
  <2>1. CorpusInv' /\ Grows
    BY <1>3, CorpusUnchanged
  <2>2. EngineTypeOK'
    BY <1>3 DEF EngineInv, EngineTypeOK
  <2>3. CandWritten'
    BY <1>3, StampsUnchanged DEF CandWritten, GoodBuild, EngineInv
  <2>4. PassState'
    BY <1>3 DEF EngineInv, PassState, Active, RunPc
  <2> QED
    BY <2>1, <2>2, <2>3, <2>4 DEF EngineInv, StepInv
<1> QED
  BY <1>1, <1>2, <1>3

(* A successful compile stands for a module and its contents. *)
LEMMA BuiltFacts ==
  ASSUME CorpusInv, EngineInv, NEW n \in Name, cand[n] # None, Compiled(n)
  PROVE  BuiltContent(n) \in Content /\ BuiltModule(n) \in Module
BY DEF Compiled, BuiltContent, BuiltModule, EngineInv, CandWritten, GoodBuild,
   CorpusInv, CorpusTypeOK

LEMMA RouteFileInv ==
  ASSUME CorpusInv, EngineInv, NEW n \in Name, pc = "route", n \in todo, RouteFile(n)
  PROVE  StepInv
<1> USE DEF RouteFile
<1>1. PICK p \in Path :
        /\ cur' = [n |-> n, p |-> p]
        /\ \A q \in Path : tree'[q] \in {tree[q], None}
        /\ DOMAIN tree' = Path
        /\ tree' = [q \in Path |-> tree'[q]]
  <2>1. BuiltContent(n) \in Content /\ BuiltModule(n) \in Module
    BY BuiltFacts DEF EngineInv, PassState, RunPc, Active, Routable
  <2>2. DirOf[BuiltContent(n)] = Unsorted \/ DirOf[BuiltContent(n)] \in Dir
    BY <2>1
  <2>3. Destinations(n) \subseteq Path
    <3>1. CASE DirOf[BuiltContent(n)] = Unsorted
      <4>1. \A k \in Name : <<Unsorted, k>> \in Path
        BY DEF Path
      <4> DEFINE taken == [u \in Name |-> tree[<<Unsorted, u>>]]
      <4>2. UniqueNames(taken, n) \subseteq Name
        BY DEF UniqueNames
      <4>3. Destinations(n) = {<<Unsorted, k>> : k \in UniqueNames(taken, n)}
        BY <3>1 DEF Destinations
      <4> HIDE DEF taken
      <4> QED
        BY <4>1, <4>2, <4>3
    <3>2. CASE DirOf[BuiltContent(n)] \in Dir
      <4>0. DirOf[BuiltContent(n)] # Unsorted
        BY <3>2
      <4>1. Destinations(n) = {<<DirOf[BuiltContent(n)], BuiltModule(n)>>}
        BY <4>0 DEF Destinations
      <4>2. <<DirOf[BuiltContent(n)], BuiltModule(n)>> \in Dir \X Module
        BY <2>1, <3>2
      <4>3. <<DirOf[BuiltContent(n)], BuiltModule(n)>> \in Path
        BY <4>2 DEF Path
      <4> QED
        BY <4>1, <4>3
    <3> QED
      BY <2>2, <3>1, <3>2
  <2> QED
    BY <2>3 DEF CorpusInv, CorpusTypeOK
<1>2. Grows /\ UNCHANGED <<written, intake, quar, row, module, trie>>
  BY DEF Grows, store
<1>3. CorpusTypeOK'
  BY ONLY <1>1, <1>2, CorpusInv DEF CorpusInv, CorpusTypeOK
<1>4. TreeWritten'
  BY ONLY <1>1, <1>2, CorpusInv DEF CorpusInv, TreeWritten
<1>5. RowWritten'
  BY ONLY <1>2, CorpusInv DEF CorpusInv, RowWritten
<1>6. CorpusInv'
  BY <1>2, <1>3, <1>4, <1>5, CorpusGrows DEF CorpusInv
<1>7. EngineTypeOK'
  BY <1>1 DEF EngineInv, EngineTypeOK
<1>8. CandWritten'
  BY DEF CandWritten, GoodBuild, EngineInv
<1>9. PassState'
  BY <1>1 DEF EngineInv, PassState, Active, RunPc, Routable, Compiled
<1> QED
  BY <1>2, <1>6, <1>7, <1>8, <1>9 DEF EngineInv, StepInv

LEMMA RouteForgetInv ==
  ASSUME CorpusInv, EngineInv, RouteForget
  PROVE  StepInv
<1> USE DEF RouteForget
<1>1. \A q \in Path : row'[q] \in {row[q], None}
  OBVIOUS
<1>2. row' \in [Path -> SourceRow \cup {None}]
  BY <1>1 DEF CorpusInv, CorpusTypeOK
<1>3. Grows /\ UNCHANGED <<written, intake, quar, tree>>
  BY StampsUnchanged
<1>4. RowWritten'
  BY <1>1, <1>3 DEF CorpusInv, RowWritten
<1>5. CorpusInv'
  BY <1>2, <1>3, <1>4, CorpusGrows DEF CorpusInv, CorpusTypeOK
<1>6. EngineTypeOK'
  BY DEF EngineInv, EngineTypeOK
<1>7. CandWritten' /\ PassState'
  BY <1>3 DEF EngineInv, CandWritten, GoodBuild, PassState, Active, RunPc
<1> QED
  BY <1>3, <1>5, <1>6, <1>7 DEF EngineInv, StepInv

LEMMA RouteInv ==
  ASSUME CorpusInv, EngineInv, NEW n \in Name, Route(n)
  PROVE  StepInv
<1> USE DEF Route
<1>1. CASE RouteDeferred(n)
  <2> USE <1>1 DEF RouteDeferred
  <2>1. CorpusInv' /\ Grows
    BY CorpusUnchanged
  <2>2. /\ cand' \in [Name -> Candidate \cup {None}]
        /\ todo' \subseteq Name
        /\ CandWritten'
        /\ todo \subseteq Active(cand) => todo' \subseteq Active(cand')
    BY <2>1, DropInv DEF CorpusInv
  <2>3. EngineTypeOK'
    BY <2>2 DEF EngineInv, EngineTypeOK
  <2>4. PassState'
    BY <2>2 DEF EngineInv, PassState, RunPc
  <2> QED
    BY <2>1, <2>2, <2>3, <2>4 DEF EngineInv, StepInv
<1>2. CASE RouteFailed(n)
  BY <1>2, QuarantinedInv DEF RouteFailed, Quarantine
<1>3. CASE RouteDuplicate(n)
  BY <1>3, QuarantinedInv DEF RouteDuplicate, Quarantine
<1>4. CASE RouteFile(n)
  BY <1>4, RouteFileInv
<1> QED
  BY <1>1, <1>2, <1>3, <1>4

LEMMA MoveDoneInv ==
  ASSUME CorpusInv, EngineInv, pc = "move", MoveDone
  PROVE  StepInv
<1> USE DEF MoveDone
<1>1. cur.n \in Name /\ cur.p \in Path
  BY DEF EngineInv, PassState
<1>2. PICK mv \in Moves(intake[cur.n]) :
        /\ tree' = [tree EXCEPT ![cur.p] = mv.dst]
        /\ intake' = [intake EXCEPT ![cur.n] = mv.src]
        /\ written' = mv.wr
  OBVIOUS
<1>3. /\ Grows
      /\ written' \in [Stamp -> Content \cup {None}]
      /\ mv.dst \in Stamp /\ written'[mv.dst] = written[intake[cur.n]]
      /\ intake' \in [Name -> Stamp \cup {None}]
      /\ IntakeWritten'
  BY <1>1, <1>2, MoveFacts
<1>4. CorpusTypeOK'
  BY <1>1, <1>2, <1>3 DEF CorpusInv, CorpusTypeOK, store
<1>5. TreeWritten'
  BY <1>1, <1>2, <1>3 DEF CorpusInv, CorpusTypeOK, IntakeWritten, TreeWritten, Grows
<1>6. QuarWritten' /\ RowWritten'
  BY <1>3, CorpusGrows DEF store
<1>7. EngineTypeOK'
  BY DEF EngineInv, EngineTypeOK
<1>8. CandWritten'
  BY <1>3 DEF EngineInv, EngineTypeOK, CandWritten, GoodBuild, Grows, Candidate
<1>9. PassState'
  BY DEF EngineInv, PassState, Active, RunPc
<1> QED
  BY <1>3, <1>4, <1>5, <1>6, <1>7, <1>8, <1>9 DEF EngineInv, CorpusInv, StepInv

LEMMA MoveInv ==
  ASSUME CorpusInv, EngineInv, Move
  PROVE  StepInv
<1>1. pc = "move" /\ cur.n \in Name
  BY DEF EngineInv, PassState, Move
<1>2. CASE MoveDone
  BY <1>1, <1>2, MoveDoneInv
<1>3. CASE MoveVanished
  <2> USE <1>3 DEF MoveVanished
  <2>1. CorpusInv' /\ Grows
    BY CorpusUnchanged
  <2>2. /\ cand' \in [Name -> Candidate \cup {None}]
        /\ todo' \subseteq Name
        /\ CandWritten'
        /\ todo \subseteq Active(cand) => todo' \subseteq Active(cand')
    BY <1>1, <2>1, DropInv DEF CorpusInv
  <2>3. EngineTypeOK'
    BY <2>2 DEF EngineInv, EngineTypeOK
  <2>4. PassState'
    BY <1>1, <2>2 DEF EngineInv, PassState, RunPc
  <2> QED
    BY <2>1, <2>2, <2>3, <2>4 DEF EngineInv, StepInv
<1>4. CASE MoveFailed
  BY <1>1, <1>4, QuarantinedInv DEF MoveFailed, Quarantine
<1> QED
  BY <1>2, <1>3, <1>4 DEF Move

LEMMA SaveInv ==
  ASSUME CorpusInv, EngineInv, Save
  PROVE  StepInv
<1> USE DEF Save
<1>1. /\ cur \in [n: Name, p: Path] /\ cur.n \in Name /\ cur.p \in Path
      /\ cand[cur.n] # None /\ Compiled(cur.n)
  BY DEF EngineInv, PassState, Compiled
<1>2. BuiltContent(cur.n) \in Content
  BY <1>1, BuiltFacts
<1>3. Grows /\ UNCHANGED <<written, intake, quar, tree>>
  BY StampsUnchanged
<1>4. CASE /\ ReplaceModule(BuiltContent(cur.n), cur.p)
           /\ pc' = "mark"
           /\ UNCHANGED <<job, cand, todo, cur, outcome>>
  <2>1. module' \in [Module -> ModuleRow \cup {None}]
    BY <1>1, <1>2, <1>4 DEF ReplaceModule, ModuleRow, CorpusInv, CorpusTypeOK
  <2>2. CorpusInv'
    BY <1>3, <2>1, CorpusGrows DEF CorpusInv, CorpusTypeOK
  <2>3. EngineTypeOK'
    BY <1>4 DEF EngineInv, EngineTypeOK
  <2>4. CandWritten' /\ PassState'
    BY <1>3, <1>4 DEF EngineInv, CandWritten, GoodBuild, PassState, Active, RunPc
  <2> QED
    BY <1>3, <2>2, <2>3, <2>4 DEF EngineInv, StepInv
<1>5. CASE /\ pc' = "route" /\ cur' = None
           /\ outcome' = [outcome EXCEPT ![cur.n] = "failed"]
           /\ Drop(cur.n)
           /\ UNCHANGED <<module, job>>
  <2>1. CorpusInv'
    BY <1>3, <1>5, CorpusGrows DEF CorpusInv, CorpusTypeOK
  <2>2. /\ cand' \in [Name -> Candidate \cup {None}]
        /\ todo' \subseteq Name
        /\ CandWritten'
        /\ todo \subseteq Active(cand) => todo' \subseteq Active(cand')
    BY <1>1, <1>3, <1>5, DropInv DEF CorpusInv
  <2>3. EngineTypeOK'
    BY <1>5, <2>2 DEF EngineInv, EngineTypeOK, Status
  <2>4. PassState'
    BY <1>5, <2>2 DEF EngineInv, PassState, RunPc
  <2> QED
    BY <1>3, <2>1, <2>2, <2>3, <2>4 DEF EngineInv, StepInv
<1> QED
  BY <1>4, <1>5

LEMMA MarkInv ==
  ASSUME CorpusInv, EngineInv, Mark
  PROVE  StepInv
<1> USE DEF Mark
<1>1. /\ cur.n \in Name /\ cur.p \in Path
      /\ cand[cur.n] # None /\ Compiled(cur.n)
  BY DEF EngineInv, PassState, Compiled
<1>2. BuiltModule(cur.n) \in Module
  BY <1>1, BuiltFacts
<1>3. cand[cur.n].seen \in Stamp /\ written[cand[cur.n].seen] \in Content
  BY <1>1 DEF EngineInv, EngineTypeOK, CandWritten, Candidate, CorpusInv, CorpusTypeOK
<1>4. Grows /\ UNCHANGED <<written, intake, quar, tree>>
  BY StampsUnchanged
<1>5. row' \in [Path -> SourceRow \cup {None}] /\ RowWritten'
  <2>1. CASE UNCHANGED row
    BY <1>4, <2>1, CorpusGrows DEF CorpusInv, CorpusTypeOK
  <2>2. CASE /\ tree[cur.p] # None
             /\ row' = [row EXCEPT ![cur.p] =
                  [m |-> tree[cur.p], sha |-> written[cand[cur.n].seen],
                   mod |-> BuiltModule(cur.n)]]
    <3>1. tree[cur.p] \in Stamp /\ written[tree[cur.p]] # None
      BY <1>1, <2>2 DEF CorpusInv, CorpusTypeOK, TreeWritten
    <3>2. row' \in [Path -> SourceRow \cup {None}]
      BY <1>1, <1>2, <1>3, <2>2, <3>1 DEF CorpusInv, CorpusTypeOK, SourceRow
    <3>3. RowWritten'
      BY <1>1, <1>4, <2>2, <3>1 DEF CorpusInv, CorpusTypeOK, RowWritten
    <3> QED
      BY <3>2, <3>3
  <2> QED
    BY <2>1, <2>2 DEF UpsertSourceFile
<1>6. CorpusInv'
  BY <1>4, <1>5, CorpusGrows DEF CorpusInv, CorpusTypeOK
<1>7. /\ cand' \in [Name -> Candidate \cup {None}]
      /\ todo' \subseteq Name
      /\ CandWritten'
      /\ todo \subseteq Active(cand) => todo' \subseteq Active(cand')
  BY <1>1, <1>4, DropInv DEF CorpusInv
<1>8. EngineTypeOK'
  BY <1>7 DEF EngineInv, EngineTypeOK, Status, Job
<1>9. PassState'
  BY <1>7 DEF EngineInv, PassState, RunPc
<1> QED
  BY <1>4, <1>6, <1>7, <1>8, <1>9 DEF EngineInv, StepInv

(* The trie is rebuilt from the stored modules or left alone. *)
LEMMA TrieType ==
  ASSUME CorpusInv, NEW c \in BOOLEAN, RefreshOIDTree(c)
  PROVE  trie' \in [Module -> Content \cup {None}] \cup {None}
<1>1. Projection \in [Module -> Content \cup {None}]
  BY DEF Projection, CorpusInv, CorpusTypeOK, ModuleRow
<1> QED
  BY <1>1 DEF RefreshOIDTree, CorpusInv, CorpusTypeOK

LEMMA FinishInv ==
  ASSUME CorpusInv, EngineInv, Finish
  PROVE  StepInv
<1> USE DEF Finish
<1>1. trie' \in [Module -> Content \cup {None}] \cup {None}
  BY TrieType DEF EngineInv, EngineTypeOK, Job, CorpusInv, CorpusTypeOK
<1>2. CorpusInv' /\ Grows
  BY <1>1, StampsUnchanged, CorpusGrows DEF CorpusInv, CorpusTypeOK
<1> QED
  BY <1>2, ReleaseInv DEF StepInv

LEMMA CancelInv ==
  ASSUME CorpusInv, EngineInv, Cancel
  PROVE  StepInv
<1> USE DEF Cancel
<1>1. CorpusInv' /\ Grows
  BY CorpusUnchanged
<1>2. EngineTypeOK'
  BY DEF EngineInv, EngineTypeOK, Job
<1>3. CandWritten' /\ PassState'
  BY StampsUnchanged DEF EngineInv, CandWritten, GoodBuild, PassState, Active
<1> QED
  BY <1>1, <1>2, <1>3 DEF EngineInv, StepInv

LEMMA EngineStepInv ==
  ASSUME CorpusInv, EngineInv, EngineStep
  PROVE  StepInv /\ pc \in RunPc /\ pc' \in {"idle", "down"} \cup RunPc
<1>1. StepInv
  BY SettleInv, EndCheckInv, EndBuildInv, MoveInv, SaveInv, MarkInv, FinishInv,
     CheckInv, BuildInv, RouteInv, RouteForgetInv DEF EngineStep
<1>2. pc \in RunPc /\ pc' \in {"idle", "down"} \cup RunPc
  BY DEF EngineStep, RunPc, Settle, EndCheck, EndBuild, Move, MoveDone, MoveVanished,
     MoveFailed, Save, Mark, Finish, Check, Build, Route, RouteDeferred, RouteFailed,
     RouteDuplicate, RouteFile, RouteForget, Release
<1> QED
  BY <1>1, <1>2

LEMMA EngineRunsTypeInv ==
  ASSUME TypeInv, EngineRuns
  PROVE  TypeInv'
<1> USE DEF TypeInv, EngineRuns
<1>1. StepInv /\ pc \in RunPc /\ pc' \in {"idle", "down"} \cup RunPc
  BY EngineStepInv
<1>2. SyncInv'
  BY <1>1, SyncGrows DEF StepInv, CorpusInv, RunPc, SyncPc
<1>3. ClientInv'
  BY ClientUnchanged, ClientDoneInv
<1> QED
  BY <1>1, <1>2, <1>3 DEF StepInv, PcOK

-----------------------------------------------------------------------------
(* The steps of a boot validation. *)

SyncStepInv == CorpusInv' /\ SyncInv' /\ Grows

LEMMA SyncWalkInv ==
  ASSUME CorpusInv, SyncInv, SyncWalk
  PROVE  SyncStepInv
<1> USE DEF SyncWalk
<1>1. CorpusInv' /\ Grows /\ UNCHANGED <<written, intake, quar, tree>>
  BY CorpusUnchanged, StampsUnchanged
<1>2. SyncTypeOK'
  BY DEF SyncInv, SyncTypeOK, CorpusInv, CorpusTypeOK, Kept
<1>3. OnDiskWritten'
  BY <1>1 DEF OnDiskWritten, CorpusInv, TreeWritten
<1>4. FreshGood'
  BY DEF FreshGood, SyncInv, SyncState, NoPaths, SyncPc
<1>5. SyncState'
  BY DEF SyncState, SyncPc
<1> QED
  BY <1>1, <1>2, <1>3, <1>4, <1>5 DEF SyncInv, SyncStepInv

(* A fingerprint written from values of the right kind. *)
LEMMA UpsertFacts ==
  ASSUME CorpusInv, NEW p \in Path, NEW s \in Stamp, NEW sha \in Content,
         NEW m \in Module, written[s] # None, UNCHANGED written,
         UpsertSourceFile(p, s, sha, m)
  PROVE  row' \in [Path -> SourceRow \cup {None}] /\ RowWritten'
BY DEF UpsertSourceFile, SourceRow, CorpusInv, CorpusTypeOK, RowWritten

(* ... and one that is dropped. *)
LEMMA DropRowFacts ==
  ASSUME CorpusInv, NEW p \in Path, row' = [row EXCEPT ![p] = None], UNCHANGED written
  PROVE  row' \in [Path -> SourceRow \cup {None}] /\ RowWritten'
BY DEF SourceRow, CorpusInv, CorpusTypeOK, RowWritten

LEMMA StoreChangedInv ==
  ASSUME CorpusInv, UNCHANGED disk,
         module' \in [Module -> ModuleRow \cup {None}],
         row' \in [Path -> SourceRow \cup {None}], RowWritten',
         trie' \in [Module -> Content \cup {None}] \cup {None}
  PROVE  CorpusInv' /\ Grows
BY StampsUnchanged, CorpusGrows DEF CorpusInv, CorpusTypeOK

(* The parts of SyncInv when only fresh, left, at and changed move. *)
LEMMA OnDiskUnchanged ==
  ASSUME CorpusInv, SyncInv, UNCHANGED <<disk, onDisk>>
  PROVE  OnDiskWritten'
BY StampsUnchanged DEF OnDiskWritten, SyncInv

LEMMA SyncDiffInv ==
  ASSUME CorpusInv, SyncInv, NEW p \in Path, SyncDiff(p)
  PROVE  SyncStepInv
<1> USE DEF SyncDiff
<1>1. onDisk[p] \in Stamp /\ written[onDisk[p]] # None
  BY DEF SyncInv, SyncState, SyncTypeOK, OnDiskWritten, Kept
<1>2. UNCHANGED <<written, intake, quar, tree>>
  BY StampsUnchanged
<1>3. CorpusInv' /\ Grows
  <2>1. CASE UNCHANGED row
    BY <1>2, <2>1, CorpusGrows, StoreChangedInv DEF CorpusInv, CorpusTypeOK, Grows
  <2>2. CASE /\ UpsertSourceFile(p, onDisk[p], known[p].sha, known[p].mod)
             /\ known[p] # None
    <3>1. known[p].sha \in Content /\ known[p].mod \in Module
      BY <2>2 DEF SyncInv, SyncTypeOK, SourceRow
    <3>2. row' \in [Path -> SourceRow \cup {None}] /\ RowWritten'
      BY <1>1, <1>2, <2>2, <3>1, UpsertFacts
    <3> QED
      BY <3>2, StoreChangedInv DEF CorpusInv, CorpusTypeOK
  <2> QED
    BY <2>1, <2>2
<1>4. fresh' \in [Path -> [sha: Content, built: Stamp \cup {None, "error"}] \cup {None}]
      /\ FreshGood'
  <2>1. CASE UNCHANGED fresh
    BY <1>2, <2>1 DEF SyncInv, SyncTypeOK, SyncResult, FreshGood, GoodBuild
  <2>2. CASE /\ fresh' = [fresh EXCEPT ![p] =
                   [sha |-> written[tree[p]], built |-> None]]
             /\ HasMIBOpener(p)
    <3>1. written[tree[p]] \in Content
      BY <2>2 DEF HasMIBOpener
    <3>2. fresh' \in [Path -> [sha: Content, built: Stamp \cup {None, "error"}] \cup {None}]
      BY <2>2, <3>1 DEF SyncInv, SyncTypeOK, SyncResult
    <3>3. FreshGood'
      BY <1>1, <1>2, <2>2 DEF SyncInv, SyncTypeOK, FreshGood, GoodBuild
    <3> QED
      BY <3>2, <3>3
  <2> QED
    BY <2>1, <2>2
<1>5. SyncTypeOK'
  BY <1>4 DEF SyncInv, SyncTypeOK, SyncResult
<1>6. SyncState'
  BY DEF SyncInv, SyncState, Kept, SyncPc
<1> QED
  BY <1>3, <1>4, <1>5, <1>6, OnDiskUnchanged DEF SyncInv, SyncStepInv

(* Steps that only move the validation on. *)
LEMMA SyncPhaseInv ==
  ASSUME CorpusInv, SyncInv, UNCHANGED <<disk, store, known, onDisk, fresh, at, changed>>,
         \/ pc' = "vanish" /\ left' \subseteq Path
         \/ pc' \in {"compile", "load"} /\ left' = Kept(fresh)
         \/ pc' \in {"prune", "refresh"} /\ left' \subseteq Path
  PROVE  SyncStepInv
<1>1. CorpusInv' /\ Grows /\ UNCHANGED <<written, intake, quar, tree>>
  BY CorpusUnchanged, StampsUnchanged
<1>2. SyncTypeOK'
  BY DEF SyncInv, SyncTypeOK, Kept
<1>3. FreshGood'
  BY <1>1 DEF SyncInv, FreshGood, GoodBuild
<1>4. SyncState'
  BY DEF SyncState, Kept, SyncPc
<1> QED
  BY <1>1, <1>2, <1>3, <1>4, OnDiskUnchanged DEF SyncInv, SyncStepInv

LEMMA SyncForgetInv ==
  ASSUME CorpusInv, SyncInv, NEW p \in Path, SyncForget(p)
  PROVE  SyncStepInv
<1> USE DEF SyncForget
<1>1. row' \in [Path -> SourceRow \cup {None}] /\ RowWritten'
  BY StampsUnchanged, DropRowFacts
<1>2. CorpusInv' /\ Grows
  BY <1>1, StoreChangedInv DEF CorpusInv, CorpusTypeOK
<1>3. SyncTypeOK'
  BY DEF SyncInv, SyncTypeOK
<1>4. FreshGood'
  BY StampsUnchanged DEF SyncInv, FreshGood, GoodBuild
<1>5. SyncState'
  BY DEF SyncInv, SyncState, SyncPc
<1> QED
  BY <1>2, <1>3, <1>4, <1>5, OnDiskUnchanged DEF SyncInv, SyncStepInv

LEMMA SyncDropInv ==
  ASSUME CorpusInv, SyncInv, SyncDrop
  PROVE  SyncStepInv
<1> USE DEF SyncDrop
<1>1. module' \in [Module -> ModuleRow \cup {None}]
  BY DEF CorpusInv, CorpusTypeOK
<1>2. RowWritten'
  BY StampsUnchanged, CorpusGrows
<1>3. CorpusInv' /\ Grows
  BY <1>1, <1>2, StoreChangedInv DEF CorpusInv, CorpusTypeOK
<1>4. SyncTypeOK'
  BY DEF SyncInv, SyncTypeOK
<1>5. FreshGood'
  BY StampsUnchanged DEF SyncInv, FreshGood, GoodBuild
<1>6. SyncState'
  BY DEF SyncInv, SyncState, SyncPc
<1> QED
  BY <1>3, <1>4, <1>5, <1>6, OnDiskUnchanged DEF SyncInv, SyncStepInv

LEMMA SyncBuildInv ==
  ASSUME CorpusInv, SyncInv, NEW p \in Path, SyncBuild(p)
  PROVE  SyncStepInv
<1> USE DEF SyncBuild
<1>1. CorpusInv' /\ Grows /\ UNCHANGED <<written, intake, quar, tree>>
  BY CorpusUnchanged, StampsUnchanged
<1>2. PICK res : /\ fresh' = [fresh EXCEPT ![p].built = res]
                 /\ res = "error" \/ (res \in Stamp /\ GoodBuild(res))
  BY DEF SyncResults, GoodBuild, CorpusInv, CorpusTypeOK, TreeWritten
<1>3. fresh[p] # None
  BY DEF SyncInv, SyncState, Kept
<1>4. SyncTypeOK'
  BY <1>2, <1>3 DEF SyncInv, SyncTypeOK, SyncResult
<1>5. FreshGood'
  BY <1>1, <1>2, <1>3 DEF SyncInv, SyncTypeOK, SyncResult, FreshGood, GoodBuild
<1>6. SyncState'
  <2>1. \A q \in left \ {p} : fresh'[q] # None
    BY <1>2 DEF SyncInv, SyncState, SyncTypeOK, Kept
  <2> QED
    BY <2>1 DEF SyncInv, SyncTypeOK, SyncState, Kept, SyncPc
<1> QED
  BY <1>1, <1>4, <1>5, <1>6, OnDiskUnchanged DEF SyncInv, SyncStepInv

LEMMA SyncLoadInv ==
  ASSUME CorpusInv, SyncInv, NEW p \in Path, SyncLoad(p)
  PROVE  SyncStepInv
<1> USE DEF SyncLoad
<1>1. fresh[p] # None
  BY DEF SyncInv, SyncState, Kept
<1>2. UNCHANGED <<written, intake, quar, tree>>
  BY StampsUnchanged
<1>3. SyncTypeOK'
  BY DEF SyncInv, SyncTypeOK
<1>4. FreshGood'
  BY <1>2 DEF SyncInv, FreshGood, GoodBuild
<1>5. SyncState'
  BY <1>1 DEF SyncInv, SyncState, Kept, SyncPc
<1>6. CASE /\ row' = [row EXCEPT ![p] = None]
           /\ UNCHANGED <<module, pc, at>>
  <2>1. row' \in [Path -> SourceRow \cup {None}] /\ RowWritten'
    BY <1>2, <1>6, DropRowFacts
  <2>2. CorpusInv' /\ Grows
    BY <1>6, <2>1, StoreChangedInv DEF CorpusInv, CorpusTypeOK
  <2> QED
    BY <1>3, <1>4, <1>5, <2>2, OnDiskUnchanged DEF SyncInv, SyncStepInv
<1>7. CASE /\ fresh[p].built \in Stamp
           /\ ReplaceModule(written[fresh[p].built], p)
           /\ UNCHANGED row
  <2>1. written[fresh[p].built] \in Content
    BY <1>1, <1>7 DEF SyncInv, FreshGood, GoodBuild, CorpusInv, CorpusTypeOK
  <2>2. module' \in [Module -> ModuleRow \cup {None}]
    BY <1>7, <2>1 DEF ReplaceModule, ModuleRow, CorpusInv, CorpusTypeOK
  <2>3. RowWritten'
    BY <1>2, <1>7, CorpusGrows, StampsUnchanged
  <2>4. CorpusInv' /\ Grows
    BY <1>7, <2>2, <2>3, StoreChangedInv DEF CorpusInv, CorpusTypeOK
  <2> QED
    BY <1>3, <1>4, <1>5, <2>4, OnDiskUnchanged DEF SyncInv, SyncStepInv
<1> QED
  BY <1>6, <1>7

LEMMA SyncStampInv ==
  ASSUME CorpusInv, SyncInv, SyncStamp
  PROVE  SyncStepInv
<1> USE DEF SyncStamp
<1>1. at \in Path /\ fresh[at] # None /\ fresh[at].built \in Stamp
  BY DEF SyncInv, SyncState
<1>2. /\ onDisk[at] \in Stamp /\ written[onDisk[at]] # None
      /\ fresh[at].sha \in Content
  BY <1>1 DEF SyncInv, SyncTypeOK, SyncResult, FreshGood, OnDiskWritten
<1>3. ModuleOf[written[fresh[at].built]] \in Module
  BY <1>1 DEF SyncInv, FreshGood, GoodBuild, CorpusInv, CorpusTypeOK
<1>4. row' \in [Path -> SourceRow \cup {None}] /\ RowWritten'
  BY <1>1, <1>2, <1>3, UpsertFacts, StampsUnchanged
<1>5. CorpusInv' /\ Grows
  BY <1>4, StoreChangedInv DEF CorpusInv, CorpusTypeOK
<1>6. SyncTypeOK'
  BY DEF SyncInv, SyncTypeOK
<1>7. FreshGood'
  BY StampsUnchanged DEF SyncInv, FreshGood, GoodBuild
<1>8. SyncState'
  <2>1. left \subseteq Kept(fresh)
    BY DEF SyncInv, SyncState
  <2> QED
    BY <2>1 DEF SyncInv, SyncState, Kept, SyncPc
<1> QED
  BY <1>5, <1>6, <1>7, <1>8, OnDiskUnchanged DEF SyncInv, SyncStepInv

LEMMA SyncPruneInv ==
  ASSUME CorpusInv, SyncInv, NEW m \in Module, SyncPrune(m)
  PROVE  SyncStepInv
<1> USE DEF SyncPrune
<1>1. module' \in [Module -> ModuleRow \cup {None}]
  BY DEF CorpusInv, CorpusTypeOK
<1>2. RowWritten'
  BY StampsUnchanged, CorpusGrows
<1>3. CorpusInv' /\ Grows
  BY <1>1, <1>2, StoreChangedInv DEF CorpusInv, CorpusTypeOK
<1>4. SyncTypeOK'
  BY DEF SyncInv, SyncTypeOK
<1>5. FreshGood'
  BY StampsUnchanged DEF SyncInv, FreshGood, GoodBuild
<1>6. SyncState'
  BY DEF SyncInv, SyncState, SyncPc
<1> QED
  BY <1>3, <1>4, <1>5, <1>6, OnDiskUnchanged DEF SyncInv, SyncStepInv

(* A validation that is over, or a process that starts, has nothing.       *)
LEMMA SyncEmptyInv ==
  ASSUME known' = NoPaths, onDisk' = NoPaths, fresh' = NoPaths,
         left' = {}, at' = None, changed' = FALSE
  PROVE  SyncInv' \/ pc' \in {"stamp"}
<1> USE DEF NoPaths
<1>1. SyncTypeOK'
  BY DEF SyncTypeOK
<1>2. OnDiskWritten' /\ FreshGood'
  BY DEF OnDiskWritten, FreshGood
<1>3. pc' # "stamp" => SyncState'
  BY DEF SyncState
<1> QED
  BY <1>1, <1>2, <1>3 DEF SyncInv

LEMMA SyncRefreshInv ==
  ASSUME CorpusInv, SyncInv, SyncRefresh
  PROVE  SyncStepInv
<1> USE DEF SyncRefresh
<1>1. trie' \in [Module -> Content \cup {None}] \cup {None}
  BY TrieType DEF SyncInv, SyncTypeOK
<1>2. RowWritten'
  BY StampsUnchanged, CorpusGrows
<1>3. CorpusInv' /\ Grows
  BY <1>1, <1>2, StoreChangedInv DEF CorpusInv, CorpusTypeOK
<1> QED
  BY <1>3, SyncEmptyInv DEF SyncStepInv

LEMMA SyncStepTypeInv ==
  ASSUME CorpusInv, SyncInv, SyncStep
  PROVE  SyncStepInv /\ pc \in SyncPc /\ pc' \in {"idle"} \cup SyncPc
<1>1. EndDiff => SyncStepInv
  BY SyncPhaseInv DEF EndDiff, Kept
<1>2. EndVanish => SyncStepInv
  BY SyncPhaseInv DEF EndVanish, Kept
<1>3. EndSyncBuild => SyncStepInv
  BY SyncPhaseInv DEF EndSyncBuild
<1>4. EndLoad \/ EndPrune => SyncStepInv
  BY SyncPhaseInv DEF EndLoad, EndPrune, syncVars, SyncInv, SyncTypeOK
<1>5. SyncStepInv
  BY <1>1, <1>2, <1>3, <1>4, SyncWalkInv, SyncDropInv, SyncStampInv, SyncPruneInv,
     SyncRefreshInv, SyncDiffInv, SyncForgetInv, SyncBuildInv, SyncLoadInv DEF SyncStep
<1>6. pc \in SyncPc /\ pc' \in {"idle"} \cup SyncPc
  BY DEF SyncStep, SyncPc, SyncWalk, EndDiff, SyncDrop, EndVanish, EndSyncBuild,
     SyncStamp, EndLoad, SyncPrune, EndPrune, SyncRefresh, SyncDiff, SyncForget, SyncBuild, SyncLoad
<1> QED
  BY <1>5, <1>6

LEMMA SyncRunsTypeInv ==
  ASSUME TypeInv, SyncRuns
  PROVE  TypeInv'
<1> USE DEF TypeInv, SyncRuns
<1>1. SyncStepInv /\ pc \in SyncPc /\ pc' \in {"idle"} \cup SyncPc
  BY SyncStepTypeInv
<1>2. EngineInv'
  <2> USE DEF EngineInv, engineVars
  <2>1. EngineTypeOK'
    BY DEF EngineTypeOK
  <2>2. CandWritten'
    BY <1>1 DEF SyncStepInv, CandWritten, GoodBuild, Grows, EngineTypeOK, Candidate
  <2>3. PassState'
    BY <1>1 DEF PassState, SyncPc, RunPc
  <2> QED
    BY <2>1, <2>2, <2>3
<1> QED
  BY <1>1, <1>2, ClientUnchanged DEF SyncStepInv, PcOK

-----------------------------------------------------------------------------
(* Requests, passes and the process itself. *)

LEMMA WatcherBeginTypeInv ==
  ASSUME TypeInv, NEW batch \in SUBSET Name, WatcherBegin(batch)
  PROVE  TypeInv'
<1> USE DEF TypeInv, WatcherBegin
<1>1. StepInv
  BY BeginInv
<1>2. SyncInv'
  BY <1>1, SyncGrows DEF StepInv, Begin, SyncPc, CorpusInv
<1> QED
  BY <1>1, <1>2, ClientUnchanged DEF StepInv, Begin, PcOK, RunPc

LEMMA RequestBeginTypeInv ==
  ASSUME TypeInv, RequestBegin
  PROVE  TypeInv'
<1> USE DEF TypeInv, RequestBegin
<1>1. StepInv
  <2>1. Active(sent) \subseteq Name
    BY DEF Active
  <2>2. CorpusInv /\ EngineInv /\ Begin(Active(sent), "request", repl) /\ repl \in BOOLEAN
    BY DEF ClientInv
  <2> HIDE DEF TypeInv, RequestBegin
  <2> QED
    BY <2>1, <2>2, BeginInv, Zenon
<1>2. SyncInv'
  BY <1>1, SyncGrows DEF StepInv, Begin, SyncPc, CorpusInv
<1>3. ClientInv'
  BY DEF ClientInv
<1> QED
  BY <1>1, <1>2, <1>3 DEF StepInv, Begin, PcOK, RunPc

LEMMA RequestCancelTypeInv ==
  ASSUME TypeInv, RequestCancel
  PROVE  TypeInv'
<1> USE DEF TypeInv, RequestCancel
<1>1. StepInv
  BY CancelInv
<1>2. SyncInv'
  BY <1>1, SyncGrows DEF StepInv, Cancel, CorpusInv
<1> QED
  BY <1>1, <1>2, ClientUnchanged DEF StepInv, Cancel, PcOK

LEMMA BootTypeInv ==
  ASSUME TypeInv, NEW rebuild \in BOOLEAN, Boot(rebuild)
  PROVE  TypeInv'
<1> USE DEF TypeInv, Boot
<1>1. row' \in [Path -> SourceRow \cup {None}] /\ RowWritten'
  BY StampsUnchanged DEF CorpusInv, CorpusTypeOK, RowWritten, SourceRow
<1>2. CorpusInv' /\ Grows
  BY <1>1, StoreChangedInv DEF CorpusInv, CorpusTypeOK
<1>3. EngineInv'
  BY <1>2 DEF EngineInv, EngineTypeOK, CandWritten, GoodBuild, Grows, Candidate,
     PassState, engineVars, RunPc
<1>4. SyncInv'
  <2> USE DEF SyncInv, syncVars
  <2>1. SyncTypeOK'
    BY DEF SyncTypeOK
  <2>2. OnDiskWritten' /\ FreshGood'
    BY StampsUnchanged DEF OnDiskWritten, FreshGood, GoodBuild
  <2>3. SyncState'
    BY DEF SyncState, SyncPc
  <2> QED
    BY <2>1, <2>2, <2>3
<1> QED
  BY <1>2, <1>3, <1>4, ClientUnchanged DEF PcOK, SyncPc

LEMMA StopTypeInv ==
  ASSUME TypeInv, Stop
  PROVE  TypeInv'
<1> USE DEF TypeInv, Stop
<1>1. CorpusInv'
  BY CorpusUnchanged
<1>2. EngineInv'
  BY DEF EngineInv, EngineTypeOK, CandWritten, PassState, NoCandidates, NoJob, Job, RunPc
<1>3. SyncInv'
  BY SyncEmptyInv
<1> QED
  BY <1>1, <1>2, <1>3, ClientDoneInv DEF PcOK

LEMMA StutterTypeInv ==
  ASSUME TypeInv, UNCHANGED vars
  PROVE  TypeInv'
<1> USE DEF TypeInv, vars
<1>1. CorpusInv' /\ Grows
  BY CorpusUnchanged
<1> QED
  BY <1>1, EngineGrows, SyncGrows, ClientUnchanged DEF CorpusInv, PcOK

LEMMA NextTypeInv ==
  ASSUME TypeInv, [Next]_vars
  PROVE  TypeInv'
<1>1. CASE Environment
  BY <1>1, DropFileTypeInv, EditTreeTypeInv, RemoveFromTreeTypeInv,
     DeletePendingTypeInv, DeleteQuarantinedTypeInv, ReplacePickTypeInv,
     UploadPartTypeInv DEF Environment
<1>2. CASE Client
  BY <1>2, UploadStagedTypeInv, ReplaceStageTypeInv, RequestBeginTypeInv DEF Client
<1>3. CASE RescanBegin
  <2>1. Active(intake) \in SUBSET Name
    BY DEF Active
  <2> QED
    BY <1>3, <2>1, WatcherBeginTypeInv DEF RescanBegin
<1> QED
  BY <1>1, <1>2, <1>3, RequestCancelTypeInv, EngineRunsTypeInv, SyncRunsTypeInv,
     WatcherBeginTypeInv, BootTypeInv, StopTypeInv, StutterTypeInv DEF Next

(* Whatever the environment does and wherever the process stops, every     *)
(* variable of the corpus, the engine, the validation and the client stays *)
(* in its type, for every set of contents, names, paths and stamps.        *)
THEOREM TypeCorrect == Spec => []TypeOK
<1>1. Spec => []TypeInv
  BY InitTypeInv, NextTypeInv, PTL DEF Spec
<1> QED
  BY <1>1, TypeInvImpliesTypeOK, PTL
=============================================================================

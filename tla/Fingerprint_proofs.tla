------------------------- MODULE Fingerprint_proofs -------------------------
(***************************************************************************)
(* The theorem boot rests on: a source_file row whose stat matches the     *)
(* file on disk carries the hash of the bytes that are there, provided     *)
(* that nobody overwrites or removes a file the engine, a request or a     *)
(* pass has in use (no "race" among the faults).                           *)
(***************************************************************************)
EXTENDS MibImport_proofs

USE ConstantsAssumption, SentinelAssumption, PickAssumption

(* The stamp belongs to a file that waits in import/ or was put aside. *)
Waiting(s) ==
  \/ \E n \in Name : intake[n] = s
  \/ \E k \in Quarantine, n \in Name : quar[k][n] = s

(* The curated side knows the stamp: of a file, in a row of source_file,   *)
(* or among the stats of a validation in progress.                         *)
Curated(s) == \E p \in Path :
  \/ tree[p] = s
  \/ onDisk[p] = s
  \/ row[p] # None /\ row[p].m = s

(* A stamp waits in one place only. *)
IntakeApart ==
  \A n, u \in Name : intake[n] # None /\ intake[n] = intake[u] => n = u
QuarApart ==
  \A k, j \in Quarantine, n, u \in Name :
    quar[k][n] # None /\ quar[k][n] = quar[j][u] => k = j /\ n = u
IntakeQuarApart ==
  \A n, u \in Name, k \in Quarantine :
    intake[n] # None => intake[n] # quar[k][u]

WaitApart == IntakeApart /\ QuarApart /\ IntakeQuarApart

CuratedApart == \A s \in Stamp : Curated(s) => ~Waiting(s)

(* The intake name a replace request picked stays free for it. *)
PickFree == pick # None => intake[pick.n] = None

(* The files of a pass are the ones it stat'ed, but for the one in flight. *)
PassFiles ==
  \A n \in Name : pc \in RunPc /\ cand[n] # None =>
    \/ intake[n] = cand[n].seen
    \/ pc \in {"save", "mark"} /\ n = cur.n

PassMoved ==
  pc \in {"save", "mark"} =>
    tree[cur.p] # None /\ written[tree[cur.p]] = written[cand[cur.n].seen]

(* A file whose stat is still the one of the walk was hashed as it is. *)
SyncHashed ==
  \A p \in Path : fresh[p] # None /\ onDisk[p] = tree[p] =>
    fresh[p].sha = written[tree[p]]

(* The inductive strengthening of FingerprintSound. *)
HashInv ==
  /\ WaitApart /\ CuratedApart /\ PickFree
  /\ PassFiles /\ PassMoved /\ SyncHashed
  /\ FingerprintSound

(* No file comes back to import/ from the curated side or from nowhere. *)
NoReturn == \A s \in Stamp : written[s] # None /\ ~Waiting(s) => ~Waiting(s)'

-----------------------------------------------------------------------------
LEMMA InitHashInv == Init => HashInv
<1> SUFFICES ASSUME Init PROVE HashInv
  OBVIOUS
<1> USE DEF Init, CorpusInit, EngineInit, SyncInit, ClientInit, NoCandidates, NoPaths
<1>1. WaitApart
  BY DEF WaitApart, IntakeApart, QuarApart, IntakeQuarApart
<1>2. CuratedApart
  BY DEF CuratedApart, Curated
<1>3. PickFree /\ PassFiles /\ PassMoved /\ SyncHashed
  BY DEF PickFree, PassFiles, PassMoved, SyncHashed, RunPc
<1>4. FingerprintSound
  BY DEF FingerprintSound, Matches
<1> QED
  BY <1>1, <1>2, <1>3, <1>4 DEF HashInv

(* What waits only shrinks. *)
LEMMA WaitShrinks ==
  ASSUME WaitApart,
         \A n \in Name : intake'[n] \in {intake[n], None},
         \A k \in Quarantine, n \in Name : quar'[k][n] \in {quar[k][n], None}
  PROVE  WaitApart' /\ NoReturn
<1>1. IntakeApart'
  BY DEF WaitApart, IntakeApart
<1>2. QuarApart'
  BY DEF WaitApart, QuarApart
<1>3. IntakeQuarApart'
  BY DEF WaitApart, IntakeQuarApart
<1>4. NoReturn
  BY DEF NoReturn, Waiting
<1> QED
  BY <1>1, <1>2, <1>3, <1>4 DEF WaitApart

LEMMA WaitUnchanged ==
  ASSUME WaitApart, UNCHANGED <<intake, quar>>
  PROVE  WaitApart' /\ NoReturn
BY WaitShrinks

(* A new file arrives in import/. *)
LEMMA WaitFresh ==
  ASSUME CorpusInv, WaitApart, NEW n \in Name, NEW s \in Fresh,
         intake' = [intake EXCEPT ![n] = s], UNCHANGED quar
  PROVE  WaitApart' /\ NoReturn
<1> USE DEF CorpusInv, CorpusTypeOK, Fresh
<1>1. IntakeApart'
  BY DEF WaitApart, IntakeApart, IntakeWritten
<1>2. QuarApart'
  BY DEF WaitApart, QuarApart
<1>3. IntakeQuarApart'
  BY DEF WaitApart, IntakeQuarApart, QuarWritten
<1>4. NoReturn
  BY DEF NoReturn, Waiting
<1> QED
  BY <1>1, <1>2, <1>3, <1>4 DEF WaitApart

(* A file goes from import/ to quarantine ... *)
LEMMA WaitToQuarantine ==
  ASSUME CorpusInv, WaitApart, NEW n \in Name, NEW k \in Quarantine, NEW d \in Name,
         intake[n] # None, NEW mv \in Moves(intake[n]),
         quar' = [quar EXCEPT ![k][d] = mv.dst],
         intake' = [intake EXCEPT ![n] = mv.src]
  PROVE  WaitApart' /\ NoReturn
<1>1. /\ mv.dst \in Stamp /\ mv.src \in {None, intake[n]}
      /\ (mv.dst = intake[n] /\ mv.src = None) \/ written[mv.dst] = None
  BY MovesFacts DEF CorpusInv, CorpusTypeOK, IntakeWritten
<1> USE <1>1 DEF CorpusInv, CorpusTypeOK
<1>2. IntakeApart'
  BY DEF WaitApart, IntakeApart
<1>3. QuarApart'
  BY DEF WaitApart, QuarApart, IntakeQuarApart, QuarWritten
<1>4. IntakeQuarApart'
  BY DEF WaitApart, IntakeApart, IntakeQuarApart, IntakeWritten
<1>5. NoReturn
  BY DEF NoReturn, Waiting
<1> QED
  BY <1>2, <1>3, <1>4, <1>5 DEF WaitApart

(* ... or from quarantine to a free name of import/. *)
LEMMA WaitFromQuarantine ==
  ASSUME CorpusInv, WaitApart, NEW n \in Name, NEW k \in Quarantine, NEW q \in Name,
         quar[k][q] # None, NEW mv \in Moves(quar[k][q]),
         intake' = [intake EXCEPT ![n] = mv.dst],
         quar' = [quar EXCEPT ![k][q] = mv.src]
  PROVE  WaitApart' /\ NoReturn
<1>1. /\ mv.dst \in Stamp /\ mv.src \in {None, quar[k][q]}
      /\ (mv.dst = quar[k][q] /\ mv.src = None) \/ written[mv.dst] = None
  BY MovesFacts DEF CorpusInv, CorpusTypeOK, QuarWritten
<1> USE <1>1 DEF CorpusInv, CorpusTypeOK
<1>2. IntakeApart'
  BY DEF WaitApart, IntakeApart, IntakeQuarApart, IntakeWritten
<1>3. QuarApart'
  BY DEF WaitApart, QuarApart
<1>4. IntakeQuarApart'
  BY DEF WaitApart, QuarApart, IntakeQuarApart, QuarWritten
<1>5. NoReturn
  BY DEF NoReturn, Waiting
<1> QED
  BY <1>2, <1>3, <1>4, <1>5 DEF WaitApart

(* What the curated side knows after a step it knew before, or it is out   *)
(* of import/ and quarantine.                                              *)
LEMMA CuratedStep ==
  ASSUME TypeInv, CuratedApart, NoReturn,
         \A s \in Stamp : Curated(s)' => Curated(s) \/ ~Waiting(s)'
  PROVE  CuratedApart'
<1>1. ASSUME NEW s \in Stamp, Curated(s) PROVE written[s] # None
  BY <1>1 DEF Curated, TypeInv, CorpusInv, SyncInv, CorpusTypeOK, TreeWritten,
     RowWritten, OnDiskWritten
<1> QED
  BY <1>1 DEF CuratedApart, NoReturn

(* Fingerprints, tree and stats untouched, or fewer of them. *)
LEMMA CuratedShrinks ==
  ASSUME TypeInv, CuratedApart, NoReturn,
         \A p \in Path : tree'[p] \in {tree[p], None},
         \A p \in Path : row'[p] \in {row[p], None},
         \A p \in Path : onDisk'[p] \in {onDisk[p], None}
  PROVE  CuratedApart'
<1>1. ASSUME NEW s \in Stamp, Curated(s)' PROVE Curated(s)
  BY <1>1 DEF Curated
<1> QED
  BY <1>1, CuratedStep

LEMMA FingerprintFrame ==
  ASSUME TypeInv, FingerprintSound, Grows,
         \A p \in Path : tree'[p] \in {tree[p], None},
         \A p \in Path : row'[p] \in {row[p], None}
  PROVE  FingerprintSound'
BY DEF FingerprintSound, Matches, Grows, TypeInv, CorpusInv, CorpusTypeOK,
   TreeWritten, SourceRow

(* The hashes of a validation stay right while the tree is left alone. *)
LEMMA SyncHashedFrame ==
  ASSUME TypeInv, SyncHashed, Grows, UNCHANGED <<onDisk, fresh>>,
         \A p \in Path : tree'[p] \in {tree[p], None}
  PROVE  SyncHashed'
BY DEF SyncHashed, Grows, TypeInv, CorpusInv, CorpusTypeOK, TreeWritten, SyncInv,
   SyncTypeOK, FreshGood

(* Outside a validation there are no hashes to keep. *)
LEMMA SyncHashedIdle ==
  ASSUME TypeInv', pc' \notin SyncPc
  PROVE  SyncHashed'
BY DEF SyncHashed, TypeInv, SyncInv, SyncState, NoPaths

(* Steps between passes need no files of a pass. *)
LEMMA PassIdle ==
  ASSUME pc' \notin RunPc
  PROVE  PassFiles' /\ PassMoved'
BY DEF PassFiles, PassMoved, RunPc

(* Other actors leave the files of a pass alone. *)
LEMMA PassFilesFrame ==
  ASSUME PassFiles, UNCHANGED <<pc, cand, cur>>,
         \A n \in Name : cand[n] # None => intake'[n] = intake[n]
  PROVE  PassFiles'
BY DEF PassFiles

LEMMA PassMovedFrame ==
  ASSUME TypeInv, PassMoved, Grows, UNCHANGED <<pc, cand, cur>>,
         pc \in RunPc => UNCHANGED tree
  PROVE  PassMoved'
<1> SUFFICES ASSUME pc \in {"save", "mark"} PROVE PassMoved'
  BY DEF PassMoved
<1>1. cur.p \in Path /\ cur.n \in Name /\ cand[cur.n] # None
  BY DEF TypeInv, EngineInv, PassState
<1>2. UNCHANGED tree
  BY DEF RunPc
<1>3. tree[cur.p] \in Stamp /\ written[tree[cur.p]] # None
  BY <1>1 DEF PassMoved, TypeInv, CorpusInv, CorpusTypeOK, TreeWritten
<1>4. cand[cur.n].seen \in Stamp /\ written[cand[cur.n].seen] # None
  BY <1>1 DEF TypeInv, EngineInv, EngineTypeOK, CandWritten, Candidate
<1> QED
  BY <1>2, <1>3, <1>4 DEF PassMoved, Grows

-----------------------------------------------------------------------------
(* The environment, when nobody races with a pass. *)

NoRace == "race" \notin Faults

(* A step of the environment that leaves the tree and the rows alone and   *)
(* touches no file in use.                                                 *)
LEMMA OutsideStep ==
  ASSUME TypeInv, HashInv, Grows, WaitApart', NoReturn,
         UNCHANGED <<pc, row, engineVars, syncVars>>,
         \A p \in Path : tree'[p] \in {tree[p], None},
         pc \in RunPc => UNCHANGED tree,
         \A n \in Name : cand[n] # None => intake'[n] = intake[n],
         PickFree'
  PROVE  HashInv'
<1> USE DEF HashInv, engineVars, syncVars
<1>1. CuratedApart'
  BY CuratedShrinks
<1>2. PassFiles' /\ PassMoved'
  BY PassFilesFrame, PassMovedFrame
<1>3. SyncHashed'
  BY SyncHashedFrame
<1>4. FingerprintSound'
  BY FingerprintFrame
<1> QED
  BY <1>1, <1>2, <1>3, <1>4

LEMMA DropFileHash ==
  ASSUME NoRace, TypeInv, HashInv, NEW n \in Name, NEW c \in Content, NEW s \in Stamp,
         DropFile(n, c, s)
  PROVE  HashInv'
<1> USE DEF DropFile
<1>1. Grows
  BY WriteFacts DEF TypeInv, CorpusInv
<1>2. WaitApart' /\ NoReturn
  BY WaitFresh DEF TypeInv, HashInv
<1>3. n \notin InUse
  BY DEF MayTouch, NoRace
<1>4. cand[n] = None /\ (pick # None => n # pick.n)
  BY <1>3 DEF InUse, Active
<1>5. \A u \in Name : cand[u] # None => intake'[u] = intake[u]
  BY <1>4 DEF TypeInv, CorpusInv, CorpusTypeOK
<1>6. PickFree'
  BY <1>4 DEF HashInv, PickFree, TypeInv, CorpusInv, CorpusTypeOK, ClientInv, Picks, clientVars
<1> QED
  BY <1>1, <1>2, <1>5, <1>6, OutsideStep DEF store

LEMMA UploadPartHash ==
  ASSUME NoRace, TypeInv, HashInv, NEW n \in Name, NEW c \in Content, NEW s \in Stamp,
         NEW rep \in BOOLEAN, UploadPart(n, c, s, rep)
  PROVE  HashInv'
<1> USE DEF UploadPart
<1>1. Grows
  BY WriteFacts DEF TypeInv, CorpusInv
<1>2. WaitApart' /\ NoReturn
  BY WaitFresh DEF TypeInv, HashInv
<1>3. n \notin InUse
  BY DEF MayTouch, NoRace
<1>4. cand[n] = None /\ (pick # None => n # pick.n)
  BY <1>3 DEF InUse, Active
<1>5. \A u \in Name : cand[u] # None => intake'[u] = intake[u]
  BY <1>4 DEF TypeInv, CorpusInv, CorpusTypeOK
<1>6. PickFree'
  BY <1>4 DEF HashInv, PickFree, TypeInv, CorpusInv, CorpusTypeOK, ClientInv, Picks
<1> QED
  BY <1>1, <1>2, <1>5, <1>6, OutsideStep DEF store

LEMMA DeletePendingHash ==
  ASSUME NoRace, TypeInv, HashInv, NEW n \in Name, DeletePending(n)
  PROVE  HashInv'
<1> USE DEF DeletePending
<1>1. Grows
  BY DEF Grows
<1>2. \A u \in Name : intake'[u] \in {intake[u], None}
  BY DEF TypeInv, CorpusInv, CorpusTypeOK
<1>3. WaitApart' /\ NoReturn
  BY <1>2, WaitShrinks DEF HashInv
<1>4. cand[n] = None
  BY DEF MayTouch, NoRace, InUse, Active
<1>5. \A u \in Name : cand[u] # None => intake'[u] = intake[u]
  BY <1>4 DEF TypeInv, CorpusInv, CorpusTypeOK
<1>6. PickFree'
  BY <1>2 DEF HashInv, PickFree, TypeInv, ClientInv, Picks, clientVars
<1> QED
  BY <1>1, <1>3, <1>5, <1>6, OutsideStep DEF store

LEMMA DeleteQuarantinedHash ==
  ASSUME TypeInv, HashInv, NEW k \in Quarantine, NEW q \in Name, DeleteQuarantined(k, q)
  PROVE  HashInv'
<1> USE DEF DeleteQuarantined
<1>1. Grows
  BY DEF Grows
<1>2. \A j \in Quarantine, u \in Name : quar'[j][u] \in {quar[j][u], None}
  BY DEF TypeInv, CorpusInv, CorpusTypeOK
<1>3. WaitApart' /\ NoReturn
  BY <1>2, WaitShrinks DEF HashInv
<1>4. PickFree'
  BY DEF HashInv, PickFree, clientVars
<1> QED
  BY <1>1, <1>3, <1>4, OutsideStep DEF store

LEMMA RemoveFromTreeHash ==
  ASSUME NoRace, TypeInv, HashInv, NEW p \in Path, RemoveFromTree(p)
  PROVE  HashInv'
<1> USE DEF RemoveFromTree
<1>1. Grows
  BY DEF Grows
<1>2. \A q \in Path : tree'[q] \in {tree[q], None}
  BY DEF TypeInv, CorpusInv, CorpusTypeOK
<1>3. WaitApart' /\ NoReturn
  BY WaitUnchanged DEF HashInv
<1>4. pc \notin RunPc
  BY DEF MayEdit, NoRace
<1>5. PickFree'
  BY DEF HashInv, PickFree, clientVars
<1> QED
  BY <1>1, <1>2, <1>3, <1>4, <1>5, OutsideStep DEF store

(* A curated file edited between passes carries a stamp no row and no stat *)
(* of a validation has.                                                    *)
LEMMA EditTreeHash ==
  ASSUME NoRace, TypeInv, HashInv, NEW p \in Path, NEW c \in Content, NEW s \in Stamp,
         EditTree(p, c, s)
  PROVE  HashInv'
<1> USE DEF EditTree
<1>1. Grows /\ written[s] = None
  BY WriteFacts DEF TypeInv, CorpusInv, Fresh
<1>2. pc \notin RunPc /\ pc' \notin RunPc
  BY DEF MayEdit, NoRace
<1>3. WaitApart' /\ NoReturn
  BY WaitUnchanged DEF HashInv
<1>4. ~Waiting(s)'
  BY <1>1 DEF Waiting, TypeInv, CorpusInv, IntakeWritten, QuarWritten
<1>5. \A t \in Stamp : Curated(t)' => Curated(t) \/ t = s
  BY DEF Curated, TypeInv, CorpusInv, CorpusTypeOK, store, syncVars
<1>6. CuratedApart'
  BY <1>3, <1>4, <1>5, CuratedStep DEF HashInv
<1>7. PickFree'
  BY DEF HashInv, PickFree, clientVars
<1>8. SyncHashed'
  BY <1>1 DEF HashInv, SyncHashed, Grows, TypeInv, CorpusInv, CorpusTypeOK,
     TreeWritten, SyncInv, SyncTypeOK, OnDiskWritten, FreshGood, syncVars
<1>9. FingerprintSound'
  BY <1>1 DEF HashInv, FingerprintSound, Matches, Grows, TypeInv, CorpusInv,
     CorpusTypeOK, TreeWritten, RowWritten, SourceRow, store
<1> QED
  BY <1>2, <1>3, <1>6, <1>7, <1>8, <1>9, PassIdle DEF HashInv

-----------------------------------------------------------------------------
(* The web client. *)

LEMMA UploadStagedHash ==
  ASSUME TypeInv, HashInv, UploadStaged
  PROVE  HashInv'
<1> USE DEF UploadStaged
<1>1. Grows /\ WaitApart' /\ NoReturn
  BY WaitUnchanged DEF Grows, HashInv, disk
<1>2. PickFree'
  BY DEF HashInv, PickFree, disk
<1> QED
  BY <1>1, <1>2, OutsideStep DEF store, disk

LEMMA ReplacePickHash ==
  ASSUME TypeInv, HashInv, NEW k \in Quarantine, NEW q \in Name, ReplacePick(k, q)
  PROVE  HashInv'
<1> USE DEF ReplacePick
<1>1. Grows /\ WaitApart' /\ NoReturn
  BY WaitUnchanged DEF Grows, HashInv, disk
<1>2. PickFree'
  BY DEF PickFree, UniqueNames, disk
<1> QED
  BY <1>1, <1>2, OutsideStep DEF store, disk

LEMMA ReplaceStageHash ==
  ASSUME TypeInv, HashInv, ReplaceStage
  PROVE  HashInv'
<1> USE DEF ReplaceStage
<1> DEFINE s == quar[pick.k][pick.q]
<1>1. /\ pick \in Picks
      /\ pick.k \in Quarantine /\ pick.q \in Name /\ pick.n \in Name
      /\ s \in Stamp \cup {None}
  BY DEF TypeInv, ClientInv, Picks, CorpusInv, CorpusTypeOK
<1>2. CASE ClientDone /\ UNCHANGED <<intake, quar, written>>
  <2>1. Grows /\ WaitApart' /\ NoReturn
    BY <1>2, WaitUnchanged DEF Grows, HashInv
  <2>2. PickFree'
    BY <1>2 DEF PickFree, ClientDone
  <2> QED
    BY <1>2, <2>1, <2>2, OutsideStep DEF store
<1>3. ASSUME s # None, NEW mv \in Moves(s),
             intake' = [intake EXCEPT ![pick.n] = mv.dst],
             quar' = [quar EXCEPT ![pick.k][pick.q] = mv.src],
             written' = mv.wr, pick' = None
      PROVE  HashInv'
  <2>1. Grows
    BY <1>1, <1>3, MoveGrows DEF TypeInv, CorpusInv, QuarWritten
  <2>2. WaitApart' /\ NoReturn
    BY <1>1, <1>3, WaitFromQuarantine DEF TypeInv, HashInv
  <2>3. CuratedApart'
    BY <2>2, CuratedShrinks DEF HashInv, store, syncVars
  <2>4. PickFree'
    BY <1>3 DEF PickFree
  <2>5. intake[pick.n] = None
    BY <1>1 DEF HashInv, PickFree
  <2>6. PassFiles'
    <3> SUFFICES ASSUME NEW n \in Name, pc \in RunPc, cand[n] # None
                 PROVE  \/ intake'[n] = cand[n].seen
                        \/ pc \in {"save", "mark"} /\ n = cur.n
      BY DEF PassFiles, engineVars
    <3>1. cand[n].seen \in Stamp
      BY DEF TypeInv, EngineInv, EngineTypeOK, Candidate
    <3>2. n # pick.n \/ (pc \in {"save", "mark"} /\ n = cur.n)
      BY <2>5, <3>1 DEF HashInv, PassFiles
    <3> QED
      BY <1>1, <1>3, <3>2 DEF HashInv, PassFiles, TypeInv, CorpusInv, CorpusTypeOK
  <2>7. PassMoved'
    BY <2>1, PassMovedFrame DEF HashInv, engineVars
  <2>8. SyncHashed'
    BY <2>1, SyncHashedFrame DEF HashInv, syncVars
  <2>9. FingerprintSound'
    BY <2>1, FingerprintFrame DEF HashInv, store
  <2> QED
    BY <2>2, <2>3, <2>4, <2>6, <2>7, <2>8, <2>9 DEF HashInv
<1> QED
  BY <1>2, <1>3

-----------------------------------------------------------------------------
(* The engine. *)

LEMMA BeginHash ==
  ASSUME TypeInv, TypeInv', HashInv, NEW batch \in SUBSET Name,
         NEW who \in {"background", "request"}, NEW rep \in BOOLEAN,
         Begin(batch, who, rep), UNCHANGED syncVars, UNCHANGED pick
  PROVE  HashInv'
<1> USE DEF Begin
<1>1. Grows /\ WaitApart' /\ NoReturn
  BY WaitUnchanged DEF Grows, HashInv, disk
<1>2. CuratedApart'
  BY <1>1, CuratedShrinks DEF HashInv, disk, store, syncVars
<1>3. PickFree'
  BY DEF HashInv, PickFree, disk
<1>4. PassFiles' /\ PassMoved'
  BY DEF PassFiles, PassMoved, disk
<1>5. SyncHashed'
  BY SyncHashedIdle DEF SyncPc
<1>6. FingerprintSound'
  BY <1>1, FingerprintFrame DEF HashInv, disk, store
<1> QED
  BY <1>1, <1>2, <1>3, <1>4, <1>5, <1>6 DEF HashInv

(* A step of the pass that leaves every file and row where it is. *)
LEMMA PassStep ==
  ASSUME TypeInv, TypeInv', HashInv, UNCHANGED <<disk, syncVars>>,
         \A p \in Path : row'[p] \in {row[p], None},
         pick' \in {pick, None}, pc' \notin SyncPc,
         PassFiles', PassMoved'
  PROVE  HashInv'
<1>1. Grows /\ WaitApart' /\ NoReturn
  BY WaitUnchanged DEF Grows, HashInv, disk
<1>2. CuratedApart'
  BY <1>1, CuratedShrinks DEF HashInv, disk, store, syncVars
<1>3. PickFree'
  BY DEF HashInv, PickFree, disk
<1>4. SyncHashed'
  BY SyncHashedIdle
<1>5. FingerprintSound'
  BY <1>1, FingerprintFrame DEF HashInv, disk
<1> QED
  BY <1>1, <1>2, <1>3, <1>4, <1>5 DEF HashInv

LEMMA QuarantinedHash ==
  ASSUME TypeInv, TypeInv', HashInv, NEW n \in Name, NEW k \in Quarantine,
         Quarantined(n, k), pc \in {"check", "route", "move"},
         pc' \in {"check", "route"}, UNCHANGED syncVars, pick' \in {pick, None}
  PROVE  HashInv'
<1> USE DEF Quarantined
<1>1. Grows /\ WaitApart' /\ NoReturn
  <2>1. CASE QuarantineMoved(n, k)
    <3>1. PICK d \in Name, mv \in Moves(intake[n]) :
            /\ quar' = [quar EXCEPT ![k][d] = mv.dst]
            /\ intake' = [intake EXCEPT ![n] = mv.src]
            /\ written' = mv.wr /\ intake[n] # None
      BY <2>1 DEF QuarantineMoved, UniqueNames
    <3>2. Grows
      BY <3>1, MoveGrows DEF TypeInv, CorpusInv, CorpusTypeOK, IntakeWritten
    <3> QED
      BY <3>1, <3>2, WaitToQuarantine DEF TypeInv, HashInv
  <2>2. CASE QuarantineStuck(n)
    BY <2>2, WaitUnchanged DEF QuarantineStuck, Grows, HashInv
  <2> QED
    BY <2>1, <2>2
<1>2. \A u \in Name : intake'[u] \in {intake[u], None} /\ (u # n => intake'[u] = intake[u])
  <2>1. CASE QuarantineMoved(n, k)
    <3>1. intake[n] \in Stamp /\ written[intake[n]] # None
      BY <2>1 DEF QuarantineMoved, TypeInv, CorpusInv, CorpusTypeOK, IntakeWritten
    <3>2. PICK mv \in Moves(intake[n]) : intake' = [intake EXCEPT ![n] = mv.src]
      BY <2>1 DEF QuarantineMoved
    <3>3. mv.src \in {None, intake[n]}
      BY <3>1, MovesFacts DEF TypeInv, CorpusInv
    <3> QED
      BY <3>2, <3>3 DEF TypeInv, CorpusInv, CorpusTypeOK
  <2>2. CASE QuarantineStuck(n)
    BY <2>2 DEF QuarantineStuck
  <2> QED
    BY <2>1, <2>2
<1>3. CuratedApart'
  BY <1>1, CuratedShrinks DEF HashInv, store, syncVars
<1>4. PickFree'
  BY <1>2 DEF HashInv, PickFree, TypeInv, ClientInv, Picks
<1>5. PassFiles'
  BY <1>2 DEF HashInv, PassFiles, Drop, RunPc, TypeInv, EngineInv, EngineTypeOK
<1>6. PassMoved'
  BY DEF PassMoved
<1>7. SyncHashed'
  BY SyncHashedIdle DEF SyncPc
<1>8. FingerprintSound'
  BY <1>1, FingerprintFrame DEF HashInv, store
<1> QED
  BY <1>1, <1>3, <1>4, <1>5, <1>6, <1>7, <1>8 DEF HashInv

(* The steps of a pass that only look and compute. *)
LEMMA LookingStepsHash ==
  ASSUME TypeInv, TypeInv', HashInv, UNCHANGED syncVars, pick' \in {pick, None},
         Settle \/ EndCheck \/ EndBuild \/ Finish \/ \E n \in Name : Build(n)
  PROVE  HashInv'
<1>1. PassMoved' /\ pc' \notin SyncPc
  BY DEF PassMoved, SyncPc, Settle, EndCheck, EndBuild, Finish, Build, Release
<1>2. PassFiles'
  <2>1. CASE Settle
    BY <2>1 DEF Settle, PassFiles, RunPc, disk
  <2>2. CASE EndCheck
    BY <2>2 DEF EndCheck, Release, HashInv, PassFiles, NoCandidates, RunPc, disk
  <2>3. CASE EndBuild
    BY <2>3 DEF EndBuild, HashInv, PassFiles, RunPc, disk
  <2>4. CASE Finish
    BY <2>4 DEF Finish, Release, PassFiles, NoCandidates, disk
  <2>5. ASSUME NEW n \in Name, Build(n) PROVE PassFiles'
    <3>1. PICK res : cand' = [cand EXCEPT ![n].built = res]
      BY <2>5 DEF Build
    <3>2. cand[n] # None
      BY <2>5 DEF Build, TypeInv, EngineInv, PassState, Active, RunPc
    <3>3. \A u \in Name : cand'[u] # None => cand[u] # None /\ cand'[u].seen = cand[u].seen
      BY <3>1, <3>2 DEF TypeInv, EngineInv, EngineTypeOK, Candidate
    <3> QED
      BY <2>5, <3>3 DEF Build, HashInv, PassFiles, RunPc, disk
  <2> QED
    BY <2>1, <2>2, <2>3, <2>4, <2>5
<1>3. UNCHANGED <<disk, row>>
  BY DEF Settle, EndCheck, EndBuild, Finish, Build, store
<1> QED
  BY <1>1, <1>2, <1>3, PassStep

LEMMA CheckHash ==
  ASSUME TypeInv, TypeInv', HashInv, UNCHANGED syncVars, pick' \in {pick, None},
         NEW n \in Name, Check(n)
  PROVE  HashInv'
<1> USE DEF Check
<1>1. CASE Quarantined(n, "failed")
  BY <1>1, QuarantinedHash DEF Quarantine
<1>2. CASE Quarantined(n, "duplicate")
  BY <1>2, QuarantinedHash DEF Quarantine
<1>3. CASE UNCHANGED <<disk, store, job, cand, outcome, poisoned>>
  <2>1. PassFiles' /\ PassMoved'
    BY <1>3 DEF HashInv, PassFiles, PassMoved, RunPc, disk
  <2> QED
    BY <1>3, <2>1, PassStep DEF store, SyncPc
<1> QED
  BY <1>1, <1>2, <1>3

LEMMA RouteFileHash ==
  ASSUME TypeInv, TypeInv', HashInv, UNCHANGED syncVars, pick' \in {pick, None},
         NEW n \in Name, pc = "route", RouteFile(n)
  PROVE  HashInv'
<1> USE DEF RouteFile
<1>1. Grows /\ WaitApart' /\ NoReturn
  BY WaitUnchanged DEF Grows, HashInv
<1>2. /\ \A q \in Path : tree'[q] \in {tree[q], None}
      /\ \A q \in Path : row'[q] \in {row[q], None}
  BY DEF store
<1>3. CuratedApart'
  BY <1>1, <1>2, CuratedShrinks DEF HashInv, syncVars
<1>4. PickFree'
  BY DEF HashInv, PickFree
<1>5. PassFiles' /\ PassMoved'
  BY DEF HashInv, PassFiles, PassMoved, RunPc
<1>6. SyncHashed'
  BY SyncHashedIdle DEF SyncPc
<1>7. FingerprintSound'
  BY <1>1, <1>2, FingerprintFrame DEF HashInv
<1> QED
  BY <1>1, <1>3, <1>4, <1>5, <1>6, <1>7 DEF HashInv

LEMMA RouteForgetHash ==
  ASSUME TypeInv, TypeInv', HashInv, UNCHANGED syncVars, pick' \in {pick, None}, RouteForget
  PROVE  HashInv'
<1> USE DEF RouteForget
<1>1. PassFiles' /\ PassMoved'
  BY DEF HashInv, PassFiles, PassMoved, RunPc, disk
<1>2. \A q \in Path : row'[q] \in {row[q], None}
  OBVIOUS
<1>3. Grows /\ WaitApart' /\ NoReturn
  BY WaitUnchanged DEF Grows, HashInv, disk
<1>4. CuratedApart'
  BY <1>2, <1>3, CuratedShrinks DEF HashInv, disk, syncVars
<1>5. PickFree'
  BY DEF HashInv, PickFree, disk
<1>6. SyncHashed'
  BY SyncHashedIdle DEF SyncPc
<1>7. FingerprintSound'
  BY <1>2, <1>3, FingerprintFrame DEF HashInv, disk
<1> QED
  BY <1>1, <1>3, <1>4, <1>5, <1>6, <1>7 DEF HashInv

LEMMA RouteHash ==
  ASSUME TypeInv, TypeInv', HashInv, UNCHANGED syncVars, pick' \in {pick, None},
         NEW n \in Name, Route(n)
  PROVE  HashInv'
<1> USE DEF Route
<1>1. CASE RouteDeferred(n)
  <2>1. PassFiles' /\ PassMoved'
    BY <1>1 DEF RouteDeferred, Drop, HashInv, PassFiles, PassMoved, RunPc, disk,
       TypeInv, EngineInv, EngineTypeOK
  <2> QED
    BY <1>1, <2>1, PassStep DEF RouteDeferred, store, SyncPc
<1>2. CASE RouteFailed(n)
  BY <1>2, QuarantinedHash DEF RouteFailed, Quarantine
<1>3. CASE RouteDuplicate(n)
  BY <1>3, QuarantinedHash DEF RouteDuplicate, Quarantine
<1>4. CASE RouteFile(n)
  BY <1>4, RouteFileHash
<1> QED
  BY <1>1, <1>2, <1>3, <1>4

(* The file the pass hashed is the one that arrives, under a stamp that    *)
(* neither waits any more nor is in any row.                               *)
LEMMA MoveDoneHash ==
  ASSUME TypeInv, TypeInv', HashInv, UNCHANGED syncVars, pick' \in {pick, None},
         pc = "move", MoveDone
  PROVE  HashInv'
<1> USE DEF MoveDone
<1>1. cur.n \in Name /\ cur.p \in Path /\ cand[cur.n] # None
  BY DEF TypeInv, EngineInv, PassState
<1>2. intake[cur.n] \in Stamp /\ written[intake[cur.n]] # None
  BY <1>1 DEF TypeInv, CorpusInv, CorpusTypeOK, IntakeWritten
<1>3. PICK mv \in Moves(intake[cur.n]) :
        /\ tree' = [tree EXCEPT ![cur.p] = mv.dst]
        /\ intake' = [intake EXCEPT ![cur.n] = mv.src]
        /\ written' = mv.wr
  OBVIOUS
<1>4. /\ mv.dst \in Stamp /\ mv.src \in {None, intake[cur.n]}
      /\ written'[mv.dst] = written[intake[cur.n]]
      /\ (mv.dst = intake[cur.n] /\ mv.src = None) \/ written[mv.dst] = None
  BY <1>2, <1>3, MovesFacts DEF TypeInv, CorpusInv
<1>5. Grows
  BY <1>2, <1>3, MoveGrows DEF TypeInv, CorpusInv
<1>6. \A u \in Name : intake'[u] = IF u = cur.n THEN mv.src ELSE intake[u]
  BY <1>3 DEF TypeInv, CorpusInv, CorpusTypeOK
<1>7. WaitApart' /\ NoReturn
  BY <1>4, <1>6, WaitShrinks DEF HashInv
<1>8. ~Waiting(mv.dst)'
  BY <1>1, <1>2, <1>4, <1>6 DEF Waiting, HashInv, WaitApart, IntakeApart, IntakeQuarApart,
     TypeInv, CorpusInv, IntakeWritten, QuarWritten
<1>9. CuratedApart'
  <2>1. \A t \in Stamp : Curated(t)' => Curated(t) \/ t = mv.dst
    BY <1>3 DEF Curated, TypeInv, CorpusInv, CorpusTypeOK, store, syncVars
  <2> QED
    BY <1>7, <1>8, <2>1, CuratedStep DEF HashInv
<1>10. PickFree'
  BY <1>4, <1>6 DEF HashInv, PickFree, TypeInv, ClientInv, Picks
<1>11. intake[cur.n] = cand[cur.n].seen
  BY <1>1 DEF HashInv, PassFiles, RunPc
<1>12. PassFiles'
  BY <1>6 DEF HashInv, PassFiles, RunPc
<1>13. PassMoved'
  <2>1. tree'[cur.p] = mv.dst
    BY <1>1, <1>3 DEF TypeInv, CorpusInv, CorpusTypeOK
  <2>2. written'[cand[cur.n].seen] = written[cand[cur.n].seen]
    BY <1>2, <1>5, <1>11 DEF Grows
  <2> QED
    BY <1>4, <1>11, <2>1, <2>2 DEF PassMoved
<1>14. SyncHashed'
  BY SyncHashedIdle DEF SyncPc
<1>15. FingerprintSound'
  <2>1. \A p \in Path : row[p] # None => row[p].m # mv.dst
    BY <1>1, <1>4 DEF HashInv, CuratedApart, Curated, Waiting, TypeInv, CorpusInv,
       CorpusTypeOK, RowWritten, SourceRow
  <2> QED
    BY <1>1, <1>3, <1>5, <2>1 DEF HashInv, FingerprintSound, Matches, Grows, TypeInv,
       CorpusInv, CorpusTypeOK, TreeWritten, SourceRow, store
<1> QED
  BY <1>7, <1>9, <1>10, <1>12, <1>13, <1>14, <1>15 DEF HashInv

LEMMA MoveHash ==
  ASSUME TypeInv, TypeInv', HashInv, UNCHANGED syncVars, pick' \in {pick, None}, Move
  PROVE  HashInv'
<1>1. pc = "move" /\ cur.n \in Name
  BY DEF Move, TypeInv, EngineInv, PassState
<1>2. CASE MoveDone
  BY <1>1, <1>2, MoveDoneHash
<1>3. CASE MoveVanished
  <2>1. PassFiles' /\ PassMoved'
    BY <1>1, <1>3 DEF MoveVanished, Drop, HashInv, PassFiles, PassMoved, RunPc, disk,
       TypeInv, EngineInv, EngineTypeOK
  <2> QED
    BY <1>3, <2>1, PassStep DEF MoveVanished, store, SyncPc
<1>4. CASE MoveFailed
  BY <1>1, <1>4, QuarantinedHash DEF MoveFailed, Quarantine
<1> QED
  BY <1>2, <1>3, <1>4 DEF Move

LEMMA SaveHash ==
  ASSUME TypeInv, TypeInv', HashInv, UNCHANGED syncVars, pick' \in {pick, None}, Save
  PROVE  HashInv'
<1> USE DEF Save
<1>1. cur.n \in Name
  BY DEF TypeInv, EngineInv, PassState
<1>2. PassFiles'
  BY <1>1 DEF Drop, HashInv, PassFiles, RunPc, disk, TypeInv, EngineInv, EngineTypeOK
<1>3. PassMoved'
  BY DEF HashInv, PassMoved, disk
<1> QED
  BY <1>2, <1>3, PassStep DEF SyncPc

(* The row gets the stat of the file that arrived and the hash of the file *)
(* that was settled: the same bytes.                                       *)
LEMMA MarkHash ==
  ASSUME TypeInv, TypeInv', HashInv, UNCHANGED syncVars, pick' \in {pick, None}, Mark
  PROVE  HashInv'
<1> USE DEF Mark
<1>1. cur.n \in Name /\ cur.p \in Path
  BY DEF TypeInv, EngineInv, PassState
<1>2. Grows /\ WaitApart' /\ NoReturn
  BY WaitUnchanged DEF Grows, HashInv, disk
<1>3. PassFiles' /\ PassMoved'
  BY <1>1 DEF Drop, HashInv, PassFiles, PassMoved, RunPc, disk, TypeInv, EngineInv,
     EngineTypeOK
<1>4. PickFree'
  BY DEF HashInv, PickFree, disk
<1>5. SyncHashed'
  BY SyncHashedIdle DEF SyncPc
<1>6. CASE UNCHANGED row
  BY <1>3, <1>6, PassStep DEF SyncPc
<1>7. CASE row' = [row EXCEPT ![cur.p] =
             [m |-> tree[cur.p], sha |-> written[cand[cur.n].seen],
              mod |-> BuiltModule(cur.n)]]
  <2>1. \A s \in Stamp : Curated(s)' => Curated(s)
    BY <1>1, <1>7 DEF Curated, TypeInv, CorpusInv, CorpusTypeOK, disk, syncVars
  <2>2. CuratedApart'
    BY <1>2, <2>1, CuratedStep DEF HashInv
  <2>3. FingerprintSound'
    BY <1>1, <1>7 DEF HashInv, FingerprintSound, Matches, PassMoved, TypeInv, CorpusInv,
       CorpusTypeOK, disk
  <2> QED
    BY <1>2, <1>3, <1>4, <1>5, <2>2, <2>3 DEF HashInv
<1> QED
  BY <1>6, <1>7 DEF UpsertSourceFile

LEMMA EngineRunsHash ==
  ASSUME TypeInv, TypeInv', HashInv, EngineRuns
  PROVE  HashInv'
<1>1. pick' \in {pick, None}
  BY DEF EngineRuns, clientVars, ClientDone
<1> QED
  BY <1>1, LookingStepsHash, CheckHash, RouteHash, RouteForgetHash, MoveHash, SaveHash,
     MarkHash DEF EngineRuns, EngineStep

LEMMA RequestCancelHash ==
  ASSUME TypeInv, TypeInv', HashInv, RequestCancel
  PROVE  HashInv'
<1> USE DEF RequestCancel, Cancel
<1>1. PassFiles' /\ PassMoved'
  BY DEF HashInv, PassFiles, PassMoved, RunPc, disk
<1>2. pc' \notin SyncPc /\ UNCHANGED pick
  BY DEF RunPc, SyncPc, clientVars
<1> QED
  BY <1>1, <1>2, PassStep DEF store

-----------------------------------------------------------------------------
(* The validation. *)

(* Files stay where they are, and no pass is on. *)
LEMMA ValidationStep ==
  ASSUME TypeInv, HashInv, UNCHANGED disk, pc' \notin RunPc, UNCHANGED pick,
         \A s \in Stamp : Curated(s)' => Curated(s),
         SyncHashed', FingerprintSound'
  PROVE  HashInv'
<1>1. Grows /\ WaitApart' /\ NoReturn
  BY WaitUnchanged DEF Grows, HashInv, disk
<1>2. CuratedApart'
  BY <1>1, CuratedStep DEF HashInv
<1>3. PickFree'
  BY DEF HashInv, PickFree, disk
<1> QED
  BY <1>1, <1>2, <1>3, PassIdle DEF HashInv

(* The steps that leave the stats and hashes of the validation alone. *)
LEMMA ValidationShrinks ==
  ASSUME TypeInv, TypeInv', HashInv, UNCHANGED disk, pc' \notin RunPc, UNCHANGED pick,
         \A p \in Path : row'[p] \in {row[p], None},
         UNCHANGED <<onDisk, fresh>>
  PROVE  HashInv'
<1>1. Grows
  BY DEF Grows, disk
<1>2. FingerprintSound' /\ SyncHashed'
  BY <1>1, FingerprintFrame, SyncHashedFrame DEF HashInv, disk
<1>3. \A s \in Stamp : Curated(s)' => Curated(s)
  BY DEF Curated, disk
<1> QED
  BY <1>2, <1>3, ValidationStep

LEMMA SyncWalkHash ==
  ASSUME TypeInv, TypeInv', HashInv, SyncWalk, UNCHANGED pick
  PROVE  HashInv'
<1> USE DEF SyncWalk
<1>1. \A s \in Stamp : Curated(s)' => Curated(s)
  BY DEF Curated, disk, store
<1>2. SyncHashed'
  BY DEF SyncHashed, TypeInv, SyncInv, SyncState, NoPaths, SyncPc
<1>3. FingerprintSound'
  BY FingerprintFrame DEF Grows, HashInv, disk, store
<1> QED
  BY <1>1, <1>2, <1>3, ValidationStep DEF RunPc

(* A hash taken now is right if the stat of the walk still is. *)
LEMMA SyncDiffHash ==
  ASSUME TypeInv, TypeInv', HashInv, UNCHANGED pick, NEW p \in Path, SyncDiff(p)
  PROVE  HashInv'
<1> USE DEF SyncDiff
<1>1. CASE UNCHANGED <<row, fresh>>
  BY <1>1, ValidationShrinks DEF RunPc
<1>2. CASE UpsertSourceFile(p, onDisk[p], written[tree[p]], known[p].mod) /\ UNCHANGED fresh
  <2>1. \A s \in Stamp : Curated(s)' => Curated(s)
    BY <1>2 DEF UpsertSourceFile, Curated, TypeInv, CorpusInv, CorpusTypeOK, disk
  <2>2. SyncHashed'
    BY <1>2 DEF HashInv, SyncHashed, disk
  <2>3. FingerprintSound'
    BY <1>2 DEF UpsertSourceFile, HashInv, FingerprintSound, Matches, TypeInv, CorpusInv,
       CorpusTypeOK, disk
  <2> QED
    BY <2>1, <2>2, <2>3, ValidationStep DEF RunPc
<1>3. CASE /\ fresh' = [fresh EXCEPT ![p] = [sha |-> written[tree[p]], built |-> None]]
           /\ UNCHANGED row
  <2>1. \A s \in Stamp : Curated(s)' => Curated(s)
    BY <1>3 DEF Curated, disk
  <2>2. SyncHashed'
    BY <1>3 DEF HashInv, SyncHashed, TypeInv, SyncInv, SyncTypeOK, disk
  <2>3. FingerprintSound'
    BY <1>3, FingerprintFrame DEF Grows, HashInv, disk
  <2> QED
    BY <2>1, <2>2, <2>3, ValidationStep DEF RunPc
<1> QED
  BY <1>1, <1>2, <1>3

LEMMA SyncBuildHash ==
  ASSUME TypeInv, TypeInv', HashInv, UNCHANGED pick, NEW p \in Path, SyncBuild(p)
  PROVE  HashInv'
<1> USE DEF SyncBuild
<1>1. PICK res : fresh' = [fresh EXCEPT ![p].built = res]
  OBVIOUS
<1>2. fresh[p] # None
  BY DEF TypeInv, SyncInv, SyncState, Kept
<1>3. \A q \in Path : fresh'[q] # None => fresh[q] # None /\ fresh'[q].sha = fresh[q].sha
  BY <1>1, <1>2 DEF TypeInv, SyncInv, SyncTypeOK
<1>4. SyncHashed'
  BY <1>3 DEF HashInv, SyncHashed, disk
<1>5. \A s \in Stamp : Curated(s)' => Curated(s)
  BY DEF Curated, disk, store
<1>6. FingerprintSound'
  BY FingerprintFrame DEF Grows, HashInv, disk, store
<1> QED
  BY <1>4, <1>5, <1>6, ValidationStep DEF RunPc

(* The row gets the stat of the walk and the hash taken after it: they     *)
(* belong together unless the file was written in between, and then the    *)
(* stat on disk is another one.                                            *)
LEMMA SyncStampHash ==
  ASSUME TypeInv, TypeInv', HashInv, UNCHANGED pick, SyncStamp
  PROVE  HashInv'
<1> USE DEF SyncStamp
<1>1. at \in Path /\ fresh[at] # None /\ onDisk[at] # None
  BY DEF TypeInv, SyncInv, SyncState, FreshGood
<1>2. \A s \in Stamp : Curated(s)' => Curated(s)
  BY <1>1 DEF UpsertSourceFile, Curated, TypeInv, CorpusInv, CorpusTypeOK, disk
<1>3. SyncHashed'
  BY DEF HashInv, SyncHashed, disk
<1>4. FingerprintSound'
  BY <1>1 DEF UpsertSourceFile, HashInv, FingerprintSound, Matches, SyncHashed, TypeInv,
     CorpusInv, CorpusTypeOK, disk
<1> QED
  BY <1>2, <1>3, <1>4, ValidationStep DEF RunPc

LEMMA SyncRefreshHash ==
  ASSUME TypeInv, TypeInv', HashInv, UNCHANGED pick, SyncRefresh
  PROVE  HashInv'
<1> USE DEF SyncRefresh
<1>1. \A s \in Stamp : Curated(s)' => Curated(s)
  BY DEF Curated, NoPaths, disk
<1>2. SyncHashed'
  BY SyncHashedIdle DEF SyncPc
<1>3. FingerprintSound'
  BY FingerprintFrame DEF Grows, HashInv, disk
<1> QED
  BY <1>1, <1>2, <1>3, ValidationStep DEF RunPc

LEMMA SyncRunsHash ==
  ASSUME TypeInv, TypeInv', HashInv, SyncRuns
  PROVE  HashInv'
<1>1. UNCHANGED pick
  BY DEF SyncRuns, clientVars
<1>2. ASSUME \/ EndDiff \/ EndVanish \/ EndSyncBuild \/ EndLoad \/ SyncDrop \/ EndPrune
             \/ \E m \in Module : SyncPrune(m)
      PROVE  HashInv'
  BY <1>1, <1>2, ValidationShrinks DEF EndDiff, EndVanish, EndSyncBuild, EndLoad,
     SyncDrop, SyncPrune, EndPrune, syncVars, store, RunPc
<1>3. ASSUME NEW p \in Path, SyncForget(p) \/ SyncLoad(p)
      PROVE  HashInv'
  <2>1. \A q \in Path : row'[q] \in {row[q], None}
    BY <1>3 DEF SyncForget, SyncLoad, TypeInv, CorpusInv, CorpusTypeOK
  <2> QED
    BY <1>1, <1>3, <2>1, ValidationShrinks DEF SyncForget, SyncLoad, RunPc
<1> QED
  BY <1>1, <1>2, <1>3, SyncWalkHash, SyncDiffHash, SyncBuildHash, SyncStampHash,
     SyncRefreshHash DEF SyncRuns, SyncStep

-----------------------------------------------------------------------------
(* The process. *)

LEMMA BootHash ==
  ASSUME TypeInv, TypeInv', HashInv, NEW rebuild \in BOOLEAN, Boot(rebuild)
  PROVE  HashInv'
<1> USE DEF Boot
<1>1. \A p \in Path : row'[p] \in {row[p], None}
  OBVIOUS
<1>2. UNCHANGED <<onDisk, fresh, pick>>
  BY DEF syncVars, clientVars
<1> QED
  BY <1>1, <1>2, ValidationShrinks DEF RunPc

LEMMA StopHash ==
  ASSUME TypeInv, TypeInv', HashInv, Stop
  PROVE  HashInv'
<1> USE DEF Stop
<1>1. Grows /\ WaitApart' /\ NoReturn
  BY WaitUnchanged DEF Grows, HashInv, disk
<1>2. CuratedApart'
  BY <1>1, CuratedShrinks DEF HashInv, NoPaths, disk, store
<1>3. PickFree'
  BY DEF PickFree, ClientDone
<1>4. PassFiles' /\ PassMoved'
  BY PassIdle DEF RunPc
<1>5. SyncHashed'
  BY SyncHashedIdle DEF SyncPc
<1>6. FingerprintSound'
  BY <1>1, FingerprintFrame DEF HashInv, disk, store
<1> QED
  BY <1>1, <1>2, <1>3, <1>4, <1>5, <1>6 DEF HashInv

LEMMA StutterHash ==
  ASSUME TypeInv, HashInv, UNCHANGED vars
  PROVE  HashInv'
<1> USE DEF vars, disk
<1>1. Grows /\ WaitApart' /\ NoReturn
  BY WaitUnchanged DEF Grows, HashInv
<1>2. PickFree'
  BY DEF HashInv, PickFree, clientVars
<1> QED
  BY <1>1, <1>2, OutsideStep DEF store

LEMMA NextHash ==
  ASSUME NoRace, TypeInv, TypeInv', HashInv, [Next]_vars
  PROVE  HashInv'
<1>1. CASE Environment
  BY <1>1, DropFileHash, EditTreeHash, RemoveFromTreeHash, DeletePendingHash,
     DeleteQuarantinedHash, ReplacePickHash, UploadPartHash DEF Environment
<1>2. ASSUME NEW batch \in SUBSET Name, WatcherBegin(batch) PROVE HashInv'
  BY <1>2, BeginHash DEF WatcherBegin, clientVars
<1>3. CASE Client
  <2>1. Active(sent) \in SUBSET Name /\ repl \in BOOLEAN
    BY DEF Active, TypeInv, ClientInv
  <2>2. CASE RequestBegin
    BY <2>1, <2>2, BeginHash DEF RequestBegin
  <2> QED
    BY <1>3, <2>2, UploadStagedHash, ReplaceStageHash DEF Client
<1>4. CASE RescanBegin
  <2>1. Active(intake) \in SUBSET Name
    BY DEF Active
  <2> QED
    BY <1>2, <1>4, <2>1 DEF RescanBegin
<1> QED
  BY <1>1, <1>2, <1>3, <1>4, RequestCancelHash, EngineRunsHash, SyncRunsHash,
     BootHash, StopHash, StutterHash DEF Next

(* A source_file row whose stat matches the curated file carries the hash  *)
(* of its bytes, in every corpus and after any number of passes, restarts, *)
(* edits, crashes and failed or cross-device moves, as long as nobody      *)
(* overwrites or removes a file in use.  This is what lets SyncCorpus trust *)
(* a matching stat without reading the file.                               *)
THEOREM FingerprintsAreSound ==
  ASSUME NoRace
  PROVE  Spec => []FingerprintSound
<1>1. Spec => []TypeInv
  BY InitTypeInv, NextTypeInv, PTL DEF Spec
<1>2. TypeInv /\ TypeInv' /\ HashInv /\ [Next]_vars => HashInv'
  BY NextHash
<1>3. Spec => []HashInv
  BY <1>1, <1>2, InitHashInv, PTL DEF Spec
<1>4. HashInv => FingerprintSound
  BY DEF HashInv
<1> QED
  BY <1>3, <1>4, PTL
=============================================================================

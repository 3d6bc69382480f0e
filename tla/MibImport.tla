------------------------------ MODULE MibImport ------------------------------
(***************************************************************************)
(* The import subsystem at work: the engine (ImportEngine) and the boot    *)
(* validation (CorpusSync) over one corpus, driven by the watcher and the  *)
(* periodic rescan, by one web client, by the operator who drops files     *)
(* into import/ and edits the tree, and by restarts.  Only the engine and  *)
(* the sync take the mutex; everything else goes to the disk directly.     *)
(***************************************************************************)
EXTENDS ImportEngine, CorpusSync

VARIABLES
  req,        \* progress of the web client's request
  sent,       \* [Name -> stamp of the file the request staged, or None]
  repl,       \* the request allows replacement
  pick        \* quarantined file and intake name of a replace request

(* What a replace request is about to move, and to where. *)
Picks == [k: Quarantine, q: Name, n: Name]

ASSUME PickAssumption == None \notin Picks

clientVars == <<req, sent, repl, pick>>
vars == <<disk, store, pc, engineVars, syncVars, clientVars>>

Up == pc # "down"
Ready == Up /\ pc \notin SyncPc

TypeOK ==
  /\ CorpusTypeOK /\ EngineTypeOK /\ SyncTypeOK
  /\ pc \in {"idle", "down"} \cup RunPc \cup SyncPc
  /\ req \in {"none", "staging", "claimed", "queued", "running"}
  /\ sent \in [Name -> Stamp \cup {None}]
  /\ repl \in BOOLEAN
  /\ pick \in Picks \cup {None}

ClientInit ==
  /\ req = "none" /\ repl = FALSE /\ pick = None
  /\ sent = [n \in Name |-> None]

ClientDone ==
  /\ req' = "none" /\ repl' = FALSE /\ pick' = None
  /\ sent' = [n \in Name |-> None]

Init ==
  /\ CorpusInit /\ EngineInit /\ SyncInit /\ ClientInit
  /\ pc = "down"

-----------------------------------------------------------------------------
(* Names the engine or the web client works on right now; other actors     *)
(* touch them only in a race.                                              *)
InUse ==
  Active(cand) \cup Active(sent) \cup (IF pick # None THEN {pick.n} ELSE {})

MayTouch(n) == n \notin InUse \/ "race" \in Faults

(* The operator copies a file into import/, over whatever has its name. *)
DropFile(n, c, s) ==
  /\ n \in Plain /\ s \in Fresh /\ MayTouch(n)
  /\ written' = [written EXCEPT ![s] = c]
  /\ intake' = [intake EXCEPT ![n] = s]
  /\ UNCHANGED <<quar, tree, store, pc, engineVars, syncVars, clientVars>>

(* The operator writes or removes a curated file by hand: with the server  *)
(* down, while it runs or validates at boot, or in the middle of a pass.   *)
MayEdit ==
  /\ "edit" \in Faults
  /\ Up => "liveedit" \in Faults
  /\ pc \in RunPc => "race" \in Faults

Declares(p, m) == tree[p] # None /\ ModuleOf[written[tree[p]]] = m

EditTree(p, c, s) ==
  /\ MayEdit /\ s \in Fresh
  /\ \/ "twin" \in Faults \/ ModuleOf[c] = None
     \/ \A q \in Path \ {p} : ~Declares(q, ModuleOf[c])
  /\ written' = [written EXCEPT ![s] = c]
  /\ tree' = [tree EXCEPT ![p] = s]
  /\ UNCHANGED <<intake, quar, store, pc, engineVars, syncVars, clientVars>>

RemoveFromTree(p) ==
  /\ MayEdit /\ tree[p] # None
  /\ tree' = [tree EXCEPT ![p] = None]
  /\ UNCHANGED <<written, intake, quar, store, pc, engineVars, syncVars, clientVars>>

-----------------------------------------------------------------------------
(* processUploadPart: stage one part under its name.  os.Link refuses an   *)
(* existing file; os.Rename, used for replacement, overwrites it.  A part  *)
(* without the MIB marker is refused at the door.                          *)
UploadPart(n, c, s, rep) ==
  /\ \/ req = "none" /\ Ready
     \/ req = "staging" /\ rep = repl
  /\ Up /\ n \in Plain /\ s \in Fresh /\ c \in Opener
  /\ rep \/ intake[n] = None
  /\ MayTouch(n)
  /\ written' = [written EXCEPT ![s] = c]
  /\ intake' = [intake EXCEPT ![n] = s]
  /\ req' = "staging" /\ repl' = rep
  /\ sent' = [sent EXCEPT ![n] = s]
  /\ UNCHANGED <<quar, tree, store, pc, engineVars, syncVars, pick>>

(* handleUpload has read its last part and waits for the mutex. *)
UploadStaged ==
  /\ req = "staging" /\ Up
  /\ req' = "queued"
  /\ UNCHANGED <<disk, store, pc, engineVars, syncVars, sent, repl, pick>>

(* ImportReplacing: choose a free intake name for a quarantined file ...   *)
ReplacePick(k, q) ==
  /\ Up /\ req = "none" /\ quar[k][q] # None
  /\ \E n \in UniqueNames(intake, q) : pick' = [k |-> k, q |-> q, n |-> n]
  /\ req' = "claimed"
  /\ UNCHANGED <<disk, store, pc, engineVars, syncVars, sent, repl>>

(* ... and move it there, or fail when it is gone.  A rename replaces a    *)
(* file that took the name in between.                                     *)
ReplaceStage ==
  /\ Up /\ req = "claimed"
  /\ LET s == quar[pick.k][pick.q] IN
     \/ /\ s # None
        /\ \E mv \in Moves(s) :
             /\ intake' = [intake EXCEPT ![pick.n] = mv.dst]
             /\ quar' = [quar EXCEPT ![pick.k][pick.q] = mv.src]
             /\ written' = mv.wr
             /\ sent' = [sent EXCEPT ![pick.n] = mv.dst]
        /\ req' = "queued" /\ repl' = TRUE /\ pick' = None
     \/ /\ s = None \/ "rofs" \in Faults
        /\ ClientDone
        /\ UNCHANGED <<intake, quar, written>>
  /\ UNCHANGED <<tree, store, pc, engineVars, syncVars>>

(* The request's call of Import, ImportReplace or ImportReplacing. *)
RequestBegin ==
  /\ req = "queued" /\ req' = "running"
  /\ Begin(Active(sent), "request", repl)
  /\ UNCHANGED <<syncVars, sent, repl, pick>>

(* DELETE of a pending or quarantined file. *)
DeletePending(n) ==
  /\ Up /\ intake[n] # None /\ MayTouch(n)
  /\ intake' = [intake EXCEPT ![n] = None]
  /\ UNCHANGED <<written, quar, tree, store, pc, engineVars, syncVars, clientVars>>

DeleteQuarantined(k, q) ==
  /\ Up /\ quar[k][q] # None
  /\ quar' = [quar EXCEPT ![k][q] = None]
  /\ UNCHANGED <<written, intake, tree, store, pc, engineVars, syncVars, clientVars>>

-----------------------------------------------------------------------------
(* A watcher flush passes the names it saw events for, a rescan every      *)
(* pending file.                                                           *)
WatcherBegin(batch) ==
  /\ Begin(batch, "background", FALSE)
  /\ UNCHANGED <<syncVars, clientVars>>

RescanBegin ==
  /\ Active(intake) # {}
  /\ WatcherBegin(Active(intake))

EngineRuns ==
  /\ EngineStep
  /\ IF pc' = "down" \/ (pc' = "idle" /\ job.by = "request")
     THEN ClientDone ELSE UNCHANGED clientVars
  /\ UNCHANGED syncVars

RequestCancel ==
  /\ Cancel
  /\ UNCHANGED <<syncVars, clientVars>>

SyncRuns ==
  /\ SyncStep
  /\ UNCHANGED <<engineVars, clientVars>>

(* Boot, after -rebuild if asked for: the fingerprints are truncated. *)
Boot(rebuild) ==
  /\ pc = "down" /\ pc' = "walk"
  /\ row' = IF rebuild THEN [p \in Path |-> None] ELSE row
  /\ UNCHANGED <<disk, module, trie, engineVars, syncVars, clientVars>>

(* The process ends and loses its memory: between two passes on a clean    *)
(* stop, anywhere in a crash.                                              *)
Stop ==
  /\ Up
  /\ pc = "idle" \/ "crash" \in Faults
  /\ pc' = "down"
  /\ job' = NoJob /\ cand' = NoCandidates /\ todo' = {} /\ cur' = None
  /\ outcome' = [n \in Name |-> None] /\ poisoned' = {}
  /\ known' = NoPaths /\ onDisk' = NoPaths /\ fresh' = NoPaths
  /\ left' = {} /\ at' = None /\ changed' = FALSE
  /\ ClientDone
  /\ UNCHANGED <<disk, store>>

Environment ==
  \/ \E n \in Name, c \in Content, s \in Stamp : DropFile(n, c, s)
  \/ \E p \in Path, c \in Content, s \in Stamp : EditTree(p, c, s)
  \/ \E p \in Path : RemoveFromTree(p)
  \/ \E n \in Name : DeletePending(n)
  \/ \E k \in Quarantine, q \in Name : DeleteQuarantined(k, q) \/ ReplacePick(k, q)
  \/ \E n \in Name, c \in Content, s \in Stamp, rep \in BOOLEAN :
       UploadPart(n, c, s, rep)

Client == UploadStaged \/ ReplaceStage \/ RequestBegin

Next ==
  \/ Environment \/ Client \/ RequestCancel
  \/ EngineRuns \/ SyncRuns
  \/ RescanBegin \/ \E batch \in SUBSET Name : WatcherBegin(batch)
  \/ \E rebuild \in BOOLEAN : Boot(rebuild)
  \/ Stop

Spec == Init /\ [][Next]_vars

-----------------------------------------------------------------------------
(* Where boot would trust the cache for p: the stat matches the row. *)
Matches(p) == row[p] # None /\ row[p].m = tree[p]

(* A fingerprint whose stat matches the file on disk carries the hash of   *)
(* the bytes that are there.  Boot rests on it: a matching stat is trusted *)
(* without reading the file (SyncCorpus), and a dropped file whose hash is *)
(* on record is put aside as a duplicate (run).                            *)
FingerprintSound ==
  \A p \in Path : Matches(p) => row[p].sha = written[tree[p]]

(* Boot skips the compile of a file whose stat matches; the store already  *)
(* holds the module built from exactly that file, wherever the previous    *)
(* process stopped between moveFile, ReplaceModule and UpsertSourceFile.   *)
TrustedFilesAreLoaded ==
  \A p \in Path : Matches(p) =>
    module[row[p].mod] = [c |-> written[tree[p]], src |-> p]

(* Between passes no module is served that no fingerprint accounts for:    *)
(* interrupted passes and failed compiles leave no ghosts (pruneGhosts).   *)
NoGhostModules == pc = "idle" => Ghosts = {}

(* Between passes the OID trie shows exactly the stored modules            *)
(* (refreshOIDTree at the end of run and of SyncCorpus).                   *)
TrieFresh == pc = "idle" => trie = Projection

(* When SyncCorpus is done, every module the store serves was built from   *)
(* the bytes now at its source path.                                       *)
ServedFromDisk ==
  pc = "refresh" =>
    \A m \in Module : module[m] # None =>
      /\ tree[module[m].src] # None
      /\ written[tree[module[m].src]] = module[m].c

(* SyncCorpus drops the module of a fingerprint only when the file is gone *)
(* from the curated tree.                                                  *)
OnlyVanishedDropped ==
  [][SyncDrop => tree[at] = None]_vars

(* No content is curated twice, even when a cross-device move leaves its   *)
(* source behind in import/ and the process dies before recording it.      *)
OneCuratedCopy ==
  \A p, q \in Path : tree[p] # None /\ tree[q] # None /\ p # q =>
    written[tree[p]] # written[tree[q]]

-----------------------------------------------------------------------------
(* The file with stamp s is somewhere on disk. *)
Placed(s) ==
  \/ \E n \in Name : intake[n] = s
  \/ \E k \in Quarantine, n \in Name : quar[k][n] = s
  \/ \E p \in Path : tree[p] = s

Preserved(c) == \E s \in Stamp : written[s] = c /\ Placed(s)

(* The stamp's file belongs to the module a caller asked to replace and    *)
(* the pass has a new revision of it in hand.                              *)
Replaceable(s) ==
  /\ job.replace
  /\ \E n \in todo : Compiled(n) /\ BuiltModule(n) = ModuleOf[written[s]]

(* Neither a pass nor the staging of a replacement destroys the last copy  *)
(* of a file's bytes, other than a revision of the module whose            *)
(* replacement was asked for: no quarantined file, no pending file and no  *)
(* curated file is clobbered by a move (uniquePath, moveFile, removal of   *)
(* the superseded source).                                                 *)
NothingLost ==
  [][EngineRuns \/ ReplaceStage =>
       \A s \in Stamp : Placed(s) =>
         Preserved(written[s])' \/ Replaceable(s)]_vars

(* A pass refuses the content for a reason of its own. *)
Refused(c) == c \notin Opener \/ ModuleOf[c] = None \/ ModuleOf[c] \in BadModule

(* What a request answers per file is true when it answers: an imported    *)
(* file (or a later one of the same request) is the module's content and   *)
(* will survive a restart, a duplicate names a module that is served, and  *)
(* a failed one is refused for a reason in the file itself.  A file the    *)
(* pass has no outcome for (handleUpload: "pending", ImportReplacing:      *)
(* "file disappeared") has left import/ with another pass, and that pass   *)
(* has settled it: its module is served, or its content is refused.  So    *)
(* "disappeared" is true, while "will be processed shortly" is said of a   *)
(* file that has been processed; only a budget that runs out, or a file    *)
(* that is still written to, leaves the file where it was.                 *)
AnswerIsTrue(n) ==
  LET c == written[sent[n]]
      m == ModuleOf[c]
  IN
  CASE outcome[n] = "imported" ->
         /\ module[m] # None
         /\ module[m].c \in {written[sent[k]] : k \in Active(sent)}
         /\ Matches(module[m].src)
    [] outcome[n] = "duplicate" -> m # None /\ module[m] # None /\ ~repl
    [] outcome[n] = "failed" -> Refused(c)
    [] OTHER -> /\ intake[n] # sent[n]
                /\ Refused(c) \/ module[m] # None

(* The answers of a request are true at the step that ends its pass. *)
AnswersAreTrue ==
  [][req = "running" /\ req' = "none" /\ Up' =>
       \A n \in Active(sent) : AnswerIsTrue(n)]_vars

(* The browse tree is eventually consistent: in a server that stays up the *)
(* trie keeps coming back to the stored modules (oidtree.go lines 99-101). *)
TrieCatchesUp == <>[]Up => []<>(trie = Projection)

-----------------------------------------------------------------------------
(* Fairness.  The goroutine holding the mutex goes on; the 5-minute ticker *)
(* calls rescan for ever, and Go's mutex hands itself to a waiter that has *)
(* starved, so a rescan that can infinitely often begin does begin.        *)
Fairness ==
  /\ WF_vars(EngineRuns) /\ WF_vars(SyncRuns) /\ SF_vars(RescanBegin)

FairSpec == Spec /\ Fairness

(* While the server stays up, a file in import/ is given an outcome, again *)
(* and again for as long as it is there: a move across filesystems that    *)
(* cannot remove its source leaves it to every rescan that follows         *)
(* (rescan, main.go lines 103-107; moveFile, engine.go lines 653-663).     *)
EveryDropProcessed ==
  <>[]Up => \A n \in Name, s \in Stamp : []<>(intake[n] = s => outcome[n] # None)
=============================================================================

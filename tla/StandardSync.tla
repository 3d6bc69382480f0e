----------------------------- MODULE StandardSync -----------------------------
(***************************************************************************)
(* What a boot does to the data volume before the corpus is validated:     *)
(* resolveCorpusRoot picks the corpus root and renames a legacy upload/    *)
(* folder, and SyncStandard mirrors the standard corpus of the image into  *)
(* ietf/ and iana/, where the import engine files operator MIBs too.  The  *)
(* manifest tells the two apart.                                           *)
(***************************************************************************)
EXTENDS Naturals, FiniteSets

CONSTANTS
  Path,        \* paths below the standard entries of the corpus root
  Text,        \* file contents
  Absent,
  Images,      \* releases: each maps Path to what its image ships there
  DiskFails,   \* reading, writing or removing a file may fail
  SyncCrashes, \* steps in which the process may die: "copy", "prune"
  MaxBoots     \* bound: starts of the process

ASSUME StandardAssumption ==
  /\ Absent \notin Text /\ Images \subseteq [Path -> Text \cup {Absent}]
  /\ DiskFails \in BOOLEAN /\ SyncCrashes \subseteq {"copy", "prune"} /\ MaxBoots \in Nat

VARIABLES
  image,      \* the release that is installed
  writable,   \* the corpus root can be created and written
  corpus,     \* Path |-> content in the corpus root
  author,     \* Path |-> "nobody", "sync" (a release placed it), "filed" (an
              \* import found the path free), "replaced" (an import overwrote it)
  manifest,   \* .standard-manifest.json
  unrecorded, \* history: paths the mirror holds that its manifest does not list,
              \* because a sync died, a removal failed or a write did
  stale,      \* history: paths the manifest lists although the last sync did not
              \* take them, because it could not write the new manifest
  legacy,     \* folders there: "upload", "import"
  sync,       \* where SyncStandard stands
  boots

syncVars == <<image, writable, corpus, author, manifest, unrecorded, stale, legacy, sync, boots>>

Idle(s) == [step |-> s, todo |-> {}, current |-> {}, previous |-> {}, failed |-> {}]

SyncTypeOK ==
  /\ image \in Images /\ writable \in BOOLEAN
  /\ corpus \in [Path -> Text \cup {Absent}]
  /\ author \in [Path -> {"nobody", "sync", "filed", "replaced"}]
  /\ manifest \subseteq Path /\ unrecorded \subseteq Path /\ stale \subseteq Path
  /\ legacy \subseteq {"upload", "import"}
  /\ sync \in [step: {"stopped", "resolve", "start", "copy", "prune", "running", "readonly"},
               todo: SUBSET Path, current: SUBSET Path, previous: SUBSET Path,
               failed: SUBSET Path]
  /\ boots \in 0..MaxBoots

SyncInit ==
  /\ image \in Images /\ writable \in BOOLEAN
  /\ corpus = [p \in Path |-> Absent] /\ author = [p \in Path |-> "nobody"]
  /\ manifest = {} /\ unrecorded = {} /\ stale = {}
  /\ legacy \in SUBSET {"upload", "import"}
  /\ sync = Idle("stopped") /\ boots = 0

Shipped == {p \in Path : image[p] # Absent}

-----------------------------------------------------------------------------
(* The operator starts the process, perhaps with another release. *)
StartProcess ==
  /\ sync.step = "stopped" /\ boots < MaxBoots
  /\ image' \in Images /\ boots' = boots + 1 /\ sync' = Idle("resolve")
  /\ UNCHANGED <<writable, corpus, author, manifest, unrecorded, stale, legacy>>

(* resolveCorpusRoot: an unwritable root falls back to serving the image's *)
(* read-only copy in place, with nothing left to mirror.  migrateLegacyUp- *)
(* load renames upload/ unless import/ is there already.                   *)
ResolveCorpusRoot ==
  /\ sync.step = "resolve"
  /\ IF writable
       THEN /\ sync' = Idle("start")
            /\ legacy' = IF legacy = {"upload"} THEN {"import"} ELSE legacy
       ELSE sync' = Idle("readonly") /\ UNCHANGED legacy
  /\ UNCHANGED <<image, writable, corpus, author, manifest, unrecorded, stale, boots>>

(* bootstrapImportAndStandard: the intake skeleton exists, the previous    *)
(* manifest is read; one that cannot be read or parsed counts as empty.    *)
SyncStart ==
  /\ sync.step = "start"
  /\ legacy' = legacy \cup {"import"}
  /\ \E read \in {manifest} \cup (IF DiskFails THEN {{}} ELSE {}) :
       /\ sync' = [Idle("copy") EXCEPT !.todo = Shipped, !.previous = read]
       /\ unrecorded' = unrecorded \cup (manifest \ read)
  /\ UNCHANGED <<image, writable, corpus, author, manifest, stale, boots>>

(* Mutant of CopyFile: only what was copied is recorded as owned. *)
CopyFileRecordsCopies(p) ==
  /\ sync.step = "copy" /\ p \in sync.todo
  /\ sync' = [sync EXCEPT !.todo = @ \ {p},
                         !.current = IF corpus[p] = image[p] THEN @ ELSE @ \cup {p}]
  /\ corpus' = [corpus EXCEPT ![p] = image[p]] /\ author' = [author EXCEPT ![p] = "sync"]
  /\ unrecorded' = unrecorded \cup {p}
  /\ UNCHANGED <<image, writable, manifest, stale, legacy, boots>>

(* syncFile: equal bytes stay untouched, others are replaced by a rename;  *)
(* either way the path is the mirror's from now on.                        *)
CopyFile(p) ==
  /\ sync.step = "copy" /\ p \in sync.todo
  /\ sync' = [sync EXCEPT !.todo = @ \ {p}, !.current = @ \cup {p}]
  /\ corpus' = [corpus EXCEPT ![p] = image[p]] /\ author' = [author EXCEPT ![p] = "sync"]
  /\ unrecorded' = unrecorded \cup {p}
  /\ UNCHANGED <<image, writable, manifest, stale, legacy, boots>>

(* A file that cannot be copied is left out of the new manifest; the rest  *)
(* goes on.                                                                *)
CopyFileFails(p) ==
  /\ DiskFails /\ sync.step = "copy" /\ p \in sync.todo
  /\ sync' = [sync EXCEPT !.todo = @ \ {p}, !.failed = @ \cup {p}]
  /\ UNCHANGED <<image, writable, corpus, author, manifest, unrecorded, stale, legacy, boots>>

(* Files of the previous manifest that this pass did not take over. *)
Prunable == sync.previous \ sync.current

PruneBegin ==
  /\ sync.step = "copy" /\ sync.todo = {}
  /\ sync' = [sync EXCEPT !.step = "prune", !.todo = Prunable]
  /\ UNCHANGED <<image, writable, corpus, author, manifest, unrecorded, stale, legacy, boots>>

PruneFile(p) ==
  /\ sync.step = "prune" /\ p \in sync.todo
  /\ sync' = [sync EXCEPT !.todo = @ \ {p}]
  /\ corpus' = [corpus EXCEPT ![p] = Absent] /\ author' = [author EXCEPT ![p] = "nobody"]
  /\ unrecorded' = unrecorded \ {p}
  /\ UNCHANGED <<image, writable, manifest, stale, legacy, boots>>

(* A file that cannot be removed stays, and this pass does not own it.     *)
PruneFileFails(p) ==
  /\ DiskFails /\ sync.step = "prune" /\ p \in sync.todo
  /\ sync' = [sync EXCEPT !.todo = @ \ {p}]
  /\ unrecorded' = unrecorded \cup {p}
  /\ UNCHANGED <<image, writable, corpus, author, manifest, stale, legacy, boots>>

(* The manifest becomes m, and what it says and does not say of the tree.  *)
Recorded(m) ==
  /\ manifest' = m /\ sync' = Idle("running")
  /\ unrecorded' = (unrecorded \cup sync.current) \ m
  /\ stale' = m \ sync.current
  /\ UNCHANGED <<image, writable, corpus, author, legacy, boots>>

(* Mutant of WriteManifest: entries are only ever added. *)
WriteManifestMerged ==
  /\ sync.step = "prune" /\ sync.todo = {}
  /\ manifest' = manifest \cup sync.current /\ sync' = Idle("running")
  /\ unrecorded' = unrecorded \ sync.current /\ stale' = {}
  /\ UNCHANGED <<image, writable, corpus, author, legacy, boots>>

(* The paths of this pass become the manifest. *)
WriteManifest ==
  /\ sync.step = "prune" /\ sync.todo = {} /\ Recorded(sync.current)

(* Its write fails, which nothing notices: the old manifest stays, or a    *)
(* truncated one that the next boot reads as empty.                        *)
WriteManifestFails ==
  /\ DiskFails /\ sync.step = "prune" /\ sync.todo = {}
  /\ \E m \in {manifest, {}} : Recorded(m)

-----------------------------------------------------------------------------
(* The import engine files an operator MIB into a standard subtree, under  *)
(* a free name or, as a replacement, over the file that is there.          *)
OperatorFiles(p, t) ==
  /\ sync.step = "running" /\ corpus[p] # t
  /\ corpus' = [corpus EXCEPT ![p] = t]
  /\ author' = [author EXCEPT ![p] =
                  IF corpus[p] = Absent \/ author[p] = "filed" THEN "filed" ELSE "replaced"]
  /\ unrecorded' = unrecorded \ {p}
  /\ UNCHANGED <<image, writable, manifest, stale, legacy, sync, boots>>

Stop ==
  /\ sync.step \in {"running", "readonly"} \cup SyncCrashes
  /\ sync' = Idle("stopped")
  /\ writable' \in BOOLEAN
  /\ UNCHANGED <<image, corpus, author, manifest, unrecorded, stale, legacy, boots>>

SyncNext ==
  \/ StartProcess \/ ResolveCorpusRoot \/ SyncStart
  \/ \E p \in Path : CopyFile(p) \/ CopyFileFails(p) \/ PruneFile(p) \/ PruneFileFails(p)
  \/ PruneBegin \/ WriteManifest \/ WriteManifestFails \/ Stop
  \/ \E p \in Path, t \in Text : OperatorFiles(p, t)

SyncSpec == SyncInit /\ [][SyncNext]_syncVars

-----------------------------------------------------------------------------
(* The mirror takes a file that an import filed at a free path only when   *)
(* the installed release ships that very path, or when a manifest that     *)
(* could not be replaced still lists it - in whatever order releases,      *)
(* imports, failures and interrupted syncs come.  (standard.go:45 promises *)
(* more: that such files are never modified or deleted.)                   *)
OperatorFilesKept ==
  [][\A p \in Path : author[p] = "filed" /\ author'[p] # "filed" =>
       p \in stale \/ (p \in Shipped /\ corpus'[p] = image[p])]_syncVars

(* After the sync the tree is the image: what it ships and could be copied *)
(* is there, and what an earlier release placed is gone - except the files *)
(* that a failed or interrupted sync left out of the manifest, or whose    *)
(* removal failed now (standard.go:40-44).                                 *)
StandardMirrored ==
  [][sync.step = "prune" /\ sync'.step = "running" =>
       \A p \in Path : /\ p \in Shipped \ sync.failed => corpus[p] = image[p]
                       /\ author[p] = "sync" => p \in Shipped \cup unrecorded]_syncVars
=============================================================================

----------------------------- MODULE CorpusSync -----------------------------
(***************************************************************************)
(* Engine.SyncCorpus: the boot-time validation of the store against the    *)
(* curated tree.  It stats the tree first and hashes, compiles and records *)
(* afterwards; the operator may edit the tree in between, and the process  *)
(* may die between any two store transactions.  The corpus loader runs it  *)
(* before it starts anything else, so a cancelled sync (shutdown) has the  *)
(* effects of a crash: every store call fails, and nothing follows.        *)
(***************************************************************************)
EXTENDS Corpus

VARIABLES
  known,      \* the source_file rows listed at the start
  onDisk,     \* [Path -> stamp found by the walk, or None]
  fresh,      \* [Path -> hash and compile result of a new or changed file]
  left,       \* paths the current phase has still to treat
  at,         \* the path between two transactions, or None
  changed     \* compiled > 0 or removed > 0

syncVars == <<known, onDisk, fresh, left, at, changed>>

SyncPc == {"walk", "diff", "vanish", "drop", "compile", "load", "stamp",
           "prune", "refresh"}

NoPaths == [p \in Path |-> None]

(* The hash of a new or changed file, and the stamp smidump read, or why   *)
(* there is no result.                                                     *)
SyncResult == [sha: Content, built: Stamp \cup {None, "error"}]

ASSUME ResultAssumption == None \notin SyncResult

SyncTypeOK ==
  /\ known \in [Path -> SourceRow \cup {None}]
  /\ onDisk \in [Path -> Stamp \cup {None}]
  /\ fresh \in [Path -> SyncResult \cup {None}]
  /\ left \subseteq Path
  /\ at \in Path \cup {None}
  /\ changed \in BOOLEAN

SyncInit ==
  /\ known = NoPaths
  /\ onDisk = NoPaths
  /\ fresh = NoPaths
  /\ left = {}
  /\ at = None
  /\ changed = FALSE

Kept(f) == {p \in Path : f[p] # None}

-----------------------------------------------------------------------------
(* List the fingerprints and stat the tree. *)
SyncWalk ==
  /\ pc = "walk"
  /\ pc' = "diff"
  /\ known' = row
  /\ onDisk' = [p \in Path |-> IF InWalk(p) THEN tree[p] ELSE None]
  /\ left' = Kept(onDisk')
  /\ UNCHANGED <<disk, store, fresh, at, changed>>

(* Mutant of Trusted: a known path is trusted whatever its stat. *)
TrustedByPath(p) == known[p] # None

Trusted(p) == known[p] # None /\ known[p].m = onDisk[p]

HasMIBOpener(p) == tree[p] # None /\ written[tree[p]] \in Opener

(* Trust a matching stat; otherwise sniff and hash what is there now. *)
SyncDiff(p) ==
  /\ pc = "diff" /\ p \in left
  /\ left' = left \ {p}
  /\ \/ /\ Trusted(p) \/ ~HasMIBOpener(p)
        /\ UNCHANGED <<row, fresh>>
     \/ /\ ~Trusted(p) /\ HasMIBOpener(p)
        /\ IF known[p] # None /\ known[p].sha = written[tree[p]]
           THEN /\ UpsertSourceFile(p, onDisk[p], known[p].sha, known[p].mod)
                /\ UNCHANGED fresh
           ELSE /\ fresh' = [fresh EXCEPT ![p] =
                               [sha |-> written[tree[p]], built |-> None]]
                /\ UNCHANGED row
  /\ UNCHANGED <<disk, module, trie, pc, known, onDisk, at, changed>>

EndDiff ==
  /\ pc = "diff" /\ left = {}
  /\ pc' = "vanish"
  /\ left' = Kept(known) \ Kept(onDisk)
  /\ UNCHANGED <<disk, store, known, onDisk, fresh, at, changed>>

(* moduleBackers: some listed fingerprint of m still has its file. *)
Backed(m) == \E p \in Kept(known) \cap Kept(onDisk) : known[p].mod = m

(* A source that vanished: drop the row, then the module nobody backs. *)
SyncForget(p) ==
  /\ pc = "vanish" /\ p \in left
  /\ row' = [row EXCEPT ![p] = None]
  /\ left' = left \ {p}
  /\ IF Backed(known[p].mod) THEN UNCHANGED <<pc, at>>
                             ELSE pc' = "drop" /\ at' = p
  /\ UNCHANGED <<disk, module, trie, known, onDisk, fresh, changed>>

(* Mutant of SyncDrop: the removal is not counted as a change. *)
SyncDropUncounted ==
  /\ pc = "drop"
  /\ module' = [module EXCEPT ![known[at].mod] = None]
  /\ pc' = "vanish" /\ at' = None
  /\ UNCHANGED <<disk, row, trie, known, onDisk, fresh, left, changed>>

SyncDrop ==
  /\ pc = "drop"
  /\ module' = [module EXCEPT ![known[at].mod] = None]
  /\ changed' = TRUE
  /\ pc' = "vanish" /\ at' = None
  /\ UNCHANGED <<disk, row, trie, known, onDisk, fresh, left>>

(* Mutant of EndVanish: ghosts are only pruned when something compiled. *)
EndVanishUnpruned ==
  /\ pc = "vanish" /\ left = {}
  /\ pc' = IF Kept(fresh) = {} THEN "refresh" ELSE "compile"
  /\ left' = Kept(fresh)
  /\ UNCHANGED <<disk, store, known, onDisk, fresh, at, changed>>

EndVanish ==
  /\ pc = "vanish" /\ left = {}
  /\ pc' = IF Kept(fresh) = {} THEN "prune" ELSE "compile"
  /\ left' = Kept(fresh)
  /\ UNCHANGED <<disk, store, known, onDisk, fresh, at, changed>>

(* Mutant of SyncResults: a rejected file counts as compiled. *)
SyncResultsUnchecked(p) ==
  IF tree[p] = None THEN {"error"} ELSE {tree[p]}

(* Every failure, an exhausted budget included, is an error result here. *)
SyncResults(p) ==
  (IF tree[p] = None THEN {"error"}
   ELSE IF ModuleOf[written[tree[p]]] = None THEN {"error"} ELSE {tree[p]})
    \cup (IF "budget" \in Faults THEN {"error"} ELSE {})

SyncBuild(p) ==
  /\ pc = "compile" /\ p \in left
  /\ \E res \in SyncResults(p) : fresh' = [fresh EXCEPT ![p].built = res]
  /\ left' = left \ {p}
  /\ UNCHANGED <<disk, store, pc, known, onDisk, at, changed>>

EndSyncBuild ==
  /\ pc = "compile" /\ left = {}
  /\ pc' = "load"
  /\ left' = Kept(fresh)
  /\ UNCHANGED <<disk, store, known, onDisk, fresh, at, changed>>

(* Store one result: a failure drops the row, a success replaces the       *)
(* module and, in a second transaction, records the walk's stat.           *)
SyncLoad(p) ==
  /\ pc = "load" /\ p \in left
  /\ left' = left \ {p}
  /\ \/ /\ fresh[p].built = "error"
        /\ row' = [row EXCEPT ![p] = None]
        /\ UNCHANGED <<module, pc, at>>
     \/ /\ fresh[p].built \in Stamp
        /\ ReplaceModule(written[fresh[p].built], p)
        /\ pc' = "stamp" /\ at' = p
        /\ UNCHANGED row
  /\ UNCHANGED <<disk, trie, known, onDisk, fresh, changed>>

(* Mutant of SyncStamp: the stat is taken when the row is written. *)
SyncStampLate ==
  /\ pc = "stamp"
  /\ IF tree[at] # None
     THEN UpsertSourceFile(at, tree[at], fresh[at].sha,
                           ModuleOf[written[fresh[at].built]])
     ELSE UNCHANGED row
  /\ changed' = TRUE
  /\ pc' = "load" /\ at' = None
  /\ UNCHANGED <<disk, module, trie, known, onDisk, fresh, left>>

SyncStamp ==
  /\ pc = "stamp"
  /\ UpsertSourceFile(at, onDisk[at], fresh[at].sha,
                      ModuleOf[written[fresh[at].built]])
  /\ changed' = TRUE
  /\ pc' = "load" /\ at' = None
  /\ UNCHANGED <<disk, module, trie, known, onDisk, fresh, left>>

EndLoad ==
  /\ pc = "load" /\ left = {}
  /\ pc' = "prune"
  /\ UNCHANGED <<disk, store, syncVars>>

Ghosts == {m \in Module : module[m] # None /\ ~ \E p \in Rows : row[p].mod = m}

(* pruneGhosts: remove the modules without a source_file row, each in a    *)
(* transaction of its own.                                                 *)
SyncPrune(m) ==
  /\ pc = "prune" /\ m \in Ghosts
  /\ module' = [module EXCEPT ![m] = None]
  /\ changed' = TRUE
  /\ UNCHANGED <<disk, row, trie, pc, known, onDisk, fresh, left, at>>

EndPrune ==
  /\ pc = "prune" /\ Ghosts = {}
  /\ pc' = "refresh"
  /\ UNCHANGED <<disk, store, syncVars>>

(* Refresh the OID trie and unlock. *)
SyncRefresh ==
  /\ pc = "refresh"
  /\ RefreshOIDTree(changed)
  /\ pc' = "idle"
  /\ known' = NoPaths /\ onDisk' = NoPaths /\ fresh' = NoPaths
  /\ left' = {} /\ at' = None /\ changed' = FALSE
  /\ UNCHANGED <<disk, module, row>>

SyncStep ==
  \/ SyncWalk \/ EndDiff \/ SyncDrop \/ EndVanish \/ EndSyncBuild
  \/ SyncStamp \/ EndLoad \/ EndPrune \/ SyncRefresh
  \/ \E m \in Module : SyncPrune(m)
  \/ \E p \in Path : SyncDiff(p) \/ SyncForget(p) \/ SyncBuild(p) \/ SyncLoad(p)
=============================================================================

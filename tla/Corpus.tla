------------------------------- MODULE Corpus -------------------------------
(***************************************************************************)
(* The persistent state of blittermib's corpus: the import/ intake with    *)
(* its failed/ and duplicate/ quarantines, the curated MIB tree, and the   *)
(* three store tables the import engine keeps in step with that tree:      *)
(* module, source_file and oid_node.                                       *)
(*                                                                         *)
(* A file is represented by its STAMP.  Every write to a file takes a      *)
(* fresh stamp, which stands for the (size, mtime) pair a stat returns;    *)
(* `written' remembers the content each stamp was written with.  A rename  *)
(* keeps the stamp, a copy takes a fresh one.  The SHA-256 of a file is    *)
(* its content.                                                            *)
(***************************************************************************)
EXTENDS FiniteSets

CONSTANTS
  Content,    \* the distinct byte contents a MIB file can have
  Module,     \* MIB module names
  Dir,        \* curated directories mibcorpus.Classify can route to
  Name,       \* base file names
  Plain,      \* the names files are dropped and uploaded under; uniquePath
              \* makes the others up by appending -1, -2, ...
  Stamp,      \* write identities; its size bounds the number of writes
  None,       \* no file, no row, no value
  Opener,     \* contents with DEFINITIONS ::= BEGIN in their first 32 KB
  ModuleOf,   \* module a content compiles to; None when smidump rejects it
  DirOf,      \* directory Classify gives a content; Unsorted at low confidence
  BadModule,  \* module names with characters disallowed in a file name
  Walked,     \* base names whose extension the SyncCorpus walk accepts
  Faults      \* the environment's powers in this instance, see Fault

Unsorted == "unsorted"

(***************************************************************************)
(* race    files in use are overwritten or removed by lock-free actors     *)
(* cancel  the context of an engine call is cancelled while it runs        *)
(* crash   the process dies between two steps                              *)
(* budget  the compile budget runs out                                     *)
(* rofs    a move fails (read-only mount, permissions)                     *)
(* exdev   a move crosses filesystems: copy, then best-effort removal      *)
(* edit    the operator edits the curated tree while the server is down    *)
(* liveedit  ... and while it is up, the boot validation included          *)
(* twin    such an edit may declare a module another file declares         *)
(***************************************************************************)
Fault == {"race", "cancel", "crash", "budget", "rofs", "exdev", "edit",
          "liveedit", "twin"}

Quarantine == {"failed", "duplicate"}

(* Paths relative to the corpus root: a routed file is named after its     *)
(* module, a file of unsorted/ keeps its intake name.                      *)
Path == (Dir \X Module) \cup ({Unsorted} \X Name)

ASSUME ConstantsAssumption ==
  /\ Opener \subseteq Content
  /\ ModuleOf \in [Content -> Module \cup {None}]
  /\ DirOf \in [Content -> Dir \cup {Unsorted}]
  /\ BadModule \subseteq Module
  /\ Plain \subseteq Name
  /\ Walked \subseteq Name
  /\ Faults \subseteq Fault
  /\ Unsorted \notin Dir

ASSUME SentinelAssumption ==
  /\ None \notin Content \cup Module \cup Name \cup Stamp \cup Path
  /\ {"error", "exhausted"} \cap Stamp = {}
  /\ None \notin {"error", "exhausted", "imported", "failed", "duplicate"}

VARIABLES
  written,    \* [Stamp -> Content \cup {None}], None for a stamp not used yet
  intake,     \* [Name -> Stamp \cup {None}], files flat in import/
  quar,       \* [Quarantine -> [Name -> Stamp \cup {None}]]
  tree,       \* [Path -> Stamp \cup {None}], the curated tree
  module,     \* table module: the content and source path it was built from
  row,        \* table source_file: fingerprint of a curated file
  trie        \* table oid_node: the content each module had at the last
              \* rebuild; None while the version marker is absent

VARIABLE
  pc          \* where the holder of the engine mutex e.mu stands:
              \* "idle" when it is free, "down" when there is no process

disk  == <<written, intake, quar, tree>>
store == <<module, row, trie>>

ModuleRow == [c: Content, src: Path]
SourceRow == [m: Stamp, sha: Content, mod: Module]

ASSUME RowAssumption == None \notin ModuleRow \cup SourceRow

CorpusTypeOK ==
  /\ written \in [Stamp -> Content \cup {None}]
  /\ intake \in [Name -> Stamp \cup {None}]
  /\ quar \in [Quarantine -> [Name -> Stamp \cup {None}]]
  /\ tree \in [Path -> Stamp \cup {None}]
  /\ module \in [Module -> ModuleRow \cup {None}]
  /\ row \in [Path -> SourceRow \cup {None}]
  /\ trie \in [Module -> Content \cup {None}] \cup {None}

(* An empty corpus and a database just created. *)
CorpusInit ==
  /\ written = [s \in Stamp |-> None]
  /\ intake = [n \in Name |-> None]
  /\ quar = [k \in Quarantine |-> [n \in Name |-> None]]
  /\ tree = [p \in Path |-> None]
  /\ module = [m \in Module |-> None]
  /\ row = [p \in Path |-> None]
  /\ trie = None

Fresh == {s \in Stamp : written[s] = None}

(* Mutant of InWalk: the walk skips unsorted/ the way it skips import/. *)
InWalkRoutedOnly(p) == p[1] \in Dir

(* The curated file is one the SyncCorpus walk visits. *)
InWalk(p) == p[1] \in Dir \/ p[2] \in Walked

(* Mutant of UniqueNames: the name is taken as it comes. *)
SameName(d, n) == {n}

(* uniquePath: dst itself when it is free, else some free suffixed name. *)
UniqueNames(d, n) ==
  IF d[n] = None THEN {n} ELSE {k \in Name \ Plain : d[k] = None}

(***************************************************************************)
(* moveFile of the file with stamp s: the stamps <<dst, src>> that the     *)
(* destination and the source can hold afterwards, and the stamps used so  *)
(* far.  A rename keeps the stamp; across filesystems the destination is a *)
(* new file, and a source that could not be removed stays behind.          *)
(***************************************************************************)
Moves(s) ==
  {[dst |-> s, src |-> None, wr |-> written]}
    \cup (IF "exdev" \in Faults
          THEN {[dst |-> t, src |-> left,
                 wr |-> [written EXCEPT ![t] = written[s]]] :
                   t \in Fresh, left \in {None, s}}
          ELSE {})

(* ReplaceModule: one transaction that rewrites the module and its rows. *)
ReplaceModule(c, p) ==
  module' = [module EXCEPT ![ModuleOf[c]] = [c |-> c, src |-> p]]

UpsertSourceFile(p, s, sha, m) ==
  row' = [row EXCEPT ![p] = [m |-> s, sha |-> sha, mod |-> m]]

Rows == {p \in Path : row[p] # None}

FindSourceFileBySHA(sha) == \E p \in Rows : row[p].sha = sha

(* What RebuildOIDTree materialises from the symbol table. *)
Projection ==
  [m \in Module |-> IF module[m] = None THEN None ELSE module[m].c]

OIDTreeStale == trie = None

(* refreshOIDTree under a live context. *)
RefreshOIDTree(changed) ==
  trie' = IF changed \/ OIDTreeStale THEN Projection ELSE trie
=============================================================================

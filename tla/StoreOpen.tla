------------------------------ MODULE StoreOpen ------------------------------
(***************************************************************************)
(* store.Open on a database an older build may have written.  Schema,      *)
(* migrations, the orphan sweep and the relationship backfill are separate *)
(* autocommit statements: a process may die between any two of them, and   *)
(* blittermib-mcp runs the same Open on the same file whenever a client    *)
(* asks for it.  The boot's corpus pass that follows is reduced to what it *)
(* owes the database (CorpusSync has the rest).                            *)
(***************************************************************************)
EXTENDS Naturals, Sequences, FiniteSets

CONSTANTS
  Module,      \* modules
  Opener,      \* processes that open the database: Server and MCP clients
  Server,
  MaxGen,      \* bound: generation tokens handed out
  MaxCrash     \* bound: deaths

ASSUME OpenAssumption ==
  /\ Server \in Opener
  /\ MaxGen \in Nat \ {0} /\ MaxCrash \in Nat

Child == {"symbol", "relationship", "pair"}   \* moduleChildTables
ChildOrder == <<"symbol", "relationship", "pair">>
FamilyFlag == {"has_scalar", "has_table", "has_notif"}
BackfillVersion == 2                           \* relationshipsBackfillVersion
NoGen == 0                                     \* no oid_tree_generation row

VARIABLES
  symbolShape, \* symbol table: before the kind split, after it, or dropped
  added,       \* columns of later builds that are there
  modules,     \* module rows
  rows,        \* child table |-> modules that have rows in it
  classified,  \* modules whose relationship rows the current engine computed
  disk,        \* modules with a curated file
  files,       \* modules whose file has a fingerprint
  trie,        \* modules whose symbols oid_node shows
  marked,      \* schema_meta has a current oid_tree_version
  generation,  \* schema_meta's oid_tree_generation
  clock,       \* the next wall-clock token
  userVersion, \* PRAGMA user_version
  pc,          \* opener |-> its next statement
  swept,       \* opener |-> its sweep deleted rows
  todo,        \* opener |-> modules its backfill still has to classify; for a
               \* server that is past it, files the table was missing for
  deaths,
  (* History: what no statement to come answers for.                       *)
  unbacked,    \* fingerprints that a death kept from being deleted with their rows
  loose,       \* modules whose symbols were dropped, or changed by an opener that
               \* died or was not the server, since the trie was built
  undone       \* modules whose relationships a second backfill deleted

data == <<symbolShape, added, modules, rows, classified, files, trie, marked,
          generation, clock, userVersion, disk>>
history == <<unbacked, loose, undone>>
openVars == <<data, pc, swept, todo, deaths, history>>

Step == {"closed", "schema", "split", "splitdrop", "splitfiles", "recreate", "columns", "flags",
         "probe", "stamp", "sweep1", "sweep2", "sweep3", "unmark", "gate", "clear1",
         "clear2", "classify", "open", "compiling", "ready"}

OpenTypeOK ==
  /\ symbolShape \in {"old", "new", "none"}
  /\ added \subseteq {"index_implied", "position"} \cup FamilyFlag
  /\ modules \subseteq Module /\ classified \subseteq Module
  /\ disk \subseteq Module /\ files \subseteq Module /\ trie \subseteq Module
  /\ rows \in [Child -> SUBSET Module]
  /\ marked \in BOOLEAN /\ generation \in 0..MaxGen /\ clock \in 1..MaxGen + 1
  /\ userVersion \in 0..BackfillVersion
  /\ pc \in [Opener -> Step] /\ swept \in [Opener -> BOOLEAN] /\ todo \in [Opener -> SUBSET Module]
  /\ deaths \in 0..MaxCrash
  /\ unbacked \subseteq Module /\ loose \subseteq Module /\ undone \subseteq Module

(* A database of one of the builds before this one.  Each lacks what the   *)
(* builds after it added; a missed cascade may have left orphaned rows.    *)
Legacy == [shape: {"old"}, cols: {{}}, ver: {0}, mark: {FALSE}, gen: {NoGen}]
   \cup   [shape: {"new"}, cols: {{}, {"index_implied"}, {"index_implied", "position"}},
           ver: {0}, mark: {FALSE}, gen: {NoGen}]
   \cup   [shape: {"new"}, cols: {{"index_implied", "position"}}, ver: {0, 1, 2},
           mark: {FALSE, TRUE}, gen: {NoGen}]
   \cup   [shape: {"new"}, cols: {{"index_implied", "position"} \cup FamilyFlag},
           ver: {2}, mark: {TRUE}, gen: {NoGen, 1}]

(* The fingerprint table is younger than position, except that the split  *)
(* still clears it: that migration is the pattern for later ones.          *)
OpenInit ==
  \E l \in Legacy, orphans \in SUBSET Module :
    /\ disk \in {Module, Module \ orphans}
    /\ symbolShape = l.shape /\ added = l.cols
    /\ modules = Module \ orphans
    /\ rows = [c \in Child |-> IF c = "pair" THEN Module \ orphans ELSE Module]
    /\ files = IF l.shape = "old" \/ "position" \in l.cols THEN modules ELSE {}
    /\ marked = l.mark /\ generation = l.gen /\ clock = l.gen + 1
    /\ trie = IF l.mark THEN Module ELSE {}
    /\ userVersion = l.ver
    /\ classified = IF l.ver = BackfillVersion THEN modules ELSE {}
    /\ pc = [o \in Opener |-> "closed"] /\ todo = [o \in Opener |-> {}]
    /\ swept = [o \in Opener |-> FALSE] /\ deaths = 0
    /\ unbacked = {} /\ loose = {} /\ undone = {}

Goto(o, s) == pc' = [pc EXCEPT ![o] = s]

-----------------------------------------------------------------------------
(* store.Open, by the server or by an MCP client. *)
OpenBegin(o) ==
  /\ pc[o] = "closed"
  /\ Goto(o, "schema") /\ UNCHANGED <<data, swept, todo, deaths, history>>

(* schema.sql is idempotent: it creates what is missing in today's shape. *)
ApplySchema(o) ==
  /\ pc[o] = "schema"
  /\ symbolShape' = IF symbolShape = "none" THEN "new" ELSE symbolShape
  /\ added' = IF symbolShape = "none" THEN added \cup {"index_implied"} ELSE added
  /\ Goto(o, "split")
  /\ UNCHANGED <<modules, rows, classified, files, trie, marked, generation, clock,
                 userVersion, swept, todo, deaths, disk, history>>

(* migrateSymbolKindSplit looks for the old columns.  No table, none.      *)
SplitProbe(o) ==
  /\ pc[o] = "split"
  /\ Goto(o, IF symbolShape = "old" THEN "splitdrop" ELSE "columns")
  /\ UNCHANGED <<data, swept, todo, deaths, history>>

(* The symbol table and its FTS shadow go, whatever their shape is now ... *)
SplitDrop(o) ==
  /\ pc[o] = "splitdrop"
  /\ symbolShape' = "none" /\ added' = added \ {"index_implied"}
  /\ rows' = [rows EXCEPT !["symbol"] = {}] /\ Goto(o, "splitfiles")
  /\ loose' = loose \cup trie
  /\ UNCHANGED <<modules, classified, files, trie, marked, generation, clock,
                 userVersion, swept, todo, deaths, disk, unbacked, undone>>

(* Mutant of SplitFiles: the fingerprints outlive the data. *)
SplitFilesKept(o) ==
  /\ pc[o] = "splitfiles" /\ Goto(o, "recreate")
  /\ UNCHANGED <<data, swept, todo, deaths, history>>

(* ... then the fingerprints, so that boot compiles everything again, ... *)
SplitFiles(o) ==
  /\ pc[o] = "splitfiles"
  /\ files' = {} /\ Goto(o, "recreate")
  /\ UNCHANGED <<symbolShape, added, modules, rows, classified, trie, marked,
                 generation, clock, userVersion, swept, todo, deaths, disk, history>>

(* ... and the schema is applied again. *)
Recreate(o) ==
  /\ pc[o] = "recreate"
  /\ symbolShape' = "new" /\ added' = added \cup {"index_implied"}
  /\ Goto(o, "columns")
  /\ UNCHANGED <<modules, rows, classified, files, trie, marked, generation, clock,
                 userVersion, swept, todo, deaths, disk, history>>

(* migrateAddIndexImplied, then migrateAddReferencePosition. *)
AddColumn(o) ==
  /\ pc[o] = "columns" /\ symbolShape # "none"
  /\ IF "index_implied" \notin added THEN added' = added \cup {"index_implied"} /\ UNCHANGED pc
     ELSE IF "position" \notin added THEN added' = added \cup {"position"} /\ UNCHANGED pc
     ELSE UNCHANGED added /\ Goto(o, "flags")
  /\ UNCHANGED <<symbolShape, modules, rows, classified, files, trie, marked,
                 generation, clock, userVersion, swept, todo, deaths, disk, history>>

(* Mutant of AddFlag: has_scalar stands for all three columns. *)
AddFlagSentinel(o) ==
  /\ pc[o] = "flags"
  /\ \/ /\ "has_scalar" \notin added
        /\ added' = added \cup {"has_scalar"} /\ UNCHANGED pc
     \/ /\ "has_scalar" \in added /\ UNCHANGED added /\ Goto(o, "probe")
  /\ UNCHANGED <<symbolShape, modules, rows, classified, files, trie, marked,
                 generation, clock, userVersion, swept, todo, deaths, disk, history>>

(* migrateAddOIDNodeFamilyFlags: each missing column by a statement of its *)
(* own, each checked on its own.                                           *)
AddFlag(o) ==
  /\ pc[o] = "flags"
  /\ \/ \E f \in FamilyFlag \ added : added' = added \cup {f} /\ UNCHANGED pc
     \/ FamilyFlag \subseteq added /\ UNCHANGED added /\ Goto(o, "probe")
  /\ UNCHANGED <<symbolShape, modules, rows, classified, files, trie, marked,
                 generation, clock, userVersion, swept, todo, deaths, disk, history>>

(* migrateStampOIDTreeGeneration reads both keys before it writes. *)
ProbeGeneration(o) ==
  /\ pc[o] = "probe"
  /\ Goto(o, IF marked /\ generation = NoGen THEN "stamp" ELSE "sweep1")
  /\ UNCHANGED <<data, swept, todo, deaths, history>>

(* The insert yields to a row another opener wrote since (DO NOTHING). *)
StampGeneration(o) ==
  /\ pc[o] = "stamp"
  /\ IF generation = NoGen
       THEN clock <= MaxGen /\ generation' = clock /\ clock' = clock + 1
       ELSE UNCHANGED <<generation, clock>>
  /\ Goto(o, "sweep1")
  /\ UNCHANGED <<symbolShape, added, modules, rows, classified, files, trie, marked,
                 userVersion, swept, todo, deaths, disk, history>>

(* sweepOrphanedModuleRows: one child table after the other; rows of a     *)
(* module that is gone are deleted.                                        *)
Sweep(o, i) ==
  LET orphans == rows[ChildOrder[i]] \ modules IN
  /\ pc[o] = <<"sweep1", "sweep2", "sweep3">>[i] /\ (i = 1 => symbolShape # "none")
  /\ rows' = [rows EXCEPT ![ChildOrder[i]] = @ \ orphans]
  /\ swept' = [swept EXCEPT ![o] = @ \/ orphans # {}]
  /\ loose' = IF i = 1 /\ o # Server THEN loose \cup orphans ELSE loose
  /\ Goto(o, CASE i = 1 -> "sweep2" [] i = 2 -> "sweep3"
                [] OTHER -> IF swept'[o] THEN "unmark" ELSE "gate")
  /\ UNCHANGED <<symbolShape, added, modules, classified, files, trie, marked,
                 generation, clock, userVersion, todo, deaths, disk, unbacked, undone>>

(* Mutant of UnmarkTrie: the trie keeps the swept symbols. *)
TrieKept(o) ==
  /\ pc[o] = "unmark" /\ Goto(o, "gate")
  /\ UNCHANGED <<data, swept, todo, deaths, history>>

(* A sweep that found something has the loader rebuild the trie. *)
UnmarkTrie(o) ==
  /\ pc[o] = "unmark"
  /\ marked' = FALSE /\ Goto(o, "gate")
  /\ UNCHANGED <<symbolShape, added, modules, rows, classified, files, trie,
                 generation, clock, userVersion, swept, todo, deaths, disk, history>>

(* backfillRelationships: once per generation of the engine. *)
BackfillGate(o) ==
  /\ pc[o] = "gate"
  /\ IF userVersion >= BackfillVersion THEN Goto(o, "open") /\ UNCHANGED todo
     ELSE Goto(o, "clear1") /\ todo' = [todo EXCEPT ![o] = modules]
  /\ UNCHANGED <<data, swept, deaths, history>>

(* Everything goes first: a module that yields nothing now must not keep   *)
(* rows of an earlier engine.  Only the server is sure to put them back.   *)
ClearDerived(o) ==
  /\ \/ /\ pc[o] = "clear1" /\ rows' = [rows EXCEPT !["relationship"] = {}]
        /\ undone' = IF o = Server /\ userVersion < BackfillVersion THEN {} ELSE modules
        /\ Goto(o, "clear2") /\ classified' = {}
     \/ /\ pc[o] = "clear2" /\ rows' = [rows EXCEPT !["pair"] = {}]
        /\ Goto(o, "classify") /\ UNCHANGED <<classified, undone>>
  /\ UNCHANGED <<symbolShape, added, modules, files, trie, marked, generation, clock,
                 userVersion, swept, todo, deaths, disk, unbacked, loose>>

(* One transaction per module; a module without symbols yields nothing.  A *)
(* row another opener has written meanwhile violates the primary key and   *)
(* fails this Open.                                                        *)
ClassifyModule(o, m) ==
  LET yields == m \in rows["symbol"] \cap modules IN
  /\ pc[o] = "classify" /\ m \in todo[o] /\ symbolShape # "none"
  /\ IF yields /\ m \in rows["relationship"]
       THEN /\ Goto(o, "closed") /\ todo' = [todo EXCEPT ![o] = {}]
            /\ UNCHANGED <<rows, classified, undone>>
       ELSE /\ rows' = IF yields THEN [rows EXCEPT !["relationship"] = @ \cup {m},
                                                  !["pair"] = @ \cup {m}] ELSE rows
            /\ classified' = classified \cup {m} /\ undone' = undone \ {m}
            /\ todo' = [todo EXCEPT ![o] = @ \ {m}] /\ UNCHANGED pc
  /\ UNCHANGED <<symbolShape, added, modules, files, trie, marked, generation, clock,
                 userVersion, swept, deaths, disk, unbacked, loose>>

(* Mutant of BackfillDone: the version is recorded before the work. *)
BackfillDoneEarly(o) ==
  /\ pc[o] = "classify"
  /\ userVersion' = BackfillVersion
  /\ IF todo[o] = {} THEN Goto(o, "open") ELSE UNCHANGED pc
  /\ UNCHANGED <<symbolShape, added, modules, rows, classified, files, trie, marked,
                 generation, clock, swept, todo, deaths, disk, history>>

(* The version also covers what another backfill has deleted meanwhile.    *)
BackfillDone(o) ==
  /\ pc[o] = "classify" /\ todo[o] = {}
  /\ userVersion' = BackfillVersion /\ Goto(o, "open")
  /\ undone' = IF o = Server THEN undone ELSE undone \cup (modules \ classified)
  /\ UNCHANGED <<symbolShape, added, modules, rows, classified, files, trie, marked,
                 generation, clock, swept, todo, deaths, disk, unbacked, loose>>

(* A statement that needs the symbol table finds it dropped by another     *)
(* opener: the Open fails.                                                 *)
OpenFails(o) ==
  /\ symbolShape = "none"
  /\ pc[o] \in {"columns", "sweep1"} \/ (pc[o] = "classify" /\ todo[o] # {})
  /\ Goto(o, "closed") /\ todo' = [todo EXCEPT ![o] = {}]
  /\ UNCHANGED <<data, swept, deaths, history>>

-----------------------------------------------------------------------------
(* SyncCorpus of the server that opened the store: a file without a        *)
(* fingerprint is compiled; ReplaceModule rewrites every table of it, and  *)
(* fails where one is missing.                                             *)
CompileModule(m) ==
  /\ pc[Server] \in {"open", "compiling"} /\ m \in disk \ (files \cup todo[Server])
  /\ IF symbolShape = "none"
       THEN /\ todo' = [todo EXCEPT ![Server] = @ \cup {m}]
            /\ UNCHANGED <<modules, files, rows, classified, undone, pc>>
       ELSE /\ modules' = modules \cup {m} /\ files' = files \cup {m}
            /\ rows' = [c \in Child |-> rows[c] \cup {m}]
            /\ classified' = classified \cup {m} /\ undone' = undone \ {m}
            /\ Goto(Server, "compiling") /\ UNCHANGED todo
  /\ UNCHANGED <<symbolShape, added, trie, marked, generation, clock, userVersion,
                 swept, deaths, disk, unbacked, loose>>

(* pruneGhosts drops the modules without a fingerprint; a changed corpus   *)
(* or a missing marker rebuilds the trie, for which the symbol table and   *)
(* every flag column must be there.                                        *)
FinishSync ==
  LET gone == IF symbolShape = "none" THEN {} ELSE modules \ files IN
  /\ pc[Server] \in {"open", "compiling"} /\ disk \subseteq files \cup todo[Server]
  /\ modules' = modules \ gone /\ rows' = [c \in Child |-> rows[c] \ gone]
  /\ classified' = classified \ gone
  /\ IF /\ pc[Server] = "compiling" \/ gone # {} \/ ~marked
        /\ FamilyFlag \subseteq added /\ symbolShape # "none"
       THEN /\ clock <= MaxGen
            /\ trie' = rows'["symbol"] /\ marked' = TRUE /\ loose' = {}
            /\ generation' = clock /\ clock' = clock + 1
       ELSE UNCHANGED <<trie, marked, generation, clock, loose>>
  /\ Goto(Server, "ready")
  /\ UNCHANGED <<symbolShape, added, files, userVersion, swept, todo, deaths, disk,
                 unbacked, undone>>

(* An MCP session ends; the server is stopped. *)
CloseStore(o) ==
  /\ pc[o] = IF o = Server THEN "ready" ELSE "open"
  /\ Goto(o, "closed") /\ swept' = [swept EXCEPT ![o] = FALSE]
  /\ todo' = [todo EXCEPT ![o] = {}]
  /\ UNCHANGED <<data, deaths, history>>

(* The symbols the trie shows and those that are stored, where they differ.*)
Apart == (trie \ rows["symbol"]) \cup (rows["symbol"] \ trie)

(* The process dies.  It may leave fingerprints without rows, and a trie   *)
(* whose marker says that it is current.                                   *)
Die(o) ==
  /\ pc[o] # "closed" /\ deaths < MaxCrash
  /\ Goto(o, "closed") /\ deaths' = deaths + 1
  /\ swept' = [swept EXCEPT ![o] = FALSE] /\ todo' = [todo EXCEPT ![o] = {}]
  /\ unbacked' = IF pc[o] = "splitfiles" THEN unbacked \cup (files \ rows["symbol"]) ELSE unbacked
  /\ loose' = IF pc[o] \in {"unmark", "compiling"} \/ (pc[o] \in {"sweep2", "sweep3"} /\ swept[o])
              THEN loose \cup Apart ELSE loose
  /\ UNCHANGED <<data, undone>>

OpenNext ==
  \/ \E o \in Opener :
       \/ OpenBegin(o) \/ ApplySchema(o) \/ SplitProbe(o) \/ SplitDrop(o) \/ SplitFiles(o)
       \/ Recreate(o) \/ AddColumn(o) \/ AddFlag(o) \/ ProbeGeneration(o) \/ StampGeneration(o)
       \/ \E i \in 1..3 : Sweep(o, i)
       \/ UnmarkTrie(o) \/ BackfillGate(o) \/ ClearDerived(o)
       \/ \E m \in Module : ClassifyModule(o, m)
       \/ BackfillDone(o) \/ OpenFails(o) \/ CloseStore(o) \/ Die(o)
  \/ \E m \in Module : CompileModule(m)
  \/ FinishSync

OpenSpec == OpenInit /\ [][OpenNext]_openVars

-----------------------------------------------------------------------------
Ready == pc[Server] = "ready"

(* A fingerprint that boot trusts has its compiled rows, whatever a        *)
(* migration dropped and whoever else opens the database: over an empty    *)
(* table it would keep its module out of the browser forever (store.go,    *)
(* the INVARIANT in migrateSymbolKindSplit).  Only the fingerprints a death*)
(* between the two statements left behind are without rows.                *)
FingerprintsBacked ==
  (\A o \in Opener : pc[o] # "splitfiles") => files \subseteq rows["symbol"] \cup unbacked

(* A served database has rows of its modules only, and its OID tree shows  *)
(* exactly the symbols it has: orphans are swept from both, a half-finished*)
(* column migration does not stop the rebuild, and a trie that was not told*)
(* of a change is one whose marker a dead opener failed to delete or that  *)
(* another one changed under the server.                                   *)
TreeMatchesSymbols ==
  Ready => (\A c \in Child : rows[c] \subseteq modules) /\ Apart \subseteq loose

(* However often the backfill was cut short, a served database has the     *)
(* relationships of the current engine for every module, unless two        *)
(* backfills met and one deleted what the other had recorded.              *)
AllClassified == Ready => modules \ classified \subseteq undone
=============================================================================

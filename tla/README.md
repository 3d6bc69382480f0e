# A TLA+ model of blittermib

blittermib is a self-hosted browser for SNMP MIB files. A file dropped or
uploaded into `import/` is compiled with smidump, filed into a curated directory
tree, stored in SQLite and served: as a tree of OIDs, a workspace per module,
search, walk decoding, a trap simulator, an event export and MCP tools.
Command-line tools maintain the corpus offline. This directory models the
program from the boot to the browser. Source paths are relative to the
repository.

- [The system](#the-system)
- [Modules](#modules)
- [How the model corresponds to the code](#how-the-model-corresponds-to-the-code)
- [Properties and runs](#properties-and-runs)
- [Bounds](#bounds)
- [Fairness](#fairness)
- [What is proved](#what-is-proved)
- [Where the code and its comments disagree](#where-the-code-and-its-comments-disagree)
- [What is not modelled](#what-is-not-modelled)
- [Plan](#plan)

## The system

| component | state it keeps | operations | correct when | module |
|---|---|---|---|---|
| **import engine** `internal/mibimport/engine.go` | `e.mu`; the `poisoned` set; on disk `import/`, `import/failed/`, `import/duplicate/` | `Import`, `ImportReplace`, `ImportReplacing` → `run`; `quarantine`, `moveFile`, `uniquePath`, `refreshOIDTree`; `RemoveQuarantined` | every intake file ends in exactly one place, no move destroys a file, the recorded fingerprint describes the bytes that were filed | ImportEngine, MibImport |
| **boot validation** `internal/mibimport/sync.go` | none of its own; reads the tree, writes the store | `SyncCorpus`, `pruneGhosts` | afterwards the store serves what is in the tree, and a later boot trusts only what was validated | CorpusSync |
| **standard mirror** `internal/mibimport/standard.go` | a manifest of the image's files in the tree | `SyncStandard`, `resolveCorpusRoot`, `migrateLegacyUpload` | operators' files in `ietf/` and `iana/` survive, the image's follow it | StandardSync |
| **store** `internal/store` | SQLite: `module`, `symbol`, `import`, `source_file`, `oid_node`, the FTS index, `app_meta` | `Open` with migrations, sweep and backfill; `ReplaceModule`, `DeleteModule`, `UpsertSourceFile`, `RebuildOIDTree`, queries | each operation is one transaction; whatever an earlier build or a death left, a served database is whole | Corpus, StoreOpen, Search |
| **OID tree browsing** `internal/store/oidtree.go`, `internal/server` | the trie; in the browser a cache and a page window | folding, spines, keyset paging, validators | no node lost or shown twice between pages, no stale page confirmed | OIDTree, TreeView, TreeBrowser |
| **compile** `internal/compile` | semaphore of workers | `Compile`, `compileOne`; sanitising, `ToModel`, references | the rows are what the module's source says | Convert |
| **upload API** `internal/server/upload.go` | none beyond the request | upload, replace, delete, state | the outcome it reports per file is true | MibImport |
| **watcher** `internal/watch/watcher.go` | pending names and a debounce timer under a mutex | `Run`, `enqueue`, `flush`, `dispatch` | a pending name has a timer; the last batch is flushed before the join | Watcher |
| **process** `cmd/blittermib/main.go`, `internal/server/server.go` | readiness, WaitGroup, 5-minute ticker | boot order, rescan, drain, shutdown | no import before validation, nothing joined after the store closes | Lifecycle |
| **workspace** `internal/server`, `internal/web` | the URL's scope and selection | full pages and pane fragments | the panes belong together | Workspace |
| **search** `internal/server`, `internal/store/search.go`, `internal/mcptools` | none | a text query and an exact lookup | what was typed comes first | Search |
| **bundles, walks** `internal/server`, `internal/walk`, `internal/bundle` | a resolver's memo per request | closure of imports; parse a capture, resolve OIDs by longest prefix | the archive accounts for its closure; a column has one owner | Serving, WalkText |
| **trap simulator** `internal/server`, `assets/trap-simulator.js` | none | classify INDEX columns, compose an instance suffix | the suffix decodes to the row that was typed | TrapIndex |
| **correlation and event export** `internal/correlate`, `internal/eventconf` | `relationship` and pair tables | classify, score and pair notifications; reduction and clear keys | a clear resolves exactly its raise's alarm | Correlate, EventExport, AlarmExport |
| **classification** `internal/mibcorpus` | none | `Classify` | every module has one class, by fixed rule order | Classify |
| **corpus tools** `cmd/mib-ingest`, `cmd/mib-migrate`, `cmd/mib-index` | files, `INDEX.yaml` | plan, collapse, move, report, index | no file overwritten, exit codes and reports true, dates kept | MibIngest, MibReport, MibMigrate, MibIndex, Filing |

Interaction. At boot `main` opens the store, then one loader goroutine runs
`SyncStandard`, `SyncCorpus`, a first rescan and afterwards starts the watcher
and the ticker. From then on four kinds of callers use the engine: the watcher's
callback (a batch of names it saw events for), the ticker (every file flat in
`import/`), the upload handler and the replace handler (one request's files).
All of them, and the validation, serialise on `e.mu`. Everything else does
**not**: operators copy files into `import/` and edit the tree with a file
manager, upload parts are linked or renamed into `import/` before the mutex is
taken, `ImportReplacing` picks a name and moves a quarantined file before it is
taken, and the delete handler removes files without it. Readers never take it:
every page is made of several queries between which an import may commit.
blittermib-mcp opens the same database, and the command-line tools the same
directories, while the server runs.

Hard behaviours, each listed with its line in `PROJECT.json` under `hazards`:

- one import is a rename, a module transaction, a fingerprint transaction and a
  trie rebuild; a crash can fall between any two of them;
- the hash is taken when the file has settled, the stat after the move; the
  validation stats the whole tree first and hashes and compiles later;
- across filesystems a move is a copy and a removal that may fail;
- a compile may run out of the pass's budget, which `run` defers and
  `SyncCorpus` treats as a failure;
- a stale flush clears the pointer of a timer that was armed after it; a flush on
  a timer's goroutine is not joined by the WaitGroup;
- a signal cancels the context a pass is using;
- the mirror shares its directories with the operator, and may die half-way;
- migrations are separate statements, run by two processes;
- a tree page is cached under a generation read before the rows;
- a page of a level is continued after the level has been rebuilt;
- fragments of the workspace do not carry the scope they belong to;
- an exact lookup runs after the text query, a closure query by query;
- a tool plans on what it read and acts later.

## Modules

    Corpus            disk and store, and the operations on them both sides use
      ^       ^
    ImportEngine   CorpusSync      Engine.run     Engine.SyncCorpus
      ^       ^
     MibImport          composition: mutex, watcher, ticker, one web client,
      ^       ^         operator, boot, stop, crash; all its properties
    MCMibImport   MibImport_proofs <- Fingerprint_proofs <- Corpus_proofs

    Watcher <- Lifecycle     StandardSync     StoreOpen
                  ^               ^               ^
                  \_______________|_______________/
                     MCProcess <- Process_proofs

    OIDTree <- TreeBrowser, TreeView   Workspace   Serving   Search   TrapIndex
    WalkText   Convert   Correlate <- EventExport <- AlarmExport
    Classify <- MibMigrate   MibReport, Classify <- MibIngest -> Filing   MibIndex
                  MCService
    Workspace, TreeBrowser, Serving <- Pages_proofs <- Tree_proofs -> TreeView
    AlarmExport, Search, WalkText, TrapIndex, Convert <- Answers_proofs
    MibIngest, MibMigrate, MibIndex <- Tools_proofs

- **Corpus** declares the persistent variables (`written`, `intake`, `quar`,
  `tree` on disk; `module`, `row`, `trie` in the store) and `pc`, which says
  where the holder of `e.mu` stands. **ImportEngine** is one pass of `run`:
  `Begin`, `Settle`, `Check`, `EndCheck`, `Build`, `EndBuild`, `Route`,
  `RouteForget`, `Move`, `Save`, `Mark`, `Finish`, and `Cancel` of its context. **CorpusSync** is
  `SyncCorpus`: walk, diff, forget and drop vanished sources, compile, load and
  stamp, prune, refresh. **MibImport** composes the two with their callers and
  the environment.
- **Watcher** is the loop of `Run` with `pending`, the timers and their flushes.
  **Lifecycle** composes it with `run`, the loader, the ticker, requests, panics
  and signals, over an engine reduced to its mutex and to taking files out of
  `import/`.
- **StandardSync** is what a boot does to the volume. **StoreOpen** is
  `store.Open` statement by statement, by a server and by MCP clients.
- **OIDTree** holds the trie's build, folding, spines and pages as operators;
  **TreeBrowser** a browser with an HTTP cache and a paging client over a trie
  that is rebuilt, **TreeView** what is drawn of any symbol table that imports
  leave. **Workspace** is the URL's state, the clicks and the fragments;
  **Serving** bundles and walk decoding, query by query; **Search** search and
  lookups, query by query.
- **TrapIndex**, **WalkText**, **Convert**, **Correlate**, **EventExport**,
  **Classify**, **MibReport** are algorithms: operators checked against what the
  output means (decoding an encoding, re-reading what was printed, the module's
  own definitions, the entity an alarm is about). A small state machine supplies
  the inputs of most: a walk that is printed variable by variable (WalkText), a
  simulator opened on a notification (TrapIndex), a dump that grows by one
  definition at a time (Convert), the notifications that imports
  store and replace (**AlarmExport**, over EventExport).
- **Filing** says abstractly what a tool may do to files. **MibIngest** with a
  server beside it implements it; **MibMigrate**, **MibIndex** are the other
  tools.
- **MCMibImport**, **MCProcess**, **MCService** give TLC instances. The latter
  two check parts that share no state one at a time: the variable `part` is
  chosen initially, and variables of the other parts keep one value.

## How the model corresponds to the code

### The corpus

*Files.* A file is a stamp. Every write takes a fresh stamp, which stands for
the `(size, mtime)` pair that the code compares; `written` remembers the bytes.
A rename keeps the stamp, a copy takes a new one, as `os.Rename` and the
fallback of `moveFile` do. A SHA-256 is the content itself: collisions are not
considered, and neither is an edit that keeps size and mtime.

*Names and directories.* `Classify` and the compiler are functions of the
content (`DirOf`, `ModuleOf`). A routed file is keyed by directory and module
name, a file in `unsorted/` by its name. `uniquePath` returns the name itself
when free, else some free name of `Name \ Plain`, which stand for `-1`, `-2`, ...
`Walked` are the names whose extension the walk of `SyncCorpus` accepts.

*Steps.* A step of the model is the code between two points where a lock-free
actor or a crash can make a difference: each file-system access on a shared
path and each store transaction is a step; computing in between is not. The
rebuild of the trie is one transaction with the marker. The loop over files is
the set `todo` (`left` in the validation) in any order, which covers the order
of the code and makes the results independent of it. `Settle` stands for the
second stat and the hash of all candidates; a change between those two accesses
is folded into a change before or after them.

*Contexts.* `job.live` is the caller's context. A dead context makes every store
call fail, and the model follows each failure: the dedupe lookup reads as "not
found", the module lookup and `ReplaceModule` as a failed file, the upsert and
the deletion of a superseded row are ignored, the trie is not rebuilt. The boot validation runs before anything else
exists, so its cancellation is the end of the process (`Stop`).

*Environment.* `DropFile`, `EditTree` and `RemoveFromTree` are the operator's.
The constant `Faults` says what the environment may do in a run: `race`
(overwrite or remove a file the engine or a request has in use, edit the tree
during a pass), `cancel`, `crash`, `budget`, `rofs`, `exdev`, `edit`,
`liveedit`, `twin`.

### The process

*Goroutines* have a program counter each: `phase` (the goroutine of `run`),
`loader`, `watcher`, `ticker`; `armed`, `fired` and `flights` count timers and
hold the batches their goroutines wait to hand over. `wg` is the WaitGroup's
counter, changed where the code calls `Add` and `Done`. `w.timer` is one of
`nil`, `armed`, `spent`: `Stop` on a spent timer does nothing, and a flush sets
`nil` even when a newer timer was armed since. A panic in the engine is recovered
by the watcher's callback, the middleware and the loader, not by the ticker.

*The volume.* `author` is a history variable: who placed the file at a path.
`sync` holds the sets `current` and `previous` of `SyncStandard`. `syncFile`,
the prune and the manifest are separate steps; each may fail (`DiskFails`), which
the code logs at most, and the process may die between them. Two history variables
say what that leaves: `unrecorded`, paths the mirror placed that no manifest lists,
and `stale`, paths a manifest lists that the mirror did not place.

*The database.* `symbolShape`, `added`, `userVersion`, `marked`, `generation`
are the versions' marks; `rows[c]` the modules with rows in a child table.
`OpenInit` are the databases of the builds before this one, perhaps with rows a
missed cascade orphaned. Each autocommit statement is an action of an opener, which
may die before any of them; a statement that needs a table another opener has just
dropped fails its `Open`. `unbacked`, `loose` and `undone` are history: fingerprints
without rows, symbols on which trie and table differ, modules without relationships
that a death or another opener left behind and nothing has put right yet. A
generation token is a clock that never repeats.

### Pages and tools

An OID is a sequence of naturals. *OIDTree* builds nodes with flags and counts
from symbols as `RebuildOIDTree` does; `Fold`, `Spine` and pages follow the
SQL's order and cut-offs. *TreeBrowser*: a request reads the generation, then
level by level the rows; a rebuild may come between any two reads. *Workspace*:
`nav` are the requests on their way, since the page sends one at each click and
does not wait; each remembers what it was made of, and what its answer changes of
`page` is what the fragment's handler renders and htmx finds a place for. *Serving*: one step per query of the closure, of the
archive and of the resolver, whose memo (hits and misses) is kept per walk; a
lookup may fail, which leaves its entry undecoded.
*Search*: the FTS5 index is external: its answer is any ranking of the rows that
match, cut at the limit. *Convert*: `dump` is what smidump has put out so far, each definition with its
element and the names it refers to; descriptions are sets of kinds of bytes. The
slices of the compiler are sets whose members carry what orders them: a symbol its
section, place and line, a reference its clause and place in it.
*TrapIndex*: bytes are small numbers, the widths constants; the suffix is read
back by the rule of RFC 2578 that the comments of `buildNotifyVarbinds` cite.
*WalkText*: a line is its kind and what it holds; `Printed` is what snmpwalk makes
of a variable. *EventExport* works on the rows that Correlate makes of a module
(`Relationships`): an object is fixed or positional as the parameter's name says.
*TreeView* replaces the rows of one module as `ReplaceModule` does; its
properties look at the result in every state. *AlarmExport*: a step per query of the
export, and imports of other editions of the module in between. *MibIngest*,
*MibMigrate*, *MibIndex*: a step per file operation; the server, the operator and
kills come in between, also between a look at a path and the rename to it. Paths
are compared as the tools compare them. A file may be unreadable at any read; the
content of INDEX.yaml (`Catalogs`) is independent of the tree.

## Properties and runs

| run | what may happen | properties |
|---|---|---|
| `import_faults` | everything but `race` | `TypeOK`, `FingerprintSound` |
| `import_restart` | crashes, cross-device moves | `TrustedFilesAreLoaded`, `OneCuratedCopy`, `NothingLost` |
| `import_budget` | crashes, budgets that run out | `NoGhostModules`, `OnlyVanishedDropped` |
| `import_operator` | edits of a stopped server's tree, uploads of up to two parts, replacement | `ServedFromDisk`, `TrieFresh`, `AnswersAreTrue` |
| `import_liveness` | cross-device moves; fairness | `EveryDropProcessed` |
| `process` | signals, panics, a failing listener; failing copies, removals and manifest writes, interrupted syncs, releases; deaths at any statement of `Open`, MCP clients; fairness | `ProcessTypeOK`; `JoinedBeforeClose`, `ValidatedFirst`, `PendingHasTimer`, `StopCompletes`, `DropTaken`; `OperatorFilesKept`, `StandardMirrored`; `FingerprintsBacked`, `TreeMatchesSymbols`, `AllClassified` |
| `service` | rebuilds, re-imports and replacements between the reads of a page; overlapping clicks; kills, unreadable files and a server beside the tools | see below |
| `find_overwritten_while_importing` | `race` | `FingerprintSound`, violated |
| `find_trie_stale_after_crash` | crashes; fairness | `TrieCatchesUp`, violated |
| `find_unsorted_suffix` | nothing special | `OnlyVanishedDropped`, violated |
| `find_intake_eaten` | a signal | `NothingEaten`, violated |
| `find_restored_revision` | crashes; edits of a stopped server's tree | `TrustedFilesAreLoaded`, violated |

Import:

- `FingerprintSound`: a fingerprint whose stat matches the file carries the hash
  of the bytes on disk. Boot skips hashing and compiling on this ground.
- `TrustedFilesAreLoaded`: what boot would skip is in the store, built from
  exactly that file, wherever the last process died.
- `OneCuratedCopy`, `NothingLost`: no content is curated twice; no move of a
  pass or of a replace request destroys the last copy of a file's bytes, other
  than the revision whose replacement was asked for.
- `NoGhostModules`: between passes every module is accounted for by a
  fingerprint. `OnlyVanishedDropped`: the validation removes the module of a
  fingerprint only if its file is gone.
- `ServedFromDisk`, `TrieFresh`: after a validation every served module has the
  bytes at its source path; between passes the trie shows the stored modules.
- `AnswersAreTrue`: what a request is told per file holds when it is told; a file
  it has no outcome for ("pending", "disappeared") is out of `import/` and settled.
- `EveryDropProcessed`: with the server up, a file in `import/` is given an outcome,
  again and again for as long as it stays (a file that cannot be removed from a
  cross-device intake is copied into quarantine each time).

Several of these hold only under the faults their run names, and the runs are
cut along those lines: `TrieFresh` fails with crashes (a finding),
`TrustedFilesAreLoaded` with crashes and edits together (another), `OneCuratedCopy` with crashes and exhausted budgets together (the fingerprint of
a curated file is dropped, and its copy left in `import/` is then filed again),
`NoGhostModules` with failing moves (a replacement removes the old source
first; the next boot prunes), `AnswersAreTrue` with budgets that run out (the file
is still in `import/` and is told to have disappeared). `hazards` says so for each
of them.

Process: what must have returned when the store closes (only a timer's or a
request's engine call may be left); nothing imported before validation; a pending
name has a timer; a process asked to stop ends; the ticker takes every drop. The
mirror takes a file an import filed at a free path only where the installed release
ships that path or a stale manifest lists it, and ends with the tree as the image
ships it but for what its failures and interruptions left. In a served database
fingerprints have rows, the tree shows the symbols, and every module is classified
by the current engine; each of the three exempts exactly what a death between two
statements, or two openers at once, have left behind, by a history variable.

Service:

| property | part | says |
|---|---|---|
| `CachedBodiesCurrent`, `PagingDelivers` | tree | a 304 confirms the body a fresh request would get; paging both ways delivers every child that stays, once |
| `SpinesShowFocus`, `TreesExpand` | tree | the preloaded spine shows its focus in every mode; expanding everything renders each node once |
| `PanesAgree`, `ClickSelects` | workspace | the list belongs to the URL's scope until a click in the tree overlaps another; an answer selects what was clicked, in whatever order answers come |
| `BundleAccounts`, `OneOwnerPerColumn` | serving | a bundle's closure is in the archive or in MISSING.txt; one symbol decodes what could be looked up of a column of a walk |
| `TypedFirst` | search | a name or OID that was typed is the first hit, listed once |
| `ExportedAlarmsClear` | events | a clear-key never dangles; a clear resolves exactly one raise unless an import splits the relationships from the pairs, and exactly its entity's exported alarm unless one comes at all |
| `SuffixesDecode`, `WalksParse`, `DefinitionsStored` | algorithms | a composed suffix decodes to the row; a capture reads back; stored rows are the source's definitions |
| `IngestFiles`, `ExitTruthful`, `ReportNames` | mib-ingest | it implements `Filing`; exit 0, the list of files left and its `...and N more` are true, after failed runs too; the report names what would stay behind for another file of the run or of the index |
| `AppliedAsPlanned`, `DatesKept` | other tools | a clean apply has put every file where the plan says, and the plan says nothing astray; an indexed file keeps its date |

## Bounds

*Import.* `Stamp` bounds the number of writes in a behaviour; no action resets
it, so a run explores every interleaving of that many drops, uploads, edits and
copies with any number of passes, restarts, deletions and requests. Two stamps
are the least for a replacement, three for a replacement whose file is copied or
edited once more. `Name` is two or three names: `Plain` names are dropped and
uploaded under, and one extra name is enough for a suffix to be needed and found;
when a directory has no free name left the step that needs one is blocked, which
only happens after the writes of the run have been used up for that directory.
Two modules and two directories suffice for a module that moves between
directories and for one that is not routed. Symmetry is over stamps and over
suffix names, which nothing distinguishes; it is not used in the runs that check
liveness. Deadlock is checked.

*Process.* One file, two timers at a time (a stale one and its successor), one
batch in flight, three drops or requests per life of the process and any number
of lives. Three releases over two paths (one path is changed and dropped, the other
added) in any order over four boots: a manifest that is stale or lacks a
path matters one sync later. Two modules, a server and an MCP client that opens
whenever it likes, one death, at any statement: what a death leaves is recorded in
the history variables until it is put right, and three generation tokens suffice
for a stamp and the rebuilds before and after it. That two deaths leave no more than
the exceptions of the properties say is proved, not run. Deadlock is checked;
`AtBounds` lets the parts that are bounded rest.

*Service.* Every part has its own small sets in `MCService`, chosen so that its
cases occur: an OID claimed by two modules, a chain and a level wider than a
page, a symbol that shares its OID, a cycle of imports, index columns of every
class, notifications in every direction of prose and name, editions of a module that
lose a raise or turn a pair round, two revisions of one module at three paths, an
index that is current, stale or empty (`Catalogs`), a plan with a row that can be
spoiled (`Editable`), a list that is cut after two files (`ListMax`, 20 in the code).
Two clicks are on their way at once (`MaxClicks`): an answer then overtakes another. `MaxRebuilds = 2`, `MaxRuns = 1`, `MaxApplies = 2`,
`LastDay = 2` bound the repetitions: two rebuilds with a fresh database between
them are what it takes for a generation to come back, the paging client has one
window open (both are proved for any number of rebuilds, see below), a tool keeps
nothing between runs but what is on disk, and two applies are enough for a row
whose destination is another row's source to become free. The maintainer removes,
between plan and apply, places that are a source or a destination but not one
that is both: `git mv` would then move the file that has just arrived there a
second time, and `AppliedAsPlanned` would not hold. The parts come to rest at
their bounds, so this run does not check deadlock.

## Fairness

*Import.* `WF(EngineRuns)` and `WF(SyncRuns)`: the goroutine that holds the mutex
keeps running; its calls return since compiles have a deadline.
`SF(RescanBegin)`: the ticker of `main.go` calls rescan every five minutes for as
long as the process lives and waits for the mutex; Go's `sync.Mutex` hands itself
to a waiter that has starved for 1 ms, so a rescan that is again and again able
to start does start. No fairness is assumed of operators, clients, the watcher or
restarts, and the liveness properties speak of a server that stays up
(`<>[]Up`).

*Process.* `WF(System)` only: as a whole the goroutines that can go on do. It
suffices since between two changes by the environment, which are bounded per
life, they come to rest or end. A debounce timer goes off because the event stream
pauses; a stream of events that never pauses for 250 ms would postpone it, and
`DropTaken` then rests on the ticker. Signals, boots, drops and requests need not
happen.

## What is proved

All theorems hold for every value of the constants that satisfies the named
assumptions of the modules: relations between the constants, that sentinels are
distinct from what they stand beside, that what one module defines or one folder
holds is finite, that limits and page sizes are positive. One of them is a limit
of the code: `ViewAssumption` takes OIDs of at most 65 arcs, since
`RebuildOIDTree` stops after 64 passes (oidtree.go:173-181). Eight modules hold
the proofs, one per group of components (see the diagram above).

- **`TypeCorrect`: `Spec => []TypeOK`** (MibImport), under all faults. `TypeOK`
  is not inductive: that `Mark` writes a row of the right type depends on the
  phase the pass is in. `TypeInv` adds, per component, that every stamp in use
  has been written, that a successful compile read a file that declares a module
  (`GoodBuild`), and what a pass and a validation have in hand in each phase
  (`PassState`, `SyncState`). One lemma per action; `EngineGrows`, `SyncGrows`
  and `CorpusGrows` carry the parts an action leaves alone across its writes.
- **`FingerprintsAreSound`: `"race" \notin Faults` implies
  `Spec => []FingerprintSound`.** Two actions make fingerprints from two reads
  at different times. For `Mark` the argument is that the file of a pass is the
  one it hashed (`PassFiles`), that the move carries its bytes (`PassMoved`), and
  that the stamp arriving in the tree is not yet in any row, because a stamp
  waits in one place only (`WaitApart`) and nothing that waits is known on the
  curated side (`CuratedApart`). For `SyncStamp` it is that a hash belongs to the
  stat of the walk or that stat is gone for ever (`SyncHashed`). The assumption
  is necessary: `find_overwritten_while_importing` is the counterexample.
- **`TrustedAreLoaded`, `ServedIsOnDisk`, `NoGhosts`, `CuratedOnce`,
  `NothingIsLost`, `AnswersTrue`** (Corpus_proofs) speak of a *quiet* corpus:
  `Faults` may hold `crash` and `exdev`, but not `race`, `cancel`, `budget`,
  `rofs` or `edit`. Their invariant `QuietInv` comes on top of the two above.
  `TreeInv` holds wherever a process stopped: a curated file is named after its
  module, a fingerprint is under its module's name (`Claim`), no two paths that a
  boot would see a file or a fingerprint at (`Own`) claim one module, and a hash on
  record that is still the file's is the hash of what was loaded. A fingerprint may
  lack its file: between the removal of a superseded file and of its row, or since a
  process died there (`ToForget`, `RowsThere`); the next validation forgets it. It is this last part
  (`HashLoaded`) that carries a death between `ReplaceModule` and
  `UpsertSourceFile`. `PassInv` adds that while the server is up every curated
  file but the one in hand is trusted and loaded, and that only the module in hand
  is without a fingerprint; `ValidationInv` that stats, rows and results of a
  validation stay true and that every file found is trusted by now or still to be
  treated. `CuratedOnce` and `DropsOnlyVanished` need that the walk sees every
  name (`InWalk`): a file `name.ext-1` of `unsorted/` is invisible to a boot, and
  its content may be filed again after a crash. For `NothingIsLost` the file a
  rename overwrites, or a replacement removes, is shown to be a revision of the
  module in hand. `AnswersTrue` adds the request (`AnswerInv`): its candidates are
  the files it staged and nobody took, a known hash is a served module's, and each
  outcome is true from when it is noted, since a pass replaces modules only by
  revisions of the same request. `TakenInv` says why an answer without an outcome is
  true as well: a staged file leaves `import/` only with a pass that settles it
  before it lets go of the mutex.
- **`TrieIsFresh`**: unless a process dies or a context is cancelled, under all
  other faults, the trie shows the stored modules or whoever holds the mutex knows
  that it must be rebuilt (`TrieInv`). The two exceptions are needed: with a crash
  it is a finding, and a cancelled pass does not refresh.
- **`DropsOnlyVanished`**: a validation forgets only what its walk did not find,
  under all faults but edits of the tree of a *running* server, which can restore
  a file the walk has passed.
- **`ProcessTyped`: `ProcessSpec => []ProcessTypeOK`** (Process_proofs), for the
  process, the mirrored volume and the database.
- **`JoinsBeforeClose`, `ValidatesFirst`, `PendingIsTimed`** (Process_proofs), for
  any files, timers, flights and changes. The invariant `LifeInv` adds to the
  types that `wg` equals the number of joined goroutines that have not returned
  (`Counted`), that whoever holds the mutex is inside his call (`Holding`), that
  watcher and ticker exist only after the loader spawned them (`Started`), and
  what is left at the end (`Ended`). `wg = 0` then excludes all three.
- **`FiledIsKept`, `EndsMirrored`** (Process_proofs), for any paths and
  releases and any failures. The invariant is ownership: a path the mirror placed is
  in the manifest or among the `unrecorded`; a path an import filed that a manifest
  lists is among the `stale`, which only a manifest write that failed can leave
  behind (`Ownership`). `Progress`, `CopyProgress` and `PruneProgress` say how far a
  sync is, `ManifestFilled` which paths of the manifest are free.
- **`FingerprintsAreBacked`, `TreeIsServed`, `EveryModuleClassified`**
  (Process_proofs), for any modules, any number of openers at any time, any earlier
  build and deaths at any statement; no assumption narrows them. `StoreInv` carries
  three books at once. `Backed`: fingerprints without rows are in `unbacked`, or an
  opener stands between the drop and their deletion. `HonestMark`: where trie and
  symbols are apart though the marker is there, the server is between a change and
  the statement that removes the marker, or the difference is in `loose`: a death or
  another opener left it. `Backfilled`: a module without relationships is still on
  the server's list, or in `undone`, where two backfills that met have put it. `SweptTables` carries the tables through the sweep.
- **`IngestImplementsFiling`: `IngestSpec => IngestFiles`** and
  **`IngestLosesNothing`** (Tools_proofs): the refinement `F` maps the run to
  `Filing` by its directory tree and by `unseen`, the places the server has filled
  since the tool looked at them last. A rename goes to a place that is free or
  unseen: in the second case `os.Rename` replaces what the server filed, which
  `Filing` allows there and nowhere else. A removal leaves the first path of the same
  content or a copy of it that the server has filed meanwhile; the invariant ties the
  sets of a run to the tree.
- **`ExitsTruthfully`: `IngestSpec => ExitTruthful`**, on top of
  that invariant. While a run is on, the drop folder only loses files
  (`OnlyLosses`); a file it walked is gone, kept or a copy about to be removed
  (`WalkedKnown`); a kept file's fate is true of it, and one that compiled is
  still to be moved until it is moved or refused (`FatesTrue`). What the list cuts
  off is counted, whatever its length.
- **`ReportsName`: `IngestSpec => []ReportNames`**: the report made before the
  moves names what they will leave, as far as it can know: for the sake of another
  file of the run, or of one whose module INDEX.yaml lists, whatever that file says
  otherwise. Besides the two invariants above it needs that
  what lies at a curated place was filed there from a file of that content
  (`CuratedPlaced`) and that only kept files are moved (`TodoKept`).
- **`DatesAreKept`: `IndexSpec => []DatesKept`**, for any paths,
  contents, changes and kills. While a run walks, the index it read and the
  entries it has made both agree with the days on record (`Dated`), and every
  file on record is in that index; while it writes only the entries are left to
  agree, and a kill then takes from the record what it takes from the index.
- **`AppliesAsPlanned`: `MigrateSpec => AppliedAsPlanned`**, for any tree, plan and
  sequence of dry, interrupted and repeated applies, if the maintainer removes no
  file by hand from a place that is a destination. The invariant is a ledger
  (`Ledger`): the set of rows that have been moved, whose files are where the plan
  says, while the rows still to do have their files at their sources, unless the
  maintainer has removed them; a row that leads astray is skipped and counted. Without the
  assumption TLC finds the counterexample described under the bounds.
- **`CacheIsCurrent`: `CachingSpec => []CachedBodiesCurrent`** (Pages_proofs), for
  any tries, page sizes, requests, rebuilds, new builds and fresh databases.
  `CachingSpec` is the browser, its cache and the store without the paging client.
  The generation in a validator is past every one there has been (`Past`), so a
  request that a rebuild overtook, or a body of an earlier generation, never
  carries the current tag; a request whose tag is still current has read every
  level of its spine from the present trie (`Consistent`).
- **`PagesDeliver`: `PagingSpec => []PagingDelivers`** (Pages_proofs), for any page
  size, levels of any width and any imports, rebuilds and restarts between two
  pages. `PagingSpec` is the store and the paging client. A page is the set of
  rows with fewer than `Limit` others before them; lemmas on such sets say that a
  page has no gaps (`PageBelow`), that it is full unless it is everything
  (`PageFull`) and that it has a last row (`PageLast`). The invariant (`Paged`)
  says that a child owed and not yet shown lies beyond an end that can still be
  paged (`Beyond`); a rebuild only shortens what is owed. It needs that siblings
  differ in their last arc (`SiblingsDiffer`) and that the trie is finite.
- **`BundlesAccount`, `ColumnsHaveOneOwner`** (Pages_proofs), for any modules,
  cycles of imports, walks and changes of the corpus between two queries. A module
  that is reachable all along is visited, in the frontier or still to be resolved
  (`BundleInv`), and what was visited is copied, named or listed as missing. A
  walk's memos remember hits and misses alike, so that two entries of a column
  recall the same symbol and index (`ColumnInv`); a lookup that failed leaves no
  memo and no symbol.
- **`ListFollowsScope`, `ClicksSelect`** (Pages_proofs): the panes after any
  clicks, however many are under way and in whatever order they are answered, links
  and re-imports, for contents in which a name is defined once and parents are
  prefixes (`ContentsAssumption`). An answer that brings a list takes the rows of the
  other clicks off the page, so that their answers no longer move the URL; the
  tree's rows stay, and `Quiet` says what holds until one of those overlaps.

- **`SpinesShow`, `TreesExpandFully`: `ViewSpec => []SpinesShowFocus`,
  `ViewSpec => []TreesExpand`** (Tree_proofs), for any symbol table, mode, focus
  and page size. What the readers need of a trie is `GoodTrie`: it has every
  prefix of its nodes, counts children truly, and a node carries the families of
  all nodes below it. The last part is the one that is hard to come by
  (`TrieIsGood`): a pass of `RollUp` gives a node what is seeded up to as many
  arcs below it as there were passes, stopping early loses nothing, and 64 passes
  reach every node above the leaves. A row's chain is a path
  downwards, so its anchor lies on the way to any shown node below the row or that
  node lies inside the row (`AnchorOnPath`). For the spine: if the deepest shown
  container of the focus were on no level's row, the levels visited would all end
  above it, while the one closest to it goes on. For the expansion: the levels
  opened are the least set closed under chevrons; every shown node is covered by
  the row that its deepest opened ancestor's level has for it, and by no other.
- **`AlarmsClear`: `ExportSpec => []ExportedAlarmsClear`** (Answers_proofs), for
  any notifications, editions of the module, imports between the queries and both
  ways of naming parameters. A clear-key is copied from a reduction-key, so it never
  dangles. Of the rows of one edition a high confidence means a single partner, being
  partners is mutual and a partner of a clear is a raise; if the objects are of that
  edition too, the two keys name the same parameters in the same order.
- **`TypedLeads`: `SearchSpec => TypedFirst`** (Answers_proofs), for any modules,
  rankings and limits, with imports between the queries. The invariant says that
  ids are never used again and differ, and that the hits of a request in flight are
  distinct; taking one of them out and putting it first keeps them so.
- **`WalksRead`: `WalkSpec => []WalksParse`** (Answers_proofs), for any number of
  variables, values of any number of lines and any cruft and prose. `Parse` of two
  texts one after the other goes on from where the first left it; one variable's
  text adds exactly its entry and its lost lines to any state of the parser, by
  induction over its lines, and a capture does by induction over its variables.
- **`SuffixesRead`: `SimulatorSpec => []SuffixesDecode`** (Answers_proofs), for any
  notification, number of columns, syntaxes, sizes and `IMPLIED`. For one column
  the widths of the two sides agree: what the page composes is as long as the
  INDEX clause says, counted, or the last (`ColumnReads`). The suffix is the
  composed columns in order, so that what is left after a column is the rest of
  them (`WhatIsLeft`), and the reader's state after each column is the values so
  far with that rest (`ReadsRow`).

- **`DumpsStored`: `ConvertSpec => []DefinitionsStored`** (Answers_proofs), for any
  dump, any of whose definitions may lack a line. `DedupeSymbols`' order of two
  definitions is total, lined before unlined, then by line or by section and place
  (`DefinitionsOrdered`), so each name has one first definition
  (`FirstOfName`) and it alone is kept (`Keeps`). Of a clause the primary key lets
  in exactly the first row of each name (`RowsInserted`), and position and row
  order list these as the clause does (`RowsListed`).

Inductions over sequences are made without the library's induction theorems,
which take an operator the provers cannot instantiate: the set of indices up to
which a statement holds is a set, and has them all if it has 0 and, with each
index, the next (`Ascends`). Recursive functions are handled the same way: a
function that satisfies the recursion is exhibited, and whatever `CHOOSE` takes
agrees with it at every index.

Model-checked only, and why:

- `EveryDropProcessed`, `StopCompletes`, `DropTaken`: liveness, outside the
  prover's reach; likewise the findings about liveness.

Three properties are proved under stronger assumptions than they are checked
under: `ServedFromDisk` and `AnswersAreTrue` also with edits of a stopped server's
tree, `NoGhostModules` also with exhausted budgets, each on a small instance.

## Where the code and its comments disagree

Five runs end in a counterexample of the code against its own words; the
findings in `PROJECT.json` quote them.

1. A file rewritten between the hash and the move leaves a fingerprint of the
   old bytes with the stat of the new ones; boot then trusts it.
2. A process that ends between storing a module and rebuilding the trie leaves
   the module out of the browse tree until some other import, since the next
   boot finds every fingerprint in order.
3. Replacing a module in `unsorted/` by a file of the same name files it as
   `name.ext-1`, which the next boot does not walk, and drops the module.
4. A signal that arrives while the loader, the ticker or a timer imports, or just
   before a timer fires, puts the pass's remaining files into `import/failed/`;
   the guard against this is tested once, before the boot rescan.
5. A validation stores the module of an edited file and dies before its
   fingerprint; the operator restores the old bytes. The next validation finds the
   old hash, takes it for a touched file, refreshes the stat and trusts it: the
   other revision is served from then on.

Noted while modelling and kept without a run: a request may be told "pending,
will be processed shortly" of a file another pass has already processed
(upload.go:170); a name poisoned by a deletion stays
poisoned until restart; a compile that runs out of budget during boot removes the
module that a comment says is kept; a module that two files declare stays as the
vanished one had it; a curated file edited into something without the MIB marker
keeps its module. A leftover that cannot be removed from a cross-device intake is
copied to quarantine at every rescan (engine.go:661, 512). A replace whose compile
runs out of budget is told that the file disappeared, though it is still in `import/`
(engine.go:199). mib-migrate plans a module without MODULE-IDENTITY into
`unsorted/` while mib-ingest files it in `ietf/`, though `classify.go` speaks of
one classification for both. standard.go:42-45 says that paths of
the operator are never modified: the mirror overwrites one when a release ships its
path, and removes or overwrites it when a manifest that could not be replaced still
lists it. It also overwrites an operator's *replacement* of a standard file at the next
boot. A death
between `DROP TABLE symbol` and `DELETE FROM source_file` leaves fingerprints
over an empty table, one between the sweep and the deletion of the trie's marker
(store.go:316, 330) a trie with the swept symbols, and an MCP client that opens an old
database beside a running backfill can fail its `Open` or undo what the other has
recorded. An import between the queries of an export can leave a clear without its
raise, which handlers.go:437-440 rules out. A click in the tree that overlaps another
one leaves the list of another scope beside the URL (handlers.go:685-712).
mib-ingest's rename replaces what the server has filed since the last look
(ingest.go:677-687); its list of what is left, "exactly the set the operator needs to
act on" (ingest.go:785), stops at 20 names, and a MIB that cannot be read is skipped with
exit 0 (ingest.go:431-459); its report does not see what the server has filed since
INDEX.yaml was made. A timer's goroutine may use the store after
`Close`, since the WaitGroup does not count it. The MCP tool `lookup_oid`
describes as "nearest known prefix" what lists symbols below the OID.

## What is not modelled

Sidecar error files, outcome rows, the staging directory's sweep; name
validation, size limits and the rendering of the upload API; the goroutines and
pipes of the compile pool (its results come in input order, which Convert and the
engine take as given); recursive watching, which the server does not use; FTS5
and bm25, which are external; views without interaction (home, about, module and
vendor lists, IANA PEN pages) and the templates and wording of all pages and MCP
answers; the masks and XML layout of the event configuration; what
mib-correlate-report prints of Correlate's results. How quarantine grows when an
intake cannot be emptied is not bounded in the code and cut off by the number of
stamps in the model. `WalkText` has the captures snmpwalk prints, with prose and cruft
between lines; a record so mangled that it is skipped while its hexadecimal lines
remain, and are then folded into the entry before it (parser.go:37-52), is not among
them.

## Plan

1. Proofs of `ServedFromDisk` and `NoGhostModules` with edits of a stopped server's
   tree, from a weaker `HashLoaded`.
2. A **CorpusPromise** (a module is served from a file that is present; a drop is
   eventually settled) that `MibImport` implements.
3. **CompilePool**: results in input order through a bounded pool with a
   deadline.

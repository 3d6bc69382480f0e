------------------------------ MODULE Lifecycle ------------------------------
(***************************************************************************)
(* The life of the blittermib process: run starts the HTTP server and the  *)
(* corpusLoader goroutine, which validates the corpus, rescans import/,    *)
(* starts the watcher and the ticker and opens the readiness gate; a       *)
(* signal or a failing listener ends it: drain, join, close the store,     *)
(* exit.  The engine is abstract here: whoever has its mutex takes the     *)
(* files of his batch out of import/ one by one (MibImport has the rest).  *)
(***************************************************************************)
EXTENDS Watcher

CONSTANTS
  ImportOK,   \* bootstrapImportAndStandard could prepare the intake
  Panics,     \* engine calls may panic
  NoRequest,  \* no client waits for the engine
  MaxChanges  \* bound: files dropped or staged in one life of the process

VARIABLES
  phase,      \* where the goroutine of run stands
  loader,     \* where corpusLoader stands
  found,      \* batch the loader or the ticker found in import/
  ticker,     \* the periodic rescan
  ready,      \* the server's readiness gate
  req,        \* an upload or replace request, or NoRequest
  changes,    \* files dropped or staged since the process started
  failed      \* files put into import/failed/ because their context was done

lifeVars == <<phase, loader, found, ticker, ready, req, failed, changes>>
vars == <<live, present, pass, wg, watcherVars, lifeVars>>

Request == [kind: {"upload", "replace"}, f: File, begun: BOOLEAN]

ASSUME LifeAssumption ==
  NoPass \notin Pass /\ NoRequest \notin Request /\ MaxChanges \in Nat

TypeOK ==
  /\ WatcherTypeOK
  /\ live \in BOOLEAN /\ ready \in BOOLEAN
  /\ present \subseteq File /\ failed \subseteq File /\ found \subseteq File
  /\ pass \in Pass \cup {NoPass}
  /\ wg \in 0..3 /\ changes \in 0..MaxChanges
  /\ phase \in {"serving", "draining", "stopping", "joining", "closed", "exited"}
  /\ loader \in {"start", "sync", "synced", "rescan", "spawn", "spawned", "done"}
  /\ ticker \in {"none", "select", "rescan", "done"}
  /\ req \in Request \cup {NoRequest}

Init ==
  /\ WatcherInit
  /\ live = TRUE /\ present \in SUBSET File /\ pass = NoPass /\ wg = 1
  /\ phase = "serving" /\ loader = "start" /\ found = {} /\ ticker = "none"
  /\ ready = FALSE /\ req = NoRequest /\ failed = {} /\ changes = 0

-----------------------------------------------------------------------------
(* The context an engine call was given is done: the loader, the ticker    *)
(* and the timers pass on that of run, the last flush and a request do not.*)
Dead(p) == p.who \in {"boot", "tick", "timer"} /\ ~live

(* One file of the pass leaves import/.  With a dead context its compile   *)
(* fails and it goes to failed/; otherwise it is filed or quarantined on   *)
(* its own account.                                                        *)
PassFile(f) ==
  /\ pass # NoPass /\ f \in pass.todo
  /\ pass' = [pass EXCEPT !.todo = @ \ {f}]
  /\ present' = present \ {f}
  /\ failed' = IF f \in present /\ Dead(pass) THEN failed \cup {f} ELSE failed
  /\ UNCHANGED <<live, wg, watcherVars, phase, loader, found, ticker, ready, req, changes>>

(* Mutant of Return: the ticker's goroutine ends after one rescan. *)
ReturnTickerEnds ==
  /\ loader' = (CASE pass.who = "sync" -> "synced"
                  [] pass.who = "boot" -> "spawn"
                  [] OTHER -> loader)
  /\ ticker' = IF pass.who = "tick" THEN "done" ELSE ticker
  /\ watcher' = IF pass.who = "final" THEN "done" ELSE watcher
  /\ wg' = IF pass.who \in {"tick", "final"} THEN wg - 1 ELSE wg
  /\ req' = IF pass.who \in {"upload", "replace"} THEN NoRequest ELSE req
  /\ pass' = NoPass

(* The call returns to its caller. *)
Return ==
  /\ loader' = (CASE pass.who = "sync" -> "synced"
                  [] pass.who = "boot" -> "spawn"
                  [] OTHER -> loader)
  /\ ticker' = IF pass.who = "tick" THEN "select" ELSE ticker
  /\ watcher' = IF pass.who = "final" THEN "done" ELSE watcher
  /\ wg' = IF pass.who = "final" THEN wg - 1 ELSE wg
  /\ req' = IF pass.who \in {"upload", "replace"} THEN NoRequest ELSE req
  /\ pass' = NoPass

PassEnd ==
  /\ pass # NoPass /\ pass.todo = {}
  /\ Return
  /\ UNCHANGED <<live, present, events, pending, timer, armed, fired, flights,
                 last, phase, found, ready, failed, changes>>

(* A panic inside the engine: the watcher's callback and the middleware    *)
(* recover, so does the loader, which then ends; on the ticker's goroutine *)
(* nobody does and the process dies.                                       *)
PassPanics ==
  /\ Panics /\ pass # NoPass
  /\ IF pass.who = "tick"
     THEN /\ phase' = "exited" /\ pass' = NoPass /\ WatcherReset
          /\ wg' = 0 /\ loader' = "done" /\ ticker' = "none" /\ req' = NoRequest
          /\ ready' = FALSE /\ found' = {}
     ELSE IF pass.who \in {"sync", "boot"}
     THEN /\ loader' = "done" /\ wg' = wg - 1 /\ pass' = NoPass
          /\ UNCHANGED <<watcherVars, phase, found, ticker, ready, req>>
     ELSE /\ Return
          /\ UNCHANGED <<events, pending, timer, armed, fired, flights, last,
                         phase, found, ready>>
  /\ UNCHANGED <<live, present, failed, changes>>

-----------------------------------------------------------------------------
(* Mutant of LoaderSync: the ticker is started before the validation. *)
LoaderSyncLate ==
  /\ loader = "start"
  /\ \/ /\ Acquire("sync", {}) /\ loader' = "sync"
        /\ UNCHANGED <<wg, ticker>>
     \/ /\ ImportOK /\ ticker = "none"
        /\ ticker' = "select" /\ wg' = wg + 1
        /\ UNCHANGED <<pass, loader>>
  /\ UNCHANGED <<live, present, watcherVars, phase, found, ready, req, failed, changes>>

(* SyncCorpus, under the engine mutex. *)
LoaderSync ==
  /\ loader = "start"
  /\ Acquire("sync", {}) /\ loader' = "sync"
  /\ UNCHANGED <<live, present, wg, watcherVars, phase, found, ticker, ready,
                 req, failed, changes>>

(* After the validation: bail out, skip a read-only intake, or list it. *)
LoaderScan ==
  /\ loader = "synced"
  /\ \/ ~live /\ loader' = "done" /\ wg' = wg - 1 /\ UNCHANGED found
     \/ live /\ ~ImportOK /\ loader' = "spawned" /\ UNCHANGED <<wg, found>>
     \/ /\ live /\ ImportOK /\ found' = present
        /\ loader' = IF present = {} THEN "spawn" ELSE "rescan"
        /\ UNCHANGED wg
  /\ UNCHANGED <<live, present, pass, watcherVars, phase, ticker, ready, req, failed, changes>>

LoaderRescan ==
  /\ loader = "rescan" /\ found # {}
  /\ Acquire("boot", found) /\ found' = {}
  /\ UNCHANGED <<live, present, wg, watcherVars, phase, loader, ticker, ready,
                 req, failed, changes>>

(* Mutant of LoaderSpawn: the new goroutines count themselves. *)
LoaderSpawnUncounted ==
  /\ loader = "spawn"
  /\ watcher' = "start" /\ ticker' = "select" /\ wg' = wg + 1
  /\ loader' = "spawned"
  /\ UNCHANGED <<live, present, pass, events, pending, timer, armed, fired,
                 flights, last, phase, found, ready, req, failed, changes>>

(* wg.Add(2), then the watcher and the ticker start. *)
LoaderSpawn ==
  /\ loader = "spawn"
  /\ wg' = wg + 2 /\ watcher' = "start" /\ ticker' = "select"
  /\ loader' = "spawned"
  /\ UNCHANGED <<live, present, pass, events, pending, timer, armed, fired,
                 flights, last, phase, found, ready, req, failed, changes>>

(* SetReady unless shutdown was requested; the loader is done. *)
LoaderReady ==
  /\ loader = "spawned"
  /\ ready' = (ready \/ live)
  /\ loader' = "done" /\ wg' = wg - 1
  /\ UNCHANGED <<live, present, pass, watcherVars, phase, found, ticker, req, failed, changes>>

(* The select of the ticker: a tick may win against ctx.Done. *)
Tick ==
  /\ ticker = "select" /\ present # {} /\ found = {}
  /\ found' = present /\ ticker' = "rescan"
  /\ UNCHANGED <<live, present, pass, wg, watcherVars, phase, loader, ready, req, failed, changes>>

TickImport ==
  /\ ticker = "rescan" /\ found # {}
  /\ Acquire("tick", found) /\ found' = {}
  /\ UNCHANGED <<live, present, wg, watcherVars, phase, loader, ticker, ready,
                 req, failed, changes>>

TickerStop ==
  /\ ticker = "select" /\ ~live
  /\ ticker' = "done" /\ wg' = wg - 1
  /\ UNCHANGED <<live, present, pass, watcherVars, phase, loader, found, ready,
                 req, failed, changes>>

-----------------------------------------------------------------------------
(* SIGINT or SIGTERM. *)
Signal ==
  /\ live /\ phase = "serving" /\ live' = FALSE
  /\ UNCHANGED <<present, pass, wg, watcherVars, lifeVars>>

(* Server.Start: the listener fails, or the context is done and the server *)
(* drains until its handlers have returned or 30 seconds are over.         *)
ServeFails ==
  /\ phase = "serving" /\ phase' = "stopping"
  /\ UNCHANGED <<live, present, pass, wg, watcherVars, loader, found, ticker,
                 ready, req, failed, changes>>

Drain ==
  /\ phase = "serving" /\ ~live /\ phase' = "draining"
  /\ UNCHANGED <<live, present, pass, wg, watcherVars, loader, found, ticker,
                 ready, req, failed, changes>>

(* Shutdown returns: every handler is done, or the drain window is over. *)
Drained ==
  /\ phase = "draining" /\ phase' = "stopping"
  /\ UNCHANGED <<live, present, pass, wg, watcherVars, loader, found, ticker,
                 ready, req, failed, changes>>

(* Mutant of StopAll: a failed listener leaves the context alone. *)
StopAllForgotten ==
  /\ phase = "stopping" /\ phase' = "joining"
  /\ UNCHANGED <<live, present, pass, wg, watcherVars, loader, found, ticker,
                 ready, req, failed, changes>>

(* run after Start: stop(), so that the goroutines end on an error too. *)
StopAll ==
  /\ phase = "stopping" /\ phase' = "joining" /\ live' = FALSE
  /\ UNCHANGED <<present, pass, wg, watcherVars, loader, found, ticker, ready,
                 req, failed, changes>>

(* wg.Wait returns and the deferred Close closes the store. *)
Join ==
  /\ phase = "joining" /\ wg = 0 /\ phase' = "closed"
  /\ UNCHANGED <<live, present, pass, wg, watcherVars, loader, found, ticker,
                 ready, req, failed, changes>>

(* The process exits with whatever still runs in it. *)
Exit ==
  /\ phase = "closed" /\ phase' = "exited"
  /\ pass' = NoPass /\ wg' = 0 /\ WatcherReset
  /\ loader' = "done" /\ found' = {} /\ ticker' = "none" /\ ready' = FALSE
  /\ req' = NoRequest
  /\ UNCHANGED <<live, present, failed, changes>>

(* run once more, up to `go corpusLoader' and Start. *)
Boot ==
  /\ phase = "exited" /\ phase' = "serving"
  /\ live' = TRUE /\ wg' = 1 /\ loader' = "start" /\ ready' = FALSE
  /\ changes' = 0
  /\ UNCHANGED <<present, pass, watcherVars, found, ticker, req, failed>>

-----------------------------------------------------------------------------
(* Somebody copies a file into import/, or writes to one. *)
DropFile(f) ==
  /\ changes < MaxChanges /\ changes' = changes + 1
  /\ present' = present \cup {f} /\ Notify(f)
  /\ UNCHANGED <<live, pass, wg, pending, timer, armed, fired, flights, watcher,
                 last, phase, loader, found, ticker, ready, req, failed>>

(* A request has put its file into import/ and waits for the engine: an    *)
(* upload, refused while the corpus is loading, or the replacement of a    *)
(* quarantined file, which is not.                                         *)
Stage(kind, f) ==
  /\ changes < MaxChanges /\ changes' = changes + 1
  /\ phase = "serving" /\ req = NoRequest /\ f \notin present
  /\ \/ kind = "upload" /\ ready /\ UNCHANGED failed
     \/ kind = "replace" /\ f \in failed /\ failed' = failed \ {f}
  /\ present' = present \cup {f} /\ Notify(f)
  /\ req' = [kind |-> kind, f |-> f, begun |-> FALSE]
  /\ UNCHANGED <<live, pass, wg, pending, timer, armed, fired, flights, watcher,
                 last, phase, loader, found, ticker, ready>>

RequestImport ==
  /\ req # NoRequest /\ ~req.begun
  /\ Acquire(req.kind, {req.f})
  /\ req' = [req EXCEPT !.begun = TRUE]
  /\ UNCHANGED <<live, present, wg, watcherVars, phase, loader, found, ticker,
                 ready, failed, changes>>

Passes == PassEnd \/ \E f \in File : PassFile(f)

Loader == LoaderSync \/ LoaderScan \/ LoaderRescan \/ LoaderSpawn \/ LoaderReady

Watching == WatcherStep /\ UNCHANGED lifeVars

Ending == Drain \/ Drained \/ StopAll \/ Join \/ Exit

System ==
  \/ Passes \/ Loader \/ Watching \/ Ending
  \/ Tick \/ TickImport \/ TickerStop \/ RequestImport

Next ==
  \/ System \/ PassPanics
  \/ Signal \/ ServeFails \/ Boot
  \/ \E f \in File : DropFile(f) \/ Stage("upload", f) \/ Stage("replace", f)

Spec == Init /\ [][Next]_vars

(* The goroutines that can go on do, as a whole: between two changes by    *)
(* its environment the process comes to rest.  A debounce timer goes off   *)
(* as the stream of events pauses for 250 ms.                              *)
Fairness == WF_vars(System)

FairSpec == Spec /\ Fairness

-----------------------------------------------------------------------------
(* When run closes the store, everything it counted has returned: the      *)
(* loader, the watcher with its last flush and the ticker.  Only an engine *)
(* call of a debounce timer or of a request that outlived the drain may    *)
(* still be running (main.go lines 257-260).                               *)
JoinedBeforeClose ==
  phase = "closed" =>
    /\ loader = "done" /\ watcher \in {"none", "done"}
    /\ ticker \in {"none", "done"}
    /\ pass # NoPass => pass.who \in {"timer", "upload", "replace"}

(* Nothing is imported before SyncCorpus has validated the corpus in this  *)
(* process, except a replacement asked for by hand, and the readiness gate *)
(* opens only afterwards (main.go lines 286-291, upload.go lines 91-97).   *)
ValidatedFirst ==
  /\ pass # NoPass /\ pass.who \notin {"sync", "replace"} =>
       loader \notin {"start", "sync"}
  /\ ready => loader = "done"

(* As long as a name is pending, some timer is armed or on its way to      *)
(* flush it, whatever enqueues and stale flushes did to w.timer.           *)
PendingHasTimer == pending # {} => armed + fired > 0

(* Once asked to stop, or with a listener that fails, the process ends: no *)
(* goroutine that is joined runs for ever (main.go lines 265-270).         *)
StopCompletes == ~live \/ phase # "serving" ~> phase = "exited"

(* The periodic rescan takes every file out of import/, also one whose     *)
(* events were lost or dropped with a panicking callback (main.go lines    *)
(* 103-107).                                                               *)
DropTaken ==
  \A f \in File :
    f \in present /\ ticker \in {"select", "rescan"}
      ~> f \notin present \/ phase = "exited"

(* A shutdown puts no intake file into failed/ (main.go lines 329-337).    *)
NothingEaten == failed = {}
=============================================================================

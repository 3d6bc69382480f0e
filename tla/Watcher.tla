------------------------------- MODULE Watcher -------------------------------
(***************************************************************************)
(* watch.Watcher over the flat import/ directory (NewSingle): the event    *)
(* loop of Run, the pending set guarded by w.mu, and the debounce timers,  *)
(* each of which flushes on a goroutine of its own.  A step is what        *)
(* happens under one hold of w.mu or one arm of the select.                *)
(***************************************************************************)
EXTENDS Naturals, Sequences, FiniteSets

CONSTANTS
  File,       \* names of files that can lie in import/
  Relevant,   \* those whose extension Watcher.relevant accepts
  MaxTimers,  \* bound: debounce timers armed or fired at a time
  MaxFlights, \* bound: flushes waiting for the engine at a time
  NoPass      \* nobody holds the engine mutex

ASSUME WatcherAssumption ==
  /\ Relevant \subseteq File
  /\ MaxTimers \in Nat /\ MaxFlights \in Nat

VARIABLES
  live,       \* the context of run (signal.NotifyContext) is not done
  present,    \* files in import/
  pass,       \* engine call that holds e.mu, or NoPass
  wg,         \* the WaitGroup's counter

  events,     \* file events queued in fsnotify
  pending,    \* w.pending
  timer,      \* w.timer: "nil", "armed" or "spent" (fired, or about to)
  armed,      \* timers that have not fired; w.timer is one when "armed"
  fired,      \* timer goroutines on their way to w.mu
  flights,    \* batches timer goroutines wait to hand to the engine
  watcher,    \* the Run goroutine
  last        \* batch of the flush Run makes when its context is done

watcherVars == <<events, pending, timer, armed, fired, flights, watcher, last>>

Who == {"sync", "boot", "tick", "timer", "final", "upload", "replace"}
Pass == [who: Who, todo: SUBSET File]

WatcherTypeOK ==
  /\ events \subseteq File /\ pending \subseteq Relevant
  /\ timer \in {"nil", "armed", "spent"}
  /\ armed \in 0..MaxTimers /\ fired \in 0..MaxTimers
  /\ armed + fired <= MaxTimers /\ (timer = "armed" => armed > 0)
  /\ flights \in Seq((SUBSET Relevant) \ {{}}) /\ Len(flights) <= MaxFlights
  /\ watcher \in {"none", "start", "select", "final", "done"}
  /\ last \subseteq Relevant

WatcherInit ==
  /\ events = {} /\ pending = {} /\ timer = "nil"
  /\ armed = 0 /\ fired = 0 /\ flights = <<>>
  /\ watcher = "none" /\ last = {}

WatcherReset ==
  /\ events' = {} /\ pending' = {} /\ timer' = "nil"
  /\ armed' = 0 /\ fired' = 0 /\ flights' = <<>>
  /\ watcher' = "none" /\ last' = {}

Acquire(who, batch) ==
  /\ pass = NoPass
  /\ pass' = [who |-> who, todo |-> batch]

-----------------------------------------------------------------------------
(* fsnotify: Run registers the directory or gives up. *)
WatchAdd ==
  /\ watcher = "start"
  /\ \/ watcher' = "select" /\ UNCHANGED wg
     \/ watcher' = "done" /\ wg' = wg - 1
  /\ UNCHANGED <<live, present, pass, events, pending, timer, armed, fired,
                 flights, last>>

(* A change of f in import/ is seen only while the directory is watched,   *)
(* and some mounts deliver nothing.                                        *)
Notify(f) ==
  \/ UNCHANGED events
  \/ watcher = "select" /\ events' = events \cup {f}

(* enqueue: remember the name, stop the timer w.timer points to if it can  *)
(* still be stopped, and arm another.                                      *)
Enqueue(f) ==
  /\ pending' = pending \cup {f}
  /\ armed' = (IF timer = "armed" THEN armed ELSE armed + 1)
  /\ timer' = "armed"

(* One event out of the select; the name filter of relevant. *)
WatchEvent(f) ==
  /\ watcher = "select" /\ f \in events
  /\ events' = events \ {f}
  /\ IF f \in Relevant
     THEN timer = "armed" \/ armed + fired < MaxTimers
     ELSE TRUE
  /\ IF f \in Relevant THEN Enqueue(f) ELSE UNCHANGED <<pending, timer, armed>>
  /\ UNCHANGED <<live, present, pass, wg, fired, flights, watcher, last>>

(* An armed timer goes off: the one w.timer points to, or an older one     *)
(* whose pointer a flush has cleared.                                      *)
TimerFires ==
  /\ armed > 0
  /\ armed' = armed - 1 /\ fired' = fired + 1
  /\ \/ timer = "armed" /\ timer' = "spent"
     \/ (timer = "armed" => armed > 1) /\ UNCHANGED timer
  /\ UNCHANGED <<live, present, pass, wg, events, pending, flights, watcher, last>>

(* Mutant of TimerFlush: the names handed over stay pending. *)
TimerFlushKeeps ==
  /\ fired > 0 /\ fired' = fired - 1
  /\ IF pending = {}
     THEN UNCHANGED <<timer, flights>>
     ELSE /\ Len(flights) < MaxFlights
          /\ flights' = Append(flights, pending)
          /\ timer' = "nil"
  /\ UNCHANGED <<live, present, pass, wg, events, pending, armed, watcher, last>>

(* flush on the timer goroutine: take the batch, forget the timer. *)
TimerFlush ==
  /\ fired > 0 /\ fired' = fired - 1
  /\ IF pending = {}
     THEN UNCHANGED <<pending, timer, flights>>
     ELSE /\ Len(flights) < MaxFlights
          /\ flights' = Append(flights, pending)
          /\ pending' = {} /\ timer' = "nil"
  /\ UNCHANGED <<live, present, pass, wg, events, armed, watcher, last>>

(* The timer goroutine's callback gets the engine mutex. *)
FlightBegin(i) ==
  /\ i \in DOMAIN flights
  /\ Acquire("timer", flights[i])
  /\ flights' = SubSeq(flights, 1, i - 1) \o SubSeq(flights, i + 1, Len(flights))
  /\ UNCHANGED <<live, present, wg, events, pending, timer, armed, fired,
                 watcher, last>>

(* ctx.Done: flush under context.Background, then leave the loop. *)
WatchStop ==
  /\ watcher = "select" /\ ~live
  /\ IF pending = {}
     THEN /\ watcher' = "done" /\ wg' = wg - 1
          /\ UNCHANGED <<pending, timer, last>>
     ELSE /\ watcher' = "final" /\ last' = pending
          /\ pending' = {} /\ timer' = "nil"
          /\ UNCHANGED wg
  /\ UNCHANGED <<live, present, pass, events, armed, fired, flights>>

FinalFlush ==
  /\ watcher = "final" /\ last # {}
  /\ Acquire("final", last)
  /\ last' = {}
  /\ UNCHANGED <<live, present, wg, events, pending, timer, armed, fired,
                 flights, watcher>>

WatcherStep ==
  \/ WatchAdd \/ TimerFires \/ TimerFlush \/ WatchStop \/ FinalFlush
  \/ \E f \in File : WatchEvent(f)
  \/ \E i \in 1..MaxFlights : FlightBegin(i)
=============================================================================

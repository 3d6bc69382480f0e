----------------------------- MODULE Process_proofs -----------------------------
(***************************************************************************)
(* Proofs about the process and what it prepares at boot: the WaitGroup    *)
(* counts exactly the goroutines that run joins, nothing imports before    *)
(* the corpus has been validated, and a pending name always has a timer;   *)
(* the mirror of the standard corpus spares what operators filed; a served *)
(* database has the rows its fingerprints promise.                         *)
(***************************************************************************)
EXTENDS MCProcess, SequenceTheorems, TLAPS

-----------------------------------------------------------------------------
(* The life of the process. *)
USE WatcherAssumption, LifeAssumption

One(b) == IF b THEN 1 ELSE 0
LoaderRuns == loader # "done"
WatcherRuns == watcher \in {"start", "select", "final"}
TickerRuns == ticker \in {"select", "rescan"}

(* The counter is the number of goroutines that have not returned. *)
Counted == wg = One(LoaderRuns) + One(WatcherRuns) + One(TickerRuns)

(* Whoever has the engine mutex is inside the call. *)
Holding ==
  pass # NoPass =>
    /\ pass.who = "sync" => loader = "sync"
    /\ pass.who = "boot" => loader = "rescan"
    /\ pass.who = "tick" => ticker = "rescan"
    /\ pass.who = "final" => watcher = "final"
    /\ pass.who \in {"timer", "upload"} => loader \notin {"start", "sync"}

(* The loader starts the watcher and the ticker and opens the gate last. *)
Started ==
  /\ watcher # "none" \/ ticker # "none" => loader \in {"spawned", "done"}
  /\ watcher = "none" => flights = <<>> /\ pending = {} /\ armed = 0 /\ fired = 0
  /\ ready => loader = "done"
  /\ req # NoRequest /\ req.kind = "upload" => loader = "done"

Ended ==
  /\ phase = "closed" => wg = 0
  /\ phase = "exited" => /\ wg = 0 /\ watcher = "none" /\ ticker = "none" /\ loader = "done"
                         /\ pass = NoPass /\ req = NoRequest

LifeInv == TypeOK /\ PendingHasTimer /\ Counted /\ Holding /\ Started /\ Ended

LEMMA OneIsNat == \A b \in BOOLEAN : One(b) \in 0..1 /\ (b => One(b) = 1) /\ (~b => One(b) = 0)
BY DEF One

LEMMA SumPositive == \A a, b \in Nat : a > 0 => a + b > 0
OBVIOUS

(* The number of joined goroutines and their states. *)
LEMMA CountedZero ==
  ASSUME Counted, wg = 0
  PROVE  ~LoaderRuns /\ ~WatcherRuns /\ ~TickerRuns
<1>1. LoaderRuns \in BOOLEAN /\ WatcherRuns \in BOOLEAN /\ TickerRuns \in BOOLEAN
  BY DEF LoaderRuns, WatcherRuns, TickerRuns
<1> QED BY <1>1, OneIsNat DEF Counted

LEMMA LifeInitInv == Init => LifeInv
<1> SUFFICES ASSUME Init PROVE LifeInv OBVIOUS
<1>1. <<>> \in Seq((SUBSET Relevant) \ {{}}) /\ Len(<<>>) = 0 OBVIOUS
<1>2. WatcherTypeOK
  BY <1>1 DEF Init, WatcherInit, WatcherTypeOK
<1>5. wg \in 0..3 /\ changes \in 0..MaxChanges
  BY DEF Init
<1>4. TypeOK
  BY <1>2, <1>5 DEF Init, TypeOK
<1>3. Counted
  BY DEF Init, WatcherInit, Counted, One, LoaderRuns, WatcherRuns, TickerRuns
<1> QED BY <1>4, <1>3 DEF Init, WatcherInit, LifeInv, PendingHasTimer, Holding, Started, Ended

-----------------------------------------------------------------------------
(* The watcher. *)
LEMMA WatchAddStep == ASSUME LifeInv, WatchAdd, UNCHANGED lifeVars PROVE LifeInv'
<1>5. watcher = "start" /\ wg \in 1..3 /\ wg' \in {wg, wg - 1} /\ watcher' \in {"select", "done"}
  BY CountedZero DEF LifeInv, TypeOK, WatchAdd, WatcherRuns
<1>1. TypeOK'
  BY <1>5 DEF LifeInv, TypeOK, WatcherTypeOK, WatchAdd, lifeVars
<1>2. Counted'
  BY DEF LifeInv, TypeOK, WatchAdd, lifeVars, Counted, One, WatcherRuns, LoaderRuns, TickerRuns
<1>3. Started' /\ PendingHasTimer' /\ Holding'
  BY DEF LifeInv, WatchAdd, lifeVars, Started, PendingHasTimer, Holding
<1>4. Ended'
  BY CountedZero DEF LifeInv, WatchAdd, lifeVars, Ended, WatcherRuns
<1> QED BY <1>1, <1>2, <1>3, <1>4 DEF LifeInv

LEMMA WatchEventStep == ASSUME LifeInv, NEW f \in File, WatchEvent(f), UNCHANGED lifeVars PROVE LifeInv'
<1>1. /\ UNCHANGED <<live, present, pass, wg, fired, flights, watcher, last, lifeVars>>
      /\ watcher = "select" /\ events' \subseteq File
  BY DEF LifeInv, TypeOK, WatcherTypeOK, WatchEvent
<1>2. CASE f \in Relevant
  <2>1. /\ pending' = pending \cup {f} /\ timer' = "armed"
        /\ armed' = (IF timer = "armed" THEN armed ELSE armed + 1)
        /\ timer = "armed" \/ armed + fired < MaxTimers
    BY <1>2 DEF WatchEvent, Enqueue
  <2>2. WatcherTypeOK' /\ armed' > 0
    BY <1>1, <1>2, <2>1 DEF LifeInv, TypeOK, WatcherTypeOK
  <2>3. PendingHasTimer'
    <3>1. armed' \in Nat /\ fired' \in Nat BY <2>2 DEF WatcherTypeOK
    <3>2. armed' > 0 BY <2>2
    <3>3. armed' + fired' > 0 BY <3>1, <3>2, SumPositive
    <3> QED BY <3>3 DEF PendingHasTimer
  <2> QED BY <1>1, <2>2, <2>3 DEF LifeInv, TypeOK, Counted, WatcherRuns, LoaderRuns, TickerRuns,
             Holding, Started, Ended, lifeVars
<1>3. CASE f \notin Relevant
  <2>1. UNCHANGED <<pending, timer, armed>> BY <1>3 DEF WatchEvent
  <2> QED BY <1>1, <2>1 DEF LifeInv, TypeOK, WatcherTypeOK, PendingHasTimer, Counted, WatcherRuns,
             LoaderRuns, TickerRuns, Holding, Started, Ended, lifeVars
<1> QED BY <1>2, <1>3

LEMMA TimerFiresStep == ASSUME LifeInv, TimerFires, UNCHANGED lifeVars PROVE LifeInv'
<1>1. TypeOK'
  BY DEF LifeInv, TypeOK, WatcherTypeOK, TimerFires, lifeVars
<1>2. PendingHasTimer' /\ Started'
  BY DEF LifeInv, TypeOK, WatcherTypeOK, TimerFires, lifeVars, PendingHasTimer, Started
<1> QED BY <1>1, <1>2 DEF LifeInv, TimerFires, Counted, WatcherRuns, LoaderRuns, TickerRuns,
           Holding, Ended, lifeVars

LEMMA TimerFlushStep == ASSUME LifeInv, TimerFlush, UNCHANGED lifeVars PROVE LifeInv'
<1>1. /\ UNCHANGED <<live, present, pass, wg, events, armed, watcher, last, lifeVars>>
      /\ fired > 0 /\ fired' = fired - 1
  BY DEF TimerFlush
<1>2. CASE pending = {}
  <2>1. UNCHANGED <<pending, timer, flights>> BY <1>2 DEF TimerFlush
  <2> QED BY <1>1, <1>2, <2>1 DEF LifeInv, TypeOK, WatcherTypeOK, PendingHasTimer, Counted, WatcherRuns,
             LoaderRuns, TickerRuns, Holding, Started, Ended, lifeVars
<1>3. CASE pending # {}
  <2>1. /\ Len(flights) < MaxFlights /\ flights' = Append(flights, pending)
        /\ pending' = {} /\ timer' = "nil"
    BY <1>3 DEF TimerFlush
  <2>2. flights' \in Seq((SUBSET Relevant) \ {{}}) /\ Len(flights') <= MaxFlights
    <3>1. pending \in (SUBSET Relevant) \ {{}} /\ flights \in Seq((SUBSET Relevant) \ {{}})
      BY <1>3 DEF LifeInv, TypeOK, WatcherTypeOK
    <3>2. /\ Append(flights, pending) \in Seq((SUBSET Relevant) \ {{}})
          /\ Len(Append(flights, pending)) = Len(flights) + 1
      BY <3>1, AppendProperties
    <3>3. Len(flights) \in Nat BY <3>1, LenProperties
    <3> QED BY <2>1, <3>2, <3>3
  <2>3. TypeOK'
    BY <1>1, <2>1, <2>2 DEF LifeInv, TypeOK, WatcherTypeOK, lifeVars
  <2>4. watcher # "none"
    BY <1>1 DEF LifeInv, TypeOK, WatcherTypeOK, Started
  <2> QED BY <1>1, <2>1, <2>3, <2>4 DEF LifeInv, PendingHasTimer, Counted, WatcherRuns,
             LoaderRuns, TickerRuns, Holding, Started, Ended, lifeVars
<1> QED BY <1>2, <1>3

(* Taking one batch out of the queue leaves a shorter queue of batches. *)
LEMMA WithoutOne ==
  ASSUME NEW S, NEW s \in Seq(S), NEW i \in DOMAIN s
  PROVE  LET t == SubSeq(s, 1, i - 1) \o SubSeq(s, i + 1, Len(s))
         IN t \in Seq(S) /\ Len(t) <= Len(s)
<1>1. Len(s) \in Nat /\ i \in 1..Len(s) BY LenProperties
<1>2. /\ SubSeq(s, 1, i - 1) \in Seq(S) /\ Len(SubSeq(s, 1, i - 1)) = i - 1
  BY <1>1, SubSeqProperties
<1>3. /\ SubSeq(s, i + 1, Len(s)) \in Seq(S) /\ Len(SubSeq(s, i + 1, Len(s))) = Len(s) - i
  BY <1>1, SubSeqProperties
<1> QED BY <1>1, <1>2, <1>3, ConcatProperties

LEMMA FlightBeginStep == ASSUME LifeInv, NEW i, FlightBegin(i), UNCHANGED lifeVars PROVE LifeInv'
<1>1. /\ UNCHANGED <<live, present, wg, events, pending, timer, armed, fired, watcher, last, lifeVars>>
      /\ pass = NoPass /\ pass' = [who |-> "timer", todo |-> flights[i]] /\ i \in DOMAIN flights
      /\ flights' = SubSeq(flights, 1, i - 1) \o SubSeq(flights, i + 1, Len(flights))
  BY DEF FlightBegin, Acquire
<1>2. flights \in Seq((SUBSET Relevant) \ {{}}) /\ Len(flights) <= MaxFlights
  BY DEF LifeInv, TypeOK, WatcherTypeOK
<1>3. flights' \in Seq((SUBSET Relevant) \ {{}}) /\ Len(flights') <= MaxFlights
  <2>1. Len(flights) \in Nat BY <1>2, LenProperties
  <2>2. /\ flights' \in Seq((SUBSET Relevant) \ {{}}) /\ Len(flights') <= Len(flights)
    BY <1>1, <1>2, WithoutOne
  <2>3. Len(flights') \in Nat BY <2>2, LenProperties
  <2> QED BY <1>2, <2>1, <2>2, <2>3
<1>4. flights[i] \in SUBSET Relevant
  <2>1. flights \in [1..Len(flights) -> (SUBSET Relevant) \ {{}}] BY <1>2, LenProperties
  <2> QED BY <1>1, <2>1
<1>5. pass' \in Pass
  BY <1>1, <1>4 DEF Pass, Who
<1>6. TypeOK'
  BY <1>1, <1>3, <1>5 DEF LifeInv, TypeOK, WatcherTypeOK, lifeVars
<1>7. watcher # "none"
  <2> SUFFICES ASSUME flights = <<>> PROVE FALSE BY DEF LifeInv, Started
  <2> QED BY <1>1, <1>2, LenProperties, EmptySeq
<1>8. loader \in {"spawned", "done"} BY <1>7 DEF LifeInv, Started
<1>9. pass'.who = "timer" BY <1>1
<1>10. Holding' BY <1>1, <1>8, <1>9 DEF Holding, lifeVars
<1>11. phase # "exited" BY <1>7 DEF LifeInv, Ended
<1> QED BY <1>1, <1>6, <1>7, <1>10, <1>11 DEF LifeInv, PendingHasTimer, Counted, WatcherRuns,
           LoaderRuns, TickerRuns, Started, Ended, lifeVars

LEMMA WatchStopStep == ASSUME LifeInv, WatchStop, UNCHANGED lifeVars PROVE LifeInv'
<1>1. /\ UNCHANGED <<live, present, pass, events, armed, fired, flights, lifeVars>>
      /\ watcher = "select"
  BY DEF WatchStop
<1>2. phase \notin {"closed", "exited"} /\ wg > 0
  BY CountedZero, <1>1 DEF LifeInv, TypeOK, Ended, WatcherRuns
<1>3. CASE pending = {}
  <2>1. watcher' = "done" /\ wg' = wg - 1 /\ UNCHANGED <<pending, timer, last>>
    BY <1>3 DEF WatchStop
  <2>2. TypeOK' BY <1>1, <1>2, <2>1 DEF LifeInv, TypeOK, WatcherTypeOK, lifeVars
  <2>3. Counted' BY <1>1, <2>1 DEF LifeInv, TypeOK, Counted, One, WatcherRuns, LoaderRuns, TickerRuns, lifeVars
  <2> QED BY <1>1, <1>2, <2>1, <2>2, <2>3 DEF LifeInv, PendingHasTimer, Holding, Started, Ended, lifeVars
<1>4. CASE pending # {}
  <2>1. watcher' = "final" /\ last' = pending /\ pending' = {} /\ timer' = "nil" /\ UNCHANGED wg
    BY <1>4 DEF WatchStop
  <2>2. TypeOK' BY <1>1, <2>1 DEF LifeInv, TypeOK, WatcherTypeOK, lifeVars
  <2>3. Counted' BY <1>1, <2>1 DEF LifeInv, TypeOK, Counted, One, WatcherRuns, LoaderRuns, TickerRuns, lifeVars
  <2> QED BY <1>1, <1>2, <2>1, <2>2, <2>3 DEF LifeInv, PendingHasTimer, Holding, Started, Ended, lifeVars
<1> QED BY <1>3, <1>4

LEMMA FinalFlushStep == ASSUME LifeInv, FinalFlush, UNCHANGED lifeVars PROVE LifeInv'
<1>1. /\ UNCHANGED <<live, present, wg, events, pending, timer, armed, fired, flights, watcher, lifeVars>>
      /\ watcher = "final" /\ pass' = [who |-> "final", todo |-> last] /\ last' = {} /\ last \subseteq File
  BY DEF FinalFlush, Acquire, LifeInv, TypeOK, WatcherTypeOK
<1>2. pass' \in Pass /\ pass'.who = "final" BY <1>1 DEF Pass, Who
<1>3. phase # "exited" BY <1>1 DEF LifeInv, Ended
<1>4. TypeOK' BY <1>1, <1>2 DEF LifeInv, TypeOK, WatcherTypeOK, lifeVars
<1> QED BY <1>1, <1>2, <1>3, <1>4 DEF LifeInv, PendingHasTimer, Counted, WatcherRuns, LoaderRuns, TickerRuns,
           Holding, Started, Ended, lifeVars

-----------------------------------------------------------------------------
(* Engine calls. *)
LEMMA PassFileStep == ASSUME LifeInv, NEW f \in File, PassFile(f) PROVE LifeInv'
<1>1. /\ pass \in Pass /\ pass' = [pass EXCEPT !.todo = @ \ {f}]
      /\ UNCHANGED <<live, wg, watcherVars, phase, loader, found, ticker, ready, req, changes>>
  BY DEF PassFile, LifeInv, TypeOK
<1>2. pass' \in Pass /\ pass'.who = pass.who
  BY <1>1 DEF Pass
<1>3. present' \subseteq File /\ failed' \subseteq File
  BY DEF PassFile, LifeInv, TypeOK
<1>4. WatcherTypeOK' BY <1>1 DEF LifeInv, TypeOK, WatcherTypeOK, watcherVars
<1>5. TypeOK' BY <1>1, <1>2, <1>3, <1>4 DEF LifeInv, TypeOK
<1>6. pass # NoPass BY DEF PassFile
<1>7. Holding' BY <1>1, <1>2, <1>6 DEF LifeInv, Holding, watcherVars
<1>8. Ended' BY <1>1, <1>6 DEF LifeInv, Ended, watcherVars
<1> QED BY <1>1, <1>5, <1>7, <1>8 DEF LifeInv, PendingHasTimer, Counted, WatcherRuns, LoaderRuns, TickerRuns,
           Started, watcherVars

(* What the return of a call does to the goroutine that made it. *)
LEMMA ReturnStep ==
  ASSUME LifeInv, pass # NoPass, Return,
         UNCHANGED <<live, present, events, pending, timer, armed, fired, flights, last,
                     phase, found, ready, failed, changes>>
  PROVE  LifeInv'
<1>1. /\ pass \in Pass /\ pass' = NoPass /\ pass.who \in Who
  BY DEF Return, LifeInv, TypeOK, Pass
<1>2. /\ pass.who = "sync" => loader = "sync" /\ loader' = "synced" /\ UNCHANGED <<ticker, watcher, wg, req>>
      /\ pass.who = "boot" => loader = "rescan" /\ loader' = "spawn" /\ UNCHANGED <<ticker, watcher, wg, req>>
      /\ pass.who = "tick" => ticker = "rescan" /\ ticker' = "select" /\ UNCHANGED <<loader, watcher, wg, req>>
      /\ pass.who = "final" => /\ watcher = "final" /\ watcher' = "done" /\ wg' = wg - 1
                               /\ UNCHANGED <<loader, ticker, req>>
      /\ pass.who = "timer" => UNCHANGED <<loader, ticker, watcher, wg, req>>
      /\ pass.who \in {"upload", "replace"} => req' = NoRequest /\ UNCHANGED <<loader, ticker, watcher, wg>>
  <2>1. /\ pass.who = "sync" => loader' = "synced"
        /\ pass.who = "boot" => loader' = "spawn"
        /\ pass.who \notin {"sync", "boot"} => loader' = loader
    BY Zenon DEF Return
  <2>2. /\ ticker' = IF pass.who = "tick" THEN "select" ELSE ticker
        /\ watcher' = IF pass.who = "final" THEN "done" ELSE watcher
        /\ wg' = IF pass.who = "final" THEN wg - 1 ELSE wg
        /\ req' = IF pass.who \in {"upload", "replace"} THEN NoRequest ELSE req
    BY DEF Return
  <2> QED BY <2>1, <2>2 DEF LifeInv, Holding
<1>3. phase # "exited" /\ (pass.who \in {"sync", "boot", "tick", "final"} => wg > 0 /\ phase # "closed")
  <2>1. phase # "exited" BY DEF LifeInv, Ended
  <2>2. ASSUME pass.who \in {"sync", "boot", "tick", "final"} PROVE wg # 0
    <3>1. LoaderRuns \/ WatcherRuns \/ TickerRuns
      BY <1>2, <2>2 DEF LoaderRuns, WatcherRuns, TickerRuns
    <3> QED BY <3>1, CountedZero DEF LifeInv
  <2> QED BY <2>1, <2>2 DEF LifeInv, TypeOK, Ended
<1>4. TypeOK'
  <2>1. wg' \in 0..3 BY <1>1, <1>2, <1>3 DEF LifeInv, TypeOK, Who
  <2>2. /\ loader' \in {loader, "synced", "spawn"} /\ ticker' \in {ticker, "select"}
        /\ watcher' \in {watcher, "done"} /\ req' \in {req, NoRequest}
    BY <1>1, <1>2 DEF Who
  <2>3. WatcherTypeOK' BY <2>2 DEF LifeInv, TypeOK, WatcherTypeOK
  <2> QED BY <1>1, <2>1, <2>2, <2>3 DEF LifeInv, TypeOK
<1>5. Counted'
  BY <1>1, <1>2 DEF LifeInv, TypeOK, Who, Counted, One, LoaderRuns, WatcherRuns, TickerRuns
<1>6. Started'
  BY <1>1, <1>2 DEF LifeInv, Started, Who
<1>7. Ended'
  BY <1>1, <1>2, <1>3 DEF LifeInv, Ended, Who
<1> QED BY <1>1, <1>4, <1>5, <1>6, <1>7 DEF LifeInv, PendingHasTimer, Holding

LEMMA PassEndStep == ASSUME LifeInv, PassEnd PROVE LifeInv'
BY ReturnStep DEF PassEnd

LEMMA ResetFacts ==
  ASSUME WatcherReset
  PROVE  /\ WatcherTypeOK' /\ PendingHasTimer'
         /\ pending' = {} /\ flights' = <<>> /\ armed' = 0 /\ fired' = 0 /\ watcher' = "none"
<1>1. <<>> \in Seq((SUBSET Relevant) \ {{}}) /\ Len(<<>>) = 0 OBVIOUS
<1> QED BY <1>1 DEF WatcherReset, WatcherTypeOK, PendingHasTimer

(* The process ends: everything of it is gone. *)
LEMMA GoneStep ==
  ASSUME LifeInv, WatcherReset, phase' = "exited", pass' = NoPass, wg' = 0, loader' = "done",
         ticker' = "none", req' = NoRequest, ready' = FALSE, found' = {},
         UNCHANGED <<live, present, failed, changes>>
  PROVE  LifeInv'
<1>3. wg' \in 0..3 /\ changes' \in 0..MaxChanges BY DEF LifeInv, TypeOK
<1>4. WatcherTypeOK' BY ResetFacts
<1>1. TypeOK' BY <1>3, <1>4 DEF LifeInv, TypeOK
<1>2. Counted' BY ResetFacts DEF Counted, One, LoaderRuns, WatcherRuns, TickerRuns
<1> QED BY <1>1, <1>2, ResetFacts DEF LifeInv, Holding, Started, Ended

LEMMA PassPanicsStep == ASSUME LifeInv, PassPanics PROVE LifeInv'
<1>1. pass # NoPass /\ UNCHANGED <<live, present, failed, changes>> BY DEF PassPanics
<1>2. CASE pass.who = "tick"
  BY <1>1, <1>2, GoneStep DEF PassPanics
<1>3. CASE pass.who \in {"sync", "boot"}
  <2>1. /\ loader' = "done" /\ wg' = wg - 1 /\ pass' = NoPass
        /\ UNCHANGED <<watcherVars, phase, found, ticker, ready, req>>
    BY <1>3 DEF PassPanics
  <2>2. loader # "done" BY <1>1, <1>3 DEF LifeInv, Holding
  <2>3. wg > 0 /\ phase \notin {"closed", "exited"}
    BY <2>2, CountedZero DEF LifeInv, TypeOK, Ended, LoaderRuns
  <2>4. WatcherTypeOK' BY <2>1 DEF LifeInv, TypeOK, WatcherTypeOK, watcherVars
  <2>5. TypeOK' BY <1>1, <2>1, <2>3, <2>4 DEF LifeInv, TypeOK
  <2>6. Counted' BY <2>1, <2>2 DEF LifeInv, TypeOK, Counted, One, LoaderRuns, WatcherRuns, TickerRuns, watcherVars
  <2> QED BY <2>1, <2>3, <2>5, <2>6 DEF LifeInv, PendingHasTimer, Holding, Started, Ended, watcherVars
<1>4. CASE pass.who \notin {"tick", "sync", "boot"}
  BY <1>1, <1>4, ReturnStep DEF PassPanics
<1> QED BY <1>2, <1>3, <1>4

-----------------------------------------------------------------------------
(* The loader, the ticker and the end. *)
LEMMA LoaderSyncStep == ASSUME LifeInv, LoaderSync PROVE LifeInv'
<1>1. /\ UNCHANGED <<live, present, wg, watcherVars, phase, found, ticker, ready, req, failed, changes>>
      /\ loader = "start" /\ loader' = "sync" /\ pass' = [who |-> "sync", todo |-> {}]
  BY DEF LoaderSync, Acquire
<1>2. pass' \in Pass /\ pass'.who = "sync" BY <1>1 DEF Pass, Who
<1>3. WatcherTypeOK' BY <1>1 DEF LifeInv, TypeOK, WatcherTypeOK, watcherVars
<1>4. TypeOK' BY <1>1, <1>2, <1>3 DEF LifeInv, TypeOK
<1> QED BY <1>1, <1>2, <1>4 DEF LifeInv, PendingHasTimer, Counted, WatcherRuns, LoaderRuns, TickerRuns,
           Holding, Started, Ended, watcherVars

LEMMA LoaderScanStep == ASSUME LifeInv, LoaderScan PROVE LifeInv'
<1>1. /\ UNCHANGED <<live, present, pass, watcherVars, phase, ticker, ready, req, failed, changes>>
      /\ loader = "synced" /\ found' \subseteq File
      /\ \/ loader' = "done" /\ wg' = wg - 1
         \/ loader' \in {"spawned", "spawn", "rescan"} /\ wg' = wg
  BY DEF LoaderScan, LifeInv, TypeOK
<1>2. wg > 0 /\ phase \notin {"closed", "exited"}
  BY <1>1, CountedZero DEF LifeInv, TypeOK, Ended, LoaderRuns
<1>3. WatcherTypeOK' BY <1>1 DEF LifeInv, TypeOK, WatcherTypeOK, watcherVars
<1>4. TypeOK' BY <1>1, <1>2, <1>3 DEF LifeInv, TypeOK
<1>5. Counted' BY <1>1 DEF LifeInv, TypeOK, Counted, One, LoaderRuns, WatcherRuns, TickerRuns, watcherVars
<1>6. Holding' BY <1>1 DEF LifeInv, Holding, watcherVars
<1> QED BY <1>1, <1>2, <1>4, <1>5, <1>6 DEF LifeInv, PendingHasTimer, Started, Ended, watcherVars

LEMMA LoaderRescanStep == ASSUME LifeInv, LoaderRescan PROVE LifeInv'
<1>1. /\ UNCHANGED <<live, present, wg, watcherVars, phase, loader, ticker, ready, req, failed, changes>>
      /\ loader = "rescan" /\ pass' = [who |-> "boot", todo |-> found] /\ found' = {} /\ found \subseteq File
  BY DEF LoaderRescan, Acquire, LifeInv, TypeOK
<1>2. pass' \in Pass /\ pass'.who = "boot" BY <1>1 DEF Pass, Who
<1>3. WatcherTypeOK' BY <1>1 DEF LifeInv, TypeOK, WatcherTypeOK, watcherVars
<1>4. TypeOK' BY <1>1, <1>2, <1>3 DEF LifeInv, TypeOK
<1> QED BY <1>1, <1>2, <1>4 DEF LifeInv, PendingHasTimer, Counted, WatcherRuns, LoaderRuns, TickerRuns,
           Holding, Started, Ended, watcherVars

LEMMA LoaderSpawnStep == ASSUME LifeInv, LoaderSpawn PROVE LifeInv'
<1>1. /\ loader = "spawn" /\ loader' = "spawned" /\ wg' = wg + 2 /\ watcher' = "start" /\ ticker' = "select"
      /\ UNCHANGED <<live, present, pass, events, pending, timer, armed, fired, flights, last, phase, found,
                     ready, req, failed, changes>>
  BY DEF LoaderSpawn
<1>2. watcher = "none" /\ ticker = "none" BY <1>1 DEF LifeInv, Started
<1>3. wg = 1 BY <1>1, <1>2 DEF LifeInv, Counted, One, LoaderRuns, WatcherRuns, TickerRuns
<1>4. phase \notin {"closed", "exited"} BY <1>1, <1>3 DEF LifeInv, Ended
<1>5. WatcherTypeOK' BY <1>1 DEF LifeInv, TypeOK, WatcherTypeOK
<1>6. TypeOK' BY <1>1, <1>3, <1>5 DEF LifeInv, TypeOK
<1>7. Counted' BY <1>1, <1>3 DEF Counted, One, LoaderRuns, WatcherRuns, TickerRuns
<1>8. Holding' BY <1>1, <1>2 DEF LifeInv, Holding
<1> QED BY <1>1, <1>4, <1>6, <1>7, <1>8 DEF LifeInv, PendingHasTimer, Started, Ended

LEMMA LoaderReadyStep == ASSUME LifeInv, LoaderReady PROVE LifeInv'
<1>1. /\ loader = "spawned" /\ loader' = "done" /\ wg' = wg - 1 /\ ready' \in BOOLEAN
      /\ UNCHANGED <<live, present, pass, watcherVars, phase, found, ticker, req, failed, changes>>
  <2>1. (ready \/ live) \in BOOLEAN OBVIOUS
  <2> QED BY <2>1 DEF LoaderReady
<1>2. wg > 0 /\ phase \notin {"closed", "exited"}
  BY <1>1, CountedZero DEF LifeInv, TypeOK, Ended, LoaderRuns
<1>3. WatcherTypeOK' BY <1>1 DEF LifeInv, TypeOK, WatcherTypeOK, watcherVars
<1>4. TypeOK' BY <1>1, <1>2, <1>3 DEF LifeInv, TypeOK
<1>5. Counted' BY <1>1 DEF LifeInv, TypeOK, Counted, One, LoaderRuns, WatcherRuns, TickerRuns, watcherVars
<1>6. Holding' BY <1>1 DEF LifeInv, Holding, watcherVars
<1> QED BY <1>1, <1>2, <1>4, <1>5, <1>6 DEF LifeInv, PendingHasTimer, Started, Ended, watcherVars

LEMMA TickStep == ASSUME LifeInv, Tick PROVE LifeInv'
<1>1. /\ UNCHANGED <<live, present, pass, wg, watcherVars, phase, loader, ready, req, failed, changes>>
      /\ ticker = "select" /\ ticker' = "rescan" /\ found' = present
  BY DEF Tick
<1>2. phase # "exited" BY <1>1 DEF LifeInv, Ended
<1>3. WatcherTypeOK' BY <1>1 DEF LifeInv, TypeOK, WatcherTypeOK, watcherVars
<1>4. TypeOK' BY <1>1, <1>3 DEF LifeInv, TypeOK
<1>5. Counted' BY <1>1 DEF LifeInv, Counted, One, LoaderRuns, WatcherRuns, TickerRuns, watcherVars
<1> QED BY <1>1, <1>2, <1>4, <1>5 DEF LifeInv, PendingHasTimer, Holding, Started, Ended, watcherVars

LEMMA TickImportStep == ASSUME LifeInv, TickImport PROVE LifeInv'
<1>1. /\ UNCHANGED <<live, present, wg, watcherVars, phase, loader, ticker, ready, req, failed, changes>>
      /\ ticker = "rescan" /\ pass' = [who |-> "tick", todo |-> found] /\ found' = {} /\ found \subseteq File
  BY DEF TickImport, Acquire, LifeInv, TypeOK
<1>2. pass' \in Pass /\ pass'.who = "tick" BY <1>1 DEF Pass, Who
<1>3. phase # "exited" BY <1>1 DEF LifeInv, Ended
<1>4. WatcherTypeOK' BY <1>1 DEF LifeInv, TypeOK, WatcherTypeOK, watcherVars
<1>5. TypeOK' BY <1>1, <1>2, <1>4 DEF LifeInv, TypeOK
<1> QED BY <1>1, <1>2, <1>3, <1>5 DEF LifeInv, PendingHasTimer, Counted, WatcherRuns, LoaderRuns, TickerRuns,
           Holding, Started, Ended, watcherVars

LEMMA TickerStopStep == ASSUME LifeInv, TickerStop PROVE LifeInv'
<1>1. /\ ticker = "select" /\ ticker' = "done" /\ wg' = wg - 1
      /\ UNCHANGED <<live, present, pass, watcherVars, phase, loader, found, ready, req, failed, changes>>
  BY DEF TickerStop
<1>2. wg > 0 /\ phase \notin {"closed", "exited"}
  BY <1>1, CountedZero DEF LifeInv, TypeOK, Ended, TickerRuns
<1>3. WatcherTypeOK' BY <1>1 DEF LifeInv, TypeOK, WatcherTypeOK, watcherVars
<1>4. TypeOK' BY <1>1, <1>2, <1>3 DEF LifeInv, TypeOK
<1>5. Counted' BY <1>1 DEF LifeInv, TypeOK, Counted, One, LoaderRuns, WatcherRuns, TickerRuns, watcherVars
<1>6. Holding' BY <1>1 DEF LifeInv, Holding, watcherVars
<1>7. Started' BY <1>1 DEF LifeInv, Started, watcherVars
<1> QED BY <1>1, <1>2, <1>4, <1>5, <1>6, <1>7 DEF LifeInv, PendingHasTimer, Ended, watcherVars

(* Signal, ServeFails, Drain, Drained and StopAll only move the goroutine  *)
(* of run.                                                                 *)
LEMMA PhaseStep ==
  ASSUME LifeInv, live' \in BOOLEAN, phase # "exited", phase # "closed",
         phase' \in {"serving", "draining", "stopping", "joining"} \/ (phase' = "closed" /\ wg = 0),
         UNCHANGED <<present, pass, wg, watcherVars, loader, found, ticker, ready, req, failed, changes>>
  PROVE  LifeInv'
<1>1. WatcherTypeOK' BY DEF LifeInv, TypeOK, WatcherTypeOK, watcherVars
<1>2. TypeOK' BY <1>1 DEF LifeInv, TypeOK
<1> QED BY <1>2 DEF LifeInv, PendingHasTimer, Counted, WatcherRuns, LoaderRuns, TickerRuns,
           Holding, Started, Ended, watcherVars

LEMMA SignalStep == ASSUME LifeInv, Signal PROVE LifeInv'
BY PhaseStep DEF Signal, lifeVars
LEMMA ServeFailsStep == ASSUME LifeInv, ServeFails PROVE LifeInv'
BY PhaseStep DEF ServeFails, LifeInv, TypeOK
LEMMA EndingStep == ASSUME LifeInv, Ending PROVE LifeInv'
<1>1. CASE Drain BY <1>1, PhaseStep DEF Drain, LifeInv, TypeOK
<1>2. CASE Drained BY <1>2, PhaseStep DEF Drained, LifeInv, TypeOK
<1>3. CASE StopAll BY <1>3, PhaseStep DEF StopAll, LifeInv, TypeOK
<1>4. CASE Join BY <1>4, PhaseStep DEF Join, LifeInv, TypeOK
<1>5. CASE Exit BY <1>5, GoneStep DEF Exit
<1> QED BY <1>1, <1>2, <1>3, <1>4, <1>5 DEF Ending

LEMMA BootStep == ASSUME LifeInv, Boot PROVE LifeInv'
<1>1. /\ phase = "exited" /\ phase' = "serving" /\ live' = TRUE /\ wg' = 1 /\ loader' = "start"
      /\ ready' = FALSE /\ changes' = 0
      /\ UNCHANGED <<present, pass, watcherVars, found, ticker, req, failed>>
  BY DEF Boot
<1>2. watcher = "none" /\ ticker = "none" /\ pass = NoPass /\ req = NoRequest
  BY <1>1 DEF LifeInv, Ended
<1>3. WatcherTypeOK' BY <1>1 DEF LifeInv, TypeOK, WatcherTypeOK, watcherVars
<1>6. wg' \in 0..3 /\ changes' \in 0..MaxChanges BY <1>1
<1>4. TypeOK' BY <1>1, <1>3, <1>6 DEF LifeInv, TypeOK
<1>5. Counted' BY <1>1, <1>2 DEF Counted, One, LoaderRuns, WatcherRuns, TickerRuns, watcherVars
<1> QED BY <1>1, <1>2, <1>4, <1>5 DEF LifeInv, PendingHasTimer, Holding, Started, Ended, watcherVars

-----------------------------------------------------------------------------
(* The environment and the requests. *)
LEMMA DropFileStep == ASSUME LifeInv, NEW f \in File, DropFile(f) PROVE LifeInv'
<1>1. /\ UNCHANGED <<live, pass, wg, pending, timer, armed, fired, flights, watcher, last, phase, loader,
                     found, ticker, ready, req, failed>>
      /\ present' = present \cup {f} /\ events' \subseteq File /\ changes' \in 0..MaxChanges
  BY DEF DropFile, Notify, LifeInv, TypeOK, WatcherTypeOK
<1>2. WatcherTypeOK' BY <1>1 DEF LifeInv, TypeOK, WatcherTypeOK
<1>3. TypeOK' BY <1>1, <1>2 DEF LifeInv, TypeOK
<1> QED BY <1>1, <1>3 DEF LifeInv, PendingHasTimer, Counted, WatcherRuns, LoaderRuns, TickerRuns,
           Holding, Started, Ended

LEMMA StageStep ==
  ASSUME LifeInv, NEW kind \in {"upload", "replace"}, NEW f \in File, Stage(kind, f)
  PROVE  LifeInv'
<1>1. /\ UNCHANGED <<live, pass, wg, pending, timer, armed, fired, flights, watcher, last, phase, loader,
                     found, ticker, ready>>
      /\ present' = present \cup {f} /\ events' \subseteq File /\ changes' \in 0..MaxChanges
      /\ failed' \subseteq File /\ phase = "serving"
      /\ req' = [kind |-> kind, f |-> f, begun |-> FALSE] /\ (kind = "upload" => ready)
  BY DEF Stage, Notify, LifeInv, TypeOK, WatcherTypeOK
<1>2. req' \in Request /\ req'.kind = kind BY <1>1 DEF Request
<1>3. WatcherTypeOK' BY <1>1 DEF LifeInv, TypeOK, WatcherTypeOK
<1>4. TypeOK' BY <1>1, <1>2, <1>3 DEF LifeInv, TypeOK
<1> QED BY <1>1, <1>2, <1>4 DEF LifeInv, PendingHasTimer, Counted, WatcherRuns, LoaderRuns, TickerRuns,
           Holding, Started, Ended

LEMMA RequestImportStep == ASSUME LifeInv, RequestImport PROVE LifeInv'
<1>1. /\ UNCHANGED <<live, present, wg, watcherVars, phase, loader, found, ticker, ready, failed, changes>>
      /\ req \in Request /\ req # NoRequest
      /\ pass' = [who |-> req.kind, todo |-> {req.f}] /\ req' = [req EXCEPT !.begun = TRUE]
  BY DEF RequestImport, Acquire, LifeInv, TypeOK
<1>2. /\ req' \in Request /\ req'.kind = req.kind /\ pass' \in Pass /\ pass'.who = req.kind
      /\ req.kind \in {"upload", "replace"}
  BY <1>1 DEF Request, Pass, Who
<1>3. phase # "exited" BY <1>1 DEF LifeInv, Ended
<1>4. WatcherTypeOK' BY <1>1 DEF LifeInv, TypeOK, WatcherTypeOK, watcherVars
<1>5. TypeOK' BY <1>1, <1>2, <1>4 DEF LifeInv, TypeOK
<1>6. Holding' BY <1>1, <1>2 DEF LifeInv, Holding, Started, watcherVars
<1>7. Started' BY <1>1, <1>2 DEF LifeInv, Started, watcherVars
<1> QED BY <1>1, <1>3, <1>5, <1>6, <1>7 DEF LifeInv, PendingHasTimer, Counted, WatcherRuns, LoaderRuns,
           TickerRuns, Ended, watcherVars

LEMMA LifeInvStep == LifeInv /\ [Next]_vars => LifeInv'
<1> SUFFICES ASSUME LifeInv, [Next]_vars PROVE LifeInv' OBVIOUS
<1>1. CASE Passes
  BY <1>1, PassEndStep, PassFileStep DEF Passes
<1>2. CASE Loader
  BY <1>2, LoaderSyncStep, LoaderScanStep, LoaderRescanStep, LoaderSpawnStep, LoaderReadyStep DEF Loader
<1>3. CASE Watching
  BY <1>3, WatchAddStep, WatchEventStep, TimerFiresStep, TimerFlushStep, FlightBeginStep, WatchStopStep,
     FinalFlushStep DEF Watching, WatcherStep
<1>4. CASE System
  BY <1>1, <1>2, <1>3, <1>4, EndingStep, TickStep, TickImportStep, TickerStopStep, RequestImportStep DEF System
<1>5. CASE \E f \in File : DropFile(f) \/ Stage("upload", f) \/ Stage("replace", f)
  BY <1>5, DropFileStep, StageStep
<1>6. CASE UNCHANGED vars
  <2>1. WatcherTypeOK' BY <1>6 DEF vars, watcherVars, LifeInv, TypeOK, WatcherTypeOK
  <2>2. TypeOK' BY <1>6, <2>1 DEF vars, lifeVars, LifeInv, TypeOK
  <2> QED BY <1>6, <2>2 DEF vars, lifeVars, watcherVars, LifeInv, PendingHasTimer, Counted, WatcherRuns,
             LoaderRuns, TickerRuns, Holding, Started, Ended
<1> QED BY <1>4, <1>5, <1>6, PassPanicsStep, SignalStep, ServeFailsStep, BootStep DEF Next

(* The inductive invariant of the process's life: the three results below  *)
(* are parts of it (main.go run, watcher.go Run).                           *)
THEOREM LifeInvariant == Spec => []LifeInv
BY LifeInitInv, LifeInvStep, PTL DEF Spec

(* When run closes the store, the loader, the watcher with its last flush  *)
(* and the ticker have returned, for any number of files, timers and       *)
(* flushes, with panics and a listener that fails (main.go:257-260).       *)
THEOREM JoinsBeforeClose == Spec => []JoinedBeforeClose
<1>1. LifeInv => JoinedBeforeClose
  <2> SUFFICES ASSUME LifeInv, phase = "closed"
               PROVE  /\ loader = "done" /\ watcher \in {"none", "done"} /\ ticker \in {"none", "done"}
                      /\ pass # NoPass => pass.who \in {"timer", "upload", "replace"}
    BY DEF JoinedBeforeClose
  <2>1. ~LoaderRuns /\ ~WatcherRuns /\ ~TickerRuns
    BY CountedZero DEF LifeInv, Ended
  <2>2. /\ loader = "done" /\ watcher \in {"none", "done"} /\ ticker \in {"none", "done"}
    BY <2>1 DEF LoaderRuns, WatcherRuns, TickerRuns, LifeInv, TypeOK, WatcherTypeOK
  <2>3. pass # NoPass => pass.who \in Who BY DEF LifeInv, TypeOK, Pass
  <2>4. pass # NoPass => pass.who \notin {"sync", "boot", "tick", "final"}
    BY <2>2 DEF LifeInv, Holding
  <2> QED BY <2>2, <2>3, <2>4 DEF Who
<1> QED BY <1>1, LifeInvariant, PTL

(* No call but a replacement reaches the engine before the corpus has been *)
(* validated, and the readiness gate opens only after the loader is done   *)
(* (main.go:286-291, upload.go:91-97).                                     *)
THEOREM ValidatesFirst == Spec => []ValidatedFirst
<1>1. LifeInv => ValidatedFirst
  <2> SUFFICES ASSUME LifeInv PROVE ValidatedFirst OBVIOUS
  <2>1. ASSUME pass # NoPass, pass.who \notin {"sync", "replace"} PROVE loader \notin {"start", "sync"}
    <3>1. pass.who \in {"boot", "tick", "timer", "final", "upload"}
      BY <2>1 DEF LifeInv, TypeOK, Pass, Who
    <3> QED BY <2>1, <3>1 DEF LifeInv, Holding, Started
  <2> QED BY <2>1 DEF ValidatedFirst, LifeInv, Started
<1> QED BY <1>1, LifeInvariant, PTL

(* A pending name has a timer armed or on its way to flush it, whatever    *)
(* enqueues and stale flushes did to w.timer (watcher.go:301-325).         *)
THEOREM PendingIsTimed == Spec => []PendingHasTimer
BY LifeInvariant, PTL DEF LifeInv

-----------------------------------------------------------------------------
(* The mirror of the standard corpus.  The argument is about ownership: a  *)
(* path that an import filed is in no manifest, and a path the mirror      *)
(* placed is in the manifest or was not recorded when a sync died.         *)
USE StandardAssumption

(* Who owns what, whenever the process may be stopped. *)
Ownership ==
  \A p \in Path :
    /\ author[p] = "sync" => p \in manifest \cup unrecorded
    /\ author[p] = "filed" => corpus[p] # Absent /\ (p \in manifest => p \in stale)

(* What a sync under way has done. *)
Progress ==
  sync.step \in {"copy", "prune"} =>
    /\ sync.previous \subseteq manifest /\ manifest \subseteq sync.previous \cup unrecorded
    /\ \A p \in sync.current : p \in Shipped /\ corpus[p] = image[p] /\ author[p] = "sync"

CopyProgress ==
  sync.step = "copy" =>
    sync.todo \subseteq Shipped /\ Shipped \subseteq sync.todo \cup sync.current \cup sync.failed

PruneProgress ==
  sync.step = "prune" =>
    /\ Shipped \subseteq sync.current \cup sync.failed
    /\ sync.todo \subseteq Prunable
    /\ \A p \in sync.previous : author[p] = "sync" => p \in sync.current \cup sync.todo \cup unrecorded

(* A path that the manifest lists is free only before a sync, or stale. *)
ManifestFilled ==
  sync.step = "running" => \A p \in manifest : corpus[p] # Absent \/ p \in stale

SyncInv == SyncTypeOK /\ Ownership /\ Progress /\ CopyProgress /\ PruneProgress /\ ManifestFilled

(* The type of the sync record, and what Idle is of it. *)
SyncRecord ==
  [step: {"stopped", "resolve", "start", "copy", "prune", "running", "readonly"},
   todo: SUBSET Path, current: SUBSET Path, previous: SUBSET Path, failed: SUBSET Path]

LEMMA IdleFacts ==
  \A s \in {"stopped", "resolve", "start", "copy", "prune", "running", "readonly"} :
    Idle(s) \in SyncRecord /\ Idle(s).step = s
BY DEF Idle, SyncRecord

LEMMA SyncInitInv == SyncInit => SyncInv
BY IdleFacts DEF SyncInit, SyncInv, SyncTypeOK, SyncRecord, Ownership, Progress, CopyProgress,
   PruneProgress, ManifestFilled

(* A step outside the sync that leaves files and manifest alone. *)
LEMMA OutsideStep ==
  ASSUME SyncInv, StartProcess \/ ResolveCorpusRoot \/ Stop
  PROVE  SyncInv'
<1>1. PICK s \in {"stopped", "resolve", "start", "readonly"} : sync' = Idle(s)
  BY DEF StartProcess, ResolveCorpusRoot, Stop
<1>2. UNCHANGED <<corpus, author, manifest, unrecorded, stale>>
  BY DEF StartProcess, ResolveCorpusRoot, Stop
<1>3. SyncTypeOK'
  <2>1. /\ image' \in Images /\ writable' \in BOOLEAN
        /\ legacy' \subseteq {"upload", "import"} /\ boots' \in 0..MaxBoots
    <3>1. CASE StartProcess
      BY <3>1 DEF StartProcess, SyncInv, SyncTypeOK
    <3>2. CASE ResolveCorpusRoot
      <4>1. legacy' \in {legacy, {"import"}} /\ UNCHANGED <<image, writable, boots>>
        BY <3>2 DEF ResolveCorpusRoot
      <4> QED BY <4>1 DEF SyncInv, SyncTypeOK
    <3>3. CASE Stop
      BY <3>3 DEF Stop, SyncInv, SyncTypeOK
    <3> QED BY <3>1, <3>2, <3>3
  <2>2. sync' \in SyncRecord BY <1>1, IdleFacts
  <2> QED BY <1>2, <2>1, <2>2 DEF SyncInv, SyncTypeOK, SyncRecord
<1>4. sync'.step \in {"stopped", "resolve", "start", "readonly"}
  BY <1>1, IdleFacts
<1> QED BY <1>2, <1>3, <1>4 DEF SyncInv, Ownership, Progress, CopyProgress, PruneProgress, ManifestFilled

LEMMA SyncStartStep ==
  ASSUME SyncInv, SyncStart
  PROVE  SyncInv'
<1>1. PICK read \in {manifest, {}} :
        /\ sync' = [Idle("copy") EXCEPT !.todo = Shipped, !.previous = read]
        /\ unrecorded' = unrecorded \cup (manifest \ read)
  BY DEF SyncStart
<1>2. sync' = [step |-> "copy", todo |-> Shipped, current |-> {}, previous |-> read, failed |-> {}]
  BY <1>1 DEF Idle
<1>3. UNCHANGED <<image, writable, corpus, author, manifest, stale, boots>> /\ Shipped' = Shipped
  BY DEF SyncStart, Shipped
<1>4. legacy' \subseteq {"upload", "import"} /\ read \subseteq manifest /\ manifest \subseteq Path
  BY <1>1 DEF SyncStart, SyncInv, SyncTypeOK
<1>5. sync' \in SyncRecord /\ unrecorded' \subseteq Path
  <2>1. unrecorded \subseteq Path /\ read \subseteq Path /\ Shipped \subseteq Path
    BY <1>4 DEF SyncInv, SyncTypeOK, Shipped
  <2> HIDE DEF Shipped
  <2>2. sync' \in SyncRecord BY <1>2, <2>1 DEF SyncRecord
  <2>3. unrecorded' \subseteq Path BY <1>1, <1>4, <2>1
  <2> QED BY <2>2, <2>3
<1>6. SyncTypeOK'
  BY <1>3, <1>4, <1>5 DEF SyncInv, SyncTypeOK, SyncRecord
<1>7. Ownership'
  BY <1>1, <1>3 DEF SyncInv, Ownership
<1>8. Progress' /\ CopyProgress' /\ PruneProgress' /\ ManifestFilled'
  <2>1. /\ sync'.step = "copy" /\ sync'.todo = Shipped /\ sync'.current = {} /\ sync'.previous = read
    BY <1>2
  <2>2. read \subseteq manifest' /\ manifest' \subseteq read \cup unrecorded'
    BY <1>1, <1>3, <1>4
  <2> QED BY <1>3, <2>1, <2>2 DEF Progress, CopyProgress, PruneProgress, ManifestFilled
<1> QED BY <1>6, <1>7, <1>8 DEF SyncInv

LEMMA CopyFileStep ==
  ASSUME SyncInv, NEW p \in Path, CopyFile(p)
  PROVE  SyncInv'
<1>1. /\ sync.step = "copy" /\ p \in sync.todo /\ sync \in SyncRecord
      /\ sync' = [sync EXCEPT !.todo = @ \ {p}, !.current = @ \cup {p}]
  BY DEF CopyFile, SyncInv, SyncTypeOK, SyncRecord
<1>2. /\ sync'.step = "copy" /\ sync'.todo = sync.todo \ {p} /\ sync'.current = sync.current \cup {p}
      /\ sync'.previous = sync.previous /\ sync'.failed = sync.failed /\ sync' \in SyncRecord
  BY <1>1 DEF SyncRecord
<1>3. /\ UNCHANGED <<image, writable, manifest, stale, legacy, boots>> /\ Shipped' = Shipped
      /\ corpus' = [corpus EXCEPT ![p] = image[p]] /\ author' = [author EXCEPT ![p] = "sync"]
      /\ unrecorded' = unrecorded \cup {p}
  BY DEF CopyFile, Shipped
<1>4. p \in Shipped /\ image[p] \in Text
  BY <1>1 DEF SyncInv, SyncTypeOK, CopyProgress, Shipped
<1>5. SyncTypeOK'
  BY <1>2, <1>3, <1>4 DEF SyncInv, SyncTypeOK, SyncRecord
<1>6. Ownership'
  BY <1>3 DEF SyncInv, SyncTypeOK, Ownership
<1>7. Progress'
  BY <1>1, <1>2, <1>3, <1>4 DEF SyncInv, SyncTypeOK, Progress, SyncRecord
<1>8. CopyProgress' /\ PruneProgress' /\ ManifestFilled'
  BY <1>1, <1>2, <1>3 DEF SyncInv, CopyProgress, PruneProgress, ManifestFilled
<1> QED BY <1>5, <1>6, <1>7, <1>8 DEF SyncInv

LEMMA CopyFailsStep ==
  ASSUME SyncInv, NEW p \in Path, CopyFileFails(p)
  PROVE  SyncInv'
<1>1. /\ sync.step = "copy" /\ sync \in SyncRecord
      /\ sync' = [sync EXCEPT !.todo = @ \ {p}, !.failed = @ \cup {p}]
  BY DEF CopyFileFails, SyncInv, SyncTypeOK, SyncRecord
<1>2. /\ sync'.step = "copy" /\ sync'.todo = sync.todo \ {p} /\ sync'.current = sync.current
      /\ sync'.previous = sync.previous /\ sync'.failed = sync.failed \cup {p} /\ sync' \in SyncRecord
  BY <1>1 DEF SyncRecord
<1>3. /\ UNCHANGED <<image, writable, corpus, author, manifest, unrecorded, stale, legacy, boots>>
      /\ Shipped' = Shipped
  BY DEF CopyFileFails, Shipped
<1>4. SyncTypeOK'
  BY <1>2, <1>3 DEF SyncInv, SyncTypeOK, SyncRecord
<1> QED BY <1>1, <1>2, <1>3, <1>4 DEF SyncInv, Ownership, Progress, CopyProgress, PruneProgress, ManifestFilled

LEMMA PruneBeginStep ==
  ASSUME SyncInv, PruneBegin
  PROVE  SyncInv'
<1>1. /\ sync.step = "copy" /\ sync.todo = {} /\ sync \in SyncRecord
      /\ sync' = [sync EXCEPT !.step = "prune", !.todo = Prunable]
  BY DEF PruneBegin, SyncInv, SyncTypeOK, SyncRecord
<1>2. /\ sync'.step = "prune" /\ sync'.todo = Prunable /\ sync'.current = sync.current
      /\ sync'.previous = sync.previous /\ sync'.failed = sync.failed /\ sync' \in SyncRecord
  BY <1>1 DEF SyncRecord, Prunable
<1>3. /\ UNCHANGED <<image, writable, corpus, author, manifest, unrecorded, stale, legacy, boots>>
      /\ Shipped' = Shipped /\ Prunable' = Prunable
  BY <1>2 DEF PruneBegin, Shipped, Prunable
<1>4. SyncTypeOK'
  BY <1>2, <1>3 DEF SyncInv, SyncTypeOK, SyncRecord
<1>5. PruneProgress'
  BY <1>1, <1>2, <1>3 DEF SyncInv, CopyProgress, PruneProgress, Prunable
<1> QED BY <1>1, <1>2, <1>3, <1>4, <1>5 DEF SyncInv, Ownership, Progress, CopyProgress, ManifestFilled

LEMMA PruneFileStep ==
  ASSUME SyncInv, NEW p \in Path, PruneFile(p)
  PROVE  SyncInv'
<1>1. /\ sync.step = "prune" /\ p \in sync.todo /\ sync \in SyncRecord
      /\ sync' = [sync EXCEPT !.todo = @ \ {p}]
  BY DEF PruneFile, SyncInv, SyncTypeOK, SyncRecord
<1>2. /\ sync'.step = "prune" /\ sync'.todo = sync.todo \ {p} /\ sync'.current = sync.current
      /\ sync'.previous = sync.previous /\ sync'.failed = sync.failed /\ sync' \in SyncRecord
  BY <1>1 DEF SyncRecord
<1>3. /\ UNCHANGED <<image, writable, manifest, stale, legacy, boots>> /\ Shipped' = Shipped /\ Prunable' = Prunable
      /\ corpus' = [corpus EXCEPT ![p] = Absent] /\ author' = [author EXCEPT ![p] = "nobody"]
      /\ unrecorded' = unrecorded \ {p}
  BY <1>2 DEF PruneFile, Shipped, Prunable
<1>4. p \notin sync.current /\ p \in sync.previous
  BY <1>1 DEF SyncInv, PruneProgress, Prunable
<1>5. SyncTypeOK'
  BY <1>2, <1>3 DEF SyncInv, SyncTypeOK, SyncRecord
<1>6. Ownership'
  BY <1>3 DEF SyncInv, SyncTypeOK, Ownership
<1>7. Progress'
  BY <1>1, <1>2, <1>3, <1>4 DEF SyncInv, SyncTypeOK, Progress, SyncRecord
<1>8. PruneProgress'
  BY <1>1, <1>2, <1>3 DEF SyncInv, SyncTypeOK, PruneProgress, SyncRecord
<1> QED BY <1>2, <1>5, <1>6, <1>7, <1>8 DEF SyncInv, CopyProgress, ManifestFilled

LEMMA PruneFailsStep ==
  ASSUME SyncInv, NEW p \in Path, PruneFileFails(p)
  PROVE  SyncInv'
<1>1. /\ sync.step = "prune" /\ sync \in SyncRecord
      /\ sync' = [sync EXCEPT !.todo = @ \ {p}]
  BY DEF PruneFileFails, SyncInv, SyncTypeOK, SyncRecord
<1>2. /\ sync'.step = "prune" /\ sync'.todo = sync.todo \ {p} /\ sync'.current = sync.current
      /\ sync'.previous = sync.previous /\ sync'.failed = sync.failed /\ sync' \in SyncRecord
  BY <1>1 DEF SyncRecord
<1>3. /\ UNCHANGED <<image, writable, corpus, author, manifest, stale, legacy, boots>>
      /\ unrecorded' = unrecorded \cup {p} /\ Shipped' = Shipped /\ Prunable' = Prunable
  BY <1>2 DEF PruneFileFails, Shipped, Prunable
<1>4. SyncTypeOK'
  BY <1>2, <1>3 DEF SyncInv, SyncTypeOK, SyncRecord
<1>5. PruneProgress'
  BY <1>1, <1>2, <1>3 DEF SyncInv, PruneProgress
<1> QED BY <1>1, <1>2, <1>3, <1>4, <1>5 DEF SyncInv, Ownership, Progress, CopyProgress, ManifestFilled

(* What a pass that is through knows of every path.                        *)
LEMMA PassedFacts ==
  ASSUME SyncInv, sync.step = "prune", sync.todo = {}
  PROVE  /\ \A p \in sync.current : p \in Path /\ image[p] # Absent /\ corpus[p] = image[p] /\ author[p] = "sync"
         /\ \A p \in Path : author[p] = "sync" => p \in sync.current \cup unrecorded
<1>1. \A p \in sync.current : p \in Path /\ image[p] # Absent /\ corpus[p] = image[p] /\ author[p] = "sync"
  BY DEF SyncInv, Progress, Shipped
<1>2. \A p \in Path : author[p] = "sync" => p \in sync.current \cup unrecorded
  BY DEF SyncInv, Ownership, Progress, PruneProgress
<1> QED BY <1>1, <1>2

LEMMA RecordedStep ==
  ASSUME SyncInv, sync.step = "prune", sync.todo = {},
         NEW m, m \in {sync.current, manifest, {}}, Recorded(m)
  PROVE  SyncInv'
<1>1. /\ sync \in SyncRecord /\ sync' = Idle("running")
      /\ manifest' = m /\ unrecorded' = (unrecorded \cup sync.current) \ m /\ stale' = m \ sync.current
      /\ UNCHANGED <<image, writable, corpus, author, legacy, boots>>
  BY DEF Recorded, SyncInv, SyncTypeOK, SyncRecord
<1>2. sync' \in SyncRecord /\ sync'.step = "running"
  BY <1>1, IdleFacts
<1>3. SyncTypeOK'
  BY <1>1, <1>2 DEF SyncInv, SyncTypeOK, SyncRecord
<1>4. \A p \in sync.current : p \in Path /\ image[p] # Absent /\ corpus[p] = image[p] /\ author[p] = "sync"
  BY PassedFacts
<1>5. \A p \in Path : author[p] = "sync" => p \in sync.current \cup unrecorded
  BY PassedFacts
<1>6. \A p \in Path : author[p] = "filed" => p \notin sync.current
  BY <1>4
<1>7. Ownership'
  BY <1>1, <1>5, <1>6 DEF SyncInv, Ownership
<1>8. ManifestFilled'
  BY <1>1, <1>4 DEF ManifestFilled
<1> QED BY <1>2, <1>3, <1>7, <1>8 DEF SyncInv, Progress, CopyProgress, PruneProgress

LEMMA WriteManifestStep ==
  ASSUME SyncInv, WriteManifest \/ WriteManifestFails
  PROVE  SyncInv'
<1>1. sync.step = "prune" /\ sync.todo = {} BY DEF WriteManifest, WriteManifestFails
<1>2. PICK m \in {sync.current, manifest, {}} : Recorded(m) BY DEF WriteManifest, WriteManifestFails
<1> QED BY <1>1, <1>2, RecordedStep

LEMMA OperatorStep ==
  ASSUME SyncInv, NEW p \in Path, NEW t \in Text, OperatorFiles(p, t)
  PROVE  SyncInv'
<1>1. /\ sync.step = "running" /\ UNCHANGED <<image, writable, manifest, stale, legacy, sync, boots>>
      /\ corpus' = [corpus EXCEPT ![p] = t] /\ unrecorded' = unrecorded \ {p}
  BY DEF OperatorFiles
<1>2. /\ author'[p] \in {"filed", "replaced"}
      /\ author'[p] = "filed" => corpus[p] = Absent \/ author[p] = "filed"
      /\ \A q \in Path \ {p} : author'[q] = author[q]
      /\ author' \in [Path -> {"nobody", "sync", "filed", "replaced"}]
  BY DEF OperatorFiles, SyncInv, SyncTypeOK
<1>3. SyncTypeOK'
  BY <1>1, <1>2 DEF SyncInv, SyncTypeOK
<1>4. author'[p] = "filed" => (p \in manifest => p \in stale)
  BY <1>1, <1>2 DEF SyncInv, Ownership, ManifestFilled
<1>5. Ownership'
  BY <1>1, <1>2, <1>4 DEF SyncInv, SyncTypeOK, Ownership
<1>6. ManifestFilled'
  BY <1>1 DEF SyncInv, SyncTypeOK, ManifestFilled
<1> QED BY <1>1, <1>3, <1>5, <1>6 DEF SyncInv, Progress, CopyProgress, PruneProgress

LEMMA SyncInvStep == SyncInv /\ [SyncNext]_syncVars => SyncInv'
<1> SUFFICES ASSUME SyncInv, [SyncNext]_syncVars PROVE SyncInv' OBVIOUS
<1>1. CASE UNCHANGED syncVars
  BY <1>1 DEF syncVars, SyncInv, SyncTypeOK, Ownership, Progress, CopyProgress, PruneProgress,
     ManifestFilled, Shipped, Prunable
<1>2. CASE \E p \in Path : CopyFile(p) \/ CopyFileFails(p) \/ PruneFile(p) \/ PruneFileFails(p)
  BY <1>2, CopyFileStep, CopyFailsStep, PruneFileStep, PruneFailsStep
<1>3. CASE \E p \in Path, t \in Text : OperatorFiles(p, t)
  BY <1>3, OperatorStep
<1> QED BY <1>1, <1>2, <1>3, OutsideStep, SyncStartStep, PruneBeginStep, WriteManifestStep DEF SyncNext

(* The inductive invariant of the mirror: which paths the manifest owns and*)
(* what the running sync has done to them (standard.go SyncStandard).      *)
THEOREM SyncInvariant == SyncSpec => []SyncInv
BY SyncInitInv, SyncInvStep, PTL DEF SyncSpec

-----------------------------------------------------------------------------
(* The mirror takes a file that an import filed at a free path only where  *)
(* the installed release ships the path, or where a manifest that a sync   *)
(* failed to replace still lists it - for any paths and releases, whatever *)
(* copies, removals and manifest writes fail, whenever a sync is cut short *)
(* (standard.go:134-161; standard.go:45 promises more).                    *)
THEOREM FiledIsKept == SyncSpec => OperatorFilesKept
<1>1. SyncInv /\ [SyncNext]_syncVars =>
        [\A p \in Path : author[p] = "filed" /\ author'[p] # "filed" =>
           p \in stale \/ (p \in Shipped /\ corpus'[p] = image[p])]_syncVars
  <2> SUFFICES ASSUME SyncInv, SyncNext, NEW p \in Path, author[p] = "filed", author'[p] # "filed"
               PROVE  p \in stale \/ (p \in Shipped /\ corpus'[p] = image[p])
    OBVIOUS
  <2>1. corpus[p] # Absent /\ (p \in manifest => p \in stale) BY DEF SyncInv, Ownership
  <2>2. ~UNCHANGED author OBVIOUS
  <2>3. ASSUME NEW q \in Path, CopyFile(q) PROVE p \in Shipped /\ corpus'[p] = image[p]
    <3>1. q \in Shipped BY <2>3 DEF CopyFile, SyncInv, CopyProgress
    <3>2. p = q BY <2>3 DEF CopyFile, SyncInv, SyncTypeOK
    <3> QED BY <2>3, <3>1, <3>2 DEF CopyFile, SyncInv, SyncTypeOK
  <2>4. ASSUME NEW q \in Path, PruneFile(q) PROVE p \in stale
    <3>1. q \in manifest BY <2>4 DEF PruneFile, SyncInv, PruneProgress, Progress, Prunable
    <3>2. p = q BY <2>4 DEF PruneFile, SyncInv, SyncTypeOK
    <3> QED BY <2>1, <3>1, <3>2
  <2>5. ASSUME NEW q \in Path, NEW t \in Text, OperatorFiles(q, t) PROVE FALSE
    BY <2>5 DEF OperatorFiles, SyncInv, SyncTypeOK
  <2>6. ASSUME StartProcess \/ ResolveCorpusRoot \/ SyncStart \/ PruneBegin \/ Stop PROVE FALSE
    <3>1. CASE StartProcess BY <2>2, <3>1 DEF StartProcess
    <3>2. CASE ResolveCorpusRoot BY <2>2, <3>2 DEF ResolveCorpusRoot
    <3>3. CASE SyncStart BY <2>2, <3>3 DEF SyncStart
    <3>4. CASE PruneBegin BY <2>2, <3>4 DEF PruneBegin
    <3>5. CASE Stop BY <2>2, <3>5 DEF Stop
    <3> QED BY <2>6, <3>1, <3>2, <3>3, <3>4, <3>5
  <2>7. ASSUME WriteManifest \/ WriteManifestFails PROVE FALSE
    BY <2>2, <2>7 DEF WriteManifest, WriteManifestFails, Recorded
  <2>8. ASSUME NEW q \in Path, CopyFileFails(q) \/ PruneFileFails(q) PROVE FALSE
    BY <2>2, <2>8 DEF CopyFileFails, PruneFileFails
  <2> QED BY <2>3, <2>4, <2>5, <2>6, <2>7, <2>8 DEF SyncNext
<1> QED BY <1>1, SyncInvariant, PTL DEF SyncSpec, OperatorFilesKept

(* A sync that ends leaves the tree as the image ships it, apart from files*)
(* whose copy or removal failed and files that a failed or interrupted sync*)
(* left out of the manifest (standard.go:40-44).                           *)
THEOREM EndsMirrored == SyncSpec => StandardMirrored
<1>1. SyncInv /\ [SyncNext]_syncVars =>
        [sync.step = "prune" /\ sync'.step = "running" =>
           \A p \in Path : /\ p \in Shipped \ sync.failed => corpus[p] = image[p]
                           /\ author[p] = "sync" => p \in Shipped \cup unrecorded]_syncVars
  <2> SUFFICES ASSUME SyncInv, SyncNext, sync.step = "prune", sync'.step = "running", NEW p \in Path
               PROVE  /\ p \in Shipped \ sync.failed => corpus[p] = image[p]
                      /\ author[p] = "sync" => p \in Shipped \cup unrecorded
    OBVIOUS
  <2>1. sync.todo = {}
    <3>1. \A q \in Path : ~PruneFile(q) /\ ~PruneFileFails(q)
      <4> SUFFICES ASSUME NEW q \in Path, PruneFile(q) \/ PruneFileFails(q) PROVE FALSE OBVIOUS
      <4>1. sync'.step = "prune" BY DEF PruneFile, PruneFileFails, SyncInv, SyncTypeOK
      <4> QED BY <4>1
    <3>2. ~Stop
      BY IdleFacts DEF Stop
    <3> QED BY <3>1, <3>2 DEF SyncNext, StartProcess, ResolveCorpusRoot, SyncStart, CopyFile,
               CopyFileFails, PruneBegin, WriteManifest, WriteManifestFails, OperatorFiles
  <2>2. p \in Shipped \ sync.failed => p \in sync.current
    BY DEF SyncInv, PruneProgress
  <2>3. author[p] = "sync" => p \in sync.current \cup unrecorded
    BY <2>1, PassedFacts
  <2> QED BY <2>2, <2>3 DEF SyncInv, Progress
<1> QED BY <1>1, SyncInvariant, PTL DEF SyncSpec, StandardMirrored

-----------------------------------------------------------------------------
(* store.Open keeps the types of its variables.                            *)

USE OpenAssumption

LEMMA FlagsTyped ==
  ASSUME NEW S, NEW f \in [S -> BOOLEAN], NEW x, NEW b \in BOOLEAN
  PROVE  [f EXCEPT ![x] = b] \in [S -> BOOLEAN]
OBVIOUS

LEMMA ShapesTyped ==
  ASSUME OpenTypeOK, NEW o \in Opener,
         OpenBegin(o) \/ ApplySchema(o) \/ SplitProbe(o) \/ SplitDrop(o) \/ SplitFiles(o) \/ Recreate(o)
  PROVE  OpenTypeOK'
<1> USE DEF OpenTypeOK, Goto, Step, history
<1>1. CASE OpenBegin(o) BY <1>1 DEF OpenBegin, data
<1>2. CASE ApplySchema(o) BY <1>2 DEF ApplySchema
<1>3. CASE SplitDrop(o) BY <1>3 DEF SplitDrop
<1>6. CASE SplitProbe(o) BY <1>6 DEF SplitProbe, data
<1>4. CASE SplitFiles(o) BY <1>4 DEF SplitFiles
<1>5. CASE Recreate(o) BY <1>5 DEF Recreate
<1> QED BY <1>1, <1>2, <1>3, <1>4, <1>5, <1>6

LEMMA ColumnsTyped ==
  ASSUME OpenTypeOK, NEW o \in Opener,
         AddColumn(o) \/ AddFlag(o) \/ ProbeGeneration(o) \/ StampGeneration(o)
  PROVE  OpenTypeOK'
<1> USE DEF OpenTypeOK, Goto, Step, history
<1>1. CASE AddColumn(o)
  <2>1. /\ added' \subseteq {"index_implied", "position"} \cup FamilyFlag
        /\ pc' = pc \/ pc' = [pc EXCEPT ![o] = "flags"]
    BY <1>1 DEF AddColumn
  <2> QED BY <1>1, <2>1 DEF AddColumn
<1>2. CASE AddFlag(o)
  <2>1. /\ added' \subseteq {"index_implied", "position"} \cup FamilyFlag
        /\ pc' = pc \/ pc' = [pc EXCEPT ![o] = "probe"]
    BY <1>2 DEF AddFlag
  <2> QED BY <1>2, <2>1 DEF AddFlag
<1>3. CASE ProbeGeneration(o) BY <1>3 DEF ProbeGeneration, data
<1>4. CASE StampGeneration(o)
  <2>1. generation' \in 0..MaxGen /\ clock' \in 1..MaxGen + 1 BY <1>4 DEF StampGeneration
  <2> QED BY <1>4, <2>1 DEF StampGeneration
<1> QED BY <1>1, <1>2, <1>3, <1>4

LEMMA SweepFlags ==
  ASSUME OpenTypeOK, NEW o \in Opener, NEW i \in 1..3, Sweep(o, i)
  PROVE  swept' \in [Opener -> BOOLEAN]
<1>1. PICK b : b = (swept[o] \/ rows[ChildOrder[i]] \ modules # {}) OBVIOUS
<1>2. swept' = [swept EXCEPT ![o] = b] BY <1>1, Zenon DEF Sweep
<1>3. b \in BOOLEAN BY <1>1, Zenon
<1>4. swept \in [Opener -> BOOLEAN] BY DEF OpenTypeOK
<1> QED BY <1>2, <1>3, <1>4, FlagsTyped, Zenon

LEMMA SweepTyped ==
  ASSUME OpenTypeOK, NEW o \in Opener,
         (\E i \in 1..3 : Sweep(o, i)) \/ UnmarkTrie(o) \/ BackfillGate(o) \/ ClearDerived(o)
  PROVE  OpenTypeOK'
<1> USE DEF OpenTypeOK, Goto, Step, history
<1>1. CASE \E i \in 1..3 : Sweep(o, i)
  <2>1. PICK i \in 1..3 : Sweep(o, i) BY <1>1
  <2>2. /\ rows' = [rows EXCEPT ![ChildOrder[i]] = @ \ (rows[ChildOrder[i]] \ modules)]
        /\ swept' = [swept EXCEPT ![o] = @ \/ rows[ChildOrder[i]] \ modules # {}]
    BY <2>1, Zenon DEF Sweep
  <2>3. ChildOrder[i] \in Child BY DEF ChildOrder, Child
  <2>4. rows' \in [Child -> SUBSET Module]
    <3> HIDE DEF Goto, Step
    <3> QED BY <2>2, <2>3
  <2>5. swept' \in [Opener -> BOOLEAN] BY <2>1, SweepFlags, Zenon
  <2>6. \E s \in {"sweep2", "sweep3", "unmark", "gate"} : pc' = [pc EXCEPT ![o] = s]
    <3>1. PICK s : s = CASE i = 1 -> "sweep2"
                        [] i = 2 -> "sweep3"
                        [] OTHER -> IF swept'[o] THEN "unmark" ELSE "gate"
      OBVIOUS
    <3>2. pc' = [pc EXCEPT ![o] = s] BY <2>1, <3>1, Zenon DEF Sweep
    <3>3. s \in {"sweep2", "sweep3", "unmark", "gate"} BY <3>1
    <3> QED BY <3>2, <3>3
  <2>7. UNCHANGED <<symbolShape, added, modules, classified, files, trie, marked, generation,
                    clock, userVersion, todo, deaths, disk, unbacked, undone>>
    BY <2>1 DEF Sweep
  <2>10. loose' \subseteq Module
    <3>1. loose' \in {loose \cup (rows[ChildOrder[i]] \ modules), loose} BY <2>1 DEF Sweep
    <3> QED BY <2>3, <3>1
  <2>8. PICK s \in Step : pc' = [pc EXCEPT ![o] = s] BY <2>6
  <2>9. pc' \in [Opener -> Step] BY <2>8
  <2> HIDE DEF Step, Goto
  <2> QED BY <2>4, <2>5, <2>7, <2>9, <2>10
<1>2. CASE UnmarkTrie(o) BY <1>2 DEF UnmarkTrie
<1>3. CASE BackfillGate(o)
  <2>1. /\ todo' \in [Opener -> SUBSET Module]
        /\ \E s \in {"open", "clear1"} : pc' = [pc EXCEPT ![o] = s]
    BY <1>3 DEF BackfillGate
  <2> QED BY <1>3, <2>1 DEF BackfillGate, data
<1>4. CASE ClearDerived(o)
  <2>1. rows' \in [Child -> SUBSET Module] /\ classified' \subseteq Module /\ undone' \subseteq Module
    BY <1>4 DEF ClearDerived
  <2>2. \E s \in {"clear2", "classify"} : pc' = [pc EXCEPT ![o] = s] BY <1>4 DEF ClearDerived
  <2> QED BY <1>4, <2>1, <2>2 DEF ClearDerived
<1> QED BY <1>1, <1>2, <1>3, <1>4

LEMMA LastStepsTyped ==
  ASSUME OpenTypeOK, NEW o \in Opener,
         (\E m \in Module : ClassifyModule(o, m)) \/ BackfillDone(o) \/ OpenFails(o)
           \/ CloseStore(o) \/ Die(o)
  PROVE  OpenTypeOK'
<1> USE DEF OpenTypeOK, Goto, Step, history
<1>1. CASE \E m \in Module : ClassifyModule(o, m)
  <2>1. PICK m \in Module : ClassifyModule(o, m) BY <1>1
  <2>2. CASE m \in rows["symbol"] \cap modules /\ m \in rows["relationship"]
    BY <2>1, <2>2 DEF ClassifyModule
  <2>3. CASE ~(m \in rows["symbol"] \cap modules /\ m \in rows["relationship"])
    <3>1. /\ \/ UNCHANGED rows
             \/ rows' = [rows EXCEPT !["relationship"] = @ \cup {m}, !["pair"] = @ \cup {m}]
          /\ classified' = classified \cup {m} /\ undone' = undone \ {m}
          /\ todo' = [todo EXCEPT ![o] = @ \ {m}] /\ UNCHANGED pc
      BY <2>1, <2>3 DEF ClassifyModule
    <3>2. rows' \in [Child -> SUBSET Module] BY <3>1 DEF Child
    <3>3. todo' \in [Opener -> SUBSET Module] BY <3>1
    <3> QED BY <2>1, <3>1, <3>2, <3>3 DEF ClassifyModule
  <2> QED BY <2>2, <2>3
<1>2. CASE BackfillDone(o)
  <2>1. undone' \subseteq Module BY <1>2 DEF BackfillDone
  <2> QED BY <1>2, <2>1 DEF BackfillDone, BackfillVersion
<1>5. CASE OpenFails(o) BY <1>5 DEF OpenFails, data
<1>3. CASE CloseStore(o) BY <1>3 DEF CloseStore, data
<1>4. CASE Die(o)
  <2>1. deaths' \in 0..MaxCrash BY <1>4 DEF Die
  <2>2. rows["symbol"] \subseteq Module BY DEF Child
  <2>3. unbacked' \subseteq Module /\ loose' \subseteq Module BY <1>4, <2>2 DEF Die, Apart
  <2>4. /\ pc' = [pc EXCEPT ![o] = "closed"] /\ swept' = [swept EXCEPT ![o] = FALSE]
        /\ todo' = [todo EXCEPT ![o] = {}] /\ UNCHANGED <<data, undone>>
    BY <1>4 DEF Die
  <2> QED BY <2>1, <2>3, <2>4 DEF data
<1> QED BY <1>1, <1>2, <1>3, <1>4, <1>5

LEMMA BootTyped ==
  ASSUME OpenTypeOK, (\E m \in Module : CompileModule(m)) \/ FinishSync
  PROVE  OpenTypeOK'
<1> USE DEF OpenTypeOK, Goto, Step, history
<1>1. CASE \E m \in Module : CompileModule(m)
  <2>1. PICK m \in Module : CompileModule(m) BY <1>1
  <2>2. CASE symbolShape = "none" BY <2>1, <2>2 DEF CompileModule
  <2>3. CASE symbolShape # "none" BY <2>1, <2>3 DEF CompileModule
  <2> QED BY <2>2, <2>3
<1>2. CASE FinishSync
  <2>1. /\ modules' \subseteq Module /\ classified' \subseteq Module
        /\ rows' \in [Child -> SUBSET Module] /\ pc' = [pc EXCEPT ![Server] = "ready"]
        /\ UNCHANGED <<symbolShape, added, files, userVersion, swept, todo, deaths, disk, unbacked, undone>>
    BY <1>2 DEF FinishSync
  <2>2. \/ UNCHANGED <<trie, marked, generation, clock, loose>>
        \/ /\ clock <= MaxGen /\ trie' = rows'["symbol"] /\ marked' = TRUE /\ loose' = {}
           /\ generation' = clock /\ clock' = clock + 1
    BY <1>2, Zenon DEF FinishSync
  <2>3. rows'["symbol"] \subseteq Module BY <2>1 DEF Child
  <2>4. /\ trie' \subseteq Module /\ marked' \in BOOLEAN /\ loose' \subseteq Module
        /\ generation' \in 0..MaxGen /\ clock' \in 1..MaxGen + 1
    <3>1. CASE UNCHANGED <<trie, marked, generation, clock, loose>> BY <3>1
    <3>2. CASE clock <= MaxGen /\ trie' = rows'["symbol"] /\ marked' = TRUE /\ loose' = {}
               /\ generation' = clock /\ clock' = clock + 1
      <4>1. clock \in 1..MaxGen /\ clock + 1 \in 1..MaxGen + 1 BY <3>2, OpenAssumption
      <4> QED BY <2>3, <3>2, <4>1
    <3> QED BY <2>2, <3>1, <3>2
  <2> QED BY <2>1, <2>4
<1> QED BY <1>1, <1>2

LEMMA OpenInitTyped == OpenInit => OpenTypeOK
<1> SUFFICES ASSUME OpenInit PROVE OpenTypeOK OBVIOUS
<1>1. PICK l \in Legacy, orphans \in SUBSET Module :
        /\ disk \in {Module, Module \ orphans}
        /\ symbolShape = l.shape /\ added = l.cols
        /\ modules = Module \ orphans
        /\ rows = [c \in Child |-> IF c = "pair" THEN Module \ orphans ELSE Module]
        /\ files = IF l.shape = "old" \/ "position" \in l.cols THEN modules ELSE {}
        /\ marked = l.mark /\ generation = l.gen /\ clock = l.gen + 1
        /\ trie = IF l.mark THEN Module ELSE {}
        /\ userVersion = l.ver
        /\ classified = IF l.ver = BackfillVersion THEN modules ELSE {}
        /\ pc = [o \in Opener |-> "closed"] /\ todo = [o \in Opener |-> {}]
        /\ swept = [o \in Opener |-> FALSE] /\ deaths = 0
        /\ unbacked = {} /\ loose = {} /\ undone = {}
  BY DEF OpenInit
<1>2. /\ l.shape \in {"old", "new"} /\ l.ver \in {0, 1, 2} /\ l.mark \in BOOLEAN
      /\ l.gen \in {0, 1}
      /\ l.cols \subseteq {"index_implied", "position"} \cup FamilyFlag
  BY DEF Legacy, NoGen
<1>3. files \subseteq Module /\ trie \subseteq Module /\ classified \subseteq Module
  BY <1>1
<1>4. rows \in [Child -> SUBSET Module] BY <1>1
<1>5. generation \in 0..MaxGen /\ clock \in 1..MaxGen + 1 BY <1>1, <1>2
<1> QED BY <1>1, <1>2, <1>3, <1>4, <1>5 DEF OpenTypeOK, Step, BackfillVersion

LEMMA OpenTypeStep == OpenTypeOK /\ [OpenNext]_openVars => OpenTypeOK'
<1>1. OpenTypeOK /\ UNCHANGED openVars => OpenTypeOK'
  BY DEF OpenTypeOK, openVars, data, history
<1> QED BY <1>1, ShapesTyped, ColumnsTyped, SweepTyped, LastStepsTyped, BootTyped DEF OpenNext

-----------------------------------------------------------------------------
(* store.Open.  Two or more processes run the same statements on one       *)
(* database, in any order, and die between any two of them.  The invariant *)
(* says what is owed at each step: a fingerprint to its rows, a dropped    *)
(* symbol table to the trie, the swept tables to the modules, a backfill   *)
(* to what it has not classified yet, the marker to the trie.              *)
After3 == {"unmark", "gate", "clear1", "clear2", "classify", "open", "compiling", "ready"}
After2 == {"sweep3"} \cup After3
After1 == {"sweep2"} \cup After2
Flagged == {"probe", "stamp", "sweep1"} \cup After1

Backed ==
  /\ files \subseteq modules
  /\ (\E o \in Opener : pc[o] = "splitfiles") \/ files \subseteq rows["symbol"] \cup unbacked

Dropped == symbolShape = "none" => rows["symbol"] = {} /\ trie \subseteq loose

SweptTables ==
  /\ pc[Server] \in Flagged => FamilyFlag \subseteq added
  /\ pc[Server] \in After1 => rows["symbol"] \subseteq modules
  /\ pc[Server] \in After2 => rows["relationship"] \subseteq modules
  /\ pc[Server] \in After3 => rows["pair"] \subseteq modules

Backfilled ==
  /\ userVersion = BackfillVersion => modules \subseteq classified \cup undone
  /\ pc[Server] = "clear1" => modules \subseteq todo[Server]
  /\ pc[Server] \in {"clear2", "classify"} => modules \subseteq classified \cup todo[Server] \cup undone
  /\ pc[Server] \in {"open", "compiling", "ready"} => userVersion = BackfillVersion

Agree == Apart \subseteq loose

(* The trie agrees with the symbols, or something will still see to it: the*)
(* marker is gone, or the server is between a change and its book-keeping. *)
HonestMark ==
  \/ Agree
  \/ ~marked /\ pc[Server] # "ready"
  \/ pc[Server] \in {"unmark", "compiling"}
  \/ pc[Server] \in {"sweep2", "sweep3"} /\ swept[Server]

StoreInv == OpenTypeOK /\ Backed /\ Dropped /\ SweptTables /\ Backfilled /\ HonestMark

(* Where a step leaves the openers.                                        *)
LEMMA Moved ==
  ASSUME StoreInv, NEW o \in Opener, NEW s, pc' = [pc EXCEPT ![o] = s]
  PROVE  \A q \in Opener : pc'[q] = IF q = o THEN s ELSE pc[q]
BY DEF StoreInv, OpenTypeOK

USE DEF After3, After2, After1, Flagged

LEMMA StoreInitInv == OpenInit => StoreInv
<1> SUFFICES ASSUME OpenInit PROVE StoreInv OBVIOUS
<1>1. PICK l \in Legacy, orphans \in SUBSET Module :
        /\ symbolShape = l.shape /\ modules = Module \ orphans
        /\ rows = [c \in Child |-> IF c = "pair" THEN Module \ orphans ELSE Module]
        /\ files = IF l.shape = "old" \/ "position" \in l.cols THEN modules ELSE {}
        /\ marked = l.mark /\ userVersion = l.ver
        /\ trie = IF l.mark THEN Module ELSE {}
        /\ classified = IF l.ver = BackfillVersion THEN modules ELSE {}
        /\ pc = [o \in Opener |-> "closed"]
        /\ swept = [o \in Opener |-> FALSE]
  BY DEF OpenInit
<1>2. l.shape \in {"old", "new"} /\ l.mark \in BOOLEAN BY DEF Legacy
<1>3. pc[Server] = "closed" BY <1>1
<1>4. Backed BY <1>1 DEF Backed, Child
<1>5. Dropped /\ SweptTables BY <1>1, <1>2, <1>3 DEF Dropped, SweptTables
<1>6. Backfilled BY <1>1, <1>3 DEF Backfilled
<1>7. HonestMark BY <1>1, <1>2, <1>3 DEF HonestMark, Agree, Apart, Child
<1> QED BY <1>4, <1>5, <1>6, <1>7, OpenInitTyped DEF StoreInv

(* A statement that reads, adds a column or stamps a generation.           *)
LEMMA QuietStep ==
  ASSUME StoreInv, OpenTypeOK', NEW o \in Opener, NEW s \in Step,
         pc' = [pc EXCEPT ![o] = s], pc[o] # "splitfiles", added \subseteq added',
         UNCHANGED <<symbolShape, modules, rows, classified, files, trie, marked, userVersion,
                     swept, todo, history>>,
         s \in {"schema", "split", "splitdrop", "recreate", "columns", "flags"}
           \/ (s = "probe" /\ FamilyFlag \subseteq added)
           \/ (s \in {"stamp", "sweep1"} /\ pc[o] \in {"probe", "stamp"}),
         pc[o] \in {"closed", "schema", "split", "recreate", "columns", "flags", "probe", "stamp"}
  PROVE  StoreInv'
<1>1. \A q \in Opener : pc'[q] = IF q = o THEN s ELSE pc[q]
  <2>1. StoreInv /\ pc' = [pc EXCEPT ![o] = s] OBVIOUS
  <2> QED BY ONLY <2>1, Moved
<1>2. Backed' BY <1>1 DEF StoreInv, Backed, history
<1>3. Dropped' BY DEF StoreInv, Dropped, history
<1>4. SweptTables'
  <2>1. CASE o = Server BY <1>1, <2>1 DEF StoreInv, SweptTables
  <2>2. CASE o # Server BY <1>1, <2>2 DEF StoreInv, SweptTables
  <2> QED BY <2>1, <2>2
<1>5. Backfilled' BY <1>1 DEF StoreInv, Backfilled, history
<1>6. HonestMark' BY <1>1 DEF StoreInv, HonestMark, Agree, Apart, history
<1> QED BY <1>2, <1>3, <1>4, <1>5, <1>6 DEF StoreInv

LEMMA ColumnsStep ==
  ASSUME StoreInv, OpenTypeOK', NEW o \in Opener,
         \/ OpenBegin(o) \/ SplitProbe(o) \/ AddColumn(o) \/ AddFlag(o)
         \/ ProbeGeneration(o) \/ StampGeneration(o)
  PROVE  StoreInv'
<1> USE DEF Goto, data, Step
<1>0. pc = [pc EXCEPT ![o] = pc[o]] BY DEF StoreInv, OpenTypeOK
<1>1. CASE OpenBegin(o) BY <1>1, QuietStep DEF OpenBegin
<1>2. CASE SplitProbe(o)
  <2>1. PICK s \in {"splitdrop", "columns"} : pc' = [pc EXCEPT ![o] = s] BY <1>2 DEF SplitProbe
  <2> QED BY <1>2, <2>1, QuietStep DEF SplitProbe
<1>3. CASE AddColumn(o)
  <2>1. PICK s \in {"columns", "flags"} : pc' = [pc EXCEPT ![o] = s] BY <1>0, <1>3 DEF AddColumn
  <2>2. added \subseteq added' BY <1>3 DEF AddColumn
  <2> QED BY <1>3, <2>1, <2>2, QuietStep DEF AddColumn
<1>4. CASE AddFlag(o)
  <2>1. PICK s \in {"flags", "probe"} :
          pc' = [pc EXCEPT ![o] = s] /\ (s = "probe" => FamilyFlag \subseteq added)
    BY <1>0, <1>4 DEF AddFlag
  <2>2. added \subseteq added' BY <1>4 DEF AddFlag
  <2> QED BY <1>4, <2>1, <2>2, QuietStep DEF AddFlag
<1>5. CASE ProbeGeneration(o)
  <2>1. PICK s \in {"stamp", "sweep1"} : pc' = [pc EXCEPT ![o] = s] BY <1>5 DEF ProbeGeneration
  <2> QED BY <1>5, <2>1, QuietStep DEF ProbeGeneration
<1>6. CASE StampGeneration(o) BY <1>6, QuietStep DEF StampGeneration
<1> QED BY <1>1, <1>2, <1>3, <1>4, <1>5, <1>6

(* The symbol table goes, the fingerprints go, the table comes back.       *)
LEMMA SplitStep ==
  ASSUME StoreInv, OpenTypeOK', NEW o \in Opener,
         ApplySchema(o) \/ SplitDrop(o) \/ SplitFiles(o) \/ Recreate(o)
  PROVE  StoreInv'
<1>1. CASE ApplySchema(o)
  <2>1. /\ pc[o] = "schema" /\ pc' = [pc EXCEPT ![o] = "split"] /\ added \subseteq added'
        /\ UNCHANGED <<modules, rows, classified, files, trie, marked, userVersion, swept, todo, history>>
        /\ symbolShape' # "none"
    BY <1>1 DEF ApplySchema, Goto
  <2>2. \A q \in Opener : pc'[q] = IF q = o THEN "split" ELSE pc[q]
    <3>1. StoreInv /\ pc' = [pc EXCEPT ![o] = "split"] BY <2>1
    <3> QED BY ONLY <3>1, Moved
  <2>3. Backed' /\ Dropped' BY <2>1, <2>2 DEF StoreInv, Backed, Dropped, history
  <2>4. SweptTables' /\ Backfilled' BY <2>1, <2>2 DEF StoreInv, SweptTables, Backfilled, history
  <2>5. HonestMark' BY <2>1, <2>2 DEF StoreInv, HonestMark, Agree, Apart, history
  <2> QED BY <2>3, <2>4, <2>5 DEF StoreInv
<1>2. CASE SplitDrop(o)
  <2>1. /\ pc[o] = "splitdrop" /\ pc' = [pc EXCEPT ![o] = "splitfiles"]
        /\ added' = added \ {"index_implied"} /\ loose' = loose \cup trie
        /\ rows' = [rows EXCEPT !["symbol"] = {}]
        /\ UNCHANGED <<modules, classified, files, trie, userVersion, swept, todo, unbacked, undone>>
    BY <1>2 DEF SplitDrop, Goto
  <2>2. \A q \in Opener : pc'[q] = IF q = o THEN "splitfiles" ELSE pc[q]
    <3>1. StoreInv /\ pc' = [pc EXCEPT ![o] = "splitfiles"] BY <2>1
    <3> QED BY ONLY <3>1, Moved
  <2>3. /\ rows'["symbol"] = {} /\ rows'["pair"] = rows["pair"]
        /\ rows'["relationship"] = rows["relationship"]
    BY <2>1 DEF StoreInv, OpenTypeOK, Child
  <2>4. Backed' BY <2>1, <2>2 DEF StoreInv, Backed
  <2>5. Dropped' BY <2>1, <2>3 DEF Dropped
  <2>6. SweptTables'
    <3>1. FamilyFlag \subseteq added => FamilyFlag \subseteq added' BY <2>1 DEF FamilyFlag
    <3> QED BY <2>1, <2>2, <2>3, <3>1 DEF StoreInv, SweptTables
  <2>7. Backfilled' BY <2>1, <2>2 DEF StoreInv, Backfilled
  <2>8. HonestMark' BY <2>1, <2>3 DEF HonestMark, Agree, Apart
  <2> QED BY <2>4, <2>5, <2>6, <2>7, <2>8 DEF StoreInv
<1>3. CASE SplitFiles(o)
  <2>1. /\ pc[o] = "splitfiles" /\ pc' = [pc EXCEPT ![o] = "recreate"] /\ files' = {}
        /\ UNCHANGED <<symbolShape, added, modules, rows, classified, trie, marked, userVersion,
                       swept, todo, history>>
    BY <1>3 DEF SplitFiles, Goto
  <2>2. \A q \in Opener : pc'[q] = IF q = o THEN "recreate" ELSE pc[q]
    <3>1. StoreInv /\ pc' = [pc EXCEPT ![o] = "recreate"] BY <2>1
    <3> QED BY ONLY <3>1, Moved
  <2>3. Backed' /\ Dropped' BY <2>1 DEF StoreInv, Backed, Dropped, history
  <2>4. SweptTables' /\ Backfilled' BY <2>1, <2>2 DEF StoreInv, SweptTables, Backfilled, history
  <2>5. HonestMark' BY <2>1, <2>2 DEF StoreInv, HonestMark, Agree, Apart, history
  <2> QED BY <2>3, <2>4, <2>5 DEF StoreInv
<1>4. CASE Recreate(o)
  <2>1. /\ pc[o] = "recreate" /\ pc' = [pc EXCEPT ![o] = "columns"] /\ added \subseteq added'
        /\ UNCHANGED <<modules, rows, classified, files, trie, marked, userVersion, swept, todo, history>>
        /\ symbolShape' # "none"
    BY <1>4 DEF Recreate, Goto
  <2>2. \A q \in Opener : pc'[q] = IF q = o THEN "columns" ELSE pc[q]
    <3>1. StoreInv /\ pc' = [pc EXCEPT ![o] = "columns"] BY <2>1
    <3> QED BY ONLY <3>1, Moved
  <2>3. Backed' /\ Dropped' BY <2>1, <2>2 DEF StoreInv, Backed, Dropped, history
  <2>4. SweptTables' /\ Backfilled' BY <2>1, <2>2 DEF StoreInv, SweptTables, Backfilled, history
  <2>5. HonestMark' BY <2>1, <2>2 DEF StoreInv, HonestMark, Agree, Apart, history
  <2> QED BY <2>3, <2>4, <2>5 DEF StoreInv
<1> QED BY <1>1, <1>2, <1>3, <1>4

LEMMA SweepStep ==
  ASSUME StoreInv, OpenTypeOK', NEW o \in Opener, NEW i \in 1..3, Sweep(o, i)
  PROVE  StoreInv'
<1> DEFINE c == ChildOrder[i]
           orphans == rows[c] \ modules
           s == CASE i = 1 -> "sweep2" [] i = 2 -> "sweep3"
                  [] OTHER -> IF swept'[o] THEN "unmark" ELSE "gate"
<1>1. c \in Child BY DEF ChildOrder, Child
<1>2. /\ UNCHANGED <<symbolShape, added, modules, classified, files, trie, marked, userVersion, todo,
                     unbacked, undone>>
      /\ rows' = [rows EXCEPT ![c] = @ \ orphans] /\ swept' = [swept EXCEPT ![o] = @ \/ orphans # {}]
      /\ loose' = IF i = 1 /\ o # Server THEN loose \cup orphans ELSE loose
      /\ pc[o] = <<"sweep1", "sweep2", "sweep3">>[i] /\ pc' = [pc EXCEPT ![o] = s]
      /\ i = 1 => symbolShape # "none"
  BY DEF Sweep, Goto
<1>15. s = IF i = 1 THEN "sweep2" ELSE IF i = 2 THEN "sweep3"
           ELSE IF swept'[o] THEN "unmark" ELSE "gate"
  <2>1. CASE i = 1
    <3>1. i # 2 BY <2>1
    <3> QED BY <2>1, <3>1, Zenon
  <2>2. CASE i = 2
    <3>1. i # 1 BY <2>2
    <3> QED BY <2>2, <3>1, Zenon
  <2>3. CASE i # 1 /\ i # 2 BY <2>3, Zenon
  <2> QED BY <2>1, <2>2, <2>3
<1> HIDE DEF s
<1>18. PICK v : v = s OBVIOUS
<1>3. \A q \in Opener : pc'[q] = IF q = o THEN s ELSE pc[q]
  <2>1. pc' = [pc EXCEPT ![o] = v] BY <1>2, <1>18
  <2>2. \A q \in Opener : pc'[q] = IF q = o THEN v ELSE pc[q]
    <3>1. StoreInv /\ pc' = [pc EXCEPT ![o] = v] BY <2>1
    <3> QED BY ONLY <3>1, Moved
  <2> QED BY ONLY <1>18, <2>2, Zenon
<1>4. \A q \in Opener : swept'[q] = IF q = o THEN (swept[o] \/ orphans # {}) ELSE swept[q]
  BY <1>2 DEF StoreInv, OpenTypeOK
<1>5. /\ i = 1 => c = "symbol" /\ pc[o] = "sweep1" /\ s = "sweep2"
      /\ i = 2 => c = "relationship" /\ pc[o] = "sweep2" /\ s = "sweep3"
      /\ i = 3 => c = "pair" /\ pc[o] = "sweep3" /\ s = IF swept'[o] THEN "unmark" ELSE "gate"
  BY <1>2, <1>15 DEF ChildOrder
<1>6. \A d \in Child : rows'[d] = IF d = c THEN rows[c] \ orphans ELSE rows[d]
  BY <1>1, <1>2 DEF StoreInv, OpenTypeOK
<1>7. rows'[c] \subseteq modules /\ (\A d \in Child : rows'[d] \subseteq rows[d])
  BY <1>1, <1>6
<1>8. rows["symbol"] \cap modules \subseteq rows'["symbol"]
  BY <1>1, <1>6 DEF Child
<1>9. rows'["symbol"] = rows["symbol"] \/ (i = 1 /\ orphans # {} /\ rows'["symbol"] = rows["symbol"] \ orphans)
  BY <1>5, <1>6 DEF Child
<1> HIDE DEF c, orphans
<1>10. Backed' BY <1>2, <1>3, <1>5, <1>8 DEF StoreInv, Backed
<1>11. Dropped' BY <1>2, <1>5, <1>7 DEF StoreInv, Dropped, Child
<1>12. SweptTables' BY <1>2, <1>3, <1>5, <1>7 DEF StoreInv, SweptTables, Child
<1>13. Backfilled' BY <1>2, <1>3, <1>5 DEF StoreInv, Backfilled
<1>14. HonestMark'
  <2>1. CASE o # Server
    <3>1. Agree => Agree' BY <1>2, <1>9, <2>1 DEF Agree, Apart
    <3> QED BY <1>2, <1>3, <1>4, <2>1, <3>1 DEF StoreInv, HonestMark
  <2>2. CASE o = Server
    <3>1. pc'[Server] = s /\ pc[Server] \in {"sweep1", "sweep2", "sweep3"}
      BY <1>3, <1>5, <2>2
    <3>2. CASE swept'[Server] BY <1>5, <2>2, <3>1, <3>2 DEF HonestMark
    <3>3. CASE ~swept'[Server]
      <4>1. ~swept[Server] /\ orphans = {} BY <1>4, <2>2, <3>3
      <4>2. rows'["symbol"] = rows["symbol"] /\ loose' = loose BY <1>2, <1>9, <2>2, <4>1
      <4>3. Agree \/ ~marked BY <3>1, <4>1 DEF StoreInv, HonestMark
      <4>4. pc'[Server] # "ready" BY <1>5, <3>1
      <4> QED BY <1>2, <4>2, <4>3, <4>4 DEF HonestMark, Agree, Apart
    <3> QED BY <3>2, <3>3
  <2> QED BY <2>1, <2>2
<1> QED BY <1>10, <1>11, <1>12, <1>13, <1>14 DEF StoreInv

LEMMA UnmarkStep ==
  ASSUME StoreInv, OpenTypeOK', NEW o \in Opener, UnmarkTrie(o)
  PROVE  StoreInv'
<1>1. /\ UNCHANGED <<symbolShape, added, modules, rows, classified, files, trie, userVersion, swept,
                     todo, history>>
      /\ pc[o] = "unmark" /\ pc' = [pc EXCEPT ![o] = "gate"] /\ marked' = FALSE
  BY DEF UnmarkTrie, Goto
<1>2. \A q \in Opener : pc'[q] = IF q = o THEN "gate" ELSE pc[q]
  <2>1. StoreInv /\ pc' = [pc EXCEPT ![o] = "gate"] BY <1>1
  <2> QED BY ONLY <2>1, Moved
<1>3. Backed' /\ Dropped' BY <1>1, <1>2 DEF StoreInv, Backed, Dropped, history
<1>4. SweptTables' /\ Backfilled' BY <1>1, <1>2 DEF StoreInv, SweptTables, Backfilled, history
<1>5. HonestMark' BY <1>1, <1>2 DEF StoreInv, HonestMark, Agree, Apart, history
<1> QED BY <1>3, <1>4, <1>5 DEF StoreInv

(* A backfill that is still owed starts with a list of all modules.        *)
LEMMA GateStep ==
  ASSUME StoreInv, OpenTypeOK', NEW o \in Opener, BackfillGate(o)
  PROVE  StoreInv'
<1>1. UNCHANGED <<symbolShape, added, modules, rows, classified, files, trie, marked, userVersion,
                  swept, history>> /\ pc[o] = "gate"
  BY DEF BackfillGate, data
<1>2. PICK s \in {"open", "clear1"} :
        /\ pc' = [pc EXCEPT ![o] = s]
        /\ s = "open" => userVersion = BackfillVersion
        /\ s = "clear1" => todo'[o] = modules
        /\ \A q \in Opener \ {o} : todo'[q] = todo[q]
  BY DEF BackfillGate, Goto, StoreInv, OpenTypeOK, BackfillVersion
<1>3. \A q \in Opener : pc'[q] = IF q = o THEN s ELSE pc[q]
  <2>1. StoreInv /\ pc' = [pc EXCEPT ![o] = s] BY <1>2
  <2> QED BY ONLY <2>1, Moved
<1>4. Backed' /\ Dropped' BY <1>1, <1>3 DEF StoreInv, Backed, Dropped, history
<1>5. SweptTables' BY <1>1, <1>3 DEF StoreInv, SweptTables
<1>6. Backfilled' BY <1>1, <1>2, <1>3 DEF StoreInv, Backfilled, history
<1>7. HonestMark' BY <1>1, <1>3 DEF StoreInv, HonestMark, Agree, Apart, history
<1> QED BY <1>4, <1>5, <1>6, <1>7 DEF StoreInv

LEMMA ClearStep ==
  ASSUME StoreInv, OpenTypeOK', NEW o \in Opener, ClearDerived(o)
  PROVE  StoreInv'
<1>1. /\ UNCHANGED <<symbolShape, added, modules, files, trie, marked, userVersion, swept, todo,
                     unbacked, loose>>
  BY DEF ClearDerived
<1>2. PICK s \in {"clear2", "classify"} :
        /\ pc' = [pc EXCEPT ![o] = s]
        /\ s = "clear2" => pc[o] = "clear1" /\ (undone' = modules
                             \/ (o = Server /\ userVersion < BackfillVersion))
        /\ s = "classify" => pc[o] = "clear2" /\ UNCHANGED <<classified, undone>>
  BY DEF ClearDerived, Goto
<1>3. \A q \in Opener : pc'[q] = IF q = o THEN s ELSE pc[q]
  <2>1. StoreInv /\ pc' = [pc EXCEPT ![o] = s] BY <1>2
  <2> QED BY ONLY <2>1, Moved
<1>4. (\A c \in Child : rows'[c] \subseteq rows[c]) /\ rows'["symbol"] = rows["symbol"]
  BY DEF ClearDerived, StoreInv, OpenTypeOK, Child
<1>5. Backed' BY <1>1, <1>2, <1>3, <1>4 DEF StoreInv, Backed
<1>6. Dropped' BY <1>1, <1>4 DEF StoreInv, Dropped
<1>7. SweptTables' BY <1>1, <1>2, <1>3, <1>4 DEF StoreInv, SweptTables, Child
<1>8. Backfilled'
  <2>1. userVersion < BackfillVersion => userVersion # BackfillVersion
    BY DEF StoreInv, OpenTypeOK, BackfillVersion
  <2> QED BY <1>1, <1>2, <1>3, <2>1 DEF StoreInv, Backfilled
<1>9. HonestMark' BY <1>1, <1>2, <1>3, <1>4 DEF StoreInv, HonestMark, Agree, Apart
<1> QED BY <1>5, <1>6, <1>7, <1>8, <1>9 DEF StoreInv

LEMMA ClassifyStep ==
  ASSUME StoreInv, OpenTypeOK', NEW o \in Opener, NEW m \in Module, ClassifyModule(o, m)
  PROVE  StoreInv'
<1>1. /\ UNCHANGED <<symbolShape, added, modules, files, trie, marked, userVersion, swept,
                     unbacked, loose>>
      /\ pc[o] = "classify" /\ m \in todo[o]
  BY DEF ClassifyModule
<1>2. CASE m \in rows["symbol"] \cap modules /\ m \in rows["relationship"]
  <2>1. /\ pc' = [pc EXCEPT ![o] = "closed"] /\ todo' = [todo EXCEPT ![o] = {}]
        /\ UNCHANGED <<rows, classified, undone>>
    BY <1>2 DEF ClassifyModule, Goto
  <2>2. \A q \in Opener : pc'[q] = IF q = o THEN "closed" ELSE pc[q] BY <2>1, Moved
  <2>3. Backed' /\ Dropped' BY <1>1, <2>1, <2>2 DEF StoreInv, Backed, Dropped
  <2>4. SweptTables' BY <1>1, <2>1, <2>2 DEF StoreInv, SweptTables
  <2>5. Backfilled'
    <3>1. \A q \in Opener \ {o} : todo'[q] = todo[q] BY <2>1 DEF StoreInv, OpenTypeOK
    <3> QED BY <1>1, <2>1, <2>2, <3>1 DEF StoreInv, Backfilled
  <2>6. HonestMark' BY <1>1, <2>1, <2>2 DEF StoreInv, HonestMark, Agree, Apart
  <2> QED BY <2>3, <2>4, <2>5, <2>6 DEF StoreInv
<1>3. CASE ~(m \in rows["symbol"] \cap modules /\ m \in rows["relationship"])
  <2>1. /\ UNCHANGED pc /\ classified' = classified \cup {m} /\ undone' = undone \ {m}
        /\ todo' = [todo EXCEPT ![o] = @ \ {m}]
        /\ \/ UNCHANGED rows
           \/ /\ m \in modules
              /\ rows' = [rows EXCEPT !["relationship"] = @ \cup {m}, !["pair"] = @ \cup {m}]
    BY <1>3 DEF ClassifyModule
  <2>2. rows'["symbol"] = rows["symbol"] /\ \A c \in Child : rows'[c] \subseteq rows[c] \cup modules
    BY <2>1 DEF StoreInv, OpenTypeOK, Child
  <2>3. \A q \in Opener : todo'[q] = IF q = o THEN todo[q] \ {m} ELSE todo[q]
    BY <2>1 DEF StoreInv, OpenTypeOK
  <2>4. Backed' /\ Dropped' BY <1>1, <2>1, <2>2 DEF StoreInv, Backed, Dropped
  <2>5. SweptTables' BY <1>1, <2>1, <2>2 DEF StoreInv, SweptTables, Child
  <2>6. Backfilled'
    <3>1. pc[Server] = "clear1" => o # Server BY <1>1
    <3> QED BY <1>1, <2>1, <2>3, <3>1 DEF StoreInv, Backfilled
  <2>7. HonestMark' BY <1>1, <2>1, <2>2 DEF StoreInv, HonestMark, Agree, Apart
  <2> QED BY <2>4, <2>5, <2>6, <2>7 DEF StoreInv
<1> QED BY <1>2, <1>3

LEMMA DoneStep ==
  ASSUME StoreInv, OpenTypeOK', NEW o \in Opener, BackfillDone(o)
  PROVE  StoreInv'
<1>1. /\ UNCHANGED <<symbolShape, added, modules, rows, classified, files, trie, marked, swept, todo,
                     unbacked, loose>>
      /\ pc[o] = "classify" /\ todo[o] = {} /\ userVersion' = BackfillVersion
      /\ pc' = [pc EXCEPT ![o] = "open"]
      /\ undone' = IF o = Server THEN undone ELSE undone \cup (modules \ classified)
  BY DEF BackfillDone, Goto
<1>2. \A q \in Opener : pc'[q] = IF q = o THEN "open" ELSE pc[q]
  <2>1. StoreInv /\ pc' = [pc EXCEPT ![o] = "open"] BY <1>1
  <2> QED BY ONLY <2>1, Moved
<1>3. Backed' /\ Dropped' BY <1>1, <1>2 DEF StoreInv, Backed, Dropped
<1>4. SweptTables' BY <1>1, <1>2 DEF StoreInv, SweptTables
<1>5. Backfilled' BY <1>1, <1>2 DEF StoreInv, Backfilled
<1>6. HonestMark' BY <1>1, <1>2 DEF StoreInv, HonestMark, Agree, Apart
<1> QED BY <1>3, <1>4, <1>5, <1>6 DEF StoreInv

(* The boot's pass: compile, prune, rebuild.                               *)
LEMMA CompileStep ==
  ASSUME StoreInv, OpenTypeOK', NEW m \in Module, CompileModule(m)
  PROVE  StoreInv'
<1>1. /\ UNCHANGED <<symbolShape, added, trie, marked, userVersion, swept, unbacked, loose>>
      /\ pc[Server] \in {"open", "compiling"}
  BY DEF CompileModule
<1>2. CASE symbolShape = "none"
  <2>1. UNCHANGED <<modules, files, rows, classified, undone, pc>> BY <1>2 DEF CompileModule
  <2> QED BY <1>1, <2>1 DEF StoreInv, Backed, Dropped, SweptTables, Backfilled, HonestMark, Agree, Apart
<1>3. CASE symbolShape # "none"
  <2>1. /\ modules' = modules \cup {m} /\ files' = files \cup {m}
        /\ rows' = [c \in Child |-> rows[c] \cup {m}]
        /\ classified' = classified \cup {m} /\ undone' = undone \ {m}
        /\ pc' = [pc EXCEPT ![Server] = "compiling"]
    BY <1>3 DEF CompileModule, Goto
  <2>2. \A q \in Opener : pc'[q] = IF q = Server THEN "compiling" ELSE pc[q] BY <2>1, Moved
  <2>3. \A c \in Child : rows'[c] = rows[c] \cup {m} BY <2>1
  <2>4. Backed' BY <1>1, <2>1, <2>2, <2>3 DEF StoreInv, Backed, Child
  <2>5. Dropped' /\ SweptTables' BY <1>1, <1>3, <2>1, <2>2, <2>3 DEF StoreInv, Dropped, SweptTables, Child
  <2>6. Backfilled' BY <1>1, <2>1, <2>2 DEF StoreInv, Backfilled
  <2>7. HonestMark' BY <2>2 DEF HonestMark
  <2> QED BY <2>4, <2>5, <2>6, <2>7 DEF StoreInv
<1> QED BY <1>2, <1>3

LEMMA FinishStep ==
  ASSUME StoreInv, OpenTypeOK', FinishSync
  PROVE  StoreInv'
<1> DEFINE gone == IF symbolShape = "none" THEN {} ELSE modules \ files
<1>1. /\ UNCHANGED <<symbolShape, added, files, userVersion, swept, todo, unbacked, undone>>
      /\ pc[Server] \in {"open", "compiling"} /\ pc' = [pc EXCEPT ![Server] = "ready"]
      /\ modules' = modules \ gone /\ rows' = [c \in Child |-> rows[c] \ gone]
      /\ classified' = classified \ gone
  BY DEF FinishSync, Goto
<1>2. \A q \in Opener : pc'[q] = IF q = Server THEN "ready" ELSE pc[q] BY <1>1, Moved
<1>3. \A c \in Child : rows'[c] = rows[c] \ gone BY <1>1
<1>4. rows'["symbol"] = rows["symbol"] \ gone BY <1>3 DEF Child
<1>5. gone \cap files = {} OBVIOUS
<1>6. Backed' BY <1>1, <1>2, <1>4, <1>5 DEF StoreInv, Backed
<1>7. SweptTables' BY <1>1, <1>2, <1>3 DEF StoreInv, SweptTables, Child
<1>8. Backfilled' BY <1>1, <1>2 DEF StoreInv, Backfilled
<1>9. \/ UNCHANGED <<trie, marked, loose>> /\ (symbolShape = "none" \/ (pc[Server] = "open" /\ gone = {} /\ marked))
      \/ symbolShape # "none" /\ trie' = rows'["symbol"]
  <2>1. FamilyFlag \subseteq added BY <1>1 DEF StoreInv, SweptTables
  <2>2. CASE symbolShape = "none" BY <2>2 DEF FinishSync
  <2>3. CASE symbolShape # "none" /\ (pc[Server] = "compiling" \/ gone # {} \/ ~marked)
    BY <2>1, <2>3 DEF FinishSync
  <2>4. CASE pc[Server] # "compiling" /\ gone = {} /\ marked
    <3>1. UNCHANGED <<trie, marked, loose>> BY <2>4 DEF FinishSync
    <3> QED BY <1>1, <2>4, <3>1
  <2> QED BY <2>2, <2>3, <2>4
<1>10. Dropped' BY <1>1, <1>4, <1>9 DEF StoreInv, Dropped
<1>11. HonestMark'
  <2>1. CASE trie' = rows'["symbol"] BY <2>1 DEF HonestMark, Agree, Apart
  <2>2. CASE UNCHANGED <<trie, loose>> /\ symbolShape = "none"
    BY <1>4, <2>2 DEF StoreInv, Dropped, HonestMark, Agree, Apart
  <2>3. CASE UNCHANGED <<trie, loose>> /\ pc[Server] = "open" /\ gone = {} /\ marked
    <3>1. Agree BY <2>3 DEF StoreInv, HonestMark
    <3>2. rows'["symbol"] = rows["symbol"] BY <1>4, <2>3
    <3> QED BY <2>3, <3>1, <3>2 DEF HonestMark, Agree, Apart
  <2> QED BY <1>9, <2>1, <2>2, <2>3
<1> QED BY <1>6, <1>7, <1>8, <1>10, <1>11 DEF StoreInv

(* Whoever ends leaves behind what the history records.                    *)
LEMMA EndStep ==
  ASSUME StoreInv, OpenTypeOK', NEW o \in Opener, CloseStore(o) \/ Die(o) \/ OpenFails(o)
  PROVE  StoreInv'
<1>1. /\ UNCHANGED data /\ pc' = [pc EXCEPT ![o] = "closed"] /\ todo' = [todo EXCEPT ![o] = {}]
      /\ UNCHANGED undone /\ loose \subseteq loose' /\ unbacked \subseteq unbacked'
      /\ pc[o] = "splitfiles" => files \subseteq rows["symbol"] \cup unbacked'
      /\ \/ pc[o] \in {"unmark", "compiling"} \/ (pc[o] \in {"sweep2", "sweep3"} /\ swept[o])
         => Apart \subseteq loose'
  <2>1. CASE CloseStore(o) BY <2>1 DEF CloseStore, Goto, history
  <2>2. CASE Die(o)
    <3>1. files \subseteq rows["symbol"] \cup (unbacked \cup (files \ rows["symbol"])) OBVIOUS
    <3> QED BY <2>2, <3>1 DEF Die, Goto
  <2>3. CASE OpenFails(o) BY <2>3 DEF OpenFails, Goto, history
  <2> QED BY <2>1, <2>2, <2>3
<1>2. \A q \in Opener : pc'[q] = IF q = o THEN "closed" ELSE pc[q] BY <1>1, Moved
<1>3. \A q \in Opener \ {o} : todo'[q] = todo[q] /\ swept'[q] = swept[q]
  BY <1>1 DEF StoreInv, OpenTypeOK, CloseStore, Die, OpenFails
<1>4. UNCHANGED <<symbolShape, added, modules, rows, classified, files, trie, marked, userVersion>>
  BY <1>1 DEF data
<1>5. Backed'
  <2>1. CASE pc[o] = "splitfiles" BY <1>1, <1>4, <2>1 DEF StoreInv, Backed
  <2>2. CASE pc[o] # "splitfiles" BY <1>1, <1>2, <1>4, <2>2 DEF StoreInv, Backed
  <2> QED BY <2>1, <2>2
<1>6. Dropped' BY <1>1, <1>4 DEF StoreInv, Dropped
<1>7. SweptTables' BY <1>2, <1>4 DEF StoreInv, SweptTables
<1>8. Backfilled' BY <1>1, <1>2, <1>3, <1>4 DEF StoreInv, Backfilled
<1>9. HonestMark'
  <2>1. Agree => Agree' BY <1>1, <1>4 DEF Agree, Apart
  <2>2. CASE o = Server
    <3>1. pc'[Server] = "closed" BY <1>2, <2>2
    <3>2. \/ pc[o] \in {"unmark", "compiling"} \/ (pc[o] \in {"sweep2", "sweep3"} /\ swept[o]) => Agree'
      BY <1>1, <1>4 DEF Agree, Apart
    <3> QED BY <1>4, <2>1, <2>2, <3>1, <3>2 DEF StoreInv, HonestMark
  <2>3. CASE o # Server BY <1>2, <1>3, <1>4, <2>1, <2>3 DEF StoreInv, HonestMark
  <2> QED BY <2>2, <2>3
<1> QED BY <1>5, <1>6, <1>7, <1>8, <1>9 DEF StoreInv

LEMMA StoreStep == StoreInv /\ [OpenNext]_openVars => StoreInv'
<1> SUFFICES ASSUME StoreInv, [OpenNext]_openVars PROVE StoreInv' OBVIOUS
<1>1. OpenTypeOK' BY OpenTypeStep DEF StoreInv
<1>2. CASE UNCHANGED openVars
  BY <1>1, <1>2 DEF openVars, data, history, StoreInv, Backed, Dropped, SweptTables, Backfilled,
                    HonestMark, Agree, Apart
<1> QED BY <1>1, <1>2, ColumnsStep, SplitStep, SweepStep, UnmarkStep, GateStep, ClearStep, ClassifyStep,
           DoneStep, CompileStep, FinishStep, EndStep DEF OpenNext

THEOREM StoreInvariant == OpenSpec => []StoreInv
<1> QED BY StoreInitInv, StoreStep, PTL DEF OpenSpec

(* A fingerprint that boot trusts has its compiled rows, for any modules   *)
(* and openers, whoever dies where: only the fingerprints that a death     *)
(* between the drop and their deletion left behind are without (store.go,  *)
(* the INVARIANT at migrateSymbolKindSplit).                               *)
THEOREM FingerprintsAreBacked == OpenSpec => []FingerprintsBacked
<1>1. StoreInv => FingerprintsBacked BY DEF StoreInv, Backed, FingerprintsBacked
<1> QED BY <1>1, StoreInvariant, PTL

(* A served database has rows of its modules only, and its OID tree shows  *)
(* exactly the symbols it has, except where an opener died between a change*)
(* and the marker or changed the symbols under the server, for any modules,*)
(* openers and builds the database was written by (store.go,               *)
(* sweepOrphanedModuleRows and the column migrations; oidtree.go's marker).*)
THEOREM TreeIsServed == OpenSpec => []TreeMatchesSymbols
<1>1. StoreInv => TreeMatchesSymbols
  BY DEF StoreInv, SweptTables, HonestMark, Agree, TreeMatchesSymbols, Ready, Child
<1> QED BY <1>1, StoreInvariant, PTL

(* A served database has the relationships of the current engine for every *)
(* module, however often the backfill was cut short, but for what a second *)
(* backfill deleted (store.go, backfillRelationships).                     *)
THEOREM EveryModuleClassified == OpenSpec => []AllClassified
<1>1. StoreInv => AllClassified BY DEF StoreInv, Backfilled, AllClassified, Ready
<1> QED BY <1>1, StoreInvariant, PTL

-----------------------------------------------------------------------------
(* The process, the corpus volume and the database keep their types, for   *)
(* any files, paths, modules, clients and bounds (main.go run, standard.go *)
(* SyncStandard, store.go Open).                                           *)
THEOREM ProcessTyped == ProcessSpec => []ProcessTypeOK
<1> DEFINE Inv == LifeInv /\ SyncInv /\ OpenTypeOK
<1>1. ProcessInit => Inv
  BY LifeInitInv, SyncInitInv, OpenInitTyped DEF ProcessInit
<1>2. Inv /\ [ProcessNext]_processVars => Inv'
  <2> SUFFICES ASSUME Inv, [ProcessNext]_processVars PROVE Inv' OBVIOUS
  <2>1. [Next]_vars /\ [SyncNext]_syncVars /\ [OpenNext]_openVars
    BY DEF ProcessNext, processVars, Life, Volume, Database, AtBounds
  <2>2. LifeInv' BY <2>1, LifeInvStep
  <2>3. SyncInv' BY <2>1, SyncInvStep
  <2>4. OpenTypeOK' BY <2>1, OpenTypeStep
  <2> QED BY <2>2, <2>3, <2>4
<1>3. Inv => ProcessTypeOK
  BY DEF LifeInv, SyncInv, ProcessTypeOK
<1> QED BY <1>1, <1>2, <1>3, PTL DEF ProcessSpec
=============================================================================

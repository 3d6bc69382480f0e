--------------------------------- MODULE Serving ---------------------------------
(***************************************************************************)
(* Requests that read the store with many queries while imports replace    *)
(* and drop modules: the ZIP bundle of a module or of a walk (internal/    *)
(* server bundle.go, handleModuleBundle, handleWalkBundle, store.List-     *)
(* ImportClosureUnion), and the walk decoder (internal/walk resolver.go).  *)
(*                                                                         *)
(* A module version is [symbols, imports]: symbols are [name, oid, kind,   *)
(* parent, index, integer] and imports the sequence of modules named by    *)
(* the IMPORTS clause.  A walk is a sequence of entries [module, name,     *)
(* oid]: an OID, or the suffix of a named symbol.                          *)
(***************************************************************************)
EXTENDS Naturals, Sequences, FiniteSets

CONSTANTS
  Editions,         \* module |-> the versions it may have
  Walks,            \* the walks that are decoded
  Roots,            \* the sets of modules that bundles are asked for
  Enterprises,      \* the OID of the enterprises node
  StructuralArcMax, \* deepest OID outside it that counts as scaffolding
  MaxChanges        \* bound: changes of the corpus

StartsWith(p, o) == Len(p) <= Len(o) /\ SubSeq(o, 1, Len(p)) = p
Elems(s) == {s[i] : i \in DOMAIN s}

ASSUME EditionsAssumption ==
  \A m \in DOMAIN Editions : \A v \in Editions[m] :
    v.imports \in Seq(Elems(v.imports)) /\ \A s \in v.symbols : s.oid \in Seq(Nat)
ASSUME WalksAssumption ==
  /\ \A w \in Walks : w \in Seq(Elems(w)) /\ \A i \in DOMAIN w : w[i].oid \in Seq(Nat)
  /\ Enterprises \in Seq(Nat) /\ StructuralArcMax \in Nat

Unloaded == [symbols |-> {}, imports |-> <<>>, rank |-> 0]
Unnamed == "numeric"

VARIABLES
  edition,    \* module |-> its version and the rank of its import, or Unloaded
  openable,   \* modules whose source file can be opened
  request,    \* the request in flight
  answer,     \* the last answer
  changes

servingVars == <<edition, openable, request, answer, changes>>
Mods == DOMAIN Editions
Loaded(m) == m \in Mods /\ edition[m] # Unloaded
NoRequest == [step |-> "none"]
NoAnswer == [kind |-> "none"]

(* Modules that the roots lead to along edges: imports that were there all *)
(* the time.                                                               *)
Closed(edges, S) == \A e \in edges : e[1] \in S => e[2] \in S
Reach(edges, roots) ==
  {m \in Mods : \A S \in SUBSET Mods : roots \subseteq S /\ Closed(edges, S) => m \in S}
Edges == {e \in Mods \X Mods : Loaded(e[1]) /\ Loaded(e[2]) /\ e[2] \in Elems(edition[e[1]].imports)}

ServingInit ==
  /\ edition = [m \in Mods |-> Unloaded] /\ openable = Mods
  /\ request = NoRequest /\ answer = NoAnswer /\ changes = 0

-----------------------------------------------------------------------------
(* What the bundle's completeness may rely on: what held all along. *)
Lasting(r, e, o) == IF r.step = "none" \/ r.kind = "walk" THEN r
                    ELSE [r EXCEPT !.edges = @ \cap e, !.files = @ \cap o]

Change(m, v) ==
  /\ changes < MaxChanges /\ changes' = changes + 1
  /\ edition' = [edition EXCEPT ![m] = IF v = Unloaded THEN v
                   ELSE [symbols |-> v.symbols, imports |-> v.imports, rank |-> changes + 1]]
  /\ request' = Lasting(request, Edges', openable)
  /\ UNCHANGED <<openable, answer>>

StoreReplacesModule(m) == \E v \in Editions[m] : Change(m, v)
StoreDeletesModule(m) == Loaded(m) /\ Change(m, Unloaded)

FileDisappears(m) ==
  /\ m \in openable /\ openable' = openable \ {m}
  /\ request' = Lasting(request, Edges, openable')
  /\ UNCHANGED <<edition, answer, changes>>

-----------------------------------------------------------------------------
(* ListImportClosureUnion: a breadth-first walk that queries module by     *)
(* module.  A root that is gone fails the request.                         *)
Fail(code) == request' = NoRequest /\ answer' = [kind |-> code]

BundleStart(roots) ==
  /\ request.step = "none"
  /\ IF \E m \in roots : ~Loaded(m) THEN Fail("notfound")
     ELSE /\ request' = [step |-> "frontier", kind |-> "bundle", roots |-> roots,
                         visited |-> roots, frontier |-> roots, todo |-> <<>>,
                         found |-> roots, missing |-> {}, zip |-> {}, named |-> roots,
                         twice |-> FALSE, edges |-> Edges, files |-> openable]
          /\ answer' = NoAnswer
  /\ UNCHANGED <<edition, openable, changes>>

(* listImportsByModule of the next module. *)
ReadImports(m) ==
  /\ request.step = "frontier" /\ m \in request.frontier
  /\ request' = [request EXCEPT !.step = "deps", !.frontier = @ \ {m},
                                !.todo = edition[m].imports,
                                !.named = @ \cup Elems(edition[m].imports)]
  /\ UNCHANGED <<edition, openable, answer, changes>>

(* Mutant of Visit: only loaded modules count as visited. *)
VisitLoaded(r, m) ==
  IF Loaded(m) THEN [r EXCEPT !.visited = @ \cup {m}, !.found = @ \cup {m}, !.frontier = @ \cup {m}]
  ELSE [r EXCEPT !.missing = @ \cup {m}, !.twice = @ \/ m \in r.missing]

(* GetModule of an import: a miss is recorded as not loaded. *)
Visit(r, m) ==
  LET w == [r EXCEPT !.visited = @ \cup {m}, !.twice = @ \/ m \in r.missing \cup r.found] IN
  IF Loaded(m) THEN [w EXCEPT !.found = @ \cup {m}, !.frontier = @ \cup {m}]
  ELSE [w EXCEPT !.missing = @ \cup {m}]

ResolveImport ==
  /\ request.step = "deps" /\ request.todo # <<>>
  /\ LET m == Head(request.todo)
         r == [request EXCEPT !.todo = Tail(@)]
     IN request' = IF m \in r.visited THEN r ELSE Visit(r, m)
  /\ UNCHANGED <<edition, openable, answer, changes>>

NextModule ==
  /\ request.step = "deps" /\ request.todo = <<>>
  /\ request' = [request EXCEPT !.step = IF request.frontier = {} THEN "copy" ELSE "frontier"]
  /\ UNCHANGED <<edition, openable, answer, changes>>

(* copyMIBsToZip: a file that cannot be opened joins MISSING.txt. *)
CopySource(m) ==
  /\ request.step = "copy" /\ m \in request.found \ (request.zip \cup request.missing)
  /\ request' = IF m \in openable THEN [request EXCEPT !.zip = @ \cup {m}]
                ELSE [request EXCEPT !.missing = @ \cup {m}]
  /\ UNCHANGED <<edition, openable, answer, changes>>

BundleDone ==
  /\ request.step = "copy" /\ request.found \subseteq request.zip \cup request.missing
  /\ answer' = [kind |-> "bundle", zip |-> request.zip, missing |-> request.missing,
                named |-> request.named, twice |-> request.twice,
                lasting |-> Reach(request.edges, request.roots) \cap request.files]
  /\ request' = NoRequest
  /\ UNCHANGED <<edition, openable, changes>>

-----------------------------------------------------------------------------
(* Resolve: entry by entry, each lookup memoised, hits and misses alike.   *)
(* Among several modules the symbol with the lowest row id answers.        *)
Hits == UNION {{[module |-> m, symbol |-> s] : s \in edition[m].symbols} : m \in Mods}
SymbolAt(oid) ==
  {h \in Hits : /\ h.symbol.oid = oid
                /\ \A g \in Hits : g.symbol.oid = oid => edition[h.module].rank <= edition[g.module].rank}
ByName(m, name) == {h \in Hits : h.module = m /\ h.symbol.name = name}

WalkStart(entries) ==
  /\ request.step = "none"
  /\ request' = [step |-> "entry", kind |-> "walk", entries |-> entries, at |-> 1,
                 oid |-> <<>>, n |-> 0, hit |-> {}, key |-> <<>>, byOID |-> <<>>, byName |-> <<>>, decoded |-> <<>>]
  /\ answer' = NoAnswer
  /\ UNCHANGED <<edition, openable, changes>>

(* Mutant of Memo: every lookup asks the store. *)
MemoNothing(memo, key, fresh) == memo

(* memoLookup *)
Memo(memo, key, fresh) ==
  [k \in DOMAIN memo \cup {key} |-> IF k \in DOMAIN memo THEN memo[k] ELSE fresh]
Recall(memo, key, fresh) == IF key \in DOMAIN memo THEN memo[key] ELSE fresh
E == request.entries[request.at]

Decoded(r, oid, hit, index) ==
  [r EXCEPT !.step = "entry", !.at = @ + 1,
            !.decoded = Append(@, [oid |-> oid, hit |-> hit, index |-> index])]

(* numericOID: a name needs its module and symbol. *)
ReadEntry ==
  /\ request.step = "entry" /\ request.at <= Len(request.entries)
  /\ LET key == <<E.module, E.name>>
         fresh == ByName(E.module, E.name)
         r == IF E.name = Unnamed THEN request ELSE [request EXCEPT !.byName = Memo(@, key, fresh)]
         oids == IF E.name = Unnamed THEN {E.oid}
                 ELSE {h.symbol.oid \o E.oid :
                         h \in {x \in Recall(request.byName, key, fresh) : x.symbol.oid # <<>>}}
     IN request' = IF oids = {} THEN Decoded(r, <<>>, {}, "none")
                   ELSE LET oid == CHOOSE o \in oids : TRUE IN
                        [r EXCEPT !.step = "probe", !.oid = oid, !.n = Len(oid)]
  /\ UNCHANGED <<edition, openable, answer, changes>>

(* isStructuralMatch: the scaffolding of the SMI owns nothing below it. *)
UnderEnterprises(o) == StartsWith(Enterprises, o) /\ Len(o) > Len(Enterprises)
Structural(symOID, o) ==
  \/ UnderEnterprises(o) /\ Len(symOID) <= Len(Enterprises)
  \/ Len(symOID) <= StructuralArcMax /\ Len(o) - Len(symOID) >= 2

(* findSymbol: one shrinking prefix per lookup, down to two arcs. *)
Probe ==
  /\ request.step = "probe"
  /\ LET prefix == SubSeq(request.oid, 1, request.n)
         fresh == SymbolAt(prefix)
         hit == Recall(request.byOID, prefix, fresh)
         r == [request EXCEPT !.byOID = Memo(@, prefix, fresh)]
         owned == {h \in hit : ~Structural(h.symbol.oid, request.oid)}
         column == \E h \in owned : h.symbol.kind = "column" /\ request.n < Len(request.oid)
     IN request' = CASE hit = {} /\ request.n > 2 -> [r EXCEPT !.n = @ - 1]
                     [] hit # {} /\ column -> [r EXCEPT !.step = "row", !.hit = owned]
                     [] OTHER -> Decoded(r, request.oid, owned, "none")
  /\ UNCHANGED <<edition, openable, answer, changes>>

(* decodeIndex: the INDEX clause of the column's entry, and the syntax of  *)
(* a lone index column; anything but one integer stays a raw suffix.       *)
ReadRow ==
  /\ request.step = "row"
  /\ LET parent == (CHOOSE h \in request.hit : TRUE).symbol.parent
         fresh == SymbolAt(parent)
         entry == {h \in Recall(request.byOID, parent, fresh) : Len(h.symbol.index) = 1}
         r == [request EXCEPT !.byOID = Memo(@, parent, fresh)]
     IN request' = IF entry = {} THEN Decoded(r, request.oid, request.hit, "raw")
                   ELSE LET h == CHOOSE x \in entry : TRUE IN
                        [r EXCEPT !.step = "index", !.key = <<h.module, h.symbol.index[1]>>]
  /\ UNCHANGED <<edition, openable, answer, changes>>

ReadIndex ==
  /\ request.step = "index"
  /\ LET fresh == ByName(request.key[1], request.key[2])
         integer == \E h \in Recall(request.byName, request.key, fresh) :
                      h.symbol.integer /\ Len(request.oid) - request.n = 1
     IN request' = Decoded([request EXCEPT !.byName = Memo(@, request.key, fresh)], request.oid,
                           request.hit, IF integer THEN "integer" ELSE "raw")
  /\ UNCHANGED <<edition, openable, answer, changes>>

(* A lookup that no memo answers and the store fails to: nothing is        *)
(* memoised, the entry keeps its identifier only, and the walk goes on.    *)
Lookup ==
  \/ /\ request.step = "entry" /\ request.at <= Len(request.entries)
     /\ E.name # Unnamed /\ <<E.module, E.name>> \notin DOMAIN request.byName
  \/ request.step = "probe" /\ SubSeq(request.oid, 1, request.n) \notin DOMAIN request.byOID
  \/ request.step = "row" /\ (CHOOSE h \in request.hit : TRUE).symbol.parent \notin DOMAIN request.byOID
  \/ request.step = "index" /\ request.key \notin DOMAIN request.byName

LookupFails ==
  /\ Lookup /\ request' = Decoded(request, <<>>, {}, "none")
  /\ UNCHANGED <<edition, openable, answer, changes>>

(* NotificationSummary walks the closure of the modules that were hit: one *)
(* that is gone by now fails the whole decode.                             *)
WalkDone ==
  /\ request.step = "entry" /\ request.at > Len(request.entries)
  /\ LET hits == {h.module : h \in UNION {d.hit : d \in Elems(request.decoded)}}
     IN IF \E m \in hits : ~Loaded(m) THEN Fail("error")
        ELSE /\ request' = NoRequest
             /\ answer' = [kind |-> "walk", decoded |-> request.decoded]
  /\ UNCHANGED <<edition, openable, changes>>

Hangup ==
  /\ request.step # "none" /\ request' = NoRequest /\ answer' = NoAnswer
  /\ UNCHANGED <<edition, openable, changes>>

ServingNext ==
  \/ \E m \in Mods : StoreReplacesModule(m) \/ StoreDeletesModule(m) \/ FileDisappears(m)
  \/ \E roots \in Roots : BundleStart(roots)
  \/ \E m \in Mods : ReadImports(m) \/ CopySource(m)
  \/ ResolveImport \/ NextModule \/ BundleDone
  \/ \E w \in Walks : WalkStart(w)
  \/ ReadEntry \/ Probe \/ ReadRow \/ ReadIndex \/ LookupFails \/ WalkDone \/ Hangup

ServingSpec == ServingInit /\ [][ServingNext]_servingVars

-----------------------------------------------------------------------------
(* A bundle accounts for its closure whatever imports change meanwhile:    *)
(* every module that it read a reference to is either in the archive or in *)
(* MISSING.txt, never in both or twice, and what was reachable and         *)
(* readable all along is in the archive (handlers.go:510-533, bundle.go).  *)
BundleAccounts ==
  answer.kind = "bundle" =>
    /\ answer.zip \cup answer.missing = answer.named /\ answer.zip \cap answer.missing = {}
    /\ ~answer.twice
    /\ answer.lasting \subseteq answer.zip

(* Within one walk the instances of a column are decoded by one symbol and *)
(* one index,                                                              *)
(* even when the module is replaced or shadowed while the walk is being    *)
(* resolved (resolver.go:56-66: both hits and misses are memoised).        *)
OneOwnerPerColumn ==
  answer.kind = "walk" =>
    \A d, e \in Elems(answer.decoded) :
      /\ d.hit # {} /\ Len(d.oid) = Len(e.oid) /\ d.oid # <<>>
      /\ SubSeq(d.oid, 1, Len(d.oid) - 1) = SubSeq(e.oid, 1, Len(e.oid) - 1)
      /\ \A h \in d.hit \cup e.hit : h.symbol.oid \notin {d.oid, e.oid}
      => d.hit = e.hit /\ d.index = e.index
=============================================================================

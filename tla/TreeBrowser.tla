------------------------------ MODULE TreeBrowser ------------------------------
(***************************************************************************)
(* The tree API (internal/server handlers.go) between a browser with an    *)
(* HTTP cache and a trie that imports rebuild: conditional requests under  *)
(* the trie's generation, a spine that is read level by level, and a client *)
(* that pages through a wide level in both directions.                     *)
(***************************************************************************)
EXTENDS OIDTree

CONSTANTS
  Versions,    \* module number |-> the sets of symbol rows it may define
  Url,         \* requests of the caching client: [kind, oid, mode]
  Levels,      \* [parent, mode] the paging client looks through
  Limit,       \* rows per page
  MaxRebuilds, \* bound: rebuilds of the trie
  MaxWipes     \* bound: databases thrown away

ASSUME BrowserAssumption ==
  /\ Limit \in Nat \ {0} /\ MaxRebuilds \in Nat /\ MaxWipes \in Nat
  /\ \A u \in Url : u.kind \in {"level", "spine"} /\ u.oid \in Seq(Nat)
                    /\ (u.kind = "spine" => u.oid # Root)   \* the handler wants a focus
  /\ \A lv \in Levels : lv.parent \in Seq(Nat)
  /\ \A m \in DOMAIN Versions : \A v \in Versions[m] :
       IsFiniteSet(v) /\ \A s \in v : s.oid \in Seq(Nat)

VARIABLES
  symbolRows, \* the symbol table
  oidNode,    \* oid_node, the materialised trie
  gen,      \* schema_meta.oid_tree_generation, 0 when never built
  wall,       \* the wall clock
  build,    \* the server's version
  req,      \* the request in flight
  cache,    \* Url |-> what the browser has stored
  pager,    \* the level a client is paging through
  wipes

treeVars == <<symbolRows, oidNode, gen, wall, build, req, cache, pager, wipes>>

NoTag == <<>>
NoReq == [step |-> "none"]
NoPage == [step |-> "none"]
T == oidNode

(* treeETag: the generation and the build, nothing before the first build. *)
Tag == IF gen = 0 THEN NoTag ELSE <<gen, build>>
Served(pages) == [pages |-> pages, names |-> build]
Render(url) ==
  Served(IF url.kind = "spine" THEN SpinePages(T, url.mode, url.oid, Limit)
         ELSE {FirstPage(T, url.mode, url.oid, Limit)})

BrowserInit ==
  /\ symbolRows = {} /\ oidNode = Trie({}) /\ gen = 0 /\ wall = 0 /\ build = 1 /\ wipes = 0
  /\ req = NoReq /\ pager = NoPage /\ cache = [u \in Url |-> [tag |-> NoTag]]

-----------------------------------------------------------------------------
(* ReplaceModule and DeleteModule: the trie lags behind. *)
ImportModule(m, v) ==
  /\ wall < MaxRebuilds /\ v # {s \in symbolRows : s.module = m}
  /\ symbolRows' = {s \in symbolRows : s.module # m} \cup v
  /\ UNCHANGED <<oidNode, gen, wall, build, req, cache, pager, wipes>>

ShownUnder(t, p) == {o \in Kids(t, p.parent) : Shown(t, p.mode, o)}

(* Mutant of NextGeneration: a plain counter. *)
NextGenerationCounted == gen + 1

(* The wall clock, but past the previous generation in any case. *)
NextGeneration == IF gen + 1 > wall + 1 THEN gen + 1 ELSE wall + 1

RebuildTrie ==
  /\ wall < MaxRebuilds /\ oidNode' = Trie(symbolRows) /\ (oidNode' # oidNode \/ gen = 0)
  /\ wall' = wall + 1 /\ gen' = NextGeneration
  /\ pager' = IF pager.step = "none" THEN pager
              ELSE [pager EXCEPT !.lasting = @ \cap ShownUnder(oidNode', pager)]
  /\ UNCHANGED <<symbolRows, build, req, cache, wipes>>

(* The server restarts, with another build or over a new database file;    *)
(* what the browser stored survives.                                       *)
Restart ==
  /\ req' = NoReq /\ pager' = NoPage
  /\ \/ build < 2 /\ build' = build + 1 /\ UNCHANGED <<symbolRows, oidNode, gen, wipes>>
     \/ /\ wipes < MaxWipes /\ wipes' = wipes + 1
        /\ symbolRows' = {} /\ oidNode' = Trie({}) /\ gen' = 0 /\ UNCHANGED build
  /\ UNCHANGED <<wall, cache>>

-----------------------------------------------------------------------------
(* handleAPITree and handleAPITreeSpine.  The validator is read first; a   *)
(* conditional request that names it is answered 304.                      *)
TreeValidate(url) ==
  /\ req.step = "none"
  /\ req' = IF Tag # NoTag /\ cache[url].tag = Tag THEN NoReq
            ELSE [step |-> "reading", url |-> url, tag |-> Tag, pages |-> {},
                  names |-> build, at |-> Root]
  /\ UNCHANGED <<symbolRows, oidNode, gen, wall, build, cache, pager, wipes>>

(* One page is one query. *)
TreeReadLevel ==
  /\ req.step = "reading" /\ req.url.kind = "level"
  /\ req' = [req EXCEPT !.step = "read", !.pages = {FirstPage(T, req.url.mode, req.url.oid, Limit)}]
  /\ UNCHANGED <<symbolRows, oidNode, gen, wall, build, cache, pager, wipes>>

(* SpinePages queries level by level. *)
TreeReadSpine ==
  /\ req.step = "reading" /\ req.url.kind = "spine"
  /\ LET level == SpineLevel(T, req.url.mode, req.at, req.url.oid, Limit)
         next == Descends(level, req.url.oid)
     IN req' = [req EXCEPT !.pages = @ \cup {level},
                           !.step = IF next = {} THEN "read" ELSE @,
                           !.at = IF next = {} THEN @ ELSE CHOOSE p \in next : TRUE]
  /\ UNCHANGED <<symbolRows, oidNode, gen, wall, build, cache, pager, wipes>>

(* The validator goes out only if it has not moved, else no-store. *)
TreeRespond ==
  /\ req.step = "read" /\ req' = NoReq
  /\ cache' = IF req.tag = NoTag \/ req.tag # Tag THEN cache
              ELSE [cache EXCEPT ![req.url] =
                     [tag |-> req.tag, body |-> [pages |-> req.pages, names |-> req.names]]]
  /\ UNCHANGED <<symbolRows, oidNode, gen, wall, build, pager, wipes>>

-----------------------------------------------------------------------------
(* tree.js: a level is opened at its first page, or anchored at a child    *)
(* with the earlier siblings on offer; both ends are paged until a short   *)
(* page.                                                                   *)
Directs(page) == {r.direct : r \in page}
Last(page) == CHOOSE o \in Directs(page) : \A x \in Directs(page) : Segment(x) <= Segment(o)
First(oids) == CHOOSE o \in oids : \A x \in oids : Segment(o) <= Segment(x)
Cursor(page) == IF Cardinality(page) = Limit THEN Last(page) ELSE Root

OpenLevel(lv) ==
  /\ pager.step = "none"
  /\ LET p == FirstPage(T, lv.mode, lv.parent, Limit) IN
     pager' = [step |-> "open", parent |-> lv.parent, mode |-> lv.mode, seen |-> Directs(p),
               twice |-> FALSE, after |-> Cursor(p), earlier |-> FALSE,
               lasting |-> ShownUnder(oidNode, lv)]
  /\ UNCHANGED <<symbolRows, oidNode, gen, wall, build, req, cache, wipes>>

OpenAnchored(lv) ==
  /\ pager.step = "none"
  /\ \E child \in Kids(T, lv.parent) :
       LET p == After(T, lv.mode, lv.parent, Segment(child) - 1, Limit) IN
       /\ child \notin Directs(FirstPage(T, lv.mode, lv.parent, Limit))
       /\ Shown(T, lv.mode, child) /\ Segment(child) > 0
       /\ pager' = [step |-> "open", parent |-> lv.parent, mode |-> lv.mode, seen |-> Directs(p),
                    twice |-> FALSE, after |-> Cursor(p), earlier |-> TRUE,
                    lasting |-> ShownUnder(oidNode, lv)]
  /\ UNCHANGED <<symbolRows, oidNode, gen, wall, build, req, cache, wipes>>

Delivered(page) ==
  [pager EXCEPT !.seen = @ \cup Directs(page),
                !.twice = @ \/ pager.seen \cap Directs(page) # {}]

ShowMore ==
  /\ pager.step = "open" /\ pager.after # Root
  /\ LET p == After(T, pager.mode, pager.parent, Segment(pager.after), Limit)
     IN pager' = [Delivered(p) EXCEPT !.after = Cursor(p)]
  /\ UNCHANGED <<symbolRows, oidNode, gen, wall, build, req, cache, wipes>>

(* Mutant of EarlierCursor: the cursor is the row's anchor. *)
EarlierCursorAnchor == Segment(Anchor(T, pager.mode, First(pager.seen)))

(* The bound of "show earlier": the first row's direct child. *)
EarlierCursor == Segment(First(pager.seen))

ShowEarlier ==
  /\ pager.step = "open" /\ pager.earlier
  /\ LET p == EarlierThan(T, pager.mode, pager.parent, EarlierCursor, Limit)
     IN pager' = [Delivered(p) EXCEPT !.earlier = Cardinality(p) = Limit]
  /\ UNCHANGED <<symbolRows, oidNode, gen, wall, build, req, cache, wipes>>

CloseLevel ==
  /\ pager.step = "open" /\ pager.after = Root /\ ~pager.earlier /\ pager' = NoPage
  /\ UNCHANGED <<symbolRows, oidNode, gen, wall, build, req, cache, wipes>>

StoreNext ==
  \/ \E m \in DOMAIN Versions : \E v \in Versions[m] : ImportModule(m, v)
  \/ RebuildTrie \/ Restart

CachingNext ==
  \/ StoreNext
  \/ \E u \in Url : TreeValidate(u)
  \/ TreeReadLevel \/ TreeReadSpine \/ TreeRespond

PagingNext ==
  \/ StoreNext
  \/ \E lv \in Levels : OpenLevel(lv) \/ OpenAnchored(lv)
  \/ ShowMore \/ ShowEarlier \/ CloseLevel

CachingSpec == BrowserInit /\ [][CachingNext]_treeVars
PagingSpec == BrowserInit /\ [][PagingNext]_treeVars

-----------------------------------------------------------------------------
(* A body stored under the current validator is the body a fresh request   *)
(* would get: a 304 never confirms another generation's rows, a spine that *)
(* mixes two of them, another build's names or another database's tree     *)
(* (handlers.go:1676-1686, 1696-1713).                                     *)
CachedBodiesCurrent ==
  \A u \in Url : cache[u].tag # NoTag /\ cache[u].tag = Tag => cache[u].body = Render(u)

(* Paging to both ends of a level delivers every child that stays in it,   *)
(* and none twice, whatever rebuilds come in between (the keyset cursors   *)
(* of handleAPITree and tree.js).                                          *)
PagingDelivers ==
  pager.step = "open" =>
    /\ ~pager.twice
    /\ pager.after = Root /\ ~pager.earlier => pager.lasting \subseteq pager.seen
=============================================================================

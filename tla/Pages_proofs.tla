------------------------------ MODULE Pages_proofs ------------------------------
(***************************************************************************)
(* Proofs about what the server's pages say while imports go on: the       *)
(* panes of a workspace, the cached bodies of the OID tree, the bundle of  *)
(* a module and the columns of a decoded walk.                             *)
(***************************************************************************)
EXTENDS Workspace, TreeBrowser, Serving, SequenceTheorems, FiniteSetTheorems, WellFoundedInduction, TLAPS

(* The workspace: until a click in the tree overlaps another one, a clicked*)
(* row that is still on the page was clicked under the URL that the page   *)
(* has, and a click in the tree is alone.                                  *)
Request(n) ==
  /\ n = [row |-> n.row, scope |-> n.scope, from |-> n.from, tree |-> n.tree, source |-> n.source, target |-> n.target]
  /\ n.tree \in BOOLEAN /\ n.source \in BOOLEAN /\ n.target \in BOOLEAN
  /\ \E scope : n.scope = RowTarget(scope, n.row)

Quiet ==
  /\ page.listScope = page.scope
  /\ \A n \in nav : n.source => n.from = page.scope
  /\ \A n \in nav : n.tree => nav = {n}

PageShape ==
  page = [scope |-> page.scope, list |-> page.list, listScope |-> page.listScope, detail |-> page.detail]

PageInv ==
  /\ PageShape
  /\ \A n \in nav : Request(n)
  /\ defined \in Contents
  /\ strayed \in BOOLEAN
  /\ strayed \/ Quiet

LEMMA PageInitInv == WorkspaceInit => PageInv
<1> SUFFICES ASSUME WorkspaceInit PROVE PageInv
  OBVIOUS
<1>1. PageShape /\ page.listScope = page.scope
  BY DEF WorkspaceInit, PageShape
<1>2. nav = {} /\ strayed = FALSE /\ defined \in Contents
  BY DEF WorkspaceInit
<1> QED BY ONLY <1>1, <1>2 DEF PageInv, Quiet

(* A click as the answer to another one leaves it. *)
Remaining(q, a, b) ==
  [row |-> q.row, scope |-> q.scope, from |-> q.from, tree |-> q.tree, source |-> a, target |-> b]

Left(r, q, a) == Request(r) /\ r.from = q.from /\ r.tree = q.tree /\ r.source = a

LEMMA Overtaken ==
  ASSUME NEW q, Request(q), NEW a \in BOOLEAN, NEW b \in BOOLEAN
  PROVE  Left(Remaining(q, a, b), q, a)
<1>1. PICK r : r = Remaining(q, a, b)
  OBVIOUS
<1>2. /\ r.row = q.row /\ r.scope = q.scope /\ r.from = q.from /\ r.tree = q.tree
      /\ r.source = a /\ r.target = b
  BY <1>1 DEF Remaining
<1>3. \E scope : r.scope = RowTarget(scope, r.row)
  BY <1>2, Zenon DEF Request
<1>4. r = [row |-> r.row, scope |-> r.scope, from |-> r.from, tree |-> r.tree, source |-> r.source, target |-> r.target]
  BY <1>1, <1>2 DEF Remaining
<1>5. Request(r)
  BY <1>2, <1>3, <1>4 DEF Request
<1> QED BY <1>1, <1>2, <1>5 DEF Left

LEMMA ClickKeeps ==
  ASSUME PageInv, NEW s, NEW scope, NEW tree \in BOOLEAN, Click(s, scope, tree)
  PROVE  PageInv'
<1>1. PICK n : n = [row |-> s, scope |-> RowTarget(scope, s), from |-> page.scope,
                    tree |-> tree, source |-> TRUE, target |-> TRUE]
  OBVIOUS
<1>2. /\ nav' = nav \cup {n} /\ page' = page /\ defined' = defined
      /\ strayed' = (strayed \/ (nav # {} /\ \E q \in nav' : q.tree))
  BY <1>1, Zenon DEF Click
<1>3. n.row = s /\ n.scope = RowTarget(scope, s) /\ n.from = page.scope /\ n.tree = tree /\ n.source = TRUE /\ n.target = TRUE
  BY ONLY <1>1
<1>4. \E t : n.scope = RowTarget(t, n.row)
  BY <1>3, Zenon
<1>5. Request(n)
  BY <1>1, <1>3, <1>4 DEF Request
<1>6. strayed' \in BOOLEAN
  BY <1>2, Zenon DEF PageInv
<1>7. ASSUME ~strayed' PROVE Quiet'
  <2>1. ~strayed /\ (nav = {} \/ \A q \in nav' : ~q.tree)
    BY <1>2, <1>7, Zenon
  <2>2. Quiet
    BY <2>1, Zenon DEF PageInv
  <2>3. page'.listScope = page'.scope
    BY <1>2, <2>2 DEF Quiet
  <2>4. \A q \in nav' : q.source => q.from = page'.scope
    BY <1>2, <1>3, <2>2 DEF Quiet
  <2>5. \A q \in nav' : q.tree => nav' = {q}
    BY <1>2, <2>1
  <2> QED BY <2>3, <2>4, <2>5 DEF Quiet
<1>8. PageShape' /\ (\A q \in nav' : Request(q)) /\ defined' \in Contents
  BY <1>2, <1>5 DEF PageInv, PageShape
<1> QED BY <1>6, <1>7, <1>8, Zenon DEF PageInv

LEMMA FilterKeeps ==
  ASSUME PageInv, FilterTree
  PROVE  PageInv'
<1> DEFINE Later(q) == [q EXCEPT !.source = q.source /\ ~q.tree]
<1>1. nav' = {Later(q) : q \in nav} /\ page' = page /\ defined' = defined /\ strayed' = strayed
  BY Zenon DEF FilterTree
<1>2. \A q \in nav : /\ Request(Later(q)) /\ Later(q).from = q.from /\ Later(q).tree = q.tree
                     /\ Later(q).source => q.source
  <2> SUFFICES ASSUME NEW q \in nav
               PROVE /\ Request(Later(q)) /\ Later(q).from = q.from /\ Later(q).tree = q.tree
                     /\ Later(q).source => q.source
    OBVIOUS
  <2>1. Request(q)
    BY Zenon DEF PageInv
  <2>2. PICK a \in BOOLEAN : a = (q.source /\ ~q.tree)
    BY <2>1 DEF Request
  <2>3. q.target \in BOOLEAN
    BY <2>1 DEF Request
  <2>4. Later(q) = Remaining(q, a, q.target)
    BY <2>1, <2>2 DEF Request, Remaining
  <2>5. Left(Later(q), q, a)
    BY <2>1, <2>3, <2>4, Overtaken
  <2> HIDE DEF Later
  <2> QED BY <2>2, <2>5 DEF Left
<1> HIDE DEF Later
<1>3. ASSUME Quiet PROVE Quiet'
  <2>1. page'.listScope = page'.scope
    BY <1>1, <1>3 DEF Quiet
  <2>2. \A q \in nav' : q.source => q.from = page'.scope
    BY <1>1, <1>2, <1>3 DEF Quiet
  <2>3. \A q \in nav' : q.tree => nav' = {q}
    BY <1>1, <1>2, <1>3 DEF Quiet
  <2> QED BY <2>1, <2>2, <2>3 DEF Quiet
<1>4. PageShape' /\ (\A q \in nav' : Request(q)) /\ defined' \in Contents /\ strayed' \in BOOLEAN
  BY <1>1, <1>2 DEF PageInv, PageShape
<1> QED BY <1>1, <1>3, <1>4, Zenon DEF PageInv

(* An answer that replaces the list takes the other clicks' rows off the   *)
(* page, and one that does not leaves the URL's scope as it is.            *)
LEMMA AnswerKeeps ==
  ASSUME PageInv, NEW n \in nav, PartialPage(n)
  PROVE  PageInv'
<1> DEFINE listed == n.source /\ PartialHasList(n)
           Later(q) == [q EXCEPT !.source = q.source /\ (q.tree \/ ~listed),
                                 !.target = q.target /\ ~(n.source /\ n.target)]
<1>1. nav' = {Later(q) : q \in nav \ {n}} /\ defined' = defined /\ strayed' = (strayed /\ ~(listed /\ nav = {n}))
  BY Zenon DEF PartialPage
<1>2. PICK d : page' = [scope     |-> IF n.source THEN n.scope ELSE page.scope,
                        list      |-> IF listed THEN ListRows(n.scope) ELSE page.list,
                        listScope |-> IF listed THEN n.scope ELSE page.listScope,
                        detail    |-> IF n.target THEN d ELSE page.detail]
  BY Zenon DEF PartialPage
<1>3. \A q \in nav : /\ Request(Later(q)) /\ Later(q).from = q.from /\ Later(q).tree = q.tree
                     /\ Later(q).source => q.source /\ (q.tree \/ ~listed)
  <2> SUFFICES ASSUME NEW q \in nav
               PROVE /\ Request(Later(q)) /\ Later(q).from = q.from /\ Later(q).tree = q.tree
                     /\ Later(q).source => q.source /\ (q.tree \/ ~listed)
    OBVIOUS
  <2>1. Request(q)
    BY Zenon DEF PageInv
  <2> HIDE DEF listed
  <2>2. PICK a \in BOOLEAN : a = (q.source /\ (q.tree \/ ~listed))
    BY <2>1, Zenon DEF Request
  <2>3. PICK b \in BOOLEAN : b = (q.target /\ ~(n.source /\ n.target))
    BY <2>1, Zenon DEF Request
  <2>4. Later(q) = Remaining(q, a, b)
    <3>1. Later(q) = [q EXCEPT !.source = a, !.target = b]
      BY <2>2, <2>3, Zenon
    <3> HIDE DEF Later
    <3> QED BY ONLY <2>1, <3>1 DEF Request, Remaining
  <2>5. Left(Later(q), q, a)
    BY <2>1, <2>4, Overtaken
  <2> HIDE DEF Later
  <2> QED BY <2>2, <2>5, Zenon DEF Left
<1> HIDE DEF Later
<1>4. /\ page'.scope = IF n.source THEN n.scope ELSE page.scope
      /\ page'.listScope = IF listed THEN n.scope ELSE page.listScope
      /\ PageShape'
  BY <1>2 DEF PageShape
<1>5. strayed' \in BOOLEAN
  BY <1>1, Zenon DEF PageInv
<1>6. ASSUME strayed, ~strayed' PROVE Quiet'
  <2>1. listed /\ nav = {n}
    BY <1>1, <1>6, Zenon
  <2>2. nav' = {}
    BY <1>1, <2>1
  <2>3. page'.listScope = page'.scope
    BY <1>4, <2>1
  <2> QED BY <2>2, <2>3 DEF Quiet
<1>7. ASSUME ~strayed PROVE Quiet'
  <2>1. Quiet
    BY <1>7, Zenon DEF PageInv
  <2>2. \A q \in nav \ {n} : ~q.tree
    BY <2>1 DEF Quiet
  <2>3. CASE listed
    <3>1. page'.listScope = page'.scope
      BY <1>4, <2>3
    <3>2. \A q \in nav' : ~q.source /\ ~q.tree
      <4> SUFFICES ASSUME NEW q \in nav \ {n} PROVE ~Later(q).source /\ ~Later(q).tree
        BY <1>1
      <4>1. ~q.tree
        BY <2>2
      <4> QED BY <1>3, <2>3, <4>1, Zenon
    <3> QED BY <3>1, <3>2 DEF Quiet
  <2>4. CASE ~listed
    <3>1. n.source => n.scope = page.scope
      BY <2>1, <2>4 DEF Quiet, PartialHasList
    <3>2. page'.scope = page.scope /\ page'.listScope = page.listScope
      BY <1>4, <2>4, <3>1
    <3>3. \A q \in nav' : (q.source => q.from = page.scope) /\ ~q.tree
      <4> SUFFICES ASSUME NEW q \in nav \ {n}
                   PROVE  (Later(q).source => Later(q).from = page.scope) /\ ~Later(q).tree
        BY <1>1
      <4>1. ~q.tree /\ (q.source => q.from = page.scope)
        BY <2>1, <2>2 DEF Quiet
      <4> QED BY <1>3, <4>1, Zenon
    <3> QED BY <2>1, <3>2, <3>3 DEF Quiet
  <2> QED BY <2>3, <2>4
<1>8. strayed' \/ Quiet'
  BY <1>6, <1>7, Zenon DEF PageInv
<1>9. \A q \in nav' : Request(q)
  BY <1>1, <1>3
<1>10. defined' \in Contents
  BY <1>1 DEF PageInv
<1> QED BY <1>4, <1>5, <1>8, <1>9, <1>10 DEF PageInv

LEMMA PageStep == PageInv /\ [WorkspaceNext]_workspaceVars => PageInv'
<1> SUFFICES ASSUME PageInv, [WorkspaceNext]_workspaceVars PROVE PageInv'
  OBVIOUS
<1>1. CASE \E scope \in Scopes : OpenPage(scope)
  <2>1. nav' = {} /\ strayed' = FALSE /\ defined' = defined
    BY <1>1 DEF OpenPage
  <2>2. PICK scope \in Scopes : FullPage(scope)
    BY <1>1 DEF OpenPage
  <2>3. PageShape' /\ page'.listScope = page'.scope
    BY <2>2 DEF FullPage, PageShape
  <2> QED BY <2>1, <2>3 DEF PageInv, Quiet
<1>2. CASE \E scope \in Scopes : \E s \in defined : ClickTree(s, scope)
  BY <1>2, ClickKeeps, Zenon DEF ClickTree
<1>3. CASE \E s \in page.list : ClickRow(s)
  BY <1>3, ClickKeeps, Zenon DEF ClickRow
<1>4. CASE FilterTree
  BY <1>4, FilterKeeps
<1>5. CASE \E n \in nav : PartialPage(n)
  BY <1>5, AnswerKeeps
<1>6. CASE \E c \in Contents : Reimport(c)
  BY <1>6 DEF Reimport, PageInv, PageShape, Quiet
<1>7. CASE UNCHANGED workspaceVars
  BY <1>7 DEF workspaceVars, PageInv, PageShape, Quiet
<1> QED BY <1>1, <1>2, <1>3, <1>4, <1>5, <1>6, <1>7, Zenon DEF WorkspaceNext

(* The list pane belongs to the URL's scope, for any contents of the module*)
(* and any clicks, answered in any order, as long as no click in the tree  *)
(* overlapped another one since a list last came alone (handlers.go:685-712*)
(* and workspace.js:176-246).                                              *)
THEOREM ListFollowsScope == WorkspaceSpec => []PanesAgree
<1>1. PageInv => PanesAgree BY DEF PageInv, Quiet, PanesAgree
<1> QED BY <1>1, PageInitInv, PageStep, PTL DEF WorkspaceSpec

(* The list of the scope to which a row's link leads shows the row, unless *)
(* the row is that scope.                                                  *)
LEMMA TargetLists ==
  ASSUME defined \in Contents, NEW s \in defined, NEW scope
  PROVE  s.oid = RowTarget(scope, s) \/ s \in ListRows(RowTarget(scope, s))
<1> SUFFICES ASSUME s.oid # RowTarget(scope, s) PROVE s \in ListRows(RowTarget(scope, s))
  OBVIOUS
<1>1. PICK target : target = RowTarget(scope, s)
  OBVIOUS
<1>2. target = NoOid \/ OnPrefix(target, s.oid)
  <2>1. s.parent = NoOid \/ OnPrefix(s.parent, s.oid)
    BY ContentsAssumption
  <2>2. CASE s.oid = NoOid BY <1>1, <2>2 DEF RowTarget
  <2>3. CASE s.oid # NoOid /\ KindHasChildren(s.kind) BY <1>1, <2>3 DEF RowTarget
  <2>4. CASE s.oid # NoOid /\ ~KindHasChildren(s.kind)
    <3>1. target = IF scope # NoOid /\ OnPrefix(scope, s.oid) THEN scope ELSE s.parent
      BY <1>1, <2>4, Zenon DEF RowTarget
    <3> QED BY <2>1, <3>1
  <2> QED BY <2>2, <2>3, <2>4
<1>3. s \in {x \in defined : target = NoOid \/ OnPrefix(target, x.oid)} /\ s.oid # target
  BY <1>1, <1>2
<1> QED BY <1>1, <1>3 DEF ListRows

(* An answer that finds its detail pane shows exactly the clicked symbol,  *)
(* and the list beside it shows the symbol or is scoped to it              *)
(* (helpers.go:115-150), for any contents in which names are unique and    *)
(* parents are prefixes, and any overlap that leaves the clicked row on the*)
(* page and the tree alone.                                                *)
THEOREM ClicksSelect == WorkspaceSpec => ClickSelects
<1> DEFINE Selected(n) ==
      /\ page'.detail = {n.row}
      /\ n.source /\ ~strayed =>
           \/ n.row.oid = page'.scope \/ n.row \in page'.list
           \/ page'.list # ListRows(page'.scope)
<1>1. PageInv => [\A n \in nav : PartialPage(n) /\ n.target /\ n.row \in defined => Selected(n)]_workspaceVars
  <2> SUFFICES ASSUME PageInv, NEW n \in nav, PartialPage(n), n.target, n.row \in defined
               PROVE  Selected(n)
    OBVIOUS
  <2> DEFINE sel == [by |-> "name", name |-> n.row.name]
             listed == n.source /\ PartialHasList(n)
  <2>2. Detail(sel) = {{n.row}}
    <3>1. Resolve(sel) = {s \in defined : s.name = n.row.name}
      <4>1. sel.by = "name" /\ sel.name = n.row.name OBVIOUS
      <4> HIDE DEF sel
      <4> QED BY <4>1 DEF Resolve
    <3>2. Resolve(sel) = {n.row}
      BY <3>1, ContentsAssumption DEF PageInv
    <3> QED BY <3>2 DEF Detail
  <2>3. n.row.oid = n.scope \/ n.row \in ListRows(n.scope)
    <3>1. PICK scope : n.scope = RowTarget(scope, n.row)
      BY Zenon DEF PageInv, Request
    <3> QED BY <3>1, TargetLists DEF PageInv
  <2>4. PICK d \in Detail(sel) :
          page' = [scope     |-> IF n.source THEN n.scope ELSE page.scope,
                   list      |-> IF listed THEN ListRows(n.scope) ELSE page.list,
                   listScope |-> IF listed THEN n.scope ELSE page.listScope,
                   detail    |-> IF n.target THEN d ELSE page.detail]
    BY Zenon DEF PartialPage
  <2>5. d = {n.row}
    BY <2>2, <2>4
  <2> HIDE DEF sel, listed
  <2>6. page'.detail = {n.row} /\ (n.source => page'.scope = n.scope)
    BY <2>4, <2>5
  <2> QED BY <2>3, <2>6
<1> QED BY <1>1, PageInitInv, PageStep, PTL DEF WorkspaceSpec, ClickSelects

-----------------------------------------------------------------------------
(* Bundles.  A module that the request has read a reference to was found   *)
(* or is missing, but for the imports it has still to resolve; an import   *)
(* that has been there all along was not missed.                           *)
BundleFields == {"step", "kind", "roots", "visited", "frontier", "todo", "found", "missing", "zip", "named",
                 "twice", "edges", "files"}
BundleShape(r) == r = [x \in BundleFields |-> r[x]] /\ r.kind = "bundle" /\ r.twice = FALSE
Walking(r) ==
  /\ r.visited = r.found \cup r.missing /\ r.found \cap r.missing = {} /\ r.zip = {}
  /\ r.named = r.visited \cup Elems(r.todo) /\ r.todo \in Seq(Elems(r.todo))
  /\ r.frontier \subseteq r.found
  /\ r.edges \subseteq Edges
  /\ \A e \in r.edges : e[2] \notin r.missing
  /\ \A e \in r.edges : e[1] \in r.found \ r.frontier => e[2] \in r.found \cup Elems(r.todo)
Copying(r) ==
  /\ r.named = r.found \cup r.missing /\ r.zip \subseteq r.found /\ r.zip \cap r.missing = {}
  /\ r.files \subseteq openable /\ r.found \cap r.missing \cap r.files = {}
  /\ Closed(r.edges, r.found)
Bundling(r) ==
  /\ BundleShape(r) /\ r.step \in {"frontier", "deps", "copy"}
  /\ r.step \in {"frontier", "deps"} => Walking(r)
  /\ r.step = "frontier" => r.todo = <<>>
  /\ r.step = "copy" => Copying(r)
  /\ r.roots \subseteq r.found /\ r.found \subseteq Mods /\ r.files \subseteq openable
WalkFields == {"step", "kind", "entries", "at", "oid", "n", "hit", "key", "byOID", "byName", "decoded"}
WalkShape(r) ==
  r = [x \in WalkFields |-> r[x]] /\ r.kind = "walk" /\ r.step \in {"entry", "probe", "row", "index"}
EditionType ==
  /\ edition = [m \in Mods |-> edition[m]]
  /\ \A m \in Mods : edition[m].imports \in Seq(Elems(edition[m].imports))
BundleInv ==
  /\ EditionType
  /\ request = NoRequest \/ Bundling(request) \/ WalkShape(request)
  /\ BundleAccounts

LEMMA EmptyElems == Elems(<<>>) = {} /\ <<>> \in Seq(Elems(<<>>))
BY DEF Elems

(* The first of a sequence and the others. *)
LEMMA ElemsTail ==
  ASSUME NEW s, s \in Seq(Elems(s)), s # <<>>
  PROVE  Elems(s) = {Head(s)} \cup Elems(Tail(s)) /\ Tail(s) \in Seq(Elems(Tail(s)))
<1>1. PICK n \in Nat : DOMAIN s = 1..n /\ Len(s) = n /\ n # 0
  BY EmptySeq, LenProperties
<1>2. Tail(s) \in Seq(Elems(s)) /\ Len(Tail(s)) = n - 1 /\ Head(s) = s[1]
  BY <1>1, HeadTailProperties
<1>3. \A i \in 1..(n - 1) : Tail(s)[i] = s[i + 1]
  BY <1>1, HeadTailProperties
<1>4. DOMAIN Tail(s) = 1..(n - 1)
  BY <1>1, <1>2
<1>5. Elems(s) = {Head(s)} \cup Elems(Tail(s))
  <2>1. ASSUME NEW x \in Elems(s) PROVE x \in {Head(s)} \cup Elems(Tail(s))
    <3>1. PICK i \in 1..n : x = s[i] BY <1>1 DEF Elems
    <3>2. CASE i = 1 BY <1>2, <3>1, <3>2
    <3>3. CASE i # 1
      <4>1. i - 1 \in 1..(n - 1) /\ x = Tail(s)[i - 1] BY <1>1, <1>3, <3>1, <3>3
      <4> QED BY <1>4, <4>1 DEF Elems
    <3> QED BY <3>2, <3>3
  <2>2. ASSUME NEW x \in Elems(Tail(s)) PROVE x \in Elems(s)
    <3>1. PICK i \in 1..(n - 1) : x = Tail(s)[i] BY <1>4 DEF Elems
    <3>2. i + 1 \in 1..n /\ x = s[i + 1] BY <1>1, <1>3, <3>1
    <3> QED BY <1>1, <3>2 DEF Elems
  <2>3. Head(s) \in Elems(s) BY <1>1, <1>2 DEF Elems
  <2>4. Elems(s) \subseteq {Head(s)} \cup Elems(Tail(s)) BY <2>1
  <2>5. {Head(s)} \cup Elems(Tail(s)) \subseteq Elems(s) BY <2>2, <2>3
  <2> QED BY <2>4, <2>5, Zenon
<1>6. \A i \in 1..(n - 1) : Tail(s)[i] \in Elems(Tail(s))
  BY <1>4 DEF Elems
<1>7. Tail(s) \in [1..(n - 1) -> Elems(Tail(s))]
  <2>1. Tail(s) \in [1..(n - 1) -> Elems(s)] BY <1>2, LenProperties
  <2> QED BY <1>6, <2>1
<1>8. n - 1 \in Nat BY <1>1
<1>9. Tail(s) \in Seq(Elems(Tail(s))) BY <1>7, <1>8, SeqDef
<1> QED BY <1>5, <1>9

LEMMA BundleInitInv == ServingInit => BundleInv
<1> SUFFICES ASSUME ServingInit PROVE BundleInv
  OBVIOUS
<1>1. EditionType
  BY EmptyElems DEF ServingInit, EditionType, Unloaded
<1> QED BY <1>1 DEF ServingInit, BundleInv, BundleAccounts, NoAnswer

(* A change of the corpus keeps the edges and files that remain.           *)
LEMMA LastingKept ==
  ASSUME Bundling(request), NEW e, e = Edges', NEW o, o \subseteq openable, openable' = o,
         request' = Lasting(request, e, o)
  PROVE  Bundling(request)'
<1>1. request' = [request EXCEPT !.edges = @ \cap e, !.files = @ \cap o]
  BY DEF Bundling, BundleShape, Lasting
<1>2. request'.edges = request.edges \cap e /\ request'.files = request.files \cap o
      /\ request'.step = request.step /\ request'.roots = request.roots /\ request'.visited = request.visited
      /\ request'.frontier = request.frontier /\ request'.todo = request.todo /\ request'.found = request.found
      /\ request'.missing = request.missing /\ request'.zip = request.zip /\ request'.named = request.named
      /\ request'.kind = "bundle" /\ request'.twice = FALSE
  BY <1>1 DEF Bundling, BundleShape, BundleFields
<1>5. BundleShape(request)'
  BY <1>1 DEF Bundling, BundleShape, BundleFields
<1>3. Walking(request) => Walking(request)'
  BY <1>2 DEF Walking
<1>4. Copying(request) => Copying(request)'
  BY <1>2 DEF Copying, Closed
<1> QED BY <1>2, <1>3, <1>4, <1>5 DEF Bundling

LEMMA OtherRequests ==
  ASSUME request = NoRequest \/ WalkShape(request), NEW e, NEW o
  PROVE  Lasting(request, e, o) = request
BY DEF Lasting, NoRequest, WalkShape, WalkFields

LEMMA ChangeStep ==
  ASSUME BundleInv, NEW m \in Mods, NEW v, v = Unloaded \/ v \in Editions[m], Change(m, v)
  PROVE  BundleInv'
<1>1. /\ edition' = [edition EXCEPT ![m] = IF v = Unloaded THEN v
                       ELSE [symbols |-> v.symbols, imports |-> v.imports, rank |-> changes + 1]]
      /\ request' = Lasting(request, Edges', openable) /\ UNCHANGED <<openable, answer>>
  BY DEF Change
<1>2. v.imports \in Seq(Elems(v.imports))
  <2>1. CASE v = Unloaded
    <3>1. v.imports = <<>> BY <2>1 DEF Unloaded
    <3> QED BY <3>1, EmptyElems
  <2>2. CASE v \in Editions[m]
    BY <2>2, EditionsAssumption DEF Mods
  <2> QED BY <2>1, <2>2
<1>3. EditionType'
  <2>1. edition'[m].imports = v.imports BY <1>1 DEF BundleInv, EditionType
  <2>2. \A x \in Mods \ {m} : edition'[x] = edition[x] BY <1>1 DEF BundleInv, EditionType
  <2>3. edition' = [x \in Mods |-> edition'[x]] BY <1>1 DEF BundleInv, EditionType
  <2>4. \A x \in Mods : edition'[x].imports \in Seq(Elems(edition'[x].imports))
    BY <1>2, <2>1, <2>2 DEF BundleInv, EditionType
  <2> QED BY <2>3, <2>4 DEF EditionType, Mods
<1>4. BundleAccounts'
  BY <1>1 DEF BundleInv, BundleAccounts
<1>5. CASE Bundling(request)
  BY <1>1, <1>3, <1>4, <1>5, LastingKept DEF BundleInv
<1>6. CASE ~Bundling(request)
  <2>1. request' = request
    BY <1>1, <1>6, OtherRequests DEF BundleInv
  <2> QED BY <1>3, <1>4, <1>6, <2>1 DEF BundleInv, WalkShape
<1> QED BY <1>5, <1>6

LEMMA DisappearStep ==
  ASSUME BundleInv, NEW m \in Mods, FileDisappears(m)
  PROVE  BundleInv'
<1>1. /\ openable' = openable \ {m} /\ UNCHANGED <<edition, answer>>
      /\ request' = Lasting(request, Edges, openable \ {m})
  BY DEF FileDisappears
<1>2. EditionType' /\ BundleAccounts' /\ Edges = Edges'
  BY <1>1 DEF BundleInv, EditionType, BundleAccounts, Edges, Loaded
<1>3. CASE Bundling(request)
  BY <1>1, <1>2, <1>3, LastingKept DEF BundleInv
<1>4. CASE ~Bundling(request)
  <2>1. request' = request
    BY <1>1, <1>4, OtherRequests DEF BundleInv
  <2> QED BY <1>2, <1>4, <2>1 DEF BundleInv, WalkShape
<1> QED BY <1>3, <1>4

LEMMA BundleStartStep ==
  ASSUME BundleInv, NEW roots, BundleStart(roots)
  PROVE  BundleInv'
<1>1. UNCHANGED <<edition, openable>> /\ EditionType'
  BY DEF BundleStart, BundleInv, EditionType
<1>2. CASE \E m \in roots : ~Loaded(m)
  BY <1>1, <1>2 DEF BundleStart, Fail, BundleInv, BundleAccounts
<1>3. CASE ~\E m \in roots : ~Loaded(m)
  <2> DEFINE r == [step |-> "frontier", kind |-> "bundle", roots |-> roots,
                   visited |-> roots, frontier |-> roots, todo |-> <<>>,
                   found |-> roots, missing |-> {}, zip |-> {}, named |-> roots,
                   twice |-> FALSE, edges |-> Edges, files |-> openable]
  <2>1. request' = r /\ answer' = NoAnswer
    BY <1>3 DEF BundleStart
  <2>2. /\ BundleShape(r) /\ r.step = "frontier" /\ r.roots = roots /\ r.visited = roots /\ r.frontier = roots
        /\ r.todo = <<>> /\ r.found = roots /\ r.missing = {} /\ r.zip = {} /\ r.named = roots /\ r.edges = Edges
        /\ r.files = openable
    BY DEF BundleShape, BundleFields
  <2> HIDE DEF r
  <2>3. roots \subseteq Mods BY <1>3 DEF Loaded
  <2>4. Walking(r)
    BY <2>2, EmptyElems DEF Walking
  <2>5. Bundling(r)
    BY <2>2, <2>3, <2>4 DEF Bundling
  <2>6. Bundling(request)'
    BY <1>1, <2>1, <2>5 DEF Bundling, BundleShape, Walking, Copying, Edges, Loaded
  <2> QED BY <1>1, <2>1, <2>6 DEF BundleInv, BundleAccounts, NoAnswer
<1> QED BY <1>2, <1>3

(* A request in a phase of a bundle is a bundle's. *)
LEMMA IsBundling ==
  ASSUME BundleInv, request.step \in {"frontier", "deps", "copy"}
  PROVE  Bundling(request)
BY DEF BundleInv, NoRequest, WalkShape

LEMMA ReadImportsStep ==
  ASSUME BundleInv, NEW m \in Mods, ReadImports(m)
  PROVE  BundleInv'
<1>1. /\ request.step = "frontier" /\ m \in request.frontier /\ UNCHANGED <<edition, openable, answer>>
      /\ request' = [request EXCEPT !.step = "deps", !.frontier = @ \ {m}, !.todo = edition[m].imports,
                                    !.named = @ \cup Elems(edition[m].imports)]
  BY DEF ReadImports
<1>2. Bundling(request) /\ Walking(request) /\ request.todo = <<>>
  BY <1>1, IsBundling DEF Bundling
<1>3. /\ BundleShape(request') /\ request'.step = "deps" /\ request'.frontier = request.frontier \ {m}
      /\ request'.todo = edition[m].imports /\ request'.named = request.named \cup Elems(edition[m].imports)
      /\ request'.roots = request.roots /\ request'.visited = request.visited /\ request'.found = request.found
      /\ request'.missing = request.missing /\ request'.zip = request.zip /\ request'.edges = request.edges
      /\ request'.files = request.files
  BY <1>1, <1>2 DEF Bundling, BundleShape, BundleFields
<1>4. EditionType' /\ BundleAccounts' /\ Edges' = Edges
  BY <1>1 DEF BundleInv, EditionType, BundleAccounts, Edges, Loaded
<1>5. \A e \in request.edges : e[1] \in request.found \ request'.frontier =>
         e[2] \in request.found \cup Elems(edition[m].imports)
  <2> SUFFICES ASSUME NEW e \in request.edges, e[1] \in request.found \ request'.frontier
               PROVE  e[2] \in request.found \cup Elems(edition[m].imports)
    OBVIOUS
  <2>1. CASE e[1] = m
    BY <1>2, <2>1 DEF Walking, Edges
  <2>2. CASE e[1] # m
    BY <1>2, <1>3, <2>2, EmptyElems DEF Walking
  <2> QED BY <2>1, <2>2
<1>6. request'.named = request'.visited \cup Elems(request'.todo) /\ request'.todo \in Seq(Elems(request'.todo))
  BY <1>2, <1>3, EmptyElems DEF Walking, BundleInv, EditionType
<1>7. Walking(request)'
  BY <1>2, <1>3, <1>4, <1>5, <1>6 DEF Walking
<1>8. Bundling(request)'
  BY <1>1, <1>2, <1>3, <1>7 DEF Bundling
<1> QED BY <1>4, <1>8 DEF BundleInv

LEMMA ResolveImportStep ==
  ASSUME BundleInv, ResolveImport
  PROVE  BundleInv'
<1>1. request.step = "deps" /\ request.todo # <<>> /\ UNCHANGED <<edition, openable, answer>>
  BY DEF ResolveImport
<1>2. Bundling(request) /\ Walking(request)
  BY <1>1, IsBundling DEF Bundling
<1>3. PICK m : m = Head(request.todo)
  OBVIOUS
<1>4. PICK r : r = [request EXCEPT !.todo = Tail(@)]
  OBVIOUS
<1>5. request' = IF m \in r.visited THEN r ELSE Visit(r, m)
  BY <1>3, <1>4 DEF ResolveImport
<1>6. /\ BundleShape(r) /\ r.step = "deps" /\ r.todo = Tail(request.todo)
      /\ r.frontier = request.frontier /\ r.named = request.named
      /\ r.roots = request.roots /\ r.visited = request.visited /\ r.found = request.found
      /\ r.missing = request.missing /\ r.zip = request.zip /\ r.edges = request.edges
      /\ r.files = request.files
  BY <1>1, <1>2, <1>4 DEF Bundling, BundleShape, BundleFields
<1>7. Elems(request.todo) = {m} \cup Elems(r.todo) /\ r.todo \in Seq(Elems(r.todo))
  BY <1>1, <1>2, <1>3, <1>6, ElemsTail, ZenonT(60) DEF Walking
<1>8. EditionType' /\ BundleAccounts' /\ Edges' = Edges
  BY <1>1 DEF BundleInv, EditionType, BundleAccounts, Edges, Loaded
<1>9. CASE m \in r.visited
  <2>1. request' = r BY <1>5, <1>9
  <2>2. \A e \in r.edges : e[2] = m => e[2] \in r.found
    BY <1>2, <1>6, <1>9 DEF Walking
  <2>3. Walking(request)'
    BY <1>2, <1>6, <1>7, <1>8, <1>9, <2>1, <2>2 DEF Walking
  <2>4. Bundling(request)'
    BY <1>1, <1>2, <1>6, <2>1, <2>3 DEF Bundling
  <2> QED BY <1>8, <2>4 DEF BundleInv
<1>10. CASE m \notin r.visited
  <2>1. m \notin r.missing \cup r.found
    BY <1>2, <1>6, <1>10 DEF Walking
  <2>2. /\ BundleShape(request') /\ request'.step = "deps" /\ request'.todo = r.todo
        /\ request'.named = r.named /\ request'.visited = r.visited \cup {m}
        /\ request'.roots = r.roots /\ request'.zip = r.zip /\ request'.edges = r.edges
        /\ request'.files = r.files
        /\ request'.found = IF Loaded(m) THEN r.found \cup {m} ELSE r.found
        /\ request'.frontier = IF Loaded(m) THEN r.frontier \cup {m} ELSE r.frontier
        /\ request'.missing = IF Loaded(m) THEN r.missing ELSE r.missing \cup {m}
    BY <1>5, <1>6, <1>10, <2>1 DEF Visit, BundleShape, BundleFields
  <2>3. \A e \in r.edges : e[2] = m => Loaded(m)
    BY <1>2, <1>6 DEF Walking, Edges
  <2>4. request'.named = request'.visited \cup Elems(request'.todo)
    BY <1>2, <1>6, <1>7, <2>2 DEF Walking
  <2>5. /\ request'.visited = request'.found \cup request'.missing
        /\ request'.found \cap request'.missing = {} /\ request'.frontier \subseteq request'.found
    BY <1>2, <1>6, <2>1, <2>2 DEF Walking
  <2>6. \A e \in request'.edges : e[2] \notin request'.missing
    BY <1>2, <1>6, <2>2, <2>3 DEF Walking
  <2>7. ASSUME NEW e \in request'.edges, e[1] \in request'.found \ request'.frontier
        PROVE  e[2] \in request'.found \cup Elems(request'.todo)
    <3>1. e \in request.edges /\ e[1] \in request.found \ request.frontier
      BY <1>6, <2>2, <2>7
    <3>2. e[2] \in request.found \cup Elems(request.todo)
      BY <1>2, <3>1 DEF Walking
    <3> QED BY <1>6, <1>7, <2>2, <2>3, <3>1, <3>2
  <2>8. Walking(request)'
    BY <1>2, <1>6, <1>7, <1>8, <2>2, <2>4, <2>5, <2>6, <2>7 DEF Walking
  <2>9. Bundling(request)'
    BY <1>1, <1>2, <1>6, <2>2, <2>8 DEF Bundling, Loaded
  <2> QED BY <1>8, <2>9 DEF BundleInv
<1> QED BY <1>9, <1>10

LEMMA NextModuleStep ==
  ASSUME BundleInv, NextModule
  PROVE  BundleInv'
<1>1. /\ request.step = "deps" /\ request.todo = <<>> /\ UNCHANGED <<edition, openable, answer>>
      /\ request' = [request EXCEPT !.step = IF request.frontier = {} THEN "copy" ELSE "frontier"]
  BY DEF NextModule
<1>2. Bundling(request) /\ Walking(request)
  BY <1>1, IsBundling DEF Bundling
<1>3. /\ BundleShape(request') /\ request'.step = IF request.frontier = {} THEN "copy" ELSE "frontier"
      /\ request'.todo = request.todo
      /\ request'.frontier = request.frontier /\ request'.named = request.named
      /\ request'.roots = request.roots /\ request'.visited = request.visited /\ request'.found = request.found
      /\ request'.missing = request.missing /\ request'.zip = request.zip /\ request'.edges = request.edges
      /\ request'.files = request.files
  BY <1>1, <1>2 DEF Bundling, BundleShape, BundleFields
<1>4. EditionType' /\ BundleAccounts' /\ Edges' = Edges
  BY <1>1 DEF BundleInv, EditionType, BundleAccounts, Edges, Loaded
<1>5. Walking(request)'
  BY <1>2, <1>3, <1>4 DEF Walking
<1>6. request.frontier = {} => Copying(request)'
  BY <1>1, <1>2, <1>3, EmptyElems DEF Walking, Copying, Closed, Bundling
<1> QED BY <1>1, <1>2, <1>3, <1>4, <1>5, <1>6 DEF BundleInv, Bundling

LEMMA CopySourceStep ==
  ASSUME BundleInv, NEW m \in Mods, CopySource(m)
  PROVE  BundleInv'
<1>1. /\ request.step = "copy" /\ m \in request.found \ (request.zip \cup request.missing)
      /\ UNCHANGED <<edition, openable, answer>>
      /\ request' = IF m \in openable THEN [request EXCEPT !.zip = @ \cup {m}]
                    ELSE [request EXCEPT !.missing = @ \cup {m}]
  BY DEF CopySource
<1>2. Bundling(request) /\ Copying(request)
  BY <1>1, IsBundling DEF Bundling
<1>3. /\ BundleShape(request') /\ request'.step = "copy" /\ request'.todo = request.todo
      /\ request'.frontier = request.frontier /\ request'.named = request.named
      /\ request'.roots = request.roots /\ request'.visited = request.visited /\ request'.found = request.found
      /\ request'.missing = IF m \in openable THEN request.missing ELSE request.missing \cup {m}
      /\ request'.zip = IF m \in openable THEN request.zip \cup {m} ELSE request.zip
      /\ request'.edges = request.edges /\ request'.files = request.files
  BY <1>1, <1>2 DEF Bundling, BundleShape, BundleFields
<1>4. EditionType' /\ BundleAccounts'
  BY <1>1 DEF BundleInv, EditionType, BundleAccounts
<1>5. Copying(request)'
  BY <1>1, <1>2, <1>3 DEF Copying, Closed
<1> QED BY <1>1, <1>2, <1>3, <1>4, <1>5 DEF BundleInv, Bundling

(* What the roots lead to lies in every closed set with the roots. *)
LEMMA ReachWithin ==
  ASSUME NEW edges, NEW roots, NEW S \in SUBSET Mods, roots \subseteq S, Closed(edges, S)
  PROVE  Reach(edges, roots) \subseteq S
BY DEF Reach

LEMMA BundleDoneStep ==
  ASSUME BundleInv, BundleDone
  PROVE  BundleInv'
<1>1. /\ request.step = "copy" /\ request.found \subseteq request.zip \cup request.missing
      /\ answer' = [kind |-> "bundle", zip |-> request.zip, missing |-> request.missing,
                    named |-> request.named, twice |-> request.twice,
                    lasting |-> Reach(request.edges, request.roots) \cap request.files]
      /\ request' = NoRequest /\ UNCHANGED <<edition, openable>>
  BY DEF BundleDone
<1>2. Bundling(request) /\ Copying(request)
  BY <1>1, IsBundling DEF Bundling
<1>3. Reach(request.edges, request.roots) \subseteq request.found
  BY <1>2, ReachWithin DEF Bundling, Copying
<1>4. BundleAccounts'
  BY <1>1, <1>2, <1>3 DEF BundleAccounts, Bundling, BundleShape, Copying
<1> QED BY <1>1, <1>4 DEF BundleInv, EditionType

LEMMA DecodedShape ==
  ASSUME NEW r, WalkShape(r), NEW oid, NEW hit, NEW ix
  PROVE  WalkShape(Decoded(r, oid, hit, ix))
BY DEF WalkShape, WalkFields, Decoded

(* A request in a phase of a walk is a walk's, and so is the next. *)
LEMMA IsWalking ==
  ASSUME BundleInv, request.step \in {"entry", "probe", "row", "index"}
  PROVE  WalkShape(request)
BY DEF BundleInv, NoRequest, Bundling

LEMMA WalkEdits ==
  ASSUME NEW r, WalkShape(r), NEW x, NEW y
  PROVE  /\ WalkShape([r EXCEPT !.step = "probe", !.oid = x, !.n = y])
         /\ WalkShape([r EXCEPT !.step = "row", !.hit = x]) /\ WalkShape([r EXCEPT !.step = "index", !.key = x])
         /\ WalkShape([r EXCEPT !.n = x])
         /\ WalkShape([r EXCEPT !.byOID = x]) /\ WalkShape([r EXCEPT !.byName = x])
BY DEF WalkShape, WalkFields

LEMMA ReadEntryShape ==
  ASSUME WalkShape(request), ReadEntry
  PROVE  WalkShape(request')
<1> DEFINE key == <<E.module, E.name>>
           fresh == ByName(E.module, E.name)
           r == IF E.name = Unnamed THEN request ELSE [request EXCEPT !.byName = Memo(@, key, fresh)]
           oids == IF E.name = Unnamed THEN {E.oid}
                   ELSE {h.symbol.oid \o E.oid :
                           h \in {x \in Recall(request.byName, key, fresh) : x.symbol.oid # <<>>}}
           oid == CHOOSE o \in oids : TRUE
<1>1. request' = IF oids = {} THEN Decoded(r, <<>>, {}, "none")
                 ELSE [r EXCEPT !.step = "probe", !.oid = oid, !.n = Len(oid)]
  BY SMTT(60) DEF ReadEntry
<1> HIDE DEF oids, oid
<1>2. WalkShape(r)
  BY WalkEdits
<1> HIDE DEF r
<1> QED BY <1>1, <1>2, DecodedShape, WalkEdits

LEMMA ProbeShape ==
  ASSUME WalkShape(request), Probe
  PROVE  WalkShape(request')
<1> DEFINE prefix == SubSeq(request.oid, 1, request.n)
           fresh == SymbolAt(prefix)
           hit == Recall(request.byOID, prefix, fresh)
           r == [request EXCEPT !.byOID = Memo(@, prefix, fresh)]
           owned == {h \in hit : ~Structural(h.symbol.oid, request.oid)}
           column == \E h \in owned : h.symbol.kind = "column" /\ request.n < Len(request.oid)
<1>1. request' = CASE hit = {} /\ request.n > 2 -> [r EXCEPT !.n = @ - 1]
                   [] hit # {} /\ column -> [r EXCEPT !.step = "row", !.hit = owned]
                   [] OTHER -> Decoded(r, request.oid, owned, "none")
  BY SMTT(60) DEF Probe
<1>2. WalkShape(r)
  BY WalkEdits
<1> HIDE DEF r, hit, column, owned
<1>3. \/ request' = [r EXCEPT !.n = @ - 1]
      \/ request' = [r EXCEPT !.step = "row", !.hit = owned]
      \/ request' = Decoded(r, request.oid, owned, "none")
  BY <1>1, ZenonT(60)
<1>4. WalkShape([r EXCEPT !.n = r.n - 1]) /\ WalkShape([r EXCEPT !.step = "row", !.hit = owned])
  BY <1>2, WalkEdits
<1>5. WalkShape(Decoded(r, request.oid, owned, "none"))
  BY <1>2, DecodedShape, SMTT(60)
<1> QED BY <1>3, <1>4, <1>5

LEMMA ReadRowShape ==
  ASSUME WalkShape(request), ReadRow
  PROVE  WalkShape(request')
<1> DEFINE parent == (CHOOSE h \in request.hit : TRUE).symbol.parent
           fresh == SymbolAt(parent)
           entry == {h \in Recall(request.byOID, parent, fresh) : Len(h.symbol.index) = 1}
           r == [request EXCEPT !.byOID = Memo(@, parent, fresh)]
           key == <<(CHOOSE x \in entry : TRUE).module, (CHOOSE x \in entry : TRUE).symbol.index[1]>>
<1>1. request' = IF entry = {} THEN Decoded(r, request.oid, request.hit, "raw")
                 ELSE [r EXCEPT !.step = "index", !.key = key]
  BY SMTT(60) DEF ReadRow
<1>2. WalkShape(r)
  BY WalkEdits
<1> HIDE DEF r, entry, key
<1> QED BY <1>1, <1>2, DecodedShape, WalkEdits

LEMMA ReadIndexShape ==
  ASSUME WalkShape(request), ReadIndex
  PROVE  WalkShape(request')
<1> DEFINE fresh == ByName(request.key[1], request.key[2])
           integer == \E h \in Recall(request.byName, request.key, fresh) :
                        h.symbol.integer /\ Len(request.oid) - request.n = 1
           r == [request EXCEPT !.byName = Memo(@, request.key, fresh)]
           ix == IF integer THEN "integer" ELSE "raw"
<1>1. request' = Decoded(r, request.oid, request.hit, ix)
  BY SMTT(60) DEF ReadIndex
<1>2. WalkShape(r)
  BY WalkEdits
<1> HIDE DEF r, ix
<1> QED BY <1>1, <1>2, DecodedShape

LEMMA WalkStep ==
  ASSUME BundleInv, ReadEntry \/ Probe \/ ReadRow \/ ReadIndex \/ LookupFails
  PROVE  BundleInv'
<1>1. request.step \in {"entry", "probe", "row", "index"} /\ UNCHANGED <<edition, openable, answer>>
  BY DEF ReadEntry, Probe, ReadRow, ReadIndex, LookupFails, Lookup
<1>2. WalkShape(request)'
  <2>1. CASE LookupFails BY <1>1, <2>1, IsWalking, DecodedShape DEF LookupFails
  <2> QED BY <1>1, <2>1, IsWalking, ReadEntryShape, ProbeShape, ReadRowShape, ReadIndexShape
<1> QED BY <1>1, <1>2, SMTT(60) DEF BundleInv, EditionType, BundleAccounts

LEMMA WalkEndsStep ==
  ASSUME BundleInv, (\E w \in Walks : WalkStart(w)) \/ WalkDone \/ Hangup
  PROVE  BundleInv'
<1>1. UNCHANGED <<edition, openable>> /\ EditionType'
  BY DEF WalkStart, WalkDone, Hangup, Fail, BundleInv, EditionType
<1>2. answer'.kind # "bundle" /\ (request' = NoRequest \/ WalkShape(request'))
  <2>1. CASE \E w \in Walks : WalkStart(w)
    <3>1. PICK w \in Walks : WalkStart(w) BY <2>1
    <3> DEFINE r == [step |-> "entry", kind |-> "walk", entries |-> w, at |-> 1,
                     oid |-> <<>>, n |-> 0, hit |-> {}, key |-> <<>>, byOID |-> <<>>, byName |-> <<>>,
                     decoded |-> <<>>]
    <3>2. WalkShape(r) BY DEF WalkShape, WalkFields
    <3>3. request' = r /\ answer' = NoAnswer BY <3>1 DEF WalkStart
    <3> QED BY <3>2, <3>3 DEF NoAnswer
  <2>2. CASE WalkDone
    BY <2>2 DEF WalkDone, Fail
  <2>3. CASE Hangup
    BY <2>3 DEF Hangup, NoAnswer
  <2> QED BY <2>1, <2>2, <2>3
<1> QED BY <1>1, <1>2 DEF BundleInv, BundleAccounts

LEMMA BundleStep == BundleInv /\ [ServingNext]_servingVars => BundleInv'
<1> SUFFICES ASSUME BundleInv, [ServingNext]_servingVars PROVE BundleInv'
  OBVIOUS
<1>1. CASE \E m \in Mods : StoreReplacesModule(m) \/ StoreDeletesModule(m) \/ FileDisappears(m)
  BY <1>1, ChangeStep, DisappearStep DEF StoreReplacesModule, StoreDeletesModule
<1>2. CASE \E roots \in Roots : BundleStart(roots)
  BY <1>2, BundleStartStep
<1>3. CASE \E m \in Mods : ReadImports(m) \/ CopySource(m)
  BY <1>3, ReadImportsStep, CopySourceStep
<1>4. CASE UNCHANGED servingVars
  BY <1>4 DEF servingVars, BundleInv, EditionType, BundleAccounts, WalkShape, Bundling, BundleShape,
              Walking, Copying, Edges, Loaded
<1> QED BY <1>1, <1>2, <1>3, <1>4, ResolveImportStep, NextModuleStep, BundleDoneStep, WalkStep, WalkEndsStep
        DEF ServingNext

(* A bundle accounts for its closure, for any modules, imports and changes *)
(* of the corpus while it is made (handlers.go:510-533, bundle.go).        *)
THEOREM BundlesAccount == ServingSpec => []BundleAccounts
<1>1. BundleInv => BundleAccounts BY DEF BundleInv
<1> QED BY <1>1, BundleInitInv, BundleStep, PTL DEF ServingSpec

-----------------------------------------------------------------------------
(* Walks.  What a memo holds is never changed, so the owner of an OID can  *)
(* be read off the memos for good: its longest prefix that has a symbol.   *)
Extends(M, N) == DOMAIN M \subseteq DOMAIN N /\ \A k \in DOMAIN M : N[k] = M[k]
Upto(o, n) == SubSeq(o, 1, n)

Probed(M, o, n) ==
  /\ n \in Nat /\ n <= Len(o) /\ (n >= 2 \/ n = Len(o))
  /\ \A k \in (n + 1)..Len(o) : Upto(o, k) \in DOMAIN M /\ M[Upto(o, k)] = {}
Landed(M, o, n, hit) ==
  /\ Probed(M, o, n) /\ Upto(o, n) \in DOMAIN M
  /\ M[Upto(o, n)] = {} => n <= 2
  /\ hit = {h \in M[Upto(o, n)] : ~Structural(h.symbol.oid, o)}
Columnar(o, n, hit) == \E h \in hit : h.symbol.kind = "column" /\ n < Len(o)
Parent(hit) == (CHOOSE h \in hit : TRUE).symbol.parent
EntryOf(M, hit) == {h \in M[Parent(hit)] : Len(h.symbol.index) = 1}
KeyOf(M, hit) == LET h == CHOOSE x \in EntryOf(M, hit) : TRUE IN <<h.module, h.symbol.index[1]>>
Integer(N, key, o, n) == \E h \in N[key] : h.symbol.integer /\ Len(o) - n = 1
Verdict(M, N, o, n, hit, ix) ==
  IF ~Columnar(o, n, hit) THEN ix = "none"
  ELSE /\ Parent(hit) \in DOMAIN M
       /\ IF EntryOf(M, hit) = {} THEN ix = "raw"
          ELSE /\ KeyOf(M, hit) \in DOMAIN N
               /\ ix = IF Integer(N, KeyOf(M, hit), o, n) THEN "integer" ELSE "raw"
Explained(M, N, d) ==
  /\ d.oid \in Seq(Nat)
  /\ \E n \in Nat : Landed(M, d.oid, n, d.hit) /\ Verdict(M, N, d.oid, n, d.hit, d.index)

Located(M) == \A k \in DOMAIN M : \A h \in M[k] : h.symbol.oid = k
Tracing(r) ==
  /\ r.entries \in Walks /\ r.at \in Nat \ {0}
  /\ Located(r.byOID)
  /\ \A k \in DOMAIN r.byName : \A h \in r.byName[k] : h.symbol.oid \in Seq(Nat)
  /\ r.decoded \in Seq(Elems(r.decoded))
  /\ \A d \in Elems(r.decoded) : d.oid # <<>> => Explained(r.byOID, r.byName, d)
  /\ r.step # "entry" => r.oid \in Seq(Nat)
  /\ r.step = "probe" => Probed(r.byOID, r.oid, r.n)
  /\ r.step \in {"row", "index"} => Landed(r.byOID, r.oid, r.n, r.hit) /\ Columnar(r.oid, r.n, r.hit)
  /\ r.step = "index" => /\ Parent(r.hit) \in DOMAIN r.byOID /\ EntryOf(r.byOID, r.hit) # {}
                         /\ r.key = KeyOf(r.byOID, r.hit)
SymbolOids == \A m \in Mods : \A s \in edition[m].symbols : s.oid \in Seq(Nat)
ColumnInv == SymbolOids /\ (WalkShape(request) => Tracing(request)) /\ OneOwnerPerColumn

LEMMA PrefixOf ==
  ASSUME NEW o \in Seq(Nat), NEW n \in Nat, n < Len(o), NEW k \in Nat, k <= n
  PROVE  Upto(Upto(o, n), k) = Upto(o, k)
BY SubSeqProperties DEF Upto

(* Two OIDs that differ in the last arc have the same proper prefixes. *)
LEMMA SamePrefixes ==
  ASSUME NEW o \in Seq(Nat), NEW p \in Seq(Nat), Len(o) = Len(p), o # <<>>,
         SubSeq(o, 1, Len(o) - 1) = SubSeq(p, 1, Len(p) - 1), NEW k \in Nat, k < Len(o)
  PROVE  Upto(o, k) = Upto(p, k)
<1>1. PICK n \in Nat : n = Len(o) - 1 /\ n < Len(o) /\ k <= n
  <2>1. PICK l \in Nat : l = Len(o) /\ l > k BY LenProperties
  <2>2. l - 1 \in Nat /\ l - 1 < l /\ k <= l - 1 BY <2>1
  <2> QED BY <2>1, <2>2
<1>2. Upto(o, k) = Upto(Upto(o, n), k) BY <1>1, PrefixOf
<1>3. Upto(p, k) = Upto(Upto(p, n), k) BY <1>1, PrefixOf
<1> QED BY <1>1, <1>2, <1>3 DEF Upto

LEMMA WholePrefix ==
  ASSUME NEW o \in Seq(Nat)
  PROVE  Upto(o, Len(o)) = o
BY SubSeqProperties DEF Upto

LEMMA SameScaffolding ==
  ASSUME NEW o \in Seq(Nat), NEW p \in Seq(Nat), Len(o) = Len(p), o # <<>>,
         SubSeq(o, 1, Len(o) - 1) = SubSeq(p, 1, Len(p) - 1), NEW s
  PROVE  Structural(s, o) <=> Structural(s, p)
<1>1. UnderEnterprises(o) <=> UnderEnterprises(p)
  <2>1. CASE Len(o) > Len(Enterprises)
    <3>1. Len(Enterprises) \in Nat /\ Len(Enterprises) < Len(o) /\ Len(o) \in Nat
      BY <2>1, WalksAssumption, LenProperties
    <3>2. Upto(o, Len(Enterprises)) = Upto(p, Len(Enterprises))
      BY <3>1, SamePrefixes
    <3> QED BY <3>1, <3>2 DEF UnderEnterprises, StartsWith, Upto
  <2>2. CASE ~(Len(o) > Len(Enterprises))
    BY <2>2 DEF UnderEnterprises
  <2> QED BY <2>1, <2>2
<1> QED BY <1>1 DEF Structural

(* The scaffolding owns itself. *)
LEMMA NoScaffold == ASSUME NEW o \in Seq(Nat) PROVE ~Structural(o, o)
<1>1. Len(o) \in Nat /\ Len(Enterprises) \in Nat
  BY WalksAssumption, LenProperties
<1> QED BY <1>1 DEF Structural, UnderEnterprises

(* The argument: what explains two instances of a column is the same.      *)
Siblings(d, e) ==
  /\ d.hit # {} /\ Len(d.oid) = Len(e.oid) /\ d.oid # <<>>
  /\ SubSeq(d.oid, 1, Len(d.oid) - 1) = SubSeq(e.oid, 1, Len(e.oid) - 1)
  /\ \A h \in d.hit \cup e.hit : h.symbol.oid \notin {d.oid, e.oid}
LEMMA OneOwner ==
  ASSUME NEW M, NEW N, Located(M), NEW d, NEW e, Explained(M, N, d), Explained(M, N, e),
         Siblings(d, e)
  PROVE  d.hit = e.hit /\ d.index = e.index
<1>0. /\ d.hit # {} /\ Len(d.oid) = Len(e.oid) /\ d.oid # <<>>
      /\ SubSeq(d.oid, 1, Len(d.oid) - 1) = SubSeq(e.oid, 1, Len(e.oid) - 1)
      /\ \A h \in d.hit \cup e.hit : h.symbol.oid \notin {d.oid, e.oid}
  BY DEF Siblings
<1>1. PICK i \in Nat : Landed(M, d.oid, i, d.hit) /\ Verdict(M, N, d.oid, i, d.hit, d.index)
  BY DEF Explained
<1>2. PICK j \in Nat : Landed(M, e.oid, j, e.hit) /\ Verdict(M, N, e.oid, j, e.hit, e.index)
  BY DEF Explained
<1>3. d.oid \in Seq(Nat) /\ e.oid \in Seq(Nat) /\ Len(d.oid) \in Nat
  BY LenProperties DEF Explained
<1>4. i <= Len(d.oid) /\ j <= Len(d.oid) /\ (i >= 2 \/ i = Len(d.oid)) /\ (j >= 2 \/ j = Len(d.oid))
  BY <1>0, <1>1, <1>2 DEF Landed, Probed
<1>5. i < Len(d.oid)
  <2>1. PICK h \in d.hit : TRUE BY <1>0
  <2>2. h.symbol.oid = Upto(d.oid, i) BY <1>1, <2>1 DEF Landed, Located
  <2>3. Upto(d.oid, i) # d.oid BY <1>0, <2>1, <2>2
  <2> QED BY <1>3, <1>4, <2>3, WholePrefix
<1>6. Upto(d.oid, i) = Upto(e.oid, i) /\ M[Upto(d.oid, i)] # {} /\ i >= 2
  <2>1. Upto(d.oid, i) = Upto(e.oid, i) BY <1>0, <1>3, <1>5, SamePrefixes
  <2> QED BY <1>0, <2>1, <1>1, <1>4, <1>5 DEF Landed
<1>7. ~(j < i)
  <2>1. \A k \in (j + 1)..Len(e.oid) : M[Upto(e.oid, k)] = {} BY <1>2 DEF Landed, Probed
  <2> QED BY <1>0, <2>1, <1>4, <1>5, <1>6, <1>3
<1>8. ~(j > i)
  <2> SUFFICES ASSUME j > i PROVE FALSE
    OBVIOUS
  <2>1. M[Upto(e.oid, j)] # {} BY <1>2, <1>6 DEF Landed
  <2>2. CASE j < Len(d.oid)
    <3>1. Upto(d.oid, j) = Upto(e.oid, j) BY <1>0, <1>3, <2>2, SamePrefixes
    <3>2. \A k \in (i + 1)..Len(d.oid) : M[Upto(d.oid, k)] = {} BY <1>1 DEF Landed, Probed
    <3>3. j \in (i + 1)..Len(d.oid) BY <1>3, <2>2
    <3> QED BY <2>1, <3>1, <3>2, <3>3
  <2>3. CASE j = Len(d.oid)
    <3>1. Upto(e.oid, j) = e.oid BY <1>0, <1>3, <2>3, WholePrefix
    <3>2. PICK h \in M[e.oid] : TRUE BY <2>1, <3>1
    <3>3. h.symbol.oid = e.oid BY <1>2, <3>1, <3>2 DEF Landed, Located
    <3>4. h \in e.hit BY <1>2, <1>3, <3>1, <3>2, <3>3, NoScaffold DEF Landed
    <3> QED BY <1>0, <3>3, <3>4
  <2> QED BY <1>4, <2>2, <2>3
<1>9. i = j BY <1>7, <1>8
<1>10. d.hit = e.hit
  <2>1. \A h : Structural(h.symbol.oid, d.oid) <=> Structural(h.symbol.oid, e.oid)
    BY <1>0, <1>3, SameScaffolding
  <2> QED BY <1>0, <1>1, <1>2, <1>6, <1>9, <2>1 DEF Landed
<1> QED BY <1>0, <1>1, <1>2, <1>9, <1>10 DEF Verdict, Columnar, Integer

-----------------------------------------------------------------------------
(* The memos and what is read off them. *)
LEMMA MemoKeeps ==
  ASSUME NEW M, NEW key, NEW fresh
  PROVE  /\ Extends(M, Memo(M, key, fresh)) /\ DOMAIN Memo(M, key, fresh) = DOMAIN M \cup {key}
         /\ Memo(M, key, fresh)[key] = Recall(M, key, fresh)
BY DEF Extends, Memo, Recall

LEMMA ExtendsItself == \A M : Extends(M, M)
BY DEF Extends

LEMMA LandedKept ==
  ASSUME NEW M, NEW P, Extends(M, P), NEW o, NEW n, NEW hit
  PROVE  /\ Probed(M, o, n) => Probed(P, o, n)
         /\ Landed(M, o, n, hit) => Landed(P, o, n, hit)
<1>1. Probed(M, o, n) => Probed(P, o, n) BY DEF Extends, Probed
<1>2. Upto(o, n) \in DOMAIN M => Upto(o, n) \in DOMAIN P /\ P[Upto(o, n)] = M[Upto(o, n)]
  BY DEF Extends
<1> QED BY <1>1, <1>2 DEF Landed

LEMMA EntryKept ==
  ASSUME NEW M, NEW P, Extends(M, P), NEW hit, Parent(hit) \in DOMAIN M
  PROVE  Parent(hit) \in DOMAIN P /\ EntryOf(P, hit) = EntryOf(M, hit) /\ KeyOf(P, hit) = KeyOf(M, hit)
<1>1. Parent(hit) \in DOMAIN P /\ P[Parent(hit)] = M[Parent(hit)] BY DEF Extends
<1>2. EntryOf(P, hit) = EntryOf(M, hit) BY <1>1 DEF EntryOf
<1> QED BY <1>1, <1>2 DEF KeyOf

LEMMA ExplainedKept ==
  ASSUME NEW M, NEW P, Extends(M, P), NEW N, NEW Q, Extends(N, Q), NEW d, Explained(M, N, d)
  PROVE  Explained(P, Q, d)
<1>1. PICK n \in Nat : Landed(M, d.oid, n, d.hit) /\ Verdict(M, N, d.oid, n, d.hit, d.index)
  BY DEF Explained
<1>2. Landed(P, d.oid, n, d.hit) BY <1>1, LandedKept
<1>3. Verdict(P, Q, d.oid, n, d.hit, d.index)
  <2>1. CASE ~Columnar(d.oid, n, d.hit) BY <1>1, <2>1 DEF Verdict
  <2>2. CASE Columnar(d.oid, n, d.hit)
    <3>1. Parent(d.hit) \in DOMAIN M BY <1>1, <2>2 DEF Verdict
    <3>2. /\ Parent(d.hit) \in DOMAIN P /\ EntryOf(P, d.hit) = EntryOf(M, d.hit)
          /\ KeyOf(P, d.hit) = KeyOf(M, d.hit)
      BY <3>1, EntryKept
    <3>3. CASE EntryOf(M, d.hit) = {} BY <1>1, <2>2, <3>2, <3>3 DEF Verdict
    <3>4. CASE EntryOf(M, d.hit) # {}
      <4>1. PICK key : key = KeyOf(M, d.hit) OBVIOUS
      <4>2. key \in DOMAIN N /\ d.index = IF Integer(N, key, d.oid, n) THEN "integer" ELSE "raw"
        BY <1>1, <2>2, <3>4, <4>1 DEF Verdict
      <4>3. key \in DOMAIN Q /\ Q[key] = N[key] BY <4>2 DEF Extends
      <4> QED BY <2>2, <3>2, <3>4, <4>1, <4>2, <4>3 DEF Verdict, Integer
    <3> QED BY <3>3, <3>4
  <2> QED BY <2>1, <2>2
<1> QED BY <1>2, <1>3 DEF Explained

LEMMA ElemsAppend ==
  ASSUME NEW s, s \in Seq(Elems(s)), NEW x
  PROVE  Elems(Append(s, x)) = Elems(s) \cup {x} /\ Append(s, x) \in Seq(Elems(Append(s, x)))
<1>1. PICK S : S = Elems(s) \cup {x} OBVIOUS
<1>2. PICK n \in Nat : Len(s) = n /\ DOMAIN s = 1..n BY LenProperties
<1>3. s \in Seq(S) /\ x \in S
  <2>1. s \in [1..n -> Elems(s)] BY <1>2, LenProperties
  <2>2. s \in [1..n -> S] BY <1>1, <2>1
  <2> QED BY <1>1, <2>2, SeqDef
<1>4. /\ Append(s, x) \in Seq(S) /\ Len(Append(s, x)) = n + 1 /\ Append(s, x)[n + 1] = x
      /\ \A i \in 1..n : Append(s, x)[i] = s[i]
  BY <1>2, <1>3, AppendProperties
<1>5. DOMAIN Append(s, x) = 1..(n + 1) BY <1>4, LenProperties
<1>6. ASSUME NEW y \in S PROVE y \in Elems(Append(s, x))
  <2>1. CASE y = x
    <3>1. n + 1 \in 1..(n + 1) BY <1>2
    <3> QED BY <3>1, <2>1, <1>4, <1>5 DEF Elems
  <2>2. CASE y \in Elems(s)
    <3>1. PICK i \in 1..n : y = s[i] BY <2>2, <1>2 DEF Elems
    <3>2. i \in 1..(n + 1) BY <3>1
    <3> QED BY <3>1, <3>2, <1>4, <1>5 DEF Elems
  <2> QED BY <1>1, <2>1, <2>2
<1>7. ASSUME NEW y \in Elems(Append(s, x)) PROVE y \in S
  BY <1>4, <1>5, <1>7, LenProperties DEF Elems
<1>8. Elems(Append(s, x)) = S
  <2>1. S \subseteq Elems(Append(s, x)) BY <1>6
  <2>2. Elems(Append(s, x)) \subseteq S BY <1>7
  <2> QED BY <2>1, <2>2, Zenon
<1> QED BY <1>1, <1>4, <1>8, Zenon

(* An entry that is decoded by what the memos hold. *)
LEMMA DecodedTracing ==
  ASSUME NEW r, WalkShape(r), Tracing(r), NEW oid, NEW hit, NEW ix,
         oid # <<>> => Explained(r.byOID, r.byName, [oid |-> oid, hit |-> hit, index |-> ix])
  PROVE  Tracing(Decoded(r, oid, hit, ix))
<1> DEFINE d == [oid |-> oid, hit |-> hit, index |-> ix]
           q == Decoded(r, oid, hit, ix)
<1>1. /\ q.step = "entry" /\ q.at = r.at + 1 /\ q.decoded = Append(r.decoded, d)
      /\ q.entries = r.entries /\ q.byOID = r.byOID /\ q.byName = r.byName
  BY DEF Decoded, WalkShape, WalkFields
<1>2. d.oid = oid OBVIOUS
<1> HIDE DEF d, q
<1>3. Elems(q.decoded) = Elems(r.decoded) \cup {d} /\ q.decoded \in Seq(Elems(q.decoded))
  BY <1>1, ElemsAppend DEF Tracing
<1>4. \A x \in Elems(q.decoded) : x.oid # <<>> => Explained(q.byOID, q.byName, x)
  BY <1>1, <1>2, <1>3 DEF Tracing, d
<1>5. Tracing(q)
  BY <1>1, <1>3, <1>4 DEF Tracing
<1> QED BY <1>5 DEF q

Remembers(q, r) ==
  /\ WalkShape(q) /\ Extends(r.byOID, q.byOID) /\ Extends(r.byName, q.byName)
  /\ q.step = r.step /\ q.entries = r.entries /\ q.at = r.at /\ q.oid = r.oid /\ q.n = r.n /\ q.hit = r.hit
  /\ q.key = r.key /\ q.decoded = r.decoded
  /\ Located(q.byOID)
  /\ \A k \in DOMAIN q.byName : \A h \in q.byName[k] : h.symbol.oid \in Seq(Nat)

LEMMA RememberedTracing ==
  ASSUME NEW r, Tracing(r), NEW q, Remembers(q, r)
  PROVE  Tracing(q)
<1>1. \A d \in Elems(q.decoded) : d.oid # <<>> => Explained(q.byOID, q.byName, d)
  BY ExplainedKept DEF Remembers, Tracing
<1>2. q.step = "probe" => Probed(q.byOID, q.oid, q.n)
  BY LandedKept DEF Remembers, Tracing
<1>3. q.step \in {"row", "index"} => Landed(q.byOID, q.oid, q.n, q.hit)
  BY LandedKept DEF Remembers, Tracing
<1>4. q.step = "index" => /\ Parent(q.hit) \in DOMAIN q.byOID /\ EntryOf(q.byOID, q.hit) # {}
                          /\ q.key = KeyOf(q.byOID, q.hit)
  BY EntryKept DEF Remembers, Tracing
<1> QED BY <1>1, <1>2, <1>3, <1>4 DEF Remembers, Tracing

LEMMA NameMemo ==
  ASSUME NEW r, WalkShape(r), Tracing(r), SymbolOids, NEW key, NEW m, NEW name
  PROVE  /\ Remembers([r EXCEPT !.byName = Memo(@, key, ByName(m, name))], r)
         /\ [r EXCEPT !.byName = Memo(@, key, ByName(m, name))].byName = Memo(r.byName, key, ByName(m, name))
<1>1. PICK q : q = [r EXCEPT !.byName = Memo(@, key, ByName(m, name))] OBVIOUS
<1>2. PICK N : N = Memo(r.byName, key, ByName(m, name)) OBVIOUS
<1>3. /\ WalkShape(q) /\ q.byName = N /\ q.byOID = r.byOID
      /\ q.step = r.step /\ q.entries = r.entries /\ q.at = r.at /\ q.oid = r.oid /\ q.n = r.n /\ q.hit = r.hit
      /\ q.key = r.key /\ q.decoded = r.decoded
  BY <1>1, <1>2 DEF WalkShape, WalkFields
<1>4. \A h \in ByName(m, name) : h.symbol.oid \in Seq(Nat)
  BY DEF ByName, Hits, SymbolOids
<1>5. \A k \in DOMAIN N : \A h \in N[k] : h.symbol.oid \in Seq(Nat)
  BY <1>2, <1>4 DEF Memo, Tracing
<1>6. Extends(r.byName, N) BY <1>2, MemoKeeps
<1>7. Remembers(q, r)
  BY <1>3, <1>5, <1>6, ExtendsItself DEF Remembers, Tracing
<1> QED BY <1>1, <1>2, <1>3, <1>7

LEMMA OIDMemo ==
  ASSUME NEW r, WalkShape(r), Tracing(r), NEW oid
  PROVE  /\ Remembers([r EXCEPT !.byOID = Memo(@, oid, SymbolAt(oid))], r)
         /\ [r EXCEPT !.byOID = Memo(@, oid, SymbolAt(oid))].byOID = Memo(r.byOID, oid, SymbolAt(oid))
         /\ [r EXCEPT !.byOID = Memo(@, oid, SymbolAt(oid))].byName = r.byName
<1>1. PICK q : q = [r EXCEPT !.byOID = Memo(@, oid, SymbolAt(oid))] OBVIOUS
<1>2. PICK N : N = Memo(r.byOID, oid, SymbolAt(oid)) OBVIOUS
<1>3. /\ WalkShape(q) /\ q.byOID = N /\ q.byName = r.byName
      /\ q.step = r.step /\ q.entries = r.entries /\ q.at = r.at /\ q.oid = r.oid /\ q.n = r.n /\ q.hit = r.hit
      /\ q.key = r.key /\ q.decoded = r.decoded
  BY <1>1, <1>2 DEF WalkShape, WalkFields
<1>4. \A h \in SymbolAt(oid) : h.symbol.oid = oid
  BY DEF SymbolAt
<1>5. Located(N)
  BY <1>2, <1>4 DEF Memo, Tracing, Located
<1>6. Extends(r.byOID, N) BY <1>2, MemoKeeps
<1>7. Remembers(q, r)
  BY <1>3, <1>5, <1>6, ExtendsItself DEF Remembers, Tracing
<1> QED BY <1>1, <1>2, <1>3, <1>7

LEMMA ReadEntryTraces ==
  ASSUME WalkShape(request), Tracing(request), SymbolOids, ReadEntry
  PROVE  Tracing(request')
<1> DEFINE key == <<E.module, E.name>>
           fresh == ByName(E.module, E.name)
           r == IF E.name = Unnamed THEN request ELSE [request EXCEPT !.byName = Memo(@, key, fresh)]
           oids == IF E.name = Unnamed THEN {E.oid}
                   ELSE {h.symbol.oid \o E.oid :
                           h \in {x \in Recall(request.byName, key, fresh) : x.symbol.oid # <<>>}}
           oid == CHOOSE o \in oids : TRUE
<1>1. request' = IF oids = {} THEN Decoded(r, <<>>, {}, "none")
                 ELSE [r EXCEPT !.step = "probe", !.oid = oid, !.n = Len(oid)]
  BY DEF ReadEntry
<1>2. WalkShape(r) /\ Tracing(r)
  <2> DEFINE q == [request EXCEPT !.byName = Memo(@, key, fresh)]
  <2>1. Remembers(q, request) BY NameMemo
  <2>2. r = request \/ r = q OBVIOUS
  <2> HIDE DEF q, r
  <2> QED BY <2>1, <2>2, RememberedTracing DEF Remembers
<1>3. E.oid \in Seq(Nat)
  <2>1. request.entries \in Walks /\ request.at \in Nat /\ request.at >= 1 /\ request.at <= Len(request.entries)
    BY DEF ReadEntry, Tracing
  <2>2. request.at \in DOMAIN request.entries
    BY <2>1, WalksAssumption, LenProperties
  <2> QED BY <2>1, <2>2, WalksAssumption DEF E
<1>4. \A h \in Recall(request.byName, key, fresh) : h.symbol.oid \in Seq(Nat)
  BY DEF Recall, Tracing, ByName, Hits, SymbolOids
<1>5. \A o \in oids : o \in Seq(Nat)
  <2>1. \A h \in Recall(request.byName, key, fresh) : h.symbol.oid \o E.oid \in Seq(Nat)
    BY <1>3, <1>4, ConcatProperties
  <2> HIDE DEF key, fresh
  <2> QED BY <1>3, <2>1
<1>6. oids # {} => oid \in Seq(Nat)
  <2> HIDE DEF oids
  <2> QED BY <1>5
<1> HIDE DEF r, oids, oid
<1>7. CASE oids = {}
  BY <1>1, <1>2, <1>7, DecodedTracing
<1>8. CASE oids # {}
  <2>1. /\ request'.step = "probe" /\ request'.oid = oid /\ request'.n = Len(oid) /\ request'.byOID = r.byOID
        /\ request'.byName = r.byName /\ request'.entries = r.entries /\ request'.at = r.at
        /\ request'.decoded = r.decoded
    BY <1>1, <1>2, <1>8 DEF WalkShape, WalkFields
  <2>2. Probed(r.byOID, oid, Len(oid))
    BY <1>6, <1>8, LenProperties DEF Probed
  <2> QED BY <1>2, <1>6, <1>8, <2>1, <2>2 DEF Tracing
<1> QED BY <1>7, <1>8

LEMMA ReadIndexTraces ==
  ASSUME WalkShape(request), Tracing(request), SymbolOids, ReadIndex
  PROVE  Tracing(request')
<1> DEFINE fresh == ByName(request.key[1], request.key[2])
           integer == \E h \in Recall(request.byName, request.key, fresh) :
                        h.symbol.integer /\ Len(request.oid) - request.n = 1
           r == [request EXCEPT !.byName = Memo(@, request.key, fresh)]
           ix == IF integer THEN "integer" ELSE "raw"
<1>1. request' = Decoded(r, request.oid, request.hit, ix)
  BY DEF ReadIndex
<1>2. Remembers(r, request) /\ r.byName = Memo(request.byName, request.key, fresh)
  BY NameMemo
<1>3. WalkShape(r) /\ Tracing(r)
  BY <1>2, RememberedTracing DEF Remembers
<1> HIDE DEF r, fresh
<1>4. request.key \in DOMAIN r.byName /\ r.byName[request.key] = Recall(request.byName, request.key, fresh)
  BY <1>2 DEF Memo, Recall
<1>5. ix = IF Integer(r.byName, request.key, request.oid, request.n) THEN "integer" ELSE "raw"
  BY <1>4 DEF Integer
<1> HIDE DEF ix
<1>6. /\ Landed(r.byOID, request.oid, request.n, request.hit) /\ Columnar(request.oid, request.n, request.hit)
      /\ Parent(request.hit) \in DOMAIN r.byOID /\ EntryOf(r.byOID, request.hit) # {}
      /\ request.key = KeyOf(r.byOID, request.hit) /\ request.oid \in Seq(Nat)
  BY <1>2, <1>3 DEF Remembers, Tracing, ReadIndex
<1>7. Verdict(r.byOID, r.byName, request.oid, request.n, request.hit, ix)
  BY <1>4, <1>5, <1>6 DEF Verdict
<1>8. request.n \in Nat BY <1>6 DEF Landed, Probed
<1>9. PICK d : d = [oid |-> request.oid, hit |-> request.hit, index |-> ix] OBVIOUS
<1>10. Explained(r.byOID, r.byName, d)
  BY <1>6, <1>7, <1>8, <1>9 DEF Explained
<1> QED BY <1>1, <1>3, <1>9, <1>10, DecodedTracing

LEMMA ReadRowTraces ==
  ASSUME WalkShape(request), Tracing(request), ReadRow
  PROVE  Tracing(request')
<1> DEFINE parent == (CHOOSE h \in request.hit : TRUE).symbol.parent
           fresh == SymbolAt(parent)
           entry == {h \in Recall(request.byOID, parent, fresh) : Len(h.symbol.index) = 1}
           r == [request EXCEPT !.byOID = Memo(@, parent, fresh)]
           key == <<(CHOOSE x \in entry : TRUE).module, (CHOOSE x \in entry : TRUE).symbol.index[1]>>
<1>1. request' = IF entry = {} THEN Decoded(r, request.oid, request.hit, "raw")
                 ELSE [r EXCEPT !.step = "index", !.key = key]
  BY DEF ReadRow
<1>2. /\ Remembers(r, request) /\ r.byOID = Memo(request.byOID, parent, fresh)
      /\ r.byName = request.byName
  BY OIDMemo
<1>3. WalkShape(r) /\ Tracing(r)
  BY <1>2, RememberedTracing DEF Remembers
<1>4. parent = Parent(request.hit)
  BY DEF Parent
<1> HIDE DEF r, parent, fresh
<1>10. parent \in DOMAIN r.byOID /\ r.byOID[parent] = Recall(request.byOID, parent, fresh)
  BY <1>2 DEF Memo, Recall
<1>5. entry = EntryOf(r.byOID, request.hit)
  BY <1>4, <1>10 DEF EntryOf
<1>6. key = KeyOf(r.byOID, request.hit)
  BY <1>5 DEF KeyOf
<1>7. /\ Landed(r.byOID, request.oid, request.n, request.hit) /\ Columnar(request.oid, request.n, request.hit)
      /\ request.oid \in Seq(Nat) /\ r.oid = request.oid /\ r.n = request.n /\ r.hit = request.hit
  BY <1>2, <1>3 DEF Remembers, Tracing, ReadRow
<1> HIDE DEF entry, key
<1>8. CASE entry = {}
  <2>1. Verdict(r.byOID, r.byName, request.oid, request.n, request.hit, "raw")
    BY <1>4, <1>10, <1>5, <1>7, <1>8 DEF Verdict
  <2>2. request.n \in Nat BY <1>7 DEF Landed, Probed
  <2>3. PICK d : d = [oid |-> request.oid, hit |-> request.hit, index |-> "raw"] OBVIOUS
  <2>4. Explained(r.byOID, r.byName, d)
    BY <1>7, <2>1, <2>2, <2>3 DEF Explained
  <2> QED BY <1>1, <1>3, <1>8, <2>3, <2>4, DecodedTracing
<1>9. CASE entry # {}
  <2>1. /\ request'.step = "index" /\ request'.key = key /\ request'.oid = r.oid /\ request'.n = r.n
        /\ request'.hit = r.hit /\ request'.byOID = r.byOID
        /\ request'.byName = r.byName /\ request'.entries = r.entries /\ request'.at = r.at
        /\ request'.decoded = r.decoded
    BY <1>1, <1>3, <1>9 DEF WalkShape, WalkFields
  <2> QED BY <1>3, <1>4, <1>10, <1>5, <1>6, <1>7, <1>9, <2>1 DEF Tracing
<1> QED BY <1>8, <1>9

LEMMA ProbeTraces ==
  ASSUME WalkShape(request), Tracing(request), Probe
  PROVE  Tracing(request')
<1> DEFINE prefix == SubSeq(request.oid, 1, request.n)
           fresh == SymbolAt(prefix)
           hit == Recall(request.byOID, prefix, fresh)
           r == [request EXCEPT !.byOID = Memo(@, prefix, fresh)]
           owned == {h \in hit : ~Structural(h.symbol.oid, request.oid)}
           column == \E h \in owned : h.symbol.kind = "column" /\ request.n < Len(request.oid)
<1>1. request' = CASE hit = {} /\ request.n > 2 -> [r EXCEPT !.n = @ - 1]
                   [] hit # {} /\ column -> [r EXCEPT !.step = "row", !.hit = owned]
                   [] OTHER -> Decoded(r, request.oid, owned, "none")
  BY DEF Probe
<1>2. /\ Remembers(r, request) /\ r.byOID = Memo(request.byOID, prefix, fresh)
      /\ r.byName = request.byName
  BY OIDMemo
<1>3. WalkShape(r) /\ Tracing(r)
  BY <1>2, RememberedTracing DEF Remembers
<1>11. prefix = Upto(request.oid, request.n)
  BY DEF Upto
<1> HIDE DEF r, prefix, fresh
<1>4. prefix = Upto(request.oid, request.n) /\ prefix \in DOMAIN r.byOID /\ r.byOID[prefix] = hit
  BY <1>2, <1>11 DEF Memo, Recall
<1>5. /\ Probed(r.byOID, request.oid, request.n) /\ request.oid \in Seq(Nat)
      /\ r.step = "probe" /\ r.oid = request.oid /\ r.n = request.n /\ request.n \in Nat
  BY <1>2, <1>3 DEF Remembers, Tracing, Probe, Probed
<1>6. ~(hit = {} /\ request.n > 2) => Landed(r.byOID, request.oid, request.n, owned)
  BY <1>4, <1>5 DEF Landed
<1>7. (hit # {} /\ column) <=> Columnar(request.oid, request.n, owned)
  BY DEF Columnar
<1> HIDE DEF hit, column, owned
<1>8. CASE hit = {} /\ request.n > 2
  <2>1. request' = [r EXCEPT !.n = @ - 1] BY <1>1, <1>8, Zenon
  <2>2. /\ request'.step = "probe" /\ request'.oid = r.oid /\ request'.n = r.n - 1 /\ request'.byOID = r.byOID
        /\ request'.byName = r.byName /\ request'.entries = r.entries /\ request'.at = r.at
        /\ request'.decoded = r.decoded
    BY <1>3, <1>5, <2>1 DEF WalkShape, WalkFields
  <2>3. Probed(r.byOID, request.oid, request.n - 1)
    <3>1. \A k \in (request.n - 1 + 1)..Len(request.oid) : k = request.n \/ k \in (request.n + 1)..Len(request.oid)
      BY <1>5, LenProperties
    <3>2. request.n - 1 \in Nat /\ request.n - 1 <= Len(request.oid) /\ request.n - 1 >= 2
      BY <1>5, <1>8, LenProperties DEF Probed
    <3> QED BY <1>4, <1>5, <1>8, <3>1, <3>2 DEF Probed
  <2> QED BY <1>3, <1>5, <2>2, <2>3 DEF Tracing
<1>9. CASE ~(hit = {} /\ request.n > 2) /\ Columnar(request.oid, request.n, owned)
  <2>1. request' = [r EXCEPT !.step = "row", !.hit = owned] BY <1>1, <1>7, <1>9, Zenon
  <2>2. /\ request'.step = "row" /\ request'.oid = r.oid /\ request'.n = r.n /\ request'.byOID = r.byOID
        /\ request'.byName = r.byName /\ request'.entries = r.entries /\ request'.at = r.at
        /\ request'.decoded = r.decoded /\ request'.hit = owned
    BY <1>3, <2>1 DEF WalkShape, WalkFields
  <2> QED BY <1>3, <1>5, <1>6, <1>9, <2>2 DEF Tracing
<1>10. CASE ~(hit = {} /\ request.n > 2) /\ ~Columnar(request.oid, request.n, owned)
  <2>1. request' = Decoded(r, request.oid, owned, "none") BY <1>1, <1>7, <1>10, Zenon
  <2>2. Verdict(r.byOID, r.byName, request.oid, request.n, owned, "none")
    BY <1>10 DEF Verdict
  <2>3. PICK d : d = [oid |-> request.oid, hit |-> owned, index |-> "none"] OBVIOUS
  <2>4. Explained(r.byOID, r.byName, d)
    BY <1>5, <1>6, <1>10, <2>2, <2>3 DEF Explained
  <2> QED BY <1>3, <2>1, <2>3, <2>4, DecodedTracing
<1> QED BY <1>8, <1>9, <1>10

LEMMA SymbolOidsStep ==
  ASSUME SymbolOids, EditionType, [ServingNext]_servingVars
  PROVE  SymbolOids'
<1>1. CASE UNCHANGED edition
  BY <1>1 DEF SymbolOids
<1>2. CASE \E m \in Mods : StoreReplacesModule(m) \/ StoreDeletesModule(m)
  <2>0. PICK m \in Mods : \E v : (v = Unloaded \/ v \in Editions[m]) /\ Change(m, v)
    BY <1>2 DEF StoreReplacesModule, StoreDeletesModule
  <2>1. PICK v : (v = Unloaded \/ v \in Editions[m]) /\ Change(m, v)
    BY <2>0
  <2>2. edition' = [edition EXCEPT ![m] = IF v = Unloaded THEN v
                      ELSE [symbols |-> v.symbols, imports |-> v.imports, rank |-> changes + 1]]
    BY <2>1 DEF Change
  <2>3. edition'[m].symbols = v.symbols /\ \A x \in Mods \ {m} : edition'[x] = edition[x]
    BY <2>2 DEF EditionType
  <2>4. \A s \in v.symbols : s.oid \in Seq(Nat)
    <3>1. CASE v = Unloaded BY <3>1 DEF Unloaded
    <3>2. CASE v \in Editions[m] BY <3>2, EditionsAssumption DEF Mods
    <3> QED BY <2>1, <3>1, <3>2
  <2>5. \A x \in Mods : \A s \in edition'[x].symbols : s.oid \in Seq(Nat)
    BY <2>3, <2>4, SMTT(60) DEF SymbolOids
  <2> QED BY <2>5 DEF SymbolOids, Mods
<1>3. UNCHANGED edition \/ \E m \in Mods : StoreReplacesModule(m) \/ StoreDeletesModule(m)
  BY DEF ServingNext, servingVars, FileDisappears, BundleStart, ReadImports, CopySource, ResolveImport,
         NextModule, BundleDone, WalkStart, ReadEntry, Probe, ReadRow, ReadIndex, LookupFails, WalkDone, Hangup
<1> QED BY <1>1, <1>2, <1>3

LEMMA WalkStartTraces ==
  ASSUME NEW w \in Walks, WalkStart(w)
  PROVE  Tracing(request')
<1> DEFINE r == [step |-> "entry", kind |-> "walk", entries |-> w, at |-> 1,
                 oid |-> <<>>, n |-> 0, hit |-> {}, key |-> <<>>, byOID |-> <<>>, byName |-> <<>>,
                 decoded |-> <<>>]
<1>1. request' = r BY DEF WalkStart
<1>2. r.entries = w /\ r.at = 1 /\ r.byOID = <<>> /\ r.byName = <<>> /\ r.decoded = <<>> /\ r.step = "entry"
  OBVIOUS
<1> HIDE DEF r
<1>3. DOMAIN r.byOID = {} /\ DOMAIN r.byName = {} BY <1>2
<1>4. Tracing(r) BY <1>2, <1>3, EmptyElems DEF Tracing, Located
<1> QED BY <1>1, <1>4

LEMMA TracingStep ==
  ASSUME BundleInv, ColumnInv, [ServingNext]_servingVars, WalkShape(request')
  PROVE  Tracing(request')
<1>1. CASE request' = request
  BY <1>1 DEF ColumnInv
<1>2. CASE \E m \in Mods : StoreReplacesModule(m) \/ StoreDeletesModule(m) \/ FileDisappears(m)
  <2>1. PICK e, o : request' = Lasting(request, e, o)
    BY <1>2 DEF StoreReplacesModule, StoreDeletesModule, FileDisappears, Change
  <2>2. CASE Bundling(request)
    <3>1. request' = [request EXCEPT !.edges = @ \cap e, !.files = @ \cap o]
      BY <2>1, <2>2 DEF Bundling, BundleShape, Lasting
    <3>2. request'.kind = "bundle" BY <2>2, <3>1 DEF Bundling, BundleShape, BundleFields
    <3> QED BY <3>2 DEF WalkShape
  <2>3. CASE ~Bundling(request)
    BY <2>1, <2>3, <1>1, OtherRequests DEF BundleInv
  <2> QED BY <2>2, <2>3
<1>3. CASE \E roots \in Roots : BundleStart(roots)
  BY <1>3 DEF BundleStart, Fail, NoRequest, WalkShape
<1>4. CASE (\E m \in Mods : ReadImports(m) \/ CopySource(m)) \/ NextModule \/ ResolveImport
  <2>1. request.step \in {"frontier", "deps", "copy"}
    BY <1>4 DEF ReadImports, CopySource, NextModule, ResolveImport
  <2>2. request'.step \in {"frontier", "deps", "copy"}
    <3>2. Bundling(request) BY <2>1, IsBundling
    <3>3. CASE (\E m \in Mods : ReadImports(m) \/ CopySource(m)) \/ NextModule
      BY <3>2, <3>3, ZenonT(60) DEF ReadImports, CopySource, NextModule, Bundling, BundleShape, BundleFields
    <3>4. CASE ResolveImport
      BY <3>2, <3>4 DEF ResolveImport, Visit, Bundling, BundleShape, BundleFields
    <3> QED BY <1>4, <3>3, <3>4
  <2> QED BY <2>2 DEF WalkShape
<1>5. CASE BundleDone \/ WalkDone \/ Hangup
  BY <1>5 DEF BundleDone, WalkDone, Hangup, Fail, NoRequest, WalkShape
<1>6. CASE \E w \in Walks : WalkStart(w)
  BY <1>6, WalkStartTraces
<1>7. CASE ReadEntry \/ Probe \/ ReadRow \/ ReadIndex \/ LookupFails
  <2>1. WalkShape(request)
    BY <1>7, IsWalking DEF ReadEntry, Probe, ReadRow, ReadIndex, LookupFails, Lookup
  <2>2. CASE LookupFails
    BY <2>1, <2>2, DecodedTracing DEF LookupFails, ColumnInv
  <2> QED BY <2>2, <1>7, <2>1, ReadEntryTraces, ProbeTraces, ReadRowTraces, ReadIndexTraces DEF ColumnInv
<1>8. CASE UNCHANGED servingVars
  BY <1>1, <1>8 DEF servingVars
<1> QED BY <1>2, <1>3, <1>4, <1>5, <1>6, <1>7, <1>8 DEF ServingNext

LEMMA AnswerStep ==
  ASSUME BundleInv, ColumnInv, [ServingNext]_servingVars
  PROVE  OneOwnerPerColumn'
<1>1. CASE UNCHANGED answer \/ answer'.kind # "walk"
  BY <1>1 DEF ColumnInv, OneOwnerPerColumn
<1>2. CASE ~(UNCHANGED answer \/ answer'.kind # "walk")
  <2>1. WalkDone
    <3>1. ~\E m \in Mods : StoreReplacesModule(m) \/ StoreDeletesModule(m) \/ FileDisappears(m)
      BY <1>2 DEF StoreReplacesModule, StoreDeletesModule, Change, FileDisappears
    <3>2. ~\E roots \in Roots : BundleStart(roots)
      BY <1>2 DEF BundleStart, Fail, NoAnswer
    <3>3. ~\E m \in Mods : ReadImports(m) \/ CopySource(m)
      BY <1>2 DEF ReadImports, CopySource
    <3>4. ~(ResolveImport \/ NextModule \/ BundleDone \/ Hangup)
      BY <1>2 DEF ResolveImport, NextModule, BundleDone, Hangup, NoAnswer
    <3>5. ~\E w \in Walks : WalkStart(w)
      BY <1>2, SMTT(60) DEF WalkStart, NoAnswer
    <3>6. ~(ReadEntry \/ Probe \/ ReadRow \/ ReadIndex \/ LookupFails \/ UNCHANGED servingVars)
      BY <1>2 DEF ReadEntry, Probe, ReadRow, ReadIndex, LookupFails, servingVars
    <3> QED BY <3>1, <3>2, <3>3, <3>4, <3>5, <3>6 DEF ServingNext
  <2>2. answer' = [kind |-> "walk", decoded |-> request.decoded] /\ Tracing(request)
    BY <1>2, <2>1, IsWalking DEF WalkDone, Fail, ColumnInv
  <2>3. ASSUME NEW d \in Elems(request.decoded), NEW e \in Elems(request.decoded), Siblings(d, e)
        PROVE  d.hit = e.hit /\ d.index = e.index
    <3>1. d.oid # <<>> /\ Len(d.oid) = Len(e.oid) BY <2>3 DEF Siblings
    <3>2. Explained(request.byOID, request.byName, d) BY <2>2, <3>1 DEF Tracing
    <3>3. e.oid # <<>>
      <4>1. d.oid \in Seq(Nat) BY <3>2 DEF Explained
      <4>2. Len(d.oid) # 0 BY <3>1, <4>1, EmptySeq
      <4> QED BY <3>1, <4>2, EmptySeq
    <3>4. Explained(request.byOID, request.byName, e) BY <2>2, <3>3 DEF Tracing
    <3>5. Located(request.byOID) BY <2>2 DEF Tracing
    <3> QED BY <2>3, <3>2, <3>4, <3>5, OneOwner
  <2> QED BY <2>2, <2>3 DEF OneOwnerPerColumn, Siblings
<1> QED BY <1>1, <1>2

(* Within one walk the instances of a column are decoded by one symbol and *)
(* one index, for any modules, walks and changes of the corpus while it is *)
(* resolved (resolver.go:56-66): the memos remember hits and misses alike. *)
THEOREM ColumnsHaveOneOwner == ServingSpec => []OneOwnerPerColumn
<1>1. ServingInit => ColumnInv
  <2> SUFFICES ASSUME ServingInit PROVE ColumnInv
    OBVIOUS
  <2>1. SymbolOids BY DEF ServingInit, SymbolOids, Unloaded
  <2> QED BY <2>1 DEF ServingInit, ColumnInv, OneOwnerPerColumn, WalkShape, NoRequest, NoAnswer
<1>2. BundleInv /\ ColumnInv /\ [ServingNext]_servingVars => ColumnInv'
  BY SymbolOidsStep, TracingStep, AnswerStep DEF ColumnInv, BundleInv
<1>3. ColumnInv => OneOwnerPerColumn BY DEF ColumnInv
<1> QED BY <1>1, <1>2, <1>3, BundleInitInv, BundleStep, PTL DEF ServingSpec
-----------------------------------------------------------------------------
(* The tree's HTTP cache.  A validator names a generation and a build that *)
(* have been; a rebuild's generation has not been before.  While a request *)
(* carries the current validator it has read only the present trie: the    *)
(* levels collected so far are levels of the walk, the walk's next level is*)
(* the one under way, and every level it can go on to is among them.       *)
Past(tag) == tag = NoTag \/ \E g, b \in Nat : tag = <<g, b>> /\ g <= wall /\ b <= build

WalkLevel(url, p) == SpineLevel(T, url.mode, p, url.oid, Limit)
WalkNext(url, p) == Descends(WalkLevel(url, p), url.oid)
WalkLevels(url) == SpineLevels(T, url.mode, url.oid, Limit)

WalkUnderway(url, at, pages) ==
  /\ at \in WalkLevels(url)
  /\ \E A \in SUBSET WalkLevels(url) :
       /\ pages = {WalkLevel(url, p) : p \in A}
       /\ Root \in A \cup {at}
       /\ \A p \in A : WalkNext(url, p) \subseteq A \cup {at}

RequestFields == {"step", "url", "tag", "pages", "names", "at"}
Consistent(r) ==
  /\ r.step = "read" => [pages |-> r.pages, names |-> r.names] = Render(r.url)
  /\ r.step = "reading" /\ r.url.kind = "spine" => WalkUnderway(r.url, r.at, r.pages)

RequestOK(r) ==
  /\ r = [x \in RequestFields |-> r[x]]
  /\ r.step \in {"reading", "read"} /\ r.url \in Url /\ r.names = build
  /\ Past(r.tag)
  /\ gen = 0 => r.tag = NoTag
  /\ r.tag # NoTag /\ r.tag = Tag => Consistent(r)

CacheInv ==
  /\ gen \in Nat /\ wall \in Nat /\ build \in Nat /\ gen <= wall
  /\ req.step # "none" => RequestOK(req)
  /\ cache = [u \in Url |-> cache[u]]
  /\ \A u \in Url : Past(cache[u].tag)
  /\ CachedBodiesCurrent

LEMMA AboveNonempty == ASSUME NEW o \in Seq(Nat), o # Root PROVE Root \in Above(o)
<1>1. Len(o) \in Nat /\ Len(o) # 0 BY EmptySeq DEF Root
<1>2. SubSeq(o, 1, 0) = Root BY DEF Root
<1> QED BY <1>1, <1>2 DEF Above

(* The root is a level of the walk, and the walk goes on from level to     *)
(* level.                                                                  *)
LEMMA WalkStarts ==
  ASSUME NEW url \in Url, url.kind = "spine"
  PROVE  Root \in WalkLevels(url)
<1>1. Root \in Above(url.oid) BY AboveNonempty, BrowserAssumption
<1> QED BY <1>1 DEF WalkLevels, SpineLevels

LEMMA WalkGoesOn ==
  ASSUME NEW url \in Url, NEW p \in WalkLevels(url)
  PROVE  WalkNext(url, p) \subseteq WalkLevels(url)
<1> DEFINE next == [q \in Above(url.oid) |-> WalkNext(url, q)]
<1>1. WalkLevels(url) =
        {q \in Above(url.oid) :
          \A S \in SUBSET Above(url.oid) : Root \in S /\ (\A x \in S : next[x] \subseteq S) => q \in S}
  BY DEF WalkLevels, SpineLevels, WalkNext, WalkLevel
<1>2. WalkNext(url, p) \subseteq Above(url.oid) BY DEF WalkNext, Descends
<1>3. next[p] = WalkNext(url, p) BY <1>1
<1> HIDE DEF next
<1> QED BY <1>1, <1>2, <1>3

(* A set of levels that holds the root and every level its members lead to *)
(* is the whole walk.                                                      *)
LEMMA WalkWhole ==
  ASSUME NEW url \in Url, NEW A \in SUBSET WalkLevels(url), Root \in A,
         \A p \in A : WalkNext(url, p) \subseteq A
  PROVE  A = WalkLevels(url)
<1> DEFINE next == [q \in Above(url.oid) |-> WalkNext(url, q)]
<1>1. WalkLevels(url) =
        {q \in Above(url.oid) :
          \A S \in SUBSET Above(url.oid) : Root \in S /\ (\A x \in S : next[x] \subseteq S) => q \in S}
  BY DEF WalkLevels, SpineLevels, WalkNext, WalkLevel
<1>2. A \in SUBSET Above(url.oid) BY <1>1
<1>3. \A x \in A : next[x] \subseteq A BY <1>2
<1> HIDE DEF next
<1> QED BY <1>1, <1>2, <1>3

(* The row of a spine child is one row, so the walk goes on in one place.  *)
LEMMA OneWayOn ==
  ASSUME NEW url \in Url, NEW p, NEW q \in WalkNext(url, p), NEW r \in WalkNext(url, p)
  PROVE  q = r
<1> DEFINE level == WalkLevel(url, p)
           child == SubSeq(url.oid, 1, Len(p) + 1)
<1>1. \A x \in level.row : x = Row(T, url.mode, child)
  <2> DEFINE Rows == {Row(T, url.mode, o) : o \in Kids(T, p)}
             first == FirstPage(T, url.mode, p, Limit)
             later(seg) == After(T, url.mode, p, seg, Limit)
  <2>1. first \subseteq Rows BY DEF FirstPage
  <2>2. \A seg : later(seg) \subseteq Rows BY DEF After
  <2>6. \A o : Row(T, url.mode, o).direct = o BY DEF Row
  <2>3. \A x \in Rows : x.direct = child => x = Row(T, url.mode, child) BY <2>6
  <2> HIDE DEF Rows
  <2>4. \/ level.row = RowAt(first, child)
        \/ level.row = RowAt({}, child)
        \/ \E seg : level.row = RowAt(later(seg), child)
    BY Zenon DEF WalkLevel, SpineLevel
  <2> HIDE DEF first, later
  <2>5. level.row \subseteq {x \in Rows : x.direct = child} BY <2>1, <2>2, <2>4 DEF RowAt
  <2> QED BY <2>3, <2>5
<1> HIDE DEF level
<1>2. PICK x \in level.row : q = x.anchor BY DEF WalkNext, Descends, level
<1>3. PICK y \in level.row : r = y.anchor BY DEF WalkNext, Descends, level
<1> QED BY <1>1, <1>2, <1>3

(* What is said of a body or of a request of the current generation stays  *)
(* true while the trie and the validator do not move.                      *)
LEMMA FrozenTree ==
  ASSUME UNCHANGED <<oidNode, gen, build>>
  PROVE  /\ Tag' = Tag
         /\ \A u : Render(u)' = Render(u)
         /\ \A r : Consistent(r)' <=> Consistent(r)
<1>1. Tag' = Tag BY DEF Tag
<1>2. \A u : Render(u)' = Render(u) BY DEF Render, Served, T
<1>3. ASSUME NEW r PROVE Consistent(r)' <=> Consistent(r)
  <2>1. WalkUnderway(r.url, r.at, r.pages)' <=> WalkUnderway(r.url, r.at, r.pages)
    BY DEF WalkUnderway, WalkLevels, WalkNext, WalkLevel, T
  <2> QED BY <1>2, <2>1 DEF Consistent
<1> QED BY <1>1, <1>2, <1>3

LEMMA PastLasts ==
  ASSUME NEW tag, Past(tag), wall \in Nat, build \in Nat, wall' \in Nat, build' \in Nat,
         wall <= wall', build <= build'
  PROVE  Past(tag)'
BY DEF Past

(* A validator of the past is not the one of a new generation or build.    *)
LEMMA PastIsNotNext ==
  ASSUME NEW tag, Past(tag), tag # NoTag, wall \in Nat, build \in Nat, gen' \in Nat, build' \in Nat,
         \/ wall < gen'
         \/ build < build'
         \/ gen' = 0
  PROVE  tag # Tag'
BY DEF Past, Tag, NoTag

LEMMA FrozenCache ==
  ASSUME CacheInv, UNCHANGED <<oidNode, gen, wall, build, cache>>,
         req'.step # "none" => RequestOK(req')
  PROVE  CacheInv'
<1>1. PICK r : r = req' OBVIOUS
<1>2. RequestOK(r) => RequestOK(r)' BY FrozenTree DEF RequestOK, Past
<1>3. req'.step # "none" => RequestOK(req)' BY <1>1, <1>2 DEF RequestOK
<1>4. PICK c : c = cache OBVIOUS
<1>5. CachedBodiesCurrent' BY FrozenTree DEF CacheInv, CachedBodiesCurrent
<1> QED BY <1>3, <1>5 DEF CacheInv, Past

LEMMA ValidateKeeps ==
  ASSUME CacheInv, NEW url \in Url, TreeValidate(url)
  PROVE  CacheInv'
<1>1. UNCHANGED <<oidNode, gen, wall, build, cache>> BY DEF TreeValidate
<1>2. CASE req' = NoReq
  BY <1>1, <1>2, FrozenCache DEF NoReq
<1>3. CASE req' # NoReq
  <2> DEFINE r == [step |-> "reading", url |-> url, tag |-> Tag, pages |-> {},
                   names |-> build, at |-> Root]
  <2>1. req' = r BY <1>3 DEF TreeValidate
  <2>2. /\ r = [x \in RequestFields |-> r[x]] /\ r.step = "reading" /\ r.url = url /\ r.tag = Tag
        /\ r.pages = {} /\ r.names = build /\ r.at = Root
    BY DEF RequestFields
  <2>3. Past(Tag) /\ (gen = 0 => Tag = NoTag) BY DEF CacheInv, Past, Tag
  <2>4. ASSUME url.kind = "spine" PROVE WalkUnderway(url, Root, {})
    <3>1. Root \in WalkLevels(url) BY <2>4, WalkStarts
    <3>2. {} = {WalkLevel(url, p) : p \in {}} OBVIOUS
    <3>3. {} \in SUBSET WalkLevels(url) /\ Root \in {} \cup {Root} OBVIOUS
    <3>4. \A p \in {} : WalkNext(url, p) \subseteq {} \cup {Root} OBVIOUS
    <3> QED BY <3>1, <3>2, <3>3, <3>4, Zenon DEF WalkUnderway
  <2> HIDE DEF r
  <2>5. RequestOK(r) BY <2>2, <2>3, <2>4 DEF RequestOK, Consistent
  <2> QED BY <1>1, <2>1, <2>5, FrozenCache
<1> QED BY <1>2, <1>3

LEMMA ReadLevelKeeps ==
  ASSUME CacheInv, TreeReadLevel
  PROVE  CacheInv'
<1>1. UNCHANGED <<oidNode, gen, wall, build, cache>> BY DEF TreeReadLevel
<1>2. PICK r : r = req OBVIOUS
<1>3. RequestOK(r) /\ r.step = "reading" /\ r.url.kind = "level" BY <1>2 DEF TreeReadLevel, CacheInv
<1> DEFINE pages == {FirstPage(T, r.url.mode, r.url.oid, Limit)}
<1>4. req' = [r EXCEPT !.step = "read", !.pages = pages] BY <1>2 DEF TreeReadLevel
<1>5. PICK q : q = req' OBVIOUS
<1>6. Render(r.url) = [pages |-> pages, names |-> build] BY <1>3 DEF Render, Served
<1> HIDE DEF pages
<1>7. /\ q = [x \in RequestFields |-> q[x]] /\ q.step = "read" /\ q.pages = pages
      /\ q.url = r.url /\ q.tag = r.tag /\ q.names = r.names
  BY <1>3, <1>4, <1>5 DEF RequestOK, RequestFields
<1>8. RequestOK(q) BY <1>3, <1>6, <1>7 DEF RequestOK, Consistent
<1> QED BY <1>1, <1>5, <1>8, FrozenCache

LEMMA ReadSpineKeeps ==
  ASSUME CacheInv, TreeReadSpine
  PROVE  CacheInv'
<1>1. UNCHANGED <<oidNode, gen, wall, build, cache>> BY DEF TreeReadSpine
<1>2. PICK r : r = req OBVIOUS
<1>3. RequestOK(r) /\ r.step = "reading" /\ r.url.kind = "spine" BY <1>2 DEF TreeReadSpine, CacheInv
<1> DEFINE level == WalkLevel(r.url, r.at)
           next == WalkNext(r.url, r.at)
<1>4. req' = [r EXCEPT !.pages = @ \cup {level},
                       !.step = IF next = {} THEN "read" ELSE @,
                       !.at = IF next = {} THEN @ ELSE CHOOSE p \in next : TRUE]
  BY <1>2 DEF TreeReadSpine, WalkLevel, WalkNext
<1>5. PICK q : q = req' OBVIOUS
<1>6. r.url \in Url BY <1>3 DEF RequestOK
<1>7. \A p \in next : next = {p} BY <1>6, OneWayOn
<1> HIDE DEF level, next
<1>8. /\ q = [x \in RequestFields |-> q[x]]
      /\ q.url = r.url /\ q.tag = r.tag /\ q.names = r.names /\ q.pages = r.pages \cup {level}
      /\ q.step = IF next = {} THEN "read" ELSE r.step
      /\ q.at = IF next = {} THEN r.at ELSE CHOOSE p \in next : TRUE
  BY <1>3, <1>4, <1>5 DEF RequestOK, RequestFields
<1>9. ASSUME r.tag # NoTag, r.tag = Tag
      PROVE  Consistent(q)
  <2>1. WalkUnderway(r.url, r.at, r.pages) BY <1>3, <1>9 DEF RequestOK, Consistent
  <2>2. PICK A \in SUBSET WalkLevels(r.url) :
          /\ r.pages = {WalkLevel(r.url, p) : p \in A}
          /\ Root \in A \cup {r.at}
          /\ \A p \in A : WalkNext(r.url, p) \subseteq A \cup {r.at}
    BY <2>1 DEF WalkUnderway
  <2> DEFINE B == A \cup {r.at}
  <2>3. r.at \in WalkLevels(r.url) BY <2>1 DEF WalkUnderway
  <2>4. q.pages = {WalkLevel(r.url, p) : p \in B} BY <1>8, <2>2 DEF level
  <2>5. B \in SUBSET WalkLevels(r.url) /\ Root \in B BY <2>2, <2>3
  <2>6. \A p \in A : WalkNext(r.url, p) \subseteq B BY <2>2
  <2>7. CASE next = {}
    <3>1. \A p \in B : WalkNext(r.url, p) \subseteq B BY <2>6, <2>7 DEF next
    <3>2. B = WalkLevels(r.url) BY <1>6, <2>5, <3>1, WalkWhole
    <3>3. q.pages = SpinePages(T, r.url.mode, r.url.oid, Limit)
      BY <2>4, <3>2 DEF SpinePages, WalkLevels, WalkLevel
    <3> QED BY <1>3, <1>8, <2>7, <3>3 DEF Consistent, Render, Served, RequestOK
  <2>8. CASE next # {}
    <3>1. q.at \in next /\ q.step = "reading" /\ next = {q.at} BY <1>3, <1>7, <1>8, <2>8
    <3>2. next \subseteq WalkLevels(r.url) BY <1>6, <2>3, WalkGoesOn DEF next
    <3>3. \A p \in B : WalkNext(r.url, p) \subseteq B \cup {q.at} BY <2>6, <3>1 DEF next
    <3>4. q.at \in WalkLevels(r.url) BY <3>1, <3>2
    <3> HIDE DEF B
    <3>5. WalkUnderway(r.url, q.at, q.pages)
      BY <2>4, <2>5, <3>3, <3>4 DEF WalkUnderway
    <3> QED BY <1>8, <3>1, <3>5 DEF Consistent
  <2> QED BY <2>7, <2>8
<1>10. q.step \in {"reading", "read"} BY <1>3, <1>8
<1>11. RequestOK(q) BY <1>3, <1>8, <1>9, <1>10 DEF RequestOK
<1> QED BY <1>1, <1>5, <1>11, FrozenCache

LEMMA RespondKeeps ==
  ASSUME CacheInv, TreeRespond
  PROVE  CacheInv'
<1>1. UNCHANGED <<oidNode, gen, wall, build>> /\ req' = NoReq BY DEF TreeRespond
<1>2. CASE req.tag = NoTag \/ req.tag # Tag
  BY <1>1, <1>2, FrozenCache DEF TreeRespond, NoReq
<1>3. CASE req.tag # NoTag /\ req.tag = Tag
  <2>1. PICK r : r = req OBVIOUS
  <2>2. RequestOK(r) /\ r.step = "read" BY <2>1 DEF TreeRespond, CacheInv
  <2> DEFINE entry == [tag |-> r.tag, body |-> [pages |-> r.pages, names |-> r.names]]
  <2>3. cache' = [cache EXCEPT ![r.url] = entry] BY <1>3, <2>1 DEF TreeRespond
  <2>4. entry.body = Render(r.url) /\ r.url \in Url /\ Past(entry.tag)
    BY <1>3, <2>1, <2>2 DEF RequestOK, Consistent
  <2> HIDE DEF entry
  <2>5. /\ cache' = [u \in Url |-> cache'[u]]
        /\ \A u \in Url : cache'[u] = IF u = r.url THEN entry ELSE cache[u]
    BY <2>3, <2>4 DEF CacheInv
  <2>6. \A u \in Url : Past(cache'[u].tag) BY <2>4, <2>5 DEF CacheInv
  <2>7. \A u \in Url : cache'[u].tag # NoTag /\ cache'[u].tag = Tag => cache'[u].body = Render(u)
    BY <2>4, <2>5 DEF CacheInv, CachedBodiesCurrent
  <2>8. CachedBodiesCurrent' BY <1>1, <2>7, FrozenTree DEF CachedBodiesCurrent
  <2>9. \A u \in Url : Past(cache[u].tag)' BY <1>1, <2>6 DEF Past
  <2> QED BY <1>1, <2>5, <2>8, <2>9 DEF CacheInv, NoReq
<1> QED BY <1>2, <1>3

(* A rebuild and a restart retire every validator there has been.          *)
LEMMA RebuildKeeps ==
  ASSUME CacheInv, RebuildTrie
  PROVE  CacheInv'
<1>1. /\ UNCHANGED <<build, req, cache>> /\ wall' = wall + 1
      /\ gen' \in Nat /\ wall' \in Nat /\ gen' = wall' /\ wall < gen' /\ gen' # 0
  BY DEF CacheInv, RebuildTrie, NextGeneration
<1>2. \A tag : Past(tag) => Past(tag)' BY <1>1, PastLasts DEF CacheInv
<1>3. \A tag : Past(tag) /\ tag # NoTag => tag # Tag' BY <1>1, PastIsNotNext DEF CacheInv
<1>4. CachedBodiesCurrent' BY <1>1, <1>3 DEF CacheInv, CachedBodiesCurrent
<1>5. PICK r : r = req OBVIOUS
<1>6. RequestOK(r) => RequestOK(r)' BY <1>1, <1>2, <1>3 DEF RequestOK
<1>7. req'.step # "none" => RequestOK(req)' BY <1>1, <1>5, <1>6 DEF CacheInv, RequestOK
<1> QED BY <1>1, <1>2, <1>4, <1>7 DEF CacheInv

LEMMA RestartKeeps ==
  ASSUME CacheInv, Restart
  PROVE  CacheInv'
<1>1. /\ UNCHANGED <<wall, cache>> /\ req' = NoReq /\ build' \in Nat /\ build <= build'
      /\ gen' \in Nat /\ gen' <= wall /\ (build < build' \/ gen' = 0)
  BY DEF CacheInv, Restart
<1>2. \A tag : Past(tag) => Past(tag)' BY <1>1, PastLasts DEF CacheInv
<1>3. \A tag : Past(tag) /\ tag # NoTag => tag # Tag' BY <1>1, PastIsNotNext DEF CacheInv
<1>4. CachedBodiesCurrent' BY <1>1, <1>3 DEF CacheInv, CachedBodiesCurrent
<1> QED BY <1>1, <1>2, <1>4 DEF CacheInv, NoReq

LEMMA CacheStep == CacheInv /\ [CachingNext]_treeVars => CacheInv'
<1> SUFFICES ASSUME CacheInv, [CachingNext]_treeVars PROVE CacheInv'
  OBVIOUS
<1>1. CASE \E m \in DOMAIN Versions : \E v \in Versions[m] : ImportModule(m, v)
  <2>1. UNCHANGED <<oidNode, gen, wall, build, req, cache>> BY <1>1 DEF ImportModule
  <2> QED BY <2>1, FrozenCache DEF CacheInv
<1>2. CASE UNCHANGED treeVars
  <2>1. UNCHANGED <<oidNode, gen, wall, build, req, cache>> BY <1>2 DEF treeVars
  <2> QED BY <2>1, FrozenCache DEF CacheInv
<1> QED BY <1>1, <1>2, RebuildKeeps, RestartKeeps, ValidateKeeps, ReadLevelKeeps, ReadSpineKeeps, RespondKeeps
    DEF CachingNext, StoreNext

(* A body that the browser stored under the current validator is the body  *)
(* of a fresh request, for any trie, page size, requests, rebuilds, builds *)
(* and fresh databases, a spine read level by level included               *)
(* (handlers.go:1676-1713): the generation is past every one there has been*)
(* and a request that a rebuild overtook is not stored.                    *)
THEOREM CacheIsCurrent == CachingSpec => []CachedBodiesCurrent
<1>1. BrowserInit => CacheInv
  BY DEF BrowserInit, CacheInv, CachedBodiesCurrent, Past, NoReq
<1>2. CacheInv => CachedBodiesCurrent BY DEF CacheInv
<1> QED BY <1>1, <1>2, CacheStep, PTL DEF CachingSpec
-----------------------------------------------------------------------------
(* Pages of a level.  The page of c under a ranking f: the elements with   *)
(* fewer than limit others before them.                                    *)
PageOf(c, f, limit) == {x \in c : Cardinality({y \in c : f[y] < f[x]}) < limit}
Ranked(c, f, limit) ==
  /\ IsFiniteSet(c) /\ f \in [c -> Nat] /\ limit \in Nat \ {0}
  /\ \A x, y \in c : f[x] = f[y] => x = y

LEMMA LeastRank ==
  ASSUME NEW c, NEW f \in [c -> Nat], NEW S \in SUBSET c, S # {}
  PROVE  \E x \in S : \A y \in S : f[x] <= f[y]
<1> DEFINE V == {f[y] : y \in S}
<1>1. V \subseteq Nat /\ V # {} OBVIOUS
<1>2. PICK v \in V : \A w \in V : ~(<<w, v>> \in OpToRel(<, Nat))
  BY <1>1, WFMin, NatLessThanWellFounded, Zenon
<1>3. \A w \in V : ~(w < v) BY <1>1, <1>2 DEF OpToRel
<1>4. PICK x \in S : v = f[x] OBVIOUS
<1>5. ASSUME NEW y \in S PROVE f[x] <= f[y]
  <2>1. ~(f[y] < f[x]) BY <1>3, <1>4
  <2>2. f[x] \in Nat /\ f[y] \in Nat OBVIOUS
  <2> QED BY <2>1, <2>2
<1> QED BY <1>5

LEMMA EarlierCount ==
  ASSUME NEW c, NEW f, NEW limit, Ranked(c, f, limit), NEW x \in c
  PROVE  /\ IsFiniteSet({y \in c : f[y] < f[x]})
         /\ Cardinality({y \in c : f[y] < f[x]}) \in Nat
<1>1. {y \in c : f[y] < f[x]} \in SUBSET c OBVIOUS
<1> QED BY <1>1, FS_Subset, FS_CardinalityType DEF Ranked

(* A page has no gaps: what comes before one of its rows is on it.         *)
LEMMA PageBelow ==
  ASSUME NEW c, NEW f, NEW limit, Ranked(c, f, limit),
         NEW x \in PageOf(c, f, limit), NEW y \in c, f[y] <= f[x]
  PROVE  y \in PageOf(c, f, limit)
<1>1. x \in c /\ Cardinality({z \in c : f[z] < f[x]}) < limit BY DEF PageOf
<1>2. {z \in c : f[z] < f[y]} \subseteq {z \in c : f[z] < f[x]}
  BY <1>1 DEF Ranked
<1>3. Cardinality({z \in c : f[z] < f[y]}) <= Cardinality({z \in c : f[z] < f[x]})
  BY <1>1, <1>2, EarlierCount, FS_Subset
<1>4. Cardinality({z \in c : f[z] < f[y]}) < limit
  BY <1>1, <1>3, EarlierCount DEF Ranked
<1> QED BY <1>4 DEF PageOf

(* The last row of a page that is not empty.                               *)
LEMMA PageLast ==
  ASSUME NEW c, NEW f, NEW limit, Ranked(c, f, limit), PageOf(c, f, limit) # {}
  PROVE  \E x \in PageOf(c, f, limit) : \A y \in PageOf(c, f, limit) : f[y] <= f[x]
<1> DEFINE P == PageOf(c, f, limit)
           Before2(x) == {y \in c : f[y] < f[x]}
           g == [x \in P |-> limit - Cardinality(Before2(x))]
<1>1. P \subseteq c BY DEF PageOf
<1>2. \A x \in P : Cardinality(Before2(x)) \in Nat /\ Cardinality(Before2(x)) < limit
  BY <1>1, EarlierCount DEF PageOf
<1>3. limit \in Nat BY DEF Ranked
<1>4. g \in [P -> Nat] BY <1>2, <1>3
<1>5. PICK x \in P : \A y \in P : g[x] <= g[y]
  BY <1>4, LeastRank
<1>6. ASSUME NEW y \in P PROVE f[y] <= f[x]
  <2>1. SUFFICES ASSUME f[x] < f[y] PROVE FALSE
    BY <1>1 DEF Ranked
  <2>2. Before2(x) \subseteq Before2(y) BY <1>1, <2>1 DEF Ranked
  <2>3. x \in Before2(y) /\ x \notin Before2(x) BY <1>1, <2>1 DEF Ranked
  <2>4. IsFiniteSet(Before2(y)) BY <1>1, EarlierCount
  <2>5. Cardinality(Before2(x)) <= Cardinality(Before2(y)) /\ Cardinality(Before2(x)) # Cardinality(Before2(y))
    BY <2>2, <2>3, <2>4, FS_Subset
  <2>6. limit - Cardinality(Before2(x)) <= limit - Cardinality(Before2(y))
    BY <1>5
  <2> HIDE DEF Before2
  <2> QED BY <1>2, <1>3, <2>5, <2>6
<1> QED BY <1>6

(* A page that does not take in everything is full.                        *)
LEMMA PageFull ==
  ASSUME NEW c, NEW f, NEW limit, Ranked(c, f, limit), PageOf(c, f, limit) # c
  PROVE  Cardinality(PageOf(c, f, limit)) = limit
<1> DEFINE P == PageOf(c, f, limit)
<1>1. P \subseteq c /\ IsFiniteSet(P)
  <2>1. P \in SUBSET c BY DEF PageOf
  <2> QED BY <2>1, FS_Subset DEF Ranked
<1>2. f \in [c -> Nat] /\ limit \in Nat \ {0} BY DEF Ranked
<1>3. PICK x \in c \ P : \A y \in c \ P : f[x] <= f[y]
  <2>1. c \ P \in SUBSET c /\ c \ P # {} BY <1>1
  <2> HIDE DEF P
  <2> QED BY <1>2, <2>1, LeastRank
<1>4. ~(Cardinality({y \in c : f[y] < f[x]}) < limit) BY <1>3 DEF PageOf
<1>5. P = {y \in c : f[y] < f[x]}
  <2>1. ASSUME NEW y \in P PROVE y \in c /\ f[y] < f[x]
    <3>1. ~(f[x] <= f[y]) BY <1>3, <2>1, PageBelow
    <3> QED BY <1>1, <1>2, <3>1
  <2>2. ASSUME NEW y \in c, f[y] < f[x] PROVE y \in P
    <3>1. ~(f[x] <= f[y]) BY <1>2, <2>2
    <3> QED BY <1>3, <3>1
  <2> HIDE DEF P
  <2> QED BY <2>1, <2>2
<1>6. Cardinality(P) \in Nat /\ Cardinality(P) >= limit
  <2>1. Cardinality(P) = Cardinality({y \in c : f[y] < f[x]}) BY <1>5, Zenon
  <2>2. Cardinality(P) \in Nat BY <1>1, FS_CardinalityType
  <2> HIDE DEF P
  <2> QED BY <1>2, <1>4, <2>1, <2>2
<1>7. P # {} BY <1>2, <1>6, FS_EmptySet
<1>8. PICK z \in P : \A y \in P : f[y] <= f[z] BY <1>7, PageLast
<1>9. {y \in c : f[y] < f[z]} = P \ {z}
  <2>1. ASSUME NEW y \in c, f[y] < f[z] PROVE y \in P \ {z}
    <3>1. f[y] <= f[z] /\ y # z BY <1>1, <1>2, <2>1
    <3> QED BY <1>8, <3>1, PageBelow
  <2>2. ASSUME NEW y \in P, y # z PROVE y \in c /\ f[y] < f[z]
    <3>1. f[y] # f[z] BY <1>1, <2>2 DEF Ranked
    <3> QED BY <1>1, <1>2, <1>8, <3>1
  <2> HIDE DEF P
  <2> QED BY <2>1, <2>2
<1>10. Cardinality({y \in c : f[y] < f[z]}) < limit BY <1>8 DEF PageOf
<1>11. Cardinality(P \ {z}) = Cardinality(P) - 1 BY <1>1, <1>8, FS_RemoveElement
<1>12. Cardinality(P) - 1 < limit BY <1>9, <1>10, <1>11, Zenon
<1> HIDE DEF P
<1>13. Cardinality(P) = limit BY <1>2, <1>6, <1>12
<1> QED BY <1>13 DEF P

(* The children of one node: they differ in the last arc.                  *)
ChildOids(p) == {o \in Seq(Nat) : Len(o) = Len(p) + 1 /\ Ancestor(p, o)}

LEMMA SiblingArc ==
  ASSUME NEW p \in Seq(Nat), NEW o \in ChildOids(p)
  PROVE  Segment(o) \in Nat /\ o # Root
<1>1. Len(p) \in Nat /\ Len(o) \in 1..Len(o) BY LenProperties DEF ChildOids
<1> QED BY <1>1, ElementOfSeq, LenProperties DEF ChildOids, Segment, Root

LEMMA SiblingsDiffer ==
  ASSUME NEW p \in Seq(Nat), NEW o \in ChildOids(p), NEW x \in ChildOids(p), Segment(o) = Segment(x)
  PROVE  o = x
<1>0. PICK n \in Nat : n = Len(p) BY LenProperties
<1>1. o \in Seq(Nat) /\ x \in Seq(Nat) /\ Len(o) = n + 1 /\ Len(x) = n + 1
  BY <1>0 DEF ChildOids
<1>2. \A s \in Seq(Nat) : Len(s) = n + 1 => \A i \in 1..n : SubSeq(s, 1, n)[i] = s[i]
  BY SubSeqProperties
<1>3. SubSeq(o, 1, n) = p /\ SubSeq(x, 1, n) = p BY <1>0 DEF ChildOids, Ancestor
<1>4. ASSUME NEW i \in 1..Len(o) PROVE o[i] = x[i]
  <2>1. CASE i \in 1..n BY <1>1, <1>2, <1>3, <2>1
  <2>2. CASE i = n + 1 BY <1>1, <2>2 DEF Segment
  <2> QED BY <1>1, <2>1, <2>2
<1> QED BY <1>1, <1>4, SeqEqual

(* The rows of a page, and what its cursor says about the rest.            *)
RowsOf(mode, P) == {Row(T, mode, o) : o \in P}

LEMMA RowsOfPage ==
  ASSUME NEW P, IsFiniteSet(P), NEW mode
  PROVE  /\ Directs(RowsOf(mode, P)) = P
         /\ Cardinality(RowsOf(mode, P)) = Cardinality(P)
<1> DEFINE rows == {Row(T, mode, o) : o \in P}
           g == [o \in P |-> Row(T, mode, o)]
<1>1. \A o : Row(T, mode, o).direct = o BY DEF Row
<1>2. Directs(rows) = P BY <1>1 DEF Directs
<1>3. g \in [P -> rows] /\ \A r \in rows : \E o \in P : g[o] = r
  OBVIOUS
<1>4. \A o, x \in P : g[o] = g[x] => o = x BY <1>1
<1> HIDE DEF g
<1>5. g \in Bijection(P, rows) BY <1>3, <1>4, Zenon DEF Bijection, Injection, Surjection, IsInjective
<1>6. ExistsBijection(P, rows) BY <1>5 DEF ExistsBijection
<1>7. Cardinality(rows) = Cardinality(P) BY <1>6, FS_Bijection
<1> QED BY <1>2, <1>7 DEF RowsOf

FirstOf(c) == {x \in c : Cardinality({y \in c : Segment(y) < Segment(x)}) < Limit}
LastOf(c) == {x \in c : Cardinality({y \in c : Segment(y) > Segment(x)}) < Limit}

Onward(rows, c) ==
  /\ Directs(rows) \subseteq c /\ (c # {} => Directs(rows) # {})
  /\ Cursor(rows) = Root => Directs(rows) = c
  /\ Cursor(rows) # Root =>
       /\ Cursor(rows) \in Directs(rows)
       /\ \A x \in Directs(rows) : Segment(x) <= Segment(Cursor(rows))
       /\ \A o \in c \ Directs(rows) : Segment(Cursor(rows)) < Segment(o)
Backward(rows, c) ==
  /\ Directs(rows) \subseteq c
  /\ Cardinality(rows) # Limit => Directs(rows) = c
  /\ \A o \in c \ Directs(rows), x \in Directs(rows) : Segment(o) < Segment(x)

LEMMA PageOnward ==
  ASSUME NEW p \in Seq(Nat), NEW c, c \subseteq ChildOids(p), IsFiniteSet(c), NEW mode
  PROVE  Onward(RowsOf(mode, FirstOf(c)), c)
<1>01. PICK P : P = FirstOf(c) OBVIOUS
<1>02. PICK rows : rows = RowsOf(mode, P) OBVIOUS
<1> DEFINE f == [o \in c |-> Segment(o)]
<1>1. Ranked(c, f, Limit)
  BY SiblingArc, SiblingsDiffer, BrowserAssumption DEF Ranked
<1>2. P = PageOf(c, f, Limit)
  BY <1>01 DEF PageOf, FirstOf
<1>3. P \subseteq c /\ IsFiniteSet(P)
  <2>1. P \in SUBSET c BY <1>01 DEF FirstOf
  <2> QED BY <2>1, FS_Subset
<1>4. Directs(rows) = P /\ Cardinality(rows) = Cardinality(P)
  <2>1. IsFiniteSet(P) BY <1>3
  <2> QED BY <1>02, <2>1, RowsOfPage
<1>5. P # c => Cardinality(P) = Limit BY <1>1, <1>2, PageFull
<1>6. Limit \in Nat \ {0} BY BrowserAssumption
<1>7. c # {} => P # {} BY <1>5, <1>6, FS_EmptySet
<1>8. \A o \in c : f[o] = Segment(o) /\ Segment(o) \in Nat BY SiblingArc
<1>9. ASSUME Cardinality(P) = Limit
      PROVE  /\ Last(rows) \in P
             /\ \A x \in P : Segment(x) <= Segment(Last(rows))
             /\ \A o \in c \ P : Segment(Last(rows)) < Segment(o)
  <2>1. P # {} BY <1>6, <1>9, FS_EmptySet
  <2>2. \E x \in P : \A y \in P : f[y] <= f[x] BY <1>1, <1>2, <2>1, PageLast
  <2>3. \E x \in P : \A y \in P : Segment(y) <= Segment(x) BY <1>3, <1>8, <2>2
  <2>4. Last(rows) = CHOOSE o \in P : \A x \in P : Segment(x) <= Segment(o)
    BY <1>4 DEF Last
  <2>5. Last(rows) \in P /\ \A x \in P : Segment(x) <= Segment(Last(rows))
    BY <2>3, <2>4
  <2>6. ASSUME NEW o \in c \ P PROVE Segment(Last(rows)) < Segment(o)
    <3>1. ~(f[o] <= f[Last(rows)]) BY <1>1, <1>2, <2>5, PageBelow
    <3>2. Last(rows) \in c BY <1>3, <2>5
    <3> HIDE DEF f
    <3> QED BY <1>8, <3>1, <3>2
  <2> QED BY <2>5, <2>6
<1>10. Cardinality(P) = Limit => Cursor(rows) = Last(rows) /\ Last(rows) # Root
  BY <1>3, <1>4, <1>9, SiblingArc DEF Cursor
<1>11. Cardinality(P) # Limit => Cursor(rows) = Root
  BY <1>4 DEF Cursor
<1> HIDE DEF f
<1>12. Onward(rows, c)
  BY <1>3, <1>4, <1>5, <1>7, <1>9, <1>10, <1>11, Zenon DEF Onward
<1> QED BY <1>01, <1>02, <1>12, Zenon

LEMMA PageBackward ==
  ASSUME NEW p \in Seq(Nat), NEW c, c \subseteq ChildOids(p), IsFiniteSet(c), NEW mode,
         NEW seg \in Nat, \A o \in c : Segment(o) < seg
  PROVE  Backward(RowsOf(mode, LastOf(c)), c)
<1>01. PICK P : P = LastOf(c) OBVIOUS
<1>02. PICK rows : rows = RowsOf(mode, P) OBVIOUS
<1> DEFINE f == [o \in c |-> seg - Segment(o)]
<1>0. \A o \in c : Segment(o) \in Nat /\ Segment(o) < seg BY SiblingArc
<1>1. Ranked(c, f, Limit)
  <2>1. f \in [c -> Nat] BY <1>0
  <2>2. \A x, y \in c : f[x] = f[y] => Segment(x) = Segment(y) BY <1>0
  <2> QED BY <2>1, <2>2, SiblingsDiffer, BrowserAssumption DEF Ranked
<1>2. P = PageOf(c, f, Limit)
  <2>1. \A x, y \in c : f[y] < f[x] <=> Segment(y) > Segment(x) BY <1>0
  <2>2. \A x \in c : {y \in c : f[y] < f[x]} = {y \in c : Segment(y) > Segment(x)} BY <2>1
  <2> HIDE DEF f
  <2> QED BY <1>01, <2>2 DEF PageOf, LastOf
<1>3. P \subseteq c /\ IsFiniteSet(P)
  <2>1. P \in SUBSET c BY <1>01 DEF LastOf
  <2> QED BY <2>1, FS_Subset
<1>4. Directs(rows) = P /\ Cardinality(rows) = Cardinality(P)
  <2>1. IsFiniteSet(P) BY <1>3
  <2> QED BY <1>02, <2>1, RowsOfPage
<1>5. P # c => Cardinality(P) = Limit BY <1>1, <1>2, PageFull
<1>6. ASSUME NEW o \in c \ P, NEW x \in P PROVE Segment(o) < Segment(x)
  <2>1. ~(f[o] <= f[x]) BY <1>1, <1>2, PageBelow
  <2>2. f[o] = seg - Segment(o) /\ f[x] = seg - Segment(x) BY <1>3
  <2>3. Segment(o) \in Nat /\ Segment(x) \in Nat BY <1>0, <1>3
  <2> HIDE DEF f
  <2> QED BY <2>1, <2>2, <2>3
<1> HIDE DEF f
<1>7. Backward(rows, c)
  BY <1>3, <1>4, <1>5, <1>6, Zenon DEF Backward
<1> QED BY <1>01, <1>02, <1>7, Zenon

(* The symbol table and the trie stay finite, and their OIDs are OIDs.     *)
OidTable(symbols) == IsFiniteSet(symbols) /\ \A s \in symbols : s.oid \in Seq(Nat)
OidNodes(t) == IsFiniteSet(DOMAIN t) /\ DOMAIN t \subseteq Seq(Nat)

LEMMA TrieNodes ==
  ASSUME NEW symbols, OidTable(symbols)
  PROVE  OidNodes(Trie(symbols))
<1> DEFINE ups(s) == {SubSeq(s.oid, 1, n) : n \in 1..Len(s.oid)}
           B == Browsable(symbols)
           h == [s \in B |-> ups(s)]
           U == {ups(s) : s \in B}
<1>1. B \in SUBSET symbols BY DEF Browsable
<1>2. IsFiniteSet(B) BY <1>1, FS_Subset DEF OidTable
<1>3. ASSUME NEW s \in B PROVE IsFiniteSet(ups(s)) /\ ups(s) \subseteq Seq(Nat)
  <2>1. s.oid \in Seq(Nat) BY <1>1 DEF OidTable
  <2>2. PICK l \in Nat : l = Len(s.oid) BY <2>1, LenProperties
  <2> DEFINE k == [n \in 1..l |-> SubSeq(s.oid, 1, n)]
  <2>3. IsFiniteSet(1..l) BY FS_Interval
  <2>4. k \in Surjection(1..l, ups(s)) BY <2>2 DEF Surjection
  <2>5. IsFiniteSet(ups(s)) BY <2>3, <2>4, FS_Surjection
  <2>6. \A n \in 1..l : SubSeq(s.oid, 1, n) \in Seq(Nat) BY <2>1, <2>2, SubSeqProperties
  <2> QED BY <2>2, <2>5, <2>6
<1>4. h \in Surjection(B, U) BY DEF Surjection
<1>5. IsFiniteSet(U) BY <1>2, <1>4, FS_Surjection
<1>6. \A u \in U : IsFiniteSet(u) /\ u \subseteq Seq(Nat) BY <1>3
<1>7. Nodes(symbols) = UNION U BY DEF Nodes
<1> HIDE DEF U
<1>8. IsFiniteSet(UNION U) /\ UNION U \subseteq Seq(Nat) BY <1>5, <1>6, FS_UNION
<1>9. DOMAIN Trie(symbols) = Nodes(symbols) BY DEF Trie
<1> QED BY <1>7, <1>8, <1>9 DEF OidNodes

LEMMA KidsAreSiblings ==
  ASSUME NEW t, OidNodes(t), NEW p \in Seq(Nat), NEW c \in SUBSET Kids(t, p)
  PROVE  c \subseteq ChildOids(p) /\ IsFiniteSet(c)
<1>1. c \in SUBSET (DOMAIN t) BY DEF Kids, ChildrenIn
<1>2. IsFiniteSet(c) BY <1>1, FS_Subset DEF OidNodes
<1> QED BY <1>2 DEF Kids, ChildrenIn, ChildOids, OidNodes

-----------------------------------------------------------------------------
(* Paging.  A child that has been there since the level was opened and is  *)
(* not shown yet lies beyond one of the two ends that can still be paged.  *)
PagerFields == {"step", "parent", "mode", "seen", "twice", "after", "earlier", "lasting"}
Beyond(r, o) ==
  \/ r.after # Root /\ Segment(r.after) < Segment(o)
  \/ r.earlier /\ \A x \in r.seen : Segment(o) < Segment(x)
Paged(r) ==
  /\ r = [x \in PagerFields |-> r[x]] /\ r.step = "open" /\ r.parent \in Seq(Nat)
  /\ r.seen \subseteq ChildOids(r.parent) /\ r.twice = FALSE /\ r.earlier \in BOOLEAN
  /\ r.after # Root => r.after \in r.seen /\ \A x \in r.seen : Segment(x) <= Segment(r.after)
  /\ r.earlier => r.seen # {}
  /\ \A o \in r.lasting \ r.seen : Beyond(r, o)
PagingInv ==
  /\ OidTable(symbolRows) /\ OidNodes(oidNode)
  /\ pager.step = "none" \/ (Paged(pager) /\ pager.lasting \subseteq ShownUnder(oidNode, pager))

LEMMA OpenLevelPages ==
  ASSUME PagingInv, NEW lv \in Levels, OpenLevel(lv)
  PROVE  Paged(pager') /\ pager'.lasting \subseteq ShownUnder(oidNode, pager')
<1>0. PICK c : c = ShownUnder(oidNode, lv) OBVIOUS
<1>1. lv.parent \in Seq(Nat) BY BrowserAssumption
<1>2. c \subseteq ChildOids(lv.parent) /\ IsFiniteSet(c)
  <2>1. c \in SUBSET Kids(oidNode, lv.parent) BY <1>0 DEF ShownUnder
  <2> QED BY <1>1, <2>1, KidsAreSiblings DEF PagingInv
<1>3. PICK rows : rows = FirstPage(T, lv.mode, lv.parent, Limit) OBVIOUS
<1>4. Onward(rows, c)
  <2>1. rows = RowsOf(lv.mode, FirstOf(c))
    BY <1>0, <1>3 DEF FirstPage, ShownUnder, FirstOf, RowsOf, T
  <2> QED BY <1>1, <1>2, <2>1, PageOnward
<1>5. PICK r : /\ r = [step |-> "open", parent |-> lv.parent, mode |-> lv.mode, seen |-> Directs(rows),
                       twice |-> FALSE, after |-> Cursor(rows), earlier |-> FALSE, lasting |-> c]
               /\ pager' = r
  BY <1>0, <1>3 DEF OpenLevel
<1>6. r = [x \in PagerFields |-> r[x]] BY <1>5 DEF PagerFields
<1>7. /\ r.step = "open" /\ r.parent = lv.parent /\ r.mode = lv.mode /\ r.seen = Directs(rows) /\ r.twice = FALSE
      /\ r.after = Cursor(rows) /\ r.earlier = FALSE /\ r.lasting = c
  BY <1>5
<1>8. Paged(r)
  BY <1>1, <1>2, <1>4, <1>6, <1>7 DEF Paged, Beyond, Onward
<1>9. ShownUnder(oidNode, r) = c
  BY <1>0, <1>7 DEF ShownUnder
<1> QED BY <1>5, <1>7, <1>8, <1>9

LEMMA OpenAnchoredPages ==
  ASSUME PagingInv, NEW lv \in Levels, OpenAnchored(lv)
  PROVE  Paged(pager') /\ pager'.lasting \subseteq ShownUnder(oidNode, pager')
<1>0. PICK all : all = ShownUnder(oidNode, lv) OBVIOUS
<1>1. lv.parent \in Seq(Nat) BY BrowserAssumption
<1>2. all \subseteq ChildOids(lv.parent) /\ IsFiniteSet(all)
  <2>1. all \in SUBSET Kids(oidNode, lv.parent) BY <1>0 DEF ShownUnder
  <2> QED BY <1>1, <2>1, KidsAreSiblings DEF PagingInv
<1>3. PICK child \in all :
        /\ Segment(child) > 0
        /\ pager' = [step |-> "open", parent |-> lv.parent, mode |-> lv.mode,
                     seen |-> Directs(After(T, lv.mode, lv.parent, Segment(child) - 1, Limit)), twice |-> FALSE,
                     after |-> Cursor(After(T, lv.mode, lv.parent, Segment(child) - 1, Limit)),
                     earlier |-> TRUE, lasting |-> all]
  BY <1>0 DEF OpenAnchored, ShownUnder, T
<1>4. PICK c : c = {o \in all : Segment(o) > Segment(child) - 1} OBVIOUS
<1>5. PICK rows : rows = After(T, lv.mode, lv.parent, Segment(child) - 1, Limit) OBVIOUS
<1>6. Onward(rows, c)
  <2>1. c = {o \in Kids(T, lv.parent) : Shown(T, lv.mode, o) /\ Segment(o) > Segment(child) - 1}
    BY <1>0, <1>4 DEF ShownUnder, T
  <2>2. rows = RowsOf(lv.mode, FirstOf(c))
    BY <1>5, <2>1 DEF After, FirstOf, RowsOf
  <2>3. c \subseteq ChildOids(lv.parent) /\ IsFiniteSet(c)
    <3>1. c \in SUBSET all BY <1>4
    <3> QED BY <1>2, <3>1, FS_Subset
  <2> QED BY <1>1, <2>2, <2>3, PageOnward
<1>7. PICK r : /\ r = [step |-> "open", parent |-> lv.parent, mode |-> lv.mode, seen |-> Directs(rows),
                       twice |-> FALSE, after |-> Cursor(rows), earlier |-> TRUE, lasting |-> all]
               /\ pager' = r
  BY <1>3, <1>5
<1>8. r = [x \in PagerFields |-> r[x]] BY <1>7 DEF PagerFields
<1>9. /\ r.step = "open" /\ r.parent = lv.parent /\ r.mode = lv.mode /\ r.seen = Directs(rows) /\ r.twice = FALSE
      /\ r.after = Cursor(rows) /\ r.earlier = TRUE /\ r.lasting = all
  BY <1>7
<1>10. \A o \in all : Segment(o) \in Nat BY <1>1, <1>2, SiblingArc
<1>11. child \in c BY <1>3, <1>4, <1>10
<1>12. r.seen # {} BY <1>6, <1>9, <1>11 DEF Onward
<1>13. ASSUME NEW o \in all \ r.seen PROVE Beyond(r, o)
  <2>1. CASE o \in c
    BY <1>6, <1>9, <1>13, <2>1 DEF Beyond, Onward
  <2>2. CASE o \notin c
    <3>1. Segment(o) <= Segment(child) - 1 BY <1>4, <1>10, <2>2
    <3>2. ASSUME NEW x \in r.seen PROVE Segment(o) < Segment(x)
      <4>1. x \in c BY <1>6, <1>9 DEF Onward
      <4>2. x \in all /\ Segment(x) > Segment(child) - 1 BY <1>4, <4>1
      <4> QED BY <1>10, <3>1, <4>2
    <3> QED BY <1>9, <3>2 DEF Beyond
  <2> QED BY <2>1, <2>2
<1>14. r.after # Root => r.after \in r.seen /\ \A x \in r.seen : Segment(x) <= Segment(r.after)
  BY <1>6, <1>9 DEF Onward
<1>15. r.seen \subseteq ChildOids(r.parent)
  BY <1>2, <1>4, <1>6, <1>9 DEF Onward
<1>16. Paged(r)
  BY <1>1, <1>8, <1>9, <1>12, <1>13, <1>14, <1>15, Zenon DEF Paged
<1>17. ShownUnder(oidNode, r) = all
  BY <1>0, <1>9 DEF ShownUnder
<1> QED BY <1>7, <1>9, <1>16, <1>17

LEMMA ShowMorePages ==
  ASSUME PagingInv, ShowMore
  PROVE  Paged(pager') /\ pager'.lasting \subseteq ShownUnder(oidNode, pager')
<1>0. PICK r : r = pager OBVIOUS
<1>1. Paged(r) /\ r.after # Root /\ r.lasting \subseteq ShownUnder(oidNode, r)
  BY <1>0 DEF ShowMore, PagingInv
<1>2. PICK all : all = ShownUnder(oidNode, r) OBVIOUS
<1>3. all \subseteq ChildOids(r.parent) /\ IsFiniteSet(all)
  <2>1. all \in SUBSET Kids(oidNode, r.parent) BY <1>2 DEF ShownUnder
  <2> QED BY <1>1, <2>1, KidsAreSiblings DEF PagingInv, Paged
<1>4. PICK c : c = {o \in all : Segment(o) > Segment(r.after)} OBVIOUS
<1>5. PICK rows : rows = After(T, r.mode, r.parent, Segment(r.after), Limit) OBVIOUS
<1>6. Onward(rows, c)
  <2>1. c = {o \in Kids(T, r.parent) : Shown(T, r.mode, o) /\ Segment(o) > Segment(r.after)}
    BY <1>2, <1>4 DEF ShownUnder, T
  <2>2. rows = RowsOf(r.mode, FirstOf(c))
    BY <1>5, <2>1 DEF After, FirstOf, RowsOf
  <2>3. c \subseteq ChildOids(r.parent) /\ IsFiniteSet(c)
    <3>1. c \in SUBSET all BY <1>4
    <3> QED BY <1>3, <3>1, FS_Subset
  <2> QED BY <1>1, <2>2, <2>3, PageOnward DEF Paged
<1>7. PICK q : q = pager' OBVIOUS
<1>8. /\ q = [x \in PagerFields |-> q[x]] /\ q.step = "open" /\ q.parent = r.parent /\ q.mode = r.mode
      /\ q.seen = r.seen \cup Directs(rows) /\ q.twice = (r.seen \cap Directs(rows) # {})
      /\ q.after = Cursor(rows) /\ q.earlier = r.earlier /\ q.lasting = r.lasting
  <2>1. q = [[r EXCEPT !.seen = @ \cup Directs(rows), !.twice = @ \/ r.seen \cap Directs(rows) # {}]
               EXCEPT !.after = Cursor(rows)]
    BY <1>0, <1>5, <1>7 DEF ShowMore, Delivered
  <2>2. r = [x \in PagerFields |-> r[x]] /\ r.step = "open" /\ r.twice = FALSE BY <1>1 DEF Paged
  <2> QED BY <2>1, <2>2 DEF PagerFields
<1>9. \A o \in ChildOids(r.parent) : Segment(o) \in Nat BY <1>1, SiblingArc DEF Paged
<1>10. r.after \in r.seen /\ \A x \in r.seen : x \in ChildOids(r.parent) /\ Segment(x) <= Segment(r.after)
  BY <1>1 DEF Paged
<1>11. \A x \in Directs(rows) : x \in ChildOids(r.parent) /\ Segment(r.after) < Segment(x)
  BY <1>3, <1>4, <1>6, <1>9, <1>10 DEF Onward
<1>12. q.twice = FALSE
  <2>1. \A x \in r.seen : x \notin Directs(rows) BY <1>9, <1>10, <1>11
  <2> QED BY <1>8, <2>1
<1>13. q.after # Root => q.after \in q.seen /\ \A x \in q.seen : Segment(x) <= Segment(q.after)
  <2> SUFFICES ASSUME q.after # Root PROVE q.after \in q.seen /\ \A x \in q.seen : Segment(x) <= Segment(q.after)
    OBVIOUS
  <2>1. q.after \in Directs(rows) /\ \A x \in Directs(rows) : Segment(x) <= Segment(q.after)
    BY <1>6, <1>8 DEF Onward
  <2>2. Segment(r.after) < Segment(q.after) /\ q.after \in ChildOids(r.parent) BY <1>11, <2>1
  <2>3. \A x \in r.seen : Segment(x) <= Segment(q.after) BY <1>9, <1>10, <2>2
  <2> QED BY <1>8, <2>1, <2>3
<1>14. ASSUME NEW o \in q.lasting \ q.seen PROVE Beyond(q, o)
  <2>1. o \in r.lasting \ r.seen /\ o \notin Directs(rows) /\ o \in all BY <1>1, <1>2, <1>8, <1>14
  <2>2. Beyond(r, o) BY <1>1, <2>1 DEF Paged
  <2>3. CASE Segment(r.after) < Segment(o)
    <3>1. o \in c BY <1>3, <1>4, <1>9, <1>10, <2>1, <2>3
    <3> QED BY <1>6, <1>8, <2>1, <3>1 DEF Beyond, Onward
  <2>4. CASE r.earlier /\ \A x \in r.seen : Segment(o) < Segment(x)
    <3>1. ASSUME NEW x \in Directs(rows) PROVE Segment(o) < Segment(x)
      <4>1. Segment(o) < Segment(r.after) /\ Segment(r.after) < Segment(x) BY <1>10, <1>11, <2>4
      <4>2. o \in ChildOids(r.parent) /\ x \in ChildOids(r.parent) /\ r.after \in ChildOids(r.parent)
        BY <1>3, <1>10, <1>11, <2>1
      <4> QED BY <1>9, <4>1, <4>2
    <3> QED BY <1>8, <2>4, <3>1 DEF Beyond
  <2> QED BY <2>2, <2>3, <2>4 DEF Beyond
<1>15. q.seen \subseteq ChildOids(q.parent) BY <1>8, <1>10, <1>11
<1>16. q.parent \in Seq(Nat) /\ q.earlier \in BOOLEAN /\ (q.earlier => q.seen # {})
  <2>1. r.parent \in Seq(Nat) /\ r.earlier \in BOOLEAN BY <1>1 DEF Paged
  <2> QED BY <1>8, <1>10, <2>1
<1>17. Paged(q)
  BY <1>8, <1>12, <1>13, <1>14, <1>15, <1>16, Zenon DEF Paged
<1>18. ShownUnder(oidNode, q) = all
  BY <1>2, <1>8 DEF ShownUnder
<1> QED BY <1>1, <1>2, <1>7, <1>8, <1>17, <1>18

LEMMA ShowEarlierPages ==
  ASSUME PagingInv, ShowEarlier
  PROVE  Paged(pager') /\ pager'.lasting \subseteq ShownUnder(oidNode, pager')
<1>0. PICK r : r = pager OBVIOUS
<1>1. Paged(r) /\ r.earlier /\ r.lasting \subseteq ShownUnder(oidNode, r)
  BY <1>0 DEF ShowEarlier, PagingInv
<1>2. PICK all : all = ShownUnder(oidNode, r) OBVIOUS
<1>3. all \subseteq ChildOids(r.parent) /\ IsFiniteSet(all)
  <2>1. all \in SUBSET Kids(oidNode, r.parent) BY <1>2 DEF ShownUnder
  <2> QED BY <1>1, <2>1, KidsAreSiblings DEF PagingInv, Paged
<1>9. \A o \in ChildOids(r.parent) : Segment(o) \in Nat BY <1>1, SiblingArc DEF Paged
<1>10. First(r.seen) \in r.seen /\ \A x \in r.seen : Segment(First(r.seen)) <= Segment(x)
  <2> DEFINE f == [o \in ChildOids(r.parent) |-> Segment(o)]
  <2>1. r.seen \in SUBSET ChildOids(r.parent) /\ r.seen # {} BY <1>1 DEF Paged
  <2>2. f \in [ChildOids(r.parent) -> Nat] BY <1>9
  <2>3. \E o \in r.seen : \A x \in r.seen : f[o] <= f[x] BY <2>1, <2>2, LeastRank
  <2>4. \E o \in r.seen : \A x \in r.seen : Segment(o) <= Segment(x) BY <2>1, <2>3
  <2> QED BY <2>4 DEF First
<1>11. \A x \in r.seen : x \in ChildOids(r.parent) BY <1>1 DEF Paged
<1>20. PICK seg \in Nat : seg = Segment(First(r.seen)) BY <1>9, <1>10, <1>11
<1>4. PICK c : c = {o \in all : Segment(o) < seg} OBVIOUS
<1>5. PICK rows : rows = EarlierThan(T, r.mode, r.parent, seg, Limit) OBVIOUS
<1>6. Backward(rows, c)
  <2>1. c = {o \in Kids(T, r.parent) : Shown(T, r.mode, o) /\ Segment(o) < seg}
    BY <1>2, <1>4 DEF ShownUnder, T
  <2>2. rows = RowsOf(r.mode, LastOf(c))
    BY <1>5, <2>1 DEF EarlierThan, LastOf, RowsOf
  <2>3. c \subseteq ChildOids(r.parent) /\ IsFiniteSet(c)
    <3>1. c \in SUBSET all BY <1>4
    <3> QED BY <1>3, <3>1, FS_Subset
  <2>4. \A o \in c : Segment(o) < seg BY <1>4
  <2> QED BY <1>1, <2>2, <2>3, <2>4, PageBackward DEF Paged
<1>7. PICK q : q = pager' OBVIOUS
<1>8. /\ q = [x \in PagerFields |-> q[x]] /\ q.step = "open" /\ q.parent = r.parent /\ q.mode = r.mode
      /\ q.seen = r.seen \cup Directs(rows) /\ q.twice = (r.seen \cap Directs(rows) # {})
      /\ q.after = r.after /\ q.earlier = (Cardinality(rows) = Limit) /\ q.lasting = r.lasting
  <2>1. q = [[r EXCEPT !.seen = @ \cup Directs(rows), !.twice = @ \/ r.seen \cap Directs(rows) # {}]
               EXCEPT !.earlier = (Cardinality(rows) = Limit)]
    BY <1>0, <1>5, <1>7, <1>20 DEF ShowEarlier, Delivered, EarlierCursor
  <2>2. r = [x \in PagerFields |-> r[x]] /\ r.step = "open" /\ r.twice = FALSE BY <1>1 DEF Paged
  <2> QED BY <2>1, <2>2 DEF PagerFields
<1>12. \A x \in Directs(rows) : x \in ChildOids(r.parent) /\ Segment(x) < seg
  BY <1>3, <1>4, <1>6 DEF Backward
<1>13. \A x \in r.seen : seg <= Segment(x) BY <1>10, <1>20
<1>14. q.twice = FALSE
  <2>1. \A x \in r.seen : x \notin Directs(rows) BY <1>9, <1>12, <1>13
  <2> QED BY <1>8, <2>1
<1>15. q.after # Root => q.after \in q.seen /\ \A x \in q.seen : Segment(x) <= Segment(q.after)
  <2> SUFFICES ASSUME r.after # Root
               PROVE  r.after \in r.seen /\ \A x \in r.seen \cup Directs(rows) : Segment(x) <= Segment(r.after)
    BY <1>8
  <2>1. r.after \in r.seen /\ \A x \in r.seen : Segment(x) <= Segment(r.after) BY <1>1 DEF Paged
  <2>2. ASSUME NEW x \in Directs(rows) PROVE Segment(x) <= Segment(r.after)
    <3>1. Segment(x) < seg /\ seg <= Segment(r.after) BY <1>12, <1>13, <2>1
    <3>2. Segment(x) \in Nat /\ Segment(r.after) \in Nat BY <1>9, <1>11, <1>12, <2>1
    <3> QED BY <3>1, <3>2
  <2> QED BY <2>1, <2>2
<1>16. ASSUME NEW o \in q.lasting \ q.seen PROVE Beyond(q, o)
  <2>1. o \in r.lasting \ r.seen /\ o \notin Directs(rows) /\ o \in all BY <1>1, <1>2, <1>8, <1>16
  <2>2. Beyond(r, o) BY <1>1, <2>1 DEF Paged
  <2>3. CASE r.after # Root /\ Segment(r.after) < Segment(o)
    BY <1>8, <2>3 DEF Beyond
  <2>4. CASE r.earlier /\ \A x \in r.seen : Segment(o) < Segment(x)
    <3>1. o \in c BY <1>4, <1>10, <1>20, <2>1, <2>4
    <3>2. Cardinality(rows) = Limit /\ \A x \in Directs(rows) : Segment(o) < Segment(x)
      BY <1>6, <2>1, <3>1 DEF Backward
    <3> QED BY <1>8, <2>4, <3>2 DEF Beyond
  <2> QED BY <2>2, <2>3, <2>4 DEF Beyond
<1>17. q.seen \subseteq ChildOids(q.parent) BY <1>8, <1>11, <1>12
<1>18. q.parent \in Seq(Nat) /\ q.earlier \in BOOLEAN /\ (q.earlier => q.seen # {})
  BY <1>1, <1>8, <1>10 DEF Paged
<1>19. Paged(q)
  BY <1>8, <1>14, <1>15, <1>16, <1>17, <1>18, Zenon DEF Paged
<1>21. ShownUnder(oidNode, q) = all
  BY <1>2, <1>8 DEF ShownUnder
<1> QED BY <1>1, <1>2, <1>7, <1>8, <1>19, <1>21

(* A rebuild takes from the children that are owed those that it hides.    *)
LEMMA RebuildPages ==
  ASSUME PagingInv, RebuildTrie
  PROVE  PagingInv'
<1>1. OidTable(symbolRows)' BY DEF PagingInv, OidTable, RebuildTrie
<1>2. OidNodes(oidNode)' BY TrieNodes DEF PagingInv, RebuildTrie
<1>3. CASE pager.step = "none" BY <1>1, <1>2, <1>3 DEF PagingInv, RebuildTrie
<1>4. CASE pager.step # "none"
  <2>0. PICK r : r = pager OBVIOUS
  <2>1. Paged(r) BY <1>4, <2>0 DEF PagingInv
  <2>2. PICK shown : shown = ShownUnder(oidNode', r) OBVIOUS
  <2>3. PICK q : q = pager' OBVIOUS
  <2>4. q = [r EXCEPT !.lasting = r.lasting \cap shown]
    BY <1>4, <2>0, <2>2, <2>3 DEF RebuildTrie
  <2>5. r = [x \in PagerFields |-> r[x]] BY <2>1 DEF Paged
  <2>6. /\ q = [x \in PagerFields |-> q[x]] /\ q.step = r.step /\ q.parent = r.parent /\ q.mode = r.mode
        /\ q.seen = r.seen /\ q.twice = r.twice /\ q.after = r.after /\ q.earlier = r.earlier
        /\ q.lasting = r.lasting \cap shown
    BY <2>4, <2>5 DEF PagerFields
  <2>7. Paged(q)
    <3>1. \A o \in q.lasting \ q.seen : Beyond(q, o) BY <2>1, <2>6 DEF Paged, Beyond
    <3> QED BY <2>1, <2>6, <3>1, Zenon DEF Paged
  <2>8. ShownUnder(oidNode', q) = shown BY <2>2, <2>6 DEF ShownUnder
  <2> QED BY <1>1, <1>2, <2>3, <2>6, <2>7, <2>8 DEF PagingInv
<1> QED BY <1>3, <1>4

LEMMA PagingStep == PagingInv /\ [PagingNext]_treeVars => PagingInv'
<1> SUFFICES ASSUME PagingInv, [PagingNext]_treeVars PROVE PagingInv'
  OBVIOUS
<1>0. OidTable({}) BY FS_EmptySet DEF OidTable
<1>1. CASE \E m \in DOMAIN Versions : \E v \in Versions[m] : ImportModule(m, v)
  <2>1. PICK m \in DOMAIN Versions : \E v \in Versions[m] : ImportModule(m, v) BY <1>1
  <2>2. PICK v \in Versions[m] : ImportModule(m, v) BY <2>1
  <2>3. OidTable(v) BY BrowserAssumption DEF OidTable
  <2>4. {s \in symbolRows : s.module # m} \in SUBSET symbolRows OBVIOUS
  <2>5. OidTable(symbolRows) BY DEF PagingInv
  <2>6. IsFiniteSet({s \in symbolRows : s.module # m} \cup v)
    BY <2>3, <2>4, <2>5, FS_Subset, FS_Union DEF OidTable
  <2>7. OidTable({s \in symbolRows : s.module # m} \cup v) BY <2>3, <2>5, <2>6 DEF OidTable
  <2> QED BY <2>2, <2>7 DEF ImportModule, PagingInv
<1>2. CASE RebuildTrie BY <1>2, RebuildPages
<1>3. CASE Restart
  <2>1. OidNodes(Trie({})) BY <1>0, TrieNodes
  <2> QED BY <1>0, <1>3, <2>1 DEF Restart, NoPage, PagingInv
<1>4. CASE \E lv \in Levels : OpenLevel(lv) \/ OpenAnchored(lv)
  <2>1. UNCHANGED <<symbolRows, oidNode>> BY <1>4 DEF OpenLevel, OpenAnchored
  <2>2. Paged(pager') /\ pager'.lasting \subseteq ShownUnder(oidNode, pager')
    BY <1>4, OpenLevelPages, OpenAnchoredPages
  <2> QED BY <2>1, <2>2 DEF PagingInv
<1>5. CASE ShowMore \/ ShowEarlier
  <2>1. UNCHANGED <<symbolRows, oidNode>> BY <1>5 DEF ShowMore, ShowEarlier
  <2>2. Paged(pager') /\ pager'.lasting \subseteq ShownUnder(oidNode, pager')
    BY <1>5, ShowMorePages, ShowEarlierPages
  <2> QED BY <2>1, <2>2 DEF PagingInv
<1>6. CASE CloseLevel BY <1>6 DEF CloseLevel, NoPage, PagingInv
<1>7. CASE UNCHANGED treeVars BY <1>7 DEF treeVars, PagingInv
<1> QED BY <1>1, <1>2, <1>3, <1>4, <1>5, <1>6, <1>7 DEF PagingNext, StoreNext

(* Paging a level to both ends delivers every child that stays in it once, *)
(* for any page size, any width of the level and any rebuilds in between   *)
(* (the keyset cursors of handleAPITree and tree.js).                      *)
THEOREM PagesDeliver == PagingSpec => []PagingDelivers
<1>1. BrowserInit => PagingInv
  <2>1. OidTable({}) BY FS_EmptySet DEF OidTable
  <2>2. OidNodes(Trie({})) BY <2>1, TrieNodes
  <2> QED BY <2>1, <2>2 DEF BrowserInit, NoPage, PagingInv
<1>2. PagingInv => PagingDelivers
  <2> SUFFICES ASSUME PagingInv, pager.step = "open"
               PROVE  /\ ~pager.twice
                      /\ pager.after = Root /\ ~pager.earlier => pager.lasting \subseteq pager.seen
    BY DEF PagingDelivers
  <2>1. Paged(pager) BY DEF PagingInv
  <2>2. \A o \in pager.lasting \ pager.seen : Beyond(pager, o) BY <2>1 DEF Paged
  <2> QED BY <2>1, <2>2 DEF Paged, Beyond
<1> QED BY <1>1, <1>2, PagingStep, PTL DEF PagingSpec

=============================================================================

------------------------------- MODULE Workspace -------------------------------
(***************************************************************************)
(* The module workspace (handleWorkspace, internal/server handlers.go):    *)
(* the URL carries a scope and a selection, a click on a row fetches only  *)
(* the panes it changes, the next click does not wait for the answer, and  *)
(* the module may be re-imported in between.                               *)
(* An OID is a sequence of naturals; a symbol is [name, oid, parent, kind].*)
(***************************************************************************)
EXTENDS Naturals, Sequences, FiniteSets

CONSTANTS
  Contents,    \* the sets of symbols the module may define
  Foreign,     \* symbols that other modules define
  Scopes,      \* OIDs of deep links and of scopes the tree was shown under
  MaxImports,  \* bound: re-imports of the module
  MaxClicks    \* bound: clicks in flight

NoOid == <<>>
OnPrefix(p, o) == Len(p) <= Len(o) /\ SubSeq(o, 1, Len(p)) = p

(* UNIQUE (module_name, name) of table symbol, and the parent's OID is the *)
(* symbol's own without its last arc (parentOID).                          *)
ASSUME ContentsAssumption ==
  \A c \in Contents : \A s, t \in c :
    /\ s.name = t.name => s = t
    /\ s.parent = NoOid \/ OnPrefix(s.parent, s.oid)

VARIABLES
  defined,     \* the module's symbols in the store
  page,        \* what the browser shows
  nav,         \* the clicks in flight
  strayed,     \* history: a click in the OID tree overlapped another one
  imports

workspaceVars == <<defined, page, nav, strayed, imports>>

(* buildWorkspaceView: the rows at or under the scope; a scope that narrows*)
(* the list drops its own row unless that is the only one.                 *)
ListRows(scope) ==
  LET under == {s \in defined : scope = NoOid \/ OnPrefix(scope, s.oid)}
      bearing == {s \in defined : s.oid # NoOid}
      kept == {s \in under : s.oid # scope}
  IN IF scope # NoOid /\ Cardinality(under) < Cardinality(bearing) /\ kept # {}
       THEN kept ELSE under

(* resolveSelection: a name is looked up in this module, an OID everywhere *)
(* (the row with the lowest id, an accident of the import order).          *)
Resolve(sel) ==
  CASE sel.by = "none" -> {}
    [] sel.by = "oid"  -> {s \in defined \cup Foreign : s.oid = sel.oid}
    [] sel.by = "name" -> {s \in defined : s.name = sel.name}

(* The path's OID selects itself when no selection is given. *)
ScopeSelects(scope) == IF scope = NoOid THEN [by |-> "none"] ELSE [by |-> "oid", oid |-> scope]

Detail(sel) == IF Resolve(sel) = {} THEN {{}} ELSE {{s} : s \in Resolve(sel)}

FullPage(scope) ==
  \E d \in Detail(ScopeSelects(scope)) :
    page' = [scope |-> scope, list |-> ListRows(scope), listScope |-> scope, detail |-> d]

WorkspaceInit ==
  /\ defined \in Contents /\ imports = 0 /\ nav = {} /\ strayed = FALSE
  /\ page = [scope |-> NoOid, list |-> ListRows(NoOid), listScope |-> NoOid, detail |-> {}]

-----------------------------------------------------------------------------
(* A deep link, a reload or a history entry: the full document; the answers*)
(* to the old one's clicks are dropped.                                    *)
OpenPage(scope) ==
  /\ FullPage(scope) /\ nav' = {} /\ strayed' = FALSE
  /\ UNCHANGED <<defined, imports>>

KindHasChildren(k) == k \in {"table", "table-entry", "object-identity", "module-identity"}

(* Mutant of RowTarget: a leaf always keeps the current scope. *)
RowTargetKeepsScope(scope, s) ==
  IF s.oid = NoOid THEN NoOid ELSE IF KindHasChildren(s.kind) THEN s.oid ELSE scope

(* WorkspaceRowURL: a container becomes the scope; a leaf keeps the scope  *)
(* it lies under, else its parent is the scope; no OID, no scope.          *)
RowTarget(scope, s) ==
  CASE s.oid = NoOid -> NoOid
    [] s.oid # NoOid /\ KindHasChildren(s.kind) -> s.oid
    [] OTHER -> IF scope # NoOid /\ OnPrefix(scope, s.oid) THEN scope ELSE s.parent

(* The delegated listener sends at once, with the URL of the moment; only  *)
(* the same element waits for its own answer. "source" and "target": the   *)
(* clicked element and the detail pane to replace are still on the page.   *)
Click(s, scope, tree) ==
  LET n == [row |-> s, scope |-> RowTarget(scope, s), from |-> page.scope,
            tree |-> tree, source |-> TRUE, target |-> TRUE]
  IN /\ Cardinality(nav) < MaxClicks
     /\ \A q \in nav : ~(q.source /\ q.tree = tree /\ q.row = s)
     /\ nav' = nav \cup {n}
     /\ strayed' = (strayed \/ (nav # {} /\ \E q \in nav' : q.tree))
     /\ UNCHANGED <<defined, page, imports>>

(* A list row's link was made with the list, a tree row's whenever the tree*)
(* came to show it, under the scope of that moment (tree.js, cfg.scope).   *)
ClickRow(s) == s \in page.list /\ Click(s, page.listScope, FALSE)
ClickTree(s, scope) == s \in defined /\ s.oid # NoOid /\ Click(s, scope, TRUE)

(* A kind chip makes the tree fetch all its rows again (buildInitial). *)
FilterTree ==
  /\ \E q \in nav : q.tree /\ q.source
  /\ nav' = {[q EXCEPT !.source = q.source /\ ~q.tree] : q \in nav}
  /\ UNCHANGED <<defined, page, strayed, imports>>

(* Mutant of PartialHasList: the selection decides. *)
PartialHasListOnSelect(n) == n.row.oid = n.scope

(* The A/B contract: the list comes along when the scope changed. *)
PartialHasList(n) == n.from # n.scope

(* handleWorkspace's answer to one of the clicks, in any order. htmx swaps *)
(* the very pane that the click was to replace; an answer to a row that is *)
(* no longer on the page leaves the URL and the list as they are.          *)
PartialPage(n) ==
  LET listed == n.source /\ PartialHasList(n) IN
  /\ nav' = {[q EXCEPT !.source = q.source /\ (q.tree \/ ~listed),
                       !.target = q.target /\ ~(n.source /\ n.target)] : q \in nav \ {n}}
  /\ \E d \in Detail([by |-> "name", name |-> n.row.name]) :
       page' = [scope     |-> IF n.source THEN n.scope ELSE page.scope,
                list      |-> IF listed THEN ListRows(n.scope) ELSE page.list,
                listScope |-> IF listed THEN n.scope ELSE page.listScope,
                detail    |-> IF n.target THEN d ELSE page.detail]
  /\ strayed' = (strayed /\ ~(listed /\ nav = {n}))
  /\ UNCHANGED <<defined, imports>>

(* ReplaceModule under the open page. *)
Reimport(c) ==
  /\ imports < MaxImports /\ c # defined /\ defined' = c /\ imports' = imports + 1
  /\ UNCHANGED <<page, nav, strayed>>

WorkspaceNext ==
  \/ \E scope \in Scopes : OpenPage(scope) \/ \E s \in defined : ClickTree(s, scope)
  \/ \E s \in page.list : ClickRow(s)
  \/ FilterTree
  \/ \E n \in nav : PartialPage(n)
  \/ \E c \in Contents : Reimport(c)

WorkspaceSpec == WorkspaceInit /\ [][WorkspaceNext]_workspaceVars

-----------------------------------------------------------------------------
(* The list pane belongs to the URL's scope, though most answers do not    *)
(* carry it (the A/B contract, handlers.go:685-712) and clicks overlap: an *)
(* answer that replaces the list takes the rows of the other clicks off the*)
(* page. The tree's rows stay, so a click there that overlaps another one  *)
(* parts the panes, until a list arrives with nothing else in flight.      *)
PanesAgree == strayed \/ page.listScope = page.scope

(* An answer that finds its detail pane shows exactly the clicked symbol,  *)
(* even when others share its OID, and the list beside it shows the symbol *)
(* or is scoped to it; only a re-import that makes the list obsolete may   *)
(* take the symbol out of it (helpers.go:115-150: else the panes are       *)
(* "visibly disjoint"), or an overlap that took the clicked row away.      *)
ClickSelects ==
  [][\A n \in nav : PartialPage(n) /\ n.target /\ n.row \in defined =>
       /\ page'.detail = {n.row}
       /\ n.source /\ ~strayed =>
            \/ n.row.oid = page'.scope \/ n.row \in page'.list
            \/ page'.list # ListRows(page'.scope)]_workspaceVars
=============================================================================

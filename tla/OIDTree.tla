-------------------------------- MODULE OIDTree --------------------------------
(***************************************************************************)
(* The materialised OID trie of internal/store/oidtree.go and the reads    *)
(* the tree browser makes of it.  An OID is a sequence of naturals.  A     *)
(* symbol row is [module, name, oid, kind]; modules and names are numbers  *)
(* in their collating order.                                               *)
(***************************************************************************)
EXTENDS Naturals, Sequences, FiniteSets

Root == <<>>
NullIdentifier == <<0, 0>>   \* zeroDotZero, a placeholder and not an object
NoFamily == "none"
Ancestor(p, o) == Len(p) <= Len(o) /\ SubSeq(o, 1, Len(p)) = p   \* or o itself
Segment(o) == o[Len(o)]

Family(kind) ==
  CASE kind \in {"scalar", "column"} -> {"scalar"}
    [] kind \in {"table", "table-entry"} -> {"table"}
    [] kind = "notification-type" -> {"notif"}
    [] OTHER -> {}

-----------------------------------------------------------------------------
(* RebuildOIDTree: every prefix of every symbol's OID is a node; the first *)
(* symbol by module and name owns it, a node without one is a bridge.      *)
Browsable(symbols) == {s \in symbols : s.oid \notin {Root, NullIdentifier}}
Nodes(symbols) == UNION {{SubSeq(s.oid, 1, n) : n \in 1..Len(s.oid)} : s \in Browsable(symbols)}

Before(s, t) == s.module < t.module \/ (s.module = t.module /\ s.name < t.name)
Winners(symbols, o) ==
  {s \in Browsable(symbols) : s.oid = o /\ \A t \in Browsable(symbols) : t.oid = o => ~Before(t, s)}

ChildrenIn(nodes, p) == {o \in nodes : Len(o) = Len(p) + 1 /\ Ancestor(p, o)}

(* The family flags seeded by each node's owner, or-ed into the parents    *)
(* pass by pass until a pass changes nothing, 64 passes at most.           *)
OrUp(nodes, f) == [o \in nodes |-> f[o] \cup UNION {f[c] : c \in ChildrenIn(nodes, o)}]
RollUp(nodes, seed) ==
  LET pass[n \in 0..64] ==
        IF n = 0 THEN [flags |-> seed, stable |-> FALSE]
        ELSE LET p == pass[n - 1] IN
             IF p.stable THEN p
             ELSE [flags |-> OrUp(nodes, p.flags), stable |-> OrUp(nodes, p.flags) = p.flags]
  IN pass[64].flags

Trie(symbols) ==
  LET nodes == Nodes(symbols)
      seed == [o \in nodes |-> UNION {Family(s.kind) : s \in Winners(symbols, o)}]
      families == RollUp(nodes, seed)
  IN [o \in nodes |-> [owner    |-> Winners(symbols, o),
                       children |-> Cardinality(ChildrenIn(nodes, o)),
                       families |-> families[o]]]

-----------------------------------------------------------------------------
(* foldChildren.  A mode is [branches, family]: the whole trie, or the     *)
(* container map of the workspace, perhaps narrowed to a family.           *)
Kids(T, p) == ChildrenIn(DOMAIN T, p)
Matches(T, mode, o) == mode.family = NoFamily \/ mode.family \in T[o].families
Shown(T, mode, o) == mode.branches => T[o].children > 0 /\ Matches(T, mode, o)
Expandable(T, mode, o) == \E c \in Kids(T, o) : Shown(T, mode, c)

(* Mutant of FoldsInto: a family view folds over every shown child. *)
FoldsIntoAny(T, mode, o) ==
  IF Cardinality(Kids(T, o)) = 1 \/ mode.family # NoFamily
    THEN {c \in Kids(T, o) : Shown(T, mode, c)} ELSE {}

(* The child a node's row swallows: the only child, which the container    *)
(* map requires to be a container itself; of a family view the only child  *)
(* that carries the family.                                                *)
FoldsInto(T, mode, o) ==
  IF mode.branches /\ mode.family # NoFamily
    THEN LET match == {c \in Kids(T, o) : Matches(T, mode, c)} IN
         IF Cardinality(match) = 1 THEN {c \in match : T[c].children > 0} ELSE {}
    ELSE IF T[o].children = 1 THEN {c \in Kids(T, o) : Shown(T, mode, c)} ELSE {}

Chain(T, mode, o) ==
  {d \in DOMAIN T : /\ Ancestor(o, d)
                    /\ \A n \in Len(o)..(Len(d) - 1) :
                         SubSeq(d, 1, n + 1) \in FoldsInto(T, mode, SubSeq(d, 1, n))}
Anchor(T, mode, o) == CHOOSE d \in Chain(T, mode, o) : \A e \in Chain(T, mode, o) : Len(e) <= Len(d)

Row(T, mode, o) ==
  LET a == Anchor(T, mode, o)
  IN [direct |-> o, anchor |-> a, expandable |-> Expandable(T, mode, a)]
Covers(row, o) == Ancestor(row.direct, o) /\ Ancestor(o, row.anchor)

(* One keyset page of a level: the `limit` first direct children past the  *)
(* cursor, or the last ones before it.                                     *)
After(T, mode, parent, seg, limit) ==
  LET c == {o \in Kids(T, parent) : Shown(T, mode, o) /\ Segment(o) > seg}
  IN {Row(T, mode, o) : o \in {x \in c : Cardinality({y \in c : Segment(y) < Segment(x)}) < limit}}
EarlierThan(T, mode, parent, seg, limit) ==
  LET c == {o \in Kids(T, parent) : Shown(T, mode, o) /\ Segment(o) < seg}
  IN {Row(T, mode, o) : o \in {x \in c : Cardinality({y \in c : Segment(y) > Segment(x)}) < limit}}
FirstPage(T, mode, parent, limit) ==
  LET c == {o \in Kids(T, parent) : Shown(T, mode, o)}
  IN {Row(T, mode, o) : o \in {x \in c : Cardinality({y \in c : Segment(y) < Segment(x)}) < limit}}

-----------------------------------------------------------------------------
(* SpinePages.  One level: its first page, or the page anchored at the     *)
(* spine child when the first one is full without it.                      *)
RowAt(rows, o) == {r \in rows : r.direct = o}

(* Mutant of SpineLevel: the level is never fetched again. *)
SpineLevelFirstPage(T, mode, parent, focus, limit) ==
  LET child == SubSeq(focus, 1, Len(parent) + 1)
      first == FirstPage(T, mode, parent, limit)
  IN [parent |-> parent, rows |-> first, row |-> RowAt(first, child), anchored |-> FALSE]

SpineLevel(T, mode, parent, focus, limit) ==
  LET child == SubSeq(focus, 1, Len(parent) + 1)
      first == FirstPage(T, mode, parent, limit)
      again == IF Segment(child) > 0 THEN After(T, mode, parent, Segment(child) - 1, limit) ELSE {}
      anchored == /\ RowAt(first, child) = {} /\ Cardinality(first) = limit
                  /\ RowAt(again, child) # {}
      rows == IF anchored THEN again ELSE first
  IN [parent |-> parent, rows |-> rows, row |-> RowAt(rows, child), anchored |-> anchored]

Above(o) == {SubSeq(o, 1, n) : n \in 0..(Len(o) - 1)}

(* Where the walk goes on after a level: the anchor of the spine child's   *)
(* row, unless the row shows the focus, cannot be expanded, or the focus   *)
(* is not strictly below the anchor.                                       *)
Descends(level, focus) ==
  {p \in Above(focus) : \E r \in level.row : p = r.anchor /\ r.expandable /\ ~Covers(r, focus)}

(* The levels the walk from the root comes to, and what it collects there. *)
SpineLevels(T, mode, focus, limit) ==
  LET next == [p \in Above(focus) |-> Descends(SpineLevel(T, mode, p, focus, limit), focus)]
  IN {p \in Above(focus) :
        \A S \in SUBSET Above(focus) : Root \in S /\ (\A q \in S : next[q] \subseteq S) => p \in S}

SpinePages(T, mode, focus, limit) ==
  {SpineLevel(T, mode, p, focus, limit) : p \in SpineLevels(T, mode, focus, limit)}
-----------------------------------------------------------------------------
(* The deepest shown ancestor-or-self of a focus: what the browser has to  *)
(* be able to highlight.                                                   *)
Visible(T, mode, focus) ==
  {o \in DOMAIN T : /\ Ancestor(o, focus) /\ Shown(T, mode, o)
                    /\ \A d \in DOMAIN T : Ancestor(d, focus) /\ Shown(T, mode, d) => Ancestor(d, o)}

(* The preloaded spine of a focus renders the focus, or the deepest con-   *)
(* tainer of it that the mode shows, however wide the levels on its way    *)
(* (SpinePages, oidtree.go:474-492; TestSpinePages).                       *)
SpineShowsFocus(T, mode, focus, limit) ==
  \A o \in Visible(T, mode, focus) :
    \E level \in SpinePages(T, mode, focus, limit) : \E r \in level.row : Covers(r, o)

(* Expanding everything: a whole level, and the levels that its chevrons   *)
(* open.                                                                   *)
WholeLevel(T, mode, p) == FirstPage(T, mode, p, Cardinality(DOMAIN T) + 1)
Chevrons(T, mode, p) == {r.anchor : r \in {x \in WholeLevel(T, mode, p) : x.expandable}}
Opened(T, mode) ==
  LET open[p \in DOMAIN T \cup {Root}] == {p} \cup UNION {open[q] : q \in Chevrons(T, mode, p)}
  IN open[Root]

(* Expanding everything renders every shown node in exactly one row, and   *)
(* no chevron opens an empty level, whatever is folded (foldChildren).     *)
ExpansionComplete(T, mode) ==
  LET shown == UNION {WholeLevel(T, mode, p) : p \in Opened(T, mode)}
  IN /\ \A o \in DOMAIN T : Shown(T, mode, o) => Cardinality({r \in shown : Covers(r, o)}) = 1
     /\ \A r \in shown : r.expandable => WholeLevel(T, mode, r.anchor) # {}
=============================================================================

------------------------------- MODULE TreeView -------------------------------
(***************************************************************************)
(* What the tree browser draws of the symbols that imports put into the    *)
(* store: the preloaded spine of a focus and the expanded tree, over the   *)
(* trie that a rebuild makes of the symbol table at that moment.           *)
(***************************************************************************)
EXTENDS OIDTree

CONSTANTS
  Symbols,    \* the symbol rows that modules may define
  Modes,      \* whole trie or container map, a family or none
  PageSizes   \* rows per page

(* RebuildOIDTree makes 64 passes at most, a backstop as its comment says  *)
(* (oidtree.go:173-181): enough for OIDs of 65 arcs.  OIDPath refuses more *)
(* than 64 (oidpath.go:3-8); the import itself does not limit them.        *)
ASSUME ViewAssumption ==
  /\ \A s \in Symbols : s.oid \in Seq(Nat) /\ Len(s.oid) <= 65
  /\ \A m \in Modes : m.branches \in BOOLEAN
  /\ PageSizes \subseteq Nat \ {0}

VARIABLE rows   \* the symbol table

ViewInit == rows = {}

(* ReplaceModule, and DeleteModule when nothing is put in its place. *)
ReplaceRows(m, new) == rows' = {s \in rows : s.module # m} \cup new

ViewNext ==
  \E m \in {s.module : s \in Symbols} :
    \E new \in SUBSET {s \in Symbols : s.module = m} : IsFiniteSet(new) /\ ReplaceRows(m, new)
ViewSpec == ViewInit /\ [][ViewNext]_rows

(* The preloaded spine of any focus shows it in every mode, for pages that *)
(* are smaller than the level (SpineShowsFocus, SpinePages).               *)
SpinesShowFocus ==
  LET built == Trie(rows) IN
  \A mode \in Modes, focus \in DOMAIN built, limit \in PageSizes :
    SpineShowsFocus(built, mode, focus, limit)

(* Expanding every chevron renders every node exactly once, in every mode  *)
(* (ExpansionComplete, foldChildren).                                      *)
TreesExpand == \A mode \in Modes : ExpansionComplete(Trie(rows), mode)
=============================================================================

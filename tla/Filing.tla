---------------------------------- MODULE Filing ----------------------------------
(***************************************************************************)
(* What the corpus tools promise of the files they handle: a file arrives  *)
(* at a free place, moves to a place that was free when it was last looked *)
(* at, or is removed when another copy of it exists.  What is overwritten  *)
(* is a file that was put at its place after that look.                    *)
(***************************************************************************)
CONSTANTS
  Place,
  Item,
  Nothing   \* not an Item

VARIABLES
  at,      \* Place |-> the content of the file there, or Nothing
  unseen   \* places that were filled since they were last looked at

FilingTypeOK == at \in [Place -> Item \cup {Nothing}]
FilingInit == FilingTypeOK /\ unseen = {}

Arrive(p) == at[p] = Nothing /\ \E c \in Item : at' = [at EXCEPT ![p] = c]

Shift(p, q) ==
  /\ at[p] # Nothing /\ (at[q] = Nothing \/ q \in unseen)
  /\ at' = [at EXCEPT ![p] = Nothing, ![q] = at[p]]

Collapse(p) ==
  /\ \E q \in Place \ {p} : at[q] = at[p]
  /\ at' = [at EXCEPT ![p] = Nothing]

Filled == {q \in Place : at[q] = Nothing /\ at'[q] # Nothing}

FilingNext ==
  /\ \/ \E p \in Place : Arrive(p) \/ Collapse(p)
     \/ \E p, q \in Place : Shift(p, q)
     \/ UNCHANGED at
  /\ unseen' \subseteq unseen \cup Filled

filingVars == <<at, unseen>>
FilingSpec == FilingInit /\ [][FilingNext]_filingVars

(* No step loses the last copy of a file, unless that copy stood where     *)
(* nobody had looked since it came.                                        *)
Held(c) == \E p \in Place : at[p] = c
NothingLost == [][\A c \in Item : Held(c) => Held(c)' \/ \E p \in unseen : at[p] = c]_filingVars
=============================================================================

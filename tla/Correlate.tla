-------------------------------- MODULE Correlate --------------------------------
(***************************************************************************)
(* Raise/clear inference (internal/correlate): which notifications of one  *)
(* module are a problem and which of them its resolution.                  *)
(*                                                                         *)
(* A notification is [name, words, prose, objects, groups, legacy]: its    *)
(* name as a number in collating order and as the sequence of its words,   *)
(* the directions its description has a phrase for, the objects of its     *)
(* OBJECTS clause, the groups that list it, and whether its STATUS is      *)
(* deprecated or obsolete.  A word is [text, dir]; the vocabulary decides  *)
(* the direction.                                                          *)
(***************************************************************************)
EXTENDS Naturals, Sequences, FiniteSets

NoDir == "none"
NoRoot == <<>>
LOCAL Items(s) == {s[i] : i \in DOMAIN s}

(* splitDirection: the last directional word names the direction, the      *)
(* other words are the root.                                               *)
Directional(n) == {i \in DOMAIN n.words : n.words[i].dir # NoDir}
LastDirectional(n) == CHOOSE i \in Directional(n) : \A j \in Directional(n) : j <= i
NameDir(n) == IF Directional(n) = {} THEN NoDir ELSE n.words[LastDirectional(n)].dir
NameRoot(n) ==
  IF Directional(n) = {} THEN n.words
  ELSE SubSeq(n.words, 1, LastDirectional(n) - 1) \o SubSeq(n.words, LastDirectional(n) + 1, Len(n.words))

(* descriptionDirection: clear phrases are looked for first. *)
ProseDir(n) ==
  CASE "clear" \in n.prose -> "clear"
    [] n.prose = {"raise"} -> "raise"
    [] OTHER -> NoDir

Direction(n) == IF NameDir(n) # NoDir THEN NameDir(n) ELSE ProseDir(n)
Conflicting(n) == NameDir(n) # NoDir /\ ProseDir(n) # NoDir /\ NameDir(n) # ProseDir(n)

(* varbindSets: the keys of the bound objects; the set is the signature. *)
Varbinds(n) == {o.key : o \in Items(n.objects)}

(* Groups that bind exactly two of the module's notifications. *)
PairingGroups(N) ==
  {g \in UNION {n.groups : n \in N} : Cardinality({n \in N : g \in n.groups}) = 2}

-----------------------------------------------------------------------------
(* The signals of an opposing pair. *)
SameRoot(r, c) ==
  NameDir(r) # NoDir /\ NameDir(c) # NoDir /\ NameRoot(r) # NoRoot /\ NameRoot(r) = NameRoot(c)
SharedVarbind(r, c) == Varbinds(r) \cap Varbinds(c) # {}
ProseOpposes(r, c) == ProseDir(r) = "raise" /\ ProseDir(c) = "clear"
SharedGroup(N, r, c) == r.groups \cap c.groups \cap PairingGroups(N) # {}
SameSignature(N, r, c) ==
  /\ Varbinds(r) # {} /\ Varbinds(r) = Varbinds(c)
  /\ Cardinality({n \in N : Varbinds(n) = Varbinds(r)}) = 2

(* Classify: opposing notifications of one status class that share a root, *)
(* a small group or a signature of their own.                              *)
Pairs(N) ==
  {p \in N \X N :
     /\ Direction(p[1]) = "raise" /\ Direction(p[2]) = "clear"
     /\ p[1].legacy = p[2].legacy
     /\ SameRoot(p[1], p[2]) \/ SharedGroup(N, p[1], p[2]) \/ SameSignature(N, p[1], p[2])}

PairsOf(pairs, n) == {p \in pairs : n \in {p[1], p[2]}}
Partners(pairs, n) == (UNION {{p[1], p[2]} : p \in PairsOf(pairs, n)}) \ {n}

Class(pairs, n) ==
  CASE PairsOf(pairs, n) = {} -> "orphan"
    [] \E p \in PairsOf(pairs, n) : p[1] = n -> "raise"
    [] OTHER -> "clear"

Signals(N, pairs, n) ==
  {s \in {"name", "varbind", "description", "group"} :
     \E p \in PairsOf(pairs, n) :
        CASE s = "name" -> SameRoot(p[1], p[2])
          [] s = "varbind" -> SharedVarbind(p[1], p[2])
          [] s = "description" -> ProseOpposes(p[1], p[2])
          [] s = "group" -> SharedGroup(N, p[1], p[2])}

(* The caps on High: doubt about the direction, more than one partner, or  *)
(* neither a root nor a group in common.                                   *)
Capped(partners, signals, n) ==
  Conflicting(n) \/ Cardinality(partners) > 1 \/ signals \cap {"name", "group"} = {}

(* scoreConfidence; an orphan is High. *)
Confidence(partners, signals, n) ==
  LET strong == {"name", "varbind"} \subseteq signals \/ Cardinality(signals) >= 3
  IN CASE partners = {} -> "high"
       [] partners # {} /\ strong -> IF Capped(partners, signals, n) THEN "likely" ELSE "high"
       [] OTHER -> IF Cardinality(signals) = 2 THEN "likely" ELSE "guess"

(* The rows of the relationship table. *)
Relationships(N) ==
  LET pairs == Pairs(N) IN
  [n \in N |->
     [class |-> Class(pairs, n), partners |-> Partners(pairs, n),
      confidence |-> Confidence(Partners(pairs, n), Signals(N, pairs, n), n)]]
=============================================================================

------------------------------- MODULE Tree_proofs -------------------------------
(***************************************************************************)
(* Proofs about what the tree browser draws, for any symbols, modes and    *)
(* page sizes: the trie of a symbol table, folded rows, the spine of a     *)
(* focus and the fully expanded tree.                                      *)
(***************************************************************************)
EXTENDS Pages_proofs, TreeView

-----------------------------------------------------------------------------
(* OIDs and their prefixes. *)
Cut(o, n) == SubSeq(o, 1, n)

LEMMA CutOf ==
  ASSUME NEW o \in Seq(Nat), NEW n \in 0..Len(o)
  PROVE  Cut(o, n) \in Seq(Nat) /\ Len(Cut(o, n)) = n /\ Ancestor(Cut(o, n), o)
<1>1. Len(o) \in Nat BY LenProperties
<1>2. Cut(o, n) \in Seq(Nat) /\ Len(Cut(o, n)) = n BY <1>1, SubSeqProperties DEF Cut
<1> QED BY <1>1, <1>2 DEF Ancestor, Cut

LEMMA CutWhole ==
  ASSUME NEW o \in Seq(Nat)
  PROVE  Cut(o, Len(o)) = o /\ Len(o) \in Nat /\ Ancestor(o, o)
<1>1. Len(o) \in Nat BY LenProperties
<1>2. Cut(o, Len(o)) = o BY SubSeqProperties DEF Cut
<1> QED BY <1>1, <1>2 DEF Ancestor, Cut

LEMMA CutCut ==
  ASSUME NEW o \in Seq(Nat), NEW n \in 0..Len(o), NEW m \in 0..n
  PROVE  Cut(Cut(o, n), m) = Cut(o, m)
<1>1. Len(o) \in Nat BY LenProperties
<1>2. CASE m = n
  <2>1. Len(Cut(o, n)) = n /\ Cut(o, n) \in Seq(Nat) BY CutOf
  <2> QED BY <1>2, <2>1, CutWhole
<1>3. CASE m # n
  <2>1. n \in Nat /\ m \in Nat /\ m <= n /\ n <= Len(o) BY <1>1
  <2> QED BY <1>1, <2>1, SubSeqProperties DEF Cut
<1> QED BY <1>2, <1>3

LEMMA AncestorCut ==
  ASSUME NEW p \in Seq(Nat), NEW o \in Seq(Nat)
  PROVE  Ancestor(p, o) <=> (Len(p) <= Len(o) /\ Cut(o, Len(p)) = p)
BY DEF Ancestor, Cut

LEMMA AncestorTrans ==
  ASSUME NEW p \in Seq(Nat), NEW q \in Seq(Nat), NEW o \in Seq(Nat), Ancestor(p, q), Ancestor(q, o)
  PROVE  Ancestor(p, o)
<1>1. PICK a \in Nat, b \in Nat, c \in Nat : a = Len(p) /\ b = Len(q) /\ c = Len(o) BY LenProperties
<1>2. a <= b /\ b <= c /\ Cut(q, a) = p /\ Cut(o, b) = q BY <1>1, AncestorCut
<1>3. b \in 0..Len(o) /\ a \in 0..b BY <1>1, <1>2
<1>4. Cut(Cut(o, b), a) = Cut(o, a) BY <1>3, CutCut
<1>5. Cut(o, a) = p BY <1>2, <1>4
<1> QED BY <1>1, <1>2, <1>5, AncestorCut

LEMMA AncestorSame ==
  ASSUME NEW p \in Seq(Nat), NEW o \in Seq(Nat), Ancestor(p, o), Len(p) = Len(o)
  PROVE  p = o
BY AncestorCut, CutWhole

(* The ancestors of one OID form a chain. *)
LEMMA AncestorChain ==
  ASSUME NEW p \in Seq(Nat), NEW q \in Seq(Nat), NEW o \in Seq(Nat),
         Ancestor(p, o), Ancestor(q, o), Len(p) <= Len(q)
  PROVE  Ancestor(p, q)
<1>1. PICK a \in Nat, b \in Nat, c \in Nat : a = Len(p) /\ b = Len(q) /\ c = Len(o) BY LenProperties
<1>2. a <= b /\ b <= c /\ Cut(o, a) = p /\ Cut(o, b) = q BY <1>1, AncestorCut
<1>3. b \in 0..Len(o) /\ a \in 0..b BY <1>1, <1>2
<1>4. Cut(Cut(o, b), a) = Cut(o, a) BY <1>3, CutCut
<1> QED BY <1>1, <1>2, <1>4, AncestorCut

(* The child of p on the way to a node below it. *)
LEMMA StepTowards ==
  ASSUME NEW p \in Seq(Nat), NEW o \in Seq(Nat), Ancestor(p, o), Len(p) < Len(o)
  PROVE  LET c == Cut(o, Len(p) + 1) IN
         /\ c \in Seq(Nat) /\ Len(c) = Len(p) + 1 /\ Ancestor(p, c) /\ Ancestor(c, o)
<1>1. PICK a \in Nat, b \in Nat : a = Len(p) /\ b = Len(o) BY LenProperties
<1>2. a + 1 \in 0..Len(o) BY <1>1
<1>3. PICK c : c = Cut(o, a + 1) OBVIOUS
<1>4. c \in Seq(Nat) /\ Len(c) = a + 1 /\ Ancestor(c, o) BY <1>2, <1>3, CutOf
<1>5. Ancestor(p, c)
  <2>1. Len(p) <= Len(c) BY <1>1, <1>4
  <2> QED BY <1>4, <2>1, AncestorChain
<1> QED BY <1>1, <1>3, <1>4, <1>5

LEMMA RootAbove ==
  ASSUME NEW o \in Seq(Nat)
  PROVE  Root \in Seq(Nat) /\ Len(Root) = 0 /\ Ancestor(Root, o)
<1>1. Root \in Seq(Nat) /\ Len(Root) = 0 BY DEF Root
<1>2. Len(o) \in Nat BY LenProperties
<1>3. SubSeq(o, 1, 0) = <<>> OBVIOUS
<1> QED BY <1>1, <1>2, <1>3 DEF Ancestor, Root

-----------------------------------------------------------------------------
(* Finite sets: one that is counted as one, and the greatest of a rank.    *)
LEMMA OnlyOne ==
  ASSUME NEW S, IsFiniteSet(S), Cardinality(S) = 1, NEW x \in S, NEW y \in S
  PROVE  x = y
<1> SUFFICES ASSUME x # y PROVE FALSE OBVIOUS
<1>1. IsFiniteSet({x}) /\ Cardinality({x}) = 1 BY FS_Singleton
<1>2. Cardinality({x} \cup {y}) = Cardinality({x}) + 1 BY <1>1, FS_AddElement
<1>3. {x} \cup {y} \subseteq S OBVIOUS
<1>4. Cardinality({x} \cup {y}) <= Cardinality(S) BY <1>3, FS_Subset
<1> QED BY <1>1, <1>2, <1>4

LEMMA Greatest ==
  ASSUME NEW S, IsFiniteSet(S), S # {}, NEW g \in [S -> Nat]
  PROVE  \E x \in S : \A y \in S : g[y] <= g[x]
<1> DEFINE over(x) == {y \in S : g[x] < g[y]}
           h == [x \in S |-> Cardinality(over(x))]
<1>1. \A x \in S : over(x) \in SUBSET S OBVIOUS
<1>2. \A x \in S : IsFiniteSet(over(x)) /\ Cardinality(over(x)) \in Nat
  BY <1>1, FS_Subset, FS_CardinalityType
<1>3. h \in [S -> Nat] BY <1>2
<1>4. PICK x \in S : \A y \in S : h[x] <= h[y]
  <2>1. S \in SUBSET S OBVIOUS
  <2> HIDE DEF h
  <2> QED BY <1>3, <2>1, LeastRank
<1>5. ASSUME NEW y \in S, ~(g[y] <= g[x]) PROVE FALSE
  <2>1. g[x] < g[y] /\ g[x] \in Nat /\ g[y] \in Nat BY <1>5
  <2>2. over(y) \subseteq over(x)
    <3>1. ASSUME NEW z \in S, g[y] < g[z] PROVE g[x] < g[z]
      <4>1. g[z] \in Nat OBVIOUS
      <4> QED BY <2>1, <3>1, <4>1
    <3> QED BY <3>1
  <2>3. y \in over(x) /\ y \notin over(y) BY <2>1
  <2>4. Cardinality(over(y)) <= Cardinality(over(x)) /\ Cardinality(over(y)) # Cardinality(over(x))
    <3>1. IsFiniteSet(over(x)) BY <1>2
    <3>2. over(y) # over(x) BY <2>3
    <3> HIDE DEF over
    <3> QED BY <2>2, <3>1, <3>2, FS_Subset
  <2>5. Cardinality(over(x)) <= Cardinality(over(y)) BY <1>4
  <2>6. Cardinality(over(x)) \in Nat /\ Cardinality(over(y)) \in Nat BY <1>2
  <2> HIDE DEF over, h
  <2> QED BY <2>4, <2>5, <2>6
<1> QED BY <1>5

-----------------------------------------------------------------------------
(* A trie: its nodes are closed under prefixes, the counts are those of the*)
(* children, and what a node carries its ancestors carry.                  *)
GoodTrie(t) ==
  /\ OidNodes(t) /\ Root \notin DOMAIN t
  /\ \A o \in DOMAIN t : \A n \in 1..Len(o) : Cut(o, n) \in DOMAIN t
  /\ \A o \in DOMAIN t : t[o].children = Cardinality(Kids(t, o))
  /\ \A p, o \in DOMAIN t : Ancestor(p, o) => t[o].families \subseteq t[p].families
GoodMode(mode) == mode.branches \in BOOLEAN

LEMMA ChildTowards ==
  ASSUME NEW t, GoodTrie(t), NEW p \in Seq(Nat), NEW o \in DOMAIN t, Ancestor(p, o), Len(p) < Len(o)
  PROVE  LET c == Cut(o, Len(p) + 1) IN
         /\ c \in Kids(t, p) /\ c \in DOMAIN t /\ c \in Seq(Nat)
         /\ Len(c) = Len(p) + 1 /\ Ancestor(c, o)
<1>1. o \in Seq(Nat) BY DEF GoodTrie, OidNodes
<1>2. PICK a \in Nat, b \in Nat : a = Len(p) /\ b = Len(o) BY <1>1, LenProperties
<1>3. a + 1 \in 1..Len(o) BY <1>2
<1>4. PICK c : c = Cut(o, a + 1) OBVIOUS
<1>5. c \in DOMAIN t BY <1>3, <1>4 DEF GoodTrie
<1>6. c \in Seq(Nat) /\ Len(c) = a + 1 /\ Ancestor(p, c) /\ Ancestor(c, o)
  BY <1>1, <1>2, <1>4, StepTowards
<1>7. c \in Kids(t, p) BY <1>2, <1>5, <1>6 DEF Kids, ChildrenIn
<1> QED BY <1>2, <1>4, <1>5, <1>6, <1>7

LEMMA KidsFinite ==
  ASSUME NEW t, GoodTrie(t), NEW p
  PROVE  IsFiniteSet(Kids(t, p)) /\ Cardinality(Kids(t, p)) \in Nat /\ Kids(t, p) \subseteq DOMAIN t
<1>1. Kids(t, p) \in SUBSET DOMAIN t BY DEF Kids, ChildrenIn
<1>2. IsFiniteSet(Kids(t, p)) BY <1>1, FS_Subset DEF GoodTrie, OidNodes
<1> QED BY <1>1, <1>2, FS_CardinalityType

LEMMA ShownSays ==
  ASSUME NEW t, NEW mode, NEW o
  PROVE  Shown(t, mode, o) <=> (mode.branches => (t[o].children > 0 /\ Matches(t, mode, o)))
BY DEF Shown

(* Whatever shows a node shows what is above it.                           *)
LEMMA ShownAbove ==
  ASSUME NEW t, GoodTrie(t), NEW mode, NEW p \in DOMAIN t, NEW o \in DOMAIN t,
         Ancestor(p, o), Shown(t, mode, o)
  PROVE  Shown(t, mode, p)
<1>1. p \in Seq(Nat) /\ o \in Seq(Nat) BY DEF GoodTrie, OidNodes
<1>2. CASE p = o BY <1>2
<1>3. CASE p # o
  <2>1. Len(p) \in Nat /\ Len(o) \in Nat /\ Len(p) <= Len(o) BY <1>1, LenProperties DEF Ancestor
  <2>2. Len(p) < Len(o) BY <1>1, <1>3, <2>1, AncestorSame
  <2>3. Kids(t, p) # {} BY <1>1, <2>2, ChildTowards
  <2>4. Cardinality(Kids(t, p)) # 0 /\ Cardinality(Kids(t, p)) \in Nat
    BY <2>3, KidsFinite, FS_EmptySet
  <2>5. t[p].children > 0 BY <2>4 DEF GoodTrie
  <2>6. Matches(t, mode, o) => Matches(t, mode, p) BY DEF Matches, GoodTrie
  <2> QED BY <2>5, <2>6, ShownSays
<1> QED BY <1>2, <1>3

-----------------------------------------------------------------------------
(* Folding.  What a row folds into lies on the way to everything that is   *)
(* shown below the row's node.                                             *)
LEMMA FoldShown ==
  ASSUME NEW t, GoodTrie(t), NEW mode, GoodMode(mode), NEW o \in DOMAIN t, NEW x \in FoldsInto(t, mode, o)
  PROVE  x \in Kids(t, o) /\ Shown(t, mode, x)
<1>1. CASE mode.branches /\ mode.family # NoFamily
  BY <1>1, ShownSays DEF FoldsInto
<1>2. CASE ~(mode.branches /\ mode.family # NoFamily)
  BY <1>2 DEF FoldsInto
<1> QED BY <1>1, <1>2

LEMMA FoldOnPath ==
  ASSUME NEW t, GoodTrie(t), NEW mode, GoodMode(mode), NEW o \in DOMAIN t, NEW x \in FoldsInto(t, mode, o),
         NEW q \in DOMAIN t, Shown(t, mode, q), Ancestor(o, q), Len(o) < Len(q)
  PROVE  Ancestor(x, q)
<1>1. o \in Seq(Nat) /\ q \in Seq(Nat) BY DEF GoodTrie, OidNodes
<1>2. PICK c \in DOMAIN t : c \in Kids(t, o) /\ Ancestor(c, q) BY <1>1, ChildTowards
<1>3. Shown(t, mode, c) BY <1>2, ShownAbove
<1>4. CASE mode.branches /\ mode.family # NoFamily
  <2> DEFINE match == {d \in Kids(t, o) : Matches(t, mode, d)}
  <2>1. x \in match /\ Cardinality(match) = 1
    <3>1. FoldsInto(t, mode, o) = IF Cardinality(match) = 1 THEN {d \in match : t[d].children > 0} ELSE {}
      BY <1>4, Zenon DEF FoldsInto
    <3> HIDE DEF match
    <3> QED BY <3>1
  <2>2. c \in match BY <1>2, <1>3, <1>4, ShownSays
  <2>3. IsFiniteSet(match)
    <3>1. match \in SUBSET Kids(t, o) OBVIOUS
    <3> QED BY <3>1, KidsFinite, FS_Subset
  <2> HIDE DEF match
  <2>4. x = c BY <2>1, <2>2, <2>3, OnlyOne
  <2> QED BY <1>2, <2>4
<1>5. CASE ~(mode.branches /\ mode.family # NoFamily)
  <2>1. t[o].children = 1 /\ x \in Kids(t, o) BY <1>5 DEF FoldsInto
  <2>2. Cardinality(Kids(t, o)) = 1 BY <2>1 DEF GoodTrie
  <2>3. x = c BY <1>2, <2>1, <2>2, KidsFinite, OnlyOne
  <2> QED BY <1>2, <2>3
<1> QED BY <1>4, <1>5

(* A row's anchor is the end of its chain: nothing folds into it further.  *)
LEMMA ChainSays ==
  ASSUME NEW t, NEW mode, NEW o, NEW d
  PROVE  d \in Chain(t, mode, o) <=>
           /\ d \in DOMAIN t /\ Ancestor(o, d)
           /\ \A n \in Len(o)..(Len(d) - 1) : Cut(d, n + 1) \in FoldsInto(t, mode, Cut(d, n))
BY DEF Chain, Cut

LEMMA AnchorIs ==
  ASSUME NEW t, GoodTrie(t), NEW mode, NEW o \in DOMAIN t
  PROVE  /\ Anchor(t, mode, o) \in Chain(t, mode, o)
         /\ \A e \in Chain(t, mode, o) : Len(e) <= Len(Anchor(t, mode, o))
<1>1. DOMAIN t \subseteq Seq(Nat) /\ IsFiniteSet(DOMAIN t) BY DEF GoodTrie, OidNodes
<1>2. PICK C : C = Chain(t, mode, o) OBVIOUS
<1>3. C \in SUBSET DOMAIN t BY <1>2 DEF Chain
<1>4. IsFiniteSet(C) BY <1>1, <1>3, FS_Subset
<1>5. o \in C
  <2>1. Ancestor(o, o) /\ Len(o) \in Nat BY <1>1, CutWhole
  <2>2. \A n \in Len(o)..(Len(o) - 1) : FALSE BY <2>1
  <2> QED BY <1>2, <2>1, <2>2, ChainSays
<1> DEFINE g == [d \in C |-> Len(d)]
<1>6. g \in [C -> Nat] BY <1>1, <1>3, LenProperties
<1>7. \E x \in C : \A y \in C : g[y] <= g[x]
  <2> HIDE DEF g
  <2> QED BY <1>4, <1>5, <1>6, Greatest
<1>8. \E x \in C : \A y \in C : Len(y) <= Len(x) BY <1>7
<1>9. Anchor(t, mode, o) = CHOOSE d \in C : \A e \in C : Len(e) <= Len(d)
  BY <1>2, Zenon DEF Anchor
<1> QED BY <1>2, <1>8, <1>9

LEMMA AnchorAt ==
  ASSUME NEW t, GoodTrie(t), NEW mode, NEW o \in DOMAIN t
  PROVE  /\ Anchor(t, mode, o) \in DOMAIN t /\ Anchor(t, mode, o) \in Seq(Nat)
         /\ Ancestor(o, Anchor(t, mode, o)) /\ Len(o) <= Len(Anchor(t, mode, o))
<1>1. Anchor(t, mode, o) \in Chain(t, mode, o) BY AnchorIs
<1> QED BY <1>1, ChainSays DEF Ancestor, GoodTrie, OidNodes

LEMMA AnchorStops ==
  ASSUME NEW t, GoodTrie(t), NEW mode, GoodMode(mode), NEW o \in DOMAIN t
  PROVE  FoldsInto(t, mode, Anchor(t, mode, o)) = {}
<1> SUFFICES ASSUME NEW x \in FoldsInto(t, mode, Anchor(t, mode, o)) PROVE FALSE OBVIOUS
<1>1. PICK a : a = Anchor(t, mode, o) OBVIOUS
<1>2. a \in DOMAIN t /\ a \in Seq(Nat) /\ o \in Seq(Nat) /\ Ancestor(o, a)
  BY <1>1, AnchorAt DEF GoodTrie, OidNodes
<1>3. PICK k \in Nat, l \in Nat : k = Len(o) /\ l = Len(a) /\ k <= l
  <2>1. Len(o) \in Nat /\ Len(a) \in Nat BY <1>2, LenProperties
  <2>2. Len(o) <= Len(a) BY <1>2 DEF Ancestor
  <2> QED BY <2>1, <2>2
<1>4. x \in Kids(t, a) BY <1>1, <1>2, FoldShown
<1>5. x \in DOMAIN t /\ x \in Seq(Nat) /\ Len(x) = l + 1 /\ Ancestor(a, x)
  BY <1>3, <1>4 DEF Kids, ChildrenIn, GoodTrie, OidNodes
<1>6. Cut(x, l) = a /\ Cut(x, l + 1) = x BY <1>2, <1>3, <1>5, AncestorCut, CutWhole
<1>7. ASSUME NEW n \in k..l PROVE Cut(x, n + 1) \in FoldsInto(t, mode, Cut(x, n))
  <2>1. CASE n = l BY <1>1, <1>6, <2>1
  <2>2. CASE n # l
    <3>1. n \in k..(l - 1) /\ l \in 0..Len(x) /\ n \in 0..l /\ n + 1 \in 0..l BY <1>3, <1>5, <2>2
    <3>2. Cut(x, n + 1) = Cut(a, n + 1) /\ Cut(x, n) = Cut(a, n) BY <1>5, <1>6, <3>1, CutCut
    <3>3. Cut(a, n + 1) \in FoldsInto(t, mode, Cut(a, n)) BY <1>1, <1>3, <3>1, AnchorIs, ChainSays
    <3> QED BY <3>2, <3>3
  <2> QED BY <2>1, <2>2
<1>8. x \in Chain(t, mode, o)
  <2>1. Ancestor(o, x) BY <1>2, <1>5, AncestorTrans
  <2>2. Len(o)..(Len(x) - 1) = k..l BY <1>3, <1>5
  <2> QED BY <1>5, <1>7, <2>1, <2>2, ChainSays
<1>9. Len(x) <= l BY <1>1, <1>3, <1>8, AnchorIs
<1> QED BY <1>5, <1>9

LEMMA AnchorOnPath ==
  ASSUME NEW t, GoodTrie(t), NEW mode, GoodMode(mode), NEW o \in DOMAIN t,
         NEW q \in DOMAIN t, Shown(t, mode, q), Ancestor(o, q)
  PROVE  Ancestor(Anchor(t, mode, o), q) \/ Ancestor(q, Anchor(t, mode, o))
<1>1. PICK a : a = Anchor(t, mode, o) OBVIOUS
<1>2. a \in DOMAIN t /\ a \in Seq(Nat) /\ o \in Seq(Nat) /\ q \in Seq(Nat) /\ Ancestor(o, a)
  BY <1>1, AnchorAt DEF GoodTrie, OidNodes
<1>3. PICK k \in Nat, l \in Nat, m \in Nat : k = Len(o) /\ l = Len(a) /\ m = Len(q) /\ k <= l
  BY <1>2, LenProperties DEF Ancestor
<1> SUFFICES ASSUME ~Ancestor(a, q) PROVE Ancestor(q, a) BY <1>1
<1> DEFINE off == {n \in k..l : ~Ancestor(Cut(a, n), q)}
           g == [n \in 0..l |-> n]
<1>4. Cut(a, l) = a /\ Cut(a, k) = o BY <1>2, <1>3, AncestorCut, CutWhole
<1>5. PICK n \in off : \A j \in off : n <= j
  <2>1. l \in off BY <1>3, <1>4
  <2>2. off \in SUBSET (0..l) /\ off # {} BY <1>3, <2>1
  <2>3. g \in [0..l -> Nat] OBVIOUS
  <2>4. \E x \in off : \A y \in off : g[x] <= g[y]
    <3> HIDE DEF off, g
    <3> QED BY <2>2, <2>3, LeastRank
  <2>5. \A x \in off : g[x] = x BY <1>3
  <2> HIDE DEF g
  <2> QED BY <2>4, <2>5
<1>6. n \in k..l /\ ~Ancestor(Cut(a, n), q) /\ n # k BY <1>4, <1>5
<1>7. n - 1 \in k..(l - 1) /\ n - 1 \in k..l /\ n - 1 \in Nat /\ n - 1 \in 0..Len(a) /\ (n - 1) + 1 = n
  BY <1>3, <1>6
<1>8. PICK b : b = Cut(a, n - 1) OBVIOUS
<1>9. Ancestor(b, q)
  <2>1. n - 1 \notin off BY <1>5, <1>7
  <2> QED BY <1>7, <1>8, <2>1
<1>10. b \in Seq(Nat) /\ Len(b) = n - 1 /\ Ancestor(b, a) BY <1>2, <1>7, <1>8, CutOf
<1>11. Cut(a, n) \in FoldsInto(t, mode, b)
  <2>1. Cut(a, (n - 1) + 1) \in FoldsInto(t, mode, Cut(a, n - 1))
    BY <1>1, <1>3, <1>7, AnchorIs, ChainSays
  <2> QED BY <1>7, <1>8, <2>1
<1>12. b \in DOMAIN t
  <2>1. CASE n - 1 = k BY <1>4, <1>8, <2>1
  <2>2. CASE n - 1 # k
    <3>1. n - 1 \in 1..Len(a) BY <1>3, <1>7, <2>2
    <3> QED BY <1>2, <1>8, <3>1 DEF GoodTrie
  <2> QED BY <2>1, <2>2
<1>13. ~(Len(b) < Len(q)) BY <1>6, <1>9, <1>11, <1>12, FoldOnPath
<1>14. Len(b) = Len(q) BY <1>2, <1>3, <1>7, <1>9, <1>10, <1>13 DEF Ancestor
<1>15. b = q BY <1>2, <1>9, <1>10, <1>14, AncestorSame
<1> QED BY <1>10, <1>15

-----------------------------------------------------------------------------
(* Levels.  The rows of the shown children of one parent, page by page.    *)
ShownKids(t, mode, p) == {o \in Kids(t, p) : Shown(t, mode, o)}
RowsFor(t, mode, P) == {Row(t, mode, o) : o \in P}
LeastOf(c, limit) == {x \in c : Cardinality({y \in c : Segment(y) < Segment(x)}) < limit}

LEMMA FirstPageRows ==
  ASSUME NEW t, NEW mode, NEW p, NEW limit
  PROVE  FirstPage(t, mode, p, limit) = RowsFor(t, mode, LeastOf(ShownKids(t, mode, p), limit))
BY Zenon DEF FirstPage, RowsFor, LeastOf, ShownKids

LEMMA AfterRows ==
  ASSUME NEW t, NEW mode, NEW p, NEW limit, NEW seg
  PROVE  After(t, mode, p, seg, limit) =
           RowsFor(t, mode, LeastOf({o \in Kids(t, p) : Shown(t, mode, o) /\ Segment(o) > seg}, limit))
BY Zenon DEF After, RowsFor, LeastOf

LEMMA RowIs ==
  ASSUME NEW t, NEW mode, NEW o
  PROVE  /\ Row(t, mode, o).direct = o /\ Row(t, mode, o).anchor = Anchor(t, mode, o)
         /\ Row(t, mode, o).expandable = Expandable(t, mode, Anchor(t, mode, o))
BY DEF Row

LEMMA RowsOfMany ==
  ASSUME NEW P, IsFiniteSet(P), NEW t, NEW mode
  PROVE  Cardinality(RowsFor(t, mode, P)) = Cardinality(P)
<1> DEFINE w == RowsFor(t, mode, P)
           g == [o \in P |-> Row(t, mode, o)]
<1>1. g \in [P -> w] /\ \A r \in w : \E o \in P : g[o] = r
  BY DEF RowsFor
<1>2. \A o, x \in P : g[o] = g[x] => o = x BY RowIs
<1> HIDE DEF g, w
<1>3. g \in Bijection(P, w) BY <1>1, <1>2, Zenon DEF Bijection, Injection, Surjection, IsInjective
<1>4. ExistsBijection(P, w) BY <1>3 DEF ExistsBijection
<1> QED BY <1>4, FS_Bijection DEF w

LEMMA RowAmong ==
  ASSUME NEW P, NEW t, NEW mode, NEW o
  PROVE  /\ o \in P => Row(t, mode, o) \in RowAt(RowsFor(t, mode, P), o)
         /\ o \notin P => RowAt(RowsFor(t, mode, P), o) = {}
         /\ \A r \in RowAt(RowsFor(t, mode, P), o) : r = Row(t, mode, o)
<1>1. \A x : Row(t, mode, x).direct = x BY RowIs
<1> QED BY <1>1 DEF RowAt, RowsFor

LEMMA KidsOrdered ==
  ASSUME NEW t, GoodTrie(t), NEW p \in Seq(Nat), NEW c \in SUBSET Kids(t, p), NEW limit \in Nat \ {0}
  PROVE  LET f == [o \in c |-> Segment(o)] IN Ranked(c, f, limit) /\ LeastOf(c, limit) = PageOf(c, f, limit)
<1> DEFINE f == [o \in c |-> Segment(o)]
<1>1. c \subseteq ChildOids(p) /\ IsFiniteSet(c) BY KidsAreSiblings DEF GoodTrie
<1>2. Ranked(c, f, limit)
  BY <1>1, SiblingArc, SiblingsDiffer DEF Ranked
<1>3. LeastOf(c, limit) = PageOf(c, f, limit)
  BY DEF PageOf, LeastOf
<1> QED BY <1>2, <1>3

(* The level that a spine reads of a parent holds the row of the child on  *)
(* the way to the focus, however wide the level is: either the first page  *)
(* has it, or that page is full and the one anchored at the child has it.  *)
LEMMA RowOnPage ==
  ASSUME NEW t, GoodTrie(t), NEW mode, NEW p \in Seq(Nat), NEW focus,
         NEW limit \in Nat \ {0}, NEW child, child = SubSeq(focus, 1, Len(p) + 1),
         child \in Kids(t, p), Shown(t, mode, child)
  PROVE  Row(t, mode, child) \in SpineLevel(t, mode, p, focus, limit).row
<1> DEFINE c == ShownKids(t, mode, p)
           P == LeastOf(c, limit)
           first == RowsFor(t, mode, P)
           later == {o \in Kids(t, p) : Shown(t, mode, o) /\ Segment(o) > Segment(child) - 1}
           again == IF Segment(child) > 0 THEN RowsFor(t, mode, LeastOf(later, limit)) ELSE {}
           anchored == /\ RowAt(first, child) = {} /\ Cardinality(first) = limit
                       /\ RowAt(again, child) # {}
<1>1. SpineLevel(t, mode, p, focus, limit).row = RowAt(IF anchored THEN again ELSE first, child)
  BY FirstPageRows, AfterRows, Zenon DEF SpineLevel
<1>2. child \in c /\ c \in SUBSET Kids(t, p) BY DEF ShownKids
<1>3. c \subseteq ChildOids(p) /\ IsFiniteSet(c) BY <1>2, KidsAreSiblings DEF GoodTrie
<1>4. \A o \in c : Segment(o) \in Nat BY <1>3, SiblingArc
<1> HIDE DEF c, anchored, first, again, later
<1>5. CASE child \in P
  <2>1. Row(t, mode, child) \in RowAt(first, child) BY <1>5, RowAmong DEF first
  <2>2. ~anchored BY <2>1 DEF anchored
  <2> QED BY <1>1, <2>1, <2>2
<1>6. CASE child \notin P
  <2> DEFINE f == [o \in c |-> Segment(o)]
  <2>1. Ranked(c, f, limit) /\ P = PageOf(c, f, limit) BY <1>2, KidsOrdered
  <2>2. Cardinality(P) = limit
    <3>1. PageOf(c, f, limit) # c BY <1>2, <1>6, <2>1
    <3> HIDE DEF f
    <3> QED BY <2>1, <3>1, PageFull
  <2>3. IsFiniteSet(P)
    <3>1. P \in SUBSET c BY DEF LeastOf
    <3> QED BY <1>3, <3>1, FS_Subset
  <2>4. Cardinality(first) = limit BY <2>2, <2>3, RowsOfMany DEF first
  <2>5. RowAt(first, child) = {} BY <1>6, RowAmong DEF first
  <2>6. PICK y \in c : Segment(y) < Segment(child)
    <3>1. PICK S : S = {y \in c : Segment(y) < Segment(child)} OBVIOUS
    <3>2. ~(Cardinality(S) < limit) BY <1>2, <1>6, <3>1 DEF LeastOf
    <3>3. Cardinality({}) < limit
      <4>1. Cardinality({}) = 0 BY FS_EmptySet
      <4>2. 0 < limit OBVIOUS
      <4> QED BY <4>1, <4>2
    <3>4. S # {} BY <3>2, <3>3, Zenon
    <3> QED BY <3>1, <3>4
  <2>7. PICK s \in Nat : s = Segment(child) /\ s > 0 BY <1>2, <1>4, <2>6
  <2>8. child \in LeastOf(later, limit)
    <3>1. child \in later BY <2>7 DEF later
    <3>2. \A x \in later : x \in c /\ Segment(x) > s - 1 BY <2>7 DEF later, c, ShownKids
    <3>3. ASSUME NEW x \in later, Segment(x) < s PROVE FALSE
      <4>1. Segment(x) \in Nat /\ Segment(x) > s - 1 BY <1>4, <3>2
      <4> QED BY <2>7, <3>3, <4>1
    <3>4. {x \in later : Segment(x) < Segment(child)} = {} BY <2>7, <3>3
    <3>5. Cardinality({x \in later : Segment(x) < Segment(child)}) = 0 BY <3>4, FS_EmptySet
    <3> QED BY <3>1, <3>5 DEF LeastOf
  <2>9. Row(t, mode, child) \in RowAt(again, child) BY <2>7, <2>8, RowAmong DEF again
  <2>10. anchored BY <2>4, <2>5, <2>9 DEF anchored
  <2> QED BY <1>1, <2>9, <2>10
<1> QED BY <1>5, <1>6

(* A whole level.                                                          *)
LEMMA WholeLevelRows ==
  ASSUME NEW t, GoodTrie(t), NEW mode, NEW p \in Seq(Nat)
  PROVE  WholeLevel(t, mode, p) = RowsFor(t, mode, ShownKids(t, mode, p))
<1> DEFINE c == ShownKids(t, mode, p)
           n == Cardinality(DOMAIN t)
<1>1. c \in SUBSET DOMAIN t BY DEF ShownKids, Kids, ChildrenIn
<1>2. IsFiniteSet(DOMAIN t) /\ n \in Nat BY FS_CardinalityType DEF GoodTrie, OidNodes
<1>3. ASSUME NEW x \in c PROVE Cardinality({y \in c : Segment(y) < Segment(x)}) < n + 1
  <2>1. {y \in c : Segment(y) < Segment(x)} \in SUBSET DOMAIN t BY <1>1
  <2>2. Cardinality({y \in c : Segment(y) < Segment(x)}) <= n /\ IsFiniteSet({y \in c : Segment(y) < Segment(x)})
    BY <1>2, <2>1, FS_Subset
  <2>3. Cardinality({y \in c : Segment(y) < Segment(x)}) \in Nat BY <2>2, FS_CardinalityType
  <2> HIDE DEF c, n
  <2> QED BY <1>2, <2>2, <2>3
<1>4. LeastOf(c, n + 1) = c BY <1>3 DEF LeastOf
<1> QED BY <1>4, FirstPageRows DEF WholeLevel

-----------------------------------------------------------------------------
(* The spine.  The walk from the root goes on from level to level until a  *)
(* row covers what is to be shown.                                         *)
LEMMA SpineStarts ==
  ASSUME NEW t, NEW mode, NEW focus \in Seq(Nat), focus # Root, NEW limit
  PROVE  Root \in SpineLevels(t, mode, focus, limit)
<1>1. Root \in Above(focus) BY AboveNonempty
<1> QED BY <1>1 DEF SpineLevels

LEMMA SpineGoesOn ==
  ASSUME NEW t, NEW mode, NEW focus, NEW limit, NEW p \in SpineLevels(t, mode, focus, limit)
  PROVE  Descends(SpineLevel(t, mode, p, focus, limit), focus) \subseteq SpineLevels(t, mode, focus, limit)
<1> DEFINE down(q) == Descends(SpineLevel(t, mode, q, focus, limit), focus)
           next == [q \in Above(focus) |-> down(q)]
<1>1. SpineLevels(t, mode, focus, limit) =
        {q \in Above(focus) :
          \A S \in SUBSET Above(focus) : Root \in S /\ (\A x \in S : next[x] \subseteq S) => q \in S}
  BY DEF SpineLevels
<1>2. down(p) \subseteq Above(focus) BY DEF Descends
<1>3. next[p] = down(p) BY <1>1
<1> HIDE DEF next, down
<1>4. down(p) \subseteq SpineLevels(t, mode, focus, limit) BY <1>1, <1>2, <1>3
<1> QED BY <1>4 DEF down

LEMMA AboveIs ==
  ASSUME NEW o \in Seq(Nat), NEW p
  PROVE  p \in Above(o) <=> p \in Seq(Nat) /\ Ancestor(p, o) /\ Len(p) < Len(o)
<1>1. PICK l \in Nat : l = Len(o) BY LenProperties
<1>2. ASSUME p \in Above(o) PROVE p \in Seq(Nat) /\ Ancestor(p, o) /\ Len(p) < Len(o)
  <2>1. PICK n \in 0..(Len(o) - 1) : p = Cut(o, n) BY <1>2 DEF Above, Cut
  <2>2. n \in 0..Len(o) /\ n < Len(o) BY <1>1, <2>1, SMTT(60)
  <2> QED BY <2>1, <2>2, CutOf
<1>3. ASSUME p \in Seq(Nat), Ancestor(p, o), Len(p) < Len(o) PROVE p \in Above(o)
  <2>1. Len(p) \in 0..(Len(o) - 1) BY <1>1, <1>3, LenProperties
  <2> QED BY <1>3, <2>1 DEF Above, Ancestor
<1> QED BY <1>2, <1>3

(* Of levels that lie above a node, one is the deepest.                    *)
LEMMA Deepest ==
  ASSUME NEW o \in Seq(Nat), NEW L, NEW p0 \in L, p0 \in Above(o)
  PROVE  \E p \in L : p \in Above(o) /\ \A q \in L : q \in Above(o) => Len(q) <= Len(p)
<1> DEFINE S == {p \in L : p \in Above(o)}
           g == [p \in S |-> Len(p)]
           cuts == [n \in 0..(Len(o) - 1) |-> SubSeq(o, 1, n)]
<1>1. IsFiniteSet(Above(o))
  <2>1. PICK l \in Nat : l = Len(o) BY LenProperties
  <2>2. IsFiniteSet(0..(Len(o) - 1)) BY <2>1, FS_Interval
  <2>3. cuts \in Surjection(0..(Len(o) - 1), Above(o)) BY DEF Surjection, Above
  <2> QED BY <2>2, <2>3, FS_Surjection
<1>2. S \in SUBSET Above(o) /\ S # {} OBVIOUS
<1>3. IsFiniteSet(S) BY <1>1, <1>2, FS_Subset
<1>4. g \in [S -> Nat] BY <1>2, AboveIs, LenProperties
<1>5. PICK p \in S : \A q \in S : g[q] <= g[p]
  <2> HIDE DEF S, g
  <2> QED BY <1>2, <1>3, <1>4, Greatest
<1>6. \A q \in S : Len(q) <= Len(p) BY <1>5
<1> HIDE DEF g
<1> QED BY <1>5, <1>6

LEMMA SpineShows ==
  ASSUME NEW t, GoodTrie(t), NEW mode, GoodMode(mode), NEW focus \in DOMAIN t, NEW limit \in Nat \ {0}
  PROVE  SpineShowsFocus(t, mode, focus, limit)
<1> SUFFICES ASSUME NEW o \in Visible(t, mode, focus)
             PROVE  \E level \in SpinePages(t, mode, focus, limit) : \E r \in level.row : Covers(r, o)
  BY DEF SpineShowsFocus
<1> DEFINE L == SpineLevels(t, mode, focus, limit)
<1>1. o \in DOMAIN t /\ Ancestor(o, focus) /\ Shown(t, mode, o) BY DEF Visible
<1>2. o \in Seq(Nat) /\ focus \in Seq(Nat) /\ o # Root /\ focus # Root
  BY <1>1 DEF GoodTrie, OidNodes
<1>3. Len(o) \in Nat /\ Len(focus) \in Nat /\ Len(o) <= Len(focus)
  BY <1>1, <1>2, LenProperties DEF Ancestor
<1>4. Root \in L /\ Root \in Above(o) BY <1>2, SpineStarts, AboveNonempty
<1>5. PICK p \in L : p \in Above(o) /\ \A q \in L : q \in Above(o) => Len(q) <= Len(p)
  <2> HIDE DEF L
  <2> QED BY <1>2, <1>4, Deepest
<1>6. p \in Seq(Nat) /\ Ancestor(p, o) /\ Len(p) < Len(o) /\ Len(p) \in Nat
  BY <1>2, <1>5, AboveIs, LenProperties
<1>7. Ancestor(p, focus) /\ Len(p) < Len(focus)
  <2>1. Ancestor(p, focus) BY <1>1, <1>2, <1>6, AncestorTrans
  <2> QED BY <1>3, <1>6, <2>1
<1>8. PICK x : x = Cut(focus, Len(p) + 1) OBVIOUS
<1>9. x \in Kids(t, p) /\ x \in DOMAIN t /\ x \in Seq(Nat) /\ Len(x) = Len(p) + 1 /\ Ancestor(x, focus)
  BY <1>6, <1>7, <1>8, ChildTowards
<1>10. Ancestor(x, o)
  <2>1. Len(x) <= Len(o) BY <1>3, <1>6, <1>9
  <2> QED BY <1>1, <1>2, <1>9, <2>1, AncestorChain
<1>11. Shown(t, mode, x) BY <1>1, <1>9, <1>10, ShownAbove
<1>12. PICK level : level = SpineLevel(t, mode, p, focus, limit) OBVIOUS
<1>13. level \in SpinePages(t, mode, focus, limit) BY <1>5, <1>12 DEF SpinePages
<1>14. PICK r : r = Row(t, mode, x) OBVIOUS
<1>15. r \in level.row
  <2>1. x = SubSeq(focus, 1, Len(p) + 1) BY <1>8 DEF Cut
  <2> QED BY <1>6, <1>9, <1>11, <1>12, <1>14, <2>1, RowOnPage
<1>16. PICK a : a = Anchor(t, mode, x) OBVIOUS
<1>17. a \in DOMAIN t /\ a \in Seq(Nat) /\ Ancestor(x, a) /\ Len(x) <= Len(a) /\ Len(a) \in Nat
  BY <1>9, <1>16, AnchorAt, LenProperties
<1>18. r.direct = x /\ r.anchor = a /\ r.expandable = Expandable(t, mode, a)
  BY <1>14, <1>16, RowIs
<1>19. Ancestor(a, o) \/ Ancestor(o, a) BY <1>1, <1>9, <1>10, <1>16, AnchorOnPath
<1>20. CASE Ancestor(o, a)
  <2>1. Covers(r, o) BY <1>10, <1>18, <1>20 DEF Covers
  <2> QED BY <1>13, <1>15, <2>1
<1>21. CASE Ancestor(a, o) /\ ~Ancestor(o, a)
  <2>1. Len(a) < Len(o)
    <3>1. Len(a) <= Len(o) BY <1>21 DEF Ancestor
    <3>2. Len(a) # Len(o) BY <1>2, <1>17, <1>21, AncestorSame
    <3> QED BY <1>3, <1>17, <3>1, <3>2
  <2>2. PICK c \in Kids(t, a) : c \in DOMAIN t /\ Ancestor(c, o) BY <1>1, <1>17, <1>21, <2>1, ChildTowards
  <2>3. Shown(t, mode, c) BY <1>1, <2>2, ShownAbove
  <2>4. r.expandable BY <1>18, <2>2, <2>3 DEF Expandable
  <2>5. ~Covers(r, focus) BY <1>3, <1>17, <1>18, <2>1 DEF Covers, Ancestor
  <2>6. a \in Above(focus)
    <3>1. Ancestor(a, focus) BY <1>1, <1>2, <1>17, <1>21, AncestorTrans
    <3>2. Len(a) < Len(focus) BY <1>3, <1>17, <2>1
    <3> QED BY <1>2, <1>17, <3>1, <3>2, AboveIs
  <2>7. a \in Descends(level, focus) BY <1>15, <1>18, <2>4, <2>5, <2>6 DEF Descends
  <2>8. a \in L BY <1>5, <1>12, <2>7, SpineGoesOn
  <2>9. a \in Above(o) BY <1>2, <1>17, <1>21, <2>1, AboveIs
  <2>10. Len(a) <= Len(p) BY <1>5, <2>8, <2>9
  <2> QED BY <1>6, <1>9, <1>17, <2>10
<1> QED BY <1>19, <1>20, <1>21

-----------------------------------------------------------------------------
(* The expanded tree.  What is opened is the least set of parents that has *)
(* the root and is closed under opening a chevron.                         *)
Parents(t) == DOMAIN t \cup {Root}
OpensTo(t, mode, p) ==
  {a \in DOMAIN t : \E x \in ShownKids(t, mode, p) : a = Anchor(t, mode, x) /\ Expandable(t, mode, a)}
ClosedUnder(t, mode, S) == \A x \in S : OpensTo(t, mode, x) \subseteq S
ReachedFrom(t, mode, p) ==
  {q \in Parents(t) : \A S \in SUBSET Parents(t) : p \in S /\ ClosedUnder(t, mode, S) => q \in S}

LEMMA ParentsAre ==
  ASSUME NEW t, GoodTrie(t)
  PROVE  Parents(t) \subseteq Seq(Nat) /\ IsFiniteSet(Parents(t)) /\ Root \in Parents(t)
<1>0. PICK D, r : D = DOMAIN t /\ r = Root OBVIOUS
<1>1. IsFiniteSet(D \cup {r})
  <2>1. IsFiniteSet(D) BY <1>0 DEF GoodTrie, OidNodes
  <2> QED BY <2>1, FS_AddElement
<1>2. Root \in Seq(Nat) BY DEF Root
<1> QED BY <1>0, <1>1, <1>2 DEF GoodTrie, OidNodes, Parents

LEMMA ChevronsOpen ==
  ASSUME NEW t, GoodTrie(t), NEW mode, NEW p \in Parents(t)
  PROVE  /\ Chevrons(t, mode, p) = OpensTo(t, mode, p)
         /\ OpensTo(t, mode, p) \subseteq Parents(t)
         /\ \A a \in OpensTo(t, mode, p) : Len(p) < Len(a)
<1>1. p \in Seq(Nat) BY ParentsAre
<1>2. WholeLevel(t, mode, p) = RowsFor(t, mode, ShownKids(t, mode, p)) BY <1>1, WholeLevelRows
<1>3. ASSUME NEW x \in ShownKids(t, mode, p)
      PROVE  /\ x \in DOMAIN t /\ Anchor(t, mode, x) \in DOMAIN t
             /\ Len(p) < Len(Anchor(t, mode, x))
  <2>1. x \in DOMAIN t /\ Len(x) = Len(p) + 1 BY DEF ShownKids, Kids, ChildrenIn
  <2>2. /\ Anchor(t, mode, x) \in DOMAIN t /\ Anchor(t, mode, x) \in Seq(Nat)
        /\ Len(x) <= Len(Anchor(t, mode, x))
    BY <2>1, AnchorAt
  <2>3. Len(p) \in Nat /\ Len(Anchor(t, mode, x)) \in Nat BY <1>1, <2>2, LenProperties
  <2> QED BY <2>1, <2>2, <2>3
<1>4. \A x : /\ Row(t, mode, x).anchor = Anchor(t, mode, x)
             /\ Row(t, mode, x).expandable = Expandable(t, mode, Anchor(t, mode, x))
  BY RowIs
<1>5. Chevrons(t, mode, p) \subseteq OpensTo(t, mode, p)
  BY <1>2, <1>3, <1>4 DEF Chevrons, OpensTo, RowsFor
<1>6. OpensTo(t, mode, p) \subseteq Chevrons(t, mode, p)
  <2> SUFFICES ASSUME NEW a \in OpensTo(t, mode, p) PROVE a \in Chevrons(t, mode, p) OBVIOUS
  <2>1. PICK x \in ShownKids(t, mode, p) : a = Anchor(t, mode, x) /\ Expandable(t, mode, a)
    BY DEF OpensTo
  <2>2. Row(t, mode, x) \in WholeLevel(t, mode, p) BY <1>2 DEF RowsFor
  <2>3. Row(t, mode, x).expandable /\ Row(t, mode, x).anchor = a BY <1>4, <2>1
  <2> QED BY <2>2, <2>3 DEF Chevrons
<1>7. \A a \in OpensTo(t, mode, p) : Len(p) < Len(a) BY <1>3 DEF OpensTo
<1> QED BY <1>5, <1>6, <1>7 DEF Parents, OpensTo

LEMMA ReachedIs ==
  ASSUME NEW t, GoodTrie(t), NEW mode, NEW p \in Parents(t)
  PROVE  /\ p \in ReachedFrom(t, mode, p) /\ ReachedFrom(t, mode, p) \subseteq Parents(t)
         /\ ClosedUnder(t, mode, ReachedFrom(t, mode, p))
         /\ \A S \in SUBSET Parents(t) :
              p \in S /\ ClosedUnder(t, mode, S) => ReachedFrom(t, mode, p) \subseteq S
<1>1. p \in ReachedFrom(t, mode, p) /\ ReachedFrom(t, mode, p) \subseteq Parents(t) BY DEF ReachedFrom
<1>2. ASSUME NEW x \in ReachedFrom(t, mode, p), NEW a \in OpensTo(t, mode, x)
      PROVE  a \in ReachedFrom(t, mode, p)
  <2>1. a \in Parents(t) BY <1>1, ChevronsOpen
  <2>2. ASSUME NEW S \in SUBSET Parents(t), p \in S, ClosedUnder(t, mode, S) PROVE a \in S
    <3>1. x \in S BY <2>2 DEF ReachedFrom
    <3> QED BY <2>2, <3>1 DEF ClosedUnder
  <2> QED BY <2>1, <2>2 DEF ReachedFrom
<1>3. ClosedUnder(t, mode, ReachedFrom(t, mode, p)) BY <1>2 DEF ClosedUnder
<1>4. \A S \in SUBSET Parents(t) :
        p \in S /\ ClosedUnder(t, mode, S) => ReachedFrom(t, mode, p) \subseteq S
  BY DEF ReachedFrom
<1> QED BY <1>1, <1>3, <1>4

LEMMA ReachedSteps ==
  ASSUME NEW t, GoodTrie(t), NEW mode, NEW p \in Parents(t)
  PROVE  ReachedFrom(t, mode, p) = {p} \cup UNION {ReachedFrom(t, mode, q) : q \in OpensTo(t, mode, p)}
<1> DEFINE W == {p} \cup UNION {ReachedFrom(t, mode, q) : q \in OpensTo(t, mode, p)}
<1>0. OpensTo(t, mode, p) \subseteq Parents(t) BY ChevronsOpen
<1>1. ASSUME NEW x PROVE x \in W <=> (x = p \/ \E q \in OpensTo(t, mode, p) : x \in ReachedFrom(t, mode, q))
  OBVIOUS
<1> HIDE DEF W
<1>2. W \in SUBSET Parents(t) BY <1>0, <1>1, ReachedIs
<1>3. ASSUME NEW x \in W, NEW y \in OpensTo(t, mode, x) PROVE y \in W
  <2>1. CASE x = p
    <3>1. y \in OpensTo(t, mode, p) BY <1>3, <2>1
    <3>2. y \in ReachedFrom(t, mode, y) BY <1>0, <3>1, ReachedIs
    <3> QED BY <1>1, <3>1, <3>2
  <2>2. CASE x # p
    <3>1. PICK q \in OpensTo(t, mode, p) : x \in ReachedFrom(t, mode, q) BY <1>1, <2>2
    <3>2. ClosedUnder(t, mode, ReachedFrom(t, mode, q)) BY <1>0, <3>1, ReachedIs
    <3>3. y \in ReachedFrom(t, mode, q) BY <1>3, <3>1, <3>2 DEF ClosedUnder
    <3> QED BY <1>1, <3>1, <3>3
  <2> QED BY <2>1, <2>2
<1>4. p \in W BY <1>1
<1>5. ReachedFrom(t, mode, p) \subseteq W
  <2>1. ClosedUnder(t, mode, W) BY <1>3 DEF ClosedUnder
  <2> QED BY <1>2, <1>4, <2>1, ReachedIs
<1>6. ASSUME NEW x \in W PROVE x \in ReachedFrom(t, mode, p)
  <2>1. CASE x = p BY <2>1, ReachedIs
  <2>2. CASE x # p
    <3>1. PICK q \in OpensTo(t, mode, p) : x \in ReachedFrom(t, mode, q) BY <1>1, <2>2
    <3>2. q \in ReachedFrom(t, mode, p) BY <3>1, ReachedIs DEF ClosedUnder
    <3>3. ReachedFrom(t, mode, p) \in SUBSET Parents(t) /\ ClosedUnder(t, mode, ReachedFrom(t, mode, p))
      BY ReachedIs
    <3>4. ReachedFrom(t, mode, q) \subseteq ReachedFrom(t, mode, p) BY <1>0, <3>1, <3>2, <3>3, ReachedIs
    <3> QED BY <3>1, <3>4
  <2> QED BY <2>1, <2>2
<1> QED BY <1>5, <1>6 DEF W

(* The recursion has a solution, and no other: what it opens lies deeper.  *)
OpenStep(t, mode, f, p) == {p} \cup UNION {f[q] : q \in OpensTo(t, mode, p)}

LEMMA OpenUnique ==
  ASSUME NEW t, GoodTrie(t), NEW mode, NEW f,
         f = [p \in Parents(t) |-> OpenStep(t, mode, f, p)], NEW p \in Parents(t)
  PROVE  f[p] = ReachedFrom(t, mode, p)
<1> DEFINE bad == {q \in Parents(t) : f[q] # ReachedFrom(t, mode, q)}
           g == [q \in bad |-> Len(q)]
<1> SUFFICES ASSUME bad # {} PROVE FALSE OBVIOUS
<1>1. IsFiniteSet(bad)
  <2>1. bad \in SUBSET Parents(t) OBVIOUS
  <2> HIDE DEF bad
  <2> QED BY <2>1, ParentsAre, FS_Subset
<1>2. g \in [bad -> Nat] BY ParentsAre, LenProperties
<1>3. PICK q \in bad : \A y \in bad : g[y] <= g[q]
  <2> HIDE DEF bad, g
  <2> QED BY <1>1, <1>2, Greatest
<1>4. q \in Parents(t) /\ f[q] # ReachedFrom(t, mode, q) /\ Len(q) \in Nat BY <1>3, ParentsAre, LenProperties
<1>5. ASSUME NEW a \in OpensTo(t, mode, q) PROVE f[a] = ReachedFrom(t, mode, a)
  <2>1. a \in Parents(t) /\ Len(q) < Len(a) BY <1>4, ChevronsOpen
  <2>2. Len(a) \in Nat BY <2>1, ParentsAre, LenProperties
  <2>3. a \in bad => Len(a) <= Len(q) BY <1>3
  <2> QED BY <1>4, <2>1, <2>2, <2>3
<1>6. f[q] = OpenStep(t, mode, f, q) BY <1>4
<1>7. {f[a] : a \in OpensTo(t, mode, q)} = {ReachedFrom(t, mode, a) : a \in OpensTo(t, mode, q)}
  <2> HIDE DEF bad, g
  <2> QED BY <1>5
<1>8. f[q] = ReachedFrom(t, mode, q)
  <2>1. ReachedFrom(t, mode, q) = {q} \cup UNION {ReachedFrom(t, mode, a) : a \in OpensTo(t, mode, q)}
    BY <1>4, ReachedSteps
  <2> QED BY <1>6, <1>7, <2>1, Zenon DEF OpenStep
<1> QED BY <1>4, <1>8

LEMMA OpenedIs ==
  ASSUME NEW t, GoodTrie(t), NEW mode
  PROVE  Opened(t, mode) = ReachedFrom(t, mode, Root)
<1> DEFINE h == [p \in Parents(t) |-> ReachedFrom(t, mode, p)]
<1>1. h = [p \in Parents(t) |-> OpenStep(t, mode, h, p)]
  <2>1. ASSUME NEW p \in Parents(t) PROVE h[p] = OpenStep(t, mode, h, p)
    <3>1. h[p] = {p} \cup UNION {ReachedFrom(t, mode, q) : q \in OpensTo(t, mode, p)} BY ReachedSteps
    <3>2. {h[q] : q \in OpensTo(t, mode, p)} = {ReachedFrom(t, mode, q) : q \in OpensTo(t, mode, p)}
      BY ChevronsOpen
    <3> HIDE DEF h
    <3> QED BY <3>1, <3>2, Zenon DEF OpenStep
  <2> QED BY <2>1
<1> HIDE DEF h
<1> DEFINE Chev(e, p) == {p} \cup UNION {e[q] : q \in Chevrons(t, mode, p)}
<1>2. ASSUME NEW e PROVE [p \in Parents(t) |-> Chev(e, p)] = [p \in Parents(t) |-> OpenStep(t, mode, e, p)]
  <2>1. \A p \in Parents(t) : Chev(e, p) = OpenStep(t, mode, e, p)
    BY ChevronsOpen, Zenon DEF OpenStep
  <2> HIDE DEF Chev
  <2> QED BY <2>1
<1>3. PICK k : k = CHOOSE e : e = [p \in Parents(t) |-> Chev(e, p)] OBVIOUS
<1>4. Opened(t, mode) = k[Root] BY <1>3, Zenon DEF Opened, Parents
<1> HIDE DEF Chev
<1>5. h = [p \in Parents(t) |-> Chev(h, p)] BY <1>1, <1>2, Zenon
<1>6. k = [p \in Parents(t) |-> Chev(k, p)] BY <1>3, <1>5, Zenon
<1>7. k = [p \in Parents(t) |-> OpenStep(t, mode, k, p)] BY <1>2, <1>6, Zenon
<1>8. Root \in Parents(t) BY ParentsAre
<1>9. k[Root] = ReachedFrom(t, mode, Root)
  <2> HIDE <1>2, <1>3, <1>4, <1>5, <1>6
  <2> QED BY <1>7, <1>8, OpenUnique
<1> QED BY <1>4, <1>9

-----------------------------------------------------------------------------
(* Among the opened parents, the row above another one on the way to it    *)
(* ends above it or at it.                                                 *)
OpenSet(t, mode) == ReachedFrom(t, mode, Root)

(* What is opened below the root is the anchor of a row of an opened level.*)
LEMMA OpenedBy ==
  ASSUME NEW t, GoodTrie(t), NEW mode, NEW q \in OpenSet(t, mode), q # Root
  PROVE  \E p \in OpenSet(t, mode) : q \in OpensTo(t, mode, p)
<1> DEFINE O == OpenSet(t, mode)
           S == {x \in O : x = Root \/ \E p \in O : x \in OpensTo(t, mode, p)}
<1>1. Root \in Parents(t) BY ParentsAre
<1>2. Root \in O /\ O \subseteq Parents(t) /\ ClosedUnder(t, mode, O) BY <1>1, ReachedIs DEF OpenSet
<1>3. S \in SUBSET Parents(t) /\ Root \in S BY <1>2
<1>4. ASSUME NEW x \in S, NEW y \in OpensTo(t, mode, x) PROVE y \in S
  <2>1. x \in O OBVIOUS
  <2>2. y \in O BY <1>2, <1>4, <2>1 DEF ClosedUnder
  <2> QED BY <1>4, <2>1, <2>2
<1> HIDE DEF S
<1>5. O \subseteq S
  <2>1. ClosedUnder(t, mode, S) BY <1>4 DEF ClosedUnder
  <2> QED BY <1>1, <1>3, <2>1, ReachedIs DEF OpenSet
<1>6. q \in S BY <1>5
<1> QED BY <1>6 DEF S

LEMMA RowAboveEnds ==
  ASSUME NEW t, GoodTrie(t), NEW mode, GoodMode(mode),
         NEW p \in OpenSet(t, mode), NEW q \in OpenSet(t, mode), Ancestor(p, q), Len(p) < Len(q)
  PROVE  Ancestor(Anchor(t, mode, Cut(q, Len(p) + 1)), q)
<1> DEFINE O == OpenSet(t, mode)
           ends(z, y) == Ancestor(Anchor(t, mode, Cut(y, Len(z) + 1)), y)
           bad == {y \in O : \E z \in O : Ancestor(z, y) /\ Len(z) < Len(y) /\ ~ends(z, y)}
           g == [y \in O |-> Len(y)]
<1>1. Root \in Parents(t) /\ Parents(t) \subseteq Seq(Nat) BY ParentsAre
<1>2. O \subseteq Parents(t) BY <1>1, ReachedIs DEF OpenSet
<1>3. \A y \in O : y \in Seq(Nat) /\ Len(y) \in Nat BY <1>1, <1>2, LenProperties
<1> SUFFICES ASSUME bad # {} PROVE FALSE
  <2>1. ends(p, q) => Ancestor(Anchor(t, mode, Cut(q, Len(p) + 1)), q) OBVIOUS
  <2> HIDE DEF ends
  <2> QED BY <2>1
<1> HIDE DEF ends, O
<1>4. PICK y \in bad : \A v \in bad : Len(y) <= Len(v)
  <2>1. g \in [O -> Nat] BY <1>3
  <2>2. bad \in SUBSET O OBVIOUS
  <2>3. \E x \in bad : \A v \in bad : g[x] <= g[v]
    <3> HIDE DEF bad, g
    <3> QED BY <2>1, <2>2, LeastRank
  <2> QED BY <2>2, <2>3
<1>5. PICK z \in O : Ancestor(z, y) /\ Len(z) < Len(y) /\ ~ends(z, y) OBVIOUS
<1>6. y \in O /\ y \in Seq(Nat) /\ z \in Seq(Nat) /\ Len(y) \in Nat /\ Len(z) \in Nat BY <1>3
<1>7. y # Root BY <1>5, <1>6, RootAbove
<1>8. PICK u \in O : y \in OpensTo(t, mode, u) BY <1>6, <1>7, OpenedBy DEF O
<1>9. PICK x \in ShownKids(t, mode, u) : y = Anchor(t, mode, x) BY <1>8 DEF OpensTo
<1>10. x \in DOMAIN t /\ Len(x) = Len(u) + 1 /\ Ancestor(u, x) /\ u \in Seq(Nat) /\ Len(u) \in Nat
  BY <1>3 DEF ShownKids, Kids, ChildrenIn
<1>11. y \in DOMAIN t /\ Ancestor(x, y) /\ Len(x) <= Len(y) /\ x \in Seq(Nat)
  BY <1>9, <1>10, AnchorAt DEF GoodTrie, OidNodes
<1>12. Cut(y, Len(u) + 1) = x BY <1>6, <1>10, <1>11, AncestorCut
<1>13. Ancestor(u, y) /\ Len(u) < Len(y)
  <2>1. Ancestor(u, y) BY <1>6, <1>10, <1>11, AncestorTrans
  <2> QED BY <1>6, <1>10, <1>11, <2>1
<1>14. CASE Len(z) = Len(u)
  <2>1. Cut(y, Len(z) + 1) = x BY <1>12, <1>14
  <2>2. ends(z, y) BY <1>6, <1>9, <2>1, CutWhole DEF ends
  <2> QED BY <1>5, <2>2
<1>15. CASE Len(z) < Len(u)
  <2>1. Ancestor(z, u) BY <1>5, <1>6, <1>10, <1>13, <1>15, AncestorChain
  <2>2. u \notin bad
    <3>1. u \in bad => Len(y) <= Len(u) BY <1>4
    <3> HIDE DEF bad
    <3> QED BY <1>6, <1>10, <1>13, <3>1
  <2>3. ends(z, u) BY <1>15, <2>1, <2>2
  <2>4. Cut(u, Len(z) + 1) = Cut(y, Len(z) + 1)
    <3>1. Cut(y, Len(u)) = u BY <1>6, <1>10, <1>13, AncestorCut
    <3>2. Len(u) \in 0..Len(y) /\ Len(z) + 1 \in 0..Len(u) BY <1>6, <1>10, <1>13, <1>15
    <3>3. Cut(Cut(y, Len(u)), Len(z) + 1) = Cut(y, Len(z) + 1) BY <1>6, <3>2, CutCut
    <3> QED BY <3>1, <3>3
  <2>5. PICK a : a = Anchor(t, mode, Cut(u, Len(z) + 1)) OBVIOUS
  <2>6. Ancestor(a, u) BY <2>3, <2>5 DEF ends
  <2>7. a \in Seq(Nat)
    <3>1. u # Root BY <1>6, <1>10, <1>15, RootAbove
    <3>2. u \in DOMAIN t BY <1>2, <3>1 DEF Parents
    <3>3. Cut(u, Len(z) + 1) \in DOMAIN t BY <1>6, <1>15, <2>1, <3>2, ChildTowards
    <3> QED BY <2>5, <3>3, AnchorAt
  <2>8. Ancestor(a, y) BY <1>6, <1>10, <1>13, <2>6, <2>7, AncestorTrans
  <2>9. ends(z, y) BY <2>4, <2>5, <2>8 DEF ends
  <2> QED BY <1>5, <2>9
<1>16. CASE Len(u) < Len(z)
  <2>1. z # Root BY <1>6, <1>10, <1>16, RootAbove
  <2>2. PICK v \in O : z \in OpensTo(t, mode, v) BY <2>1, OpenedBy DEF O
  <2>3. PICK w \in ShownKids(t, mode, v) : z = Anchor(t, mode, w) BY <2>2 DEF OpensTo
  <2>4. w \in DOMAIN t BY DEF ShownKids, Kids, ChildrenIn
  <2>5. FoldsInto(t, mode, z) = {} BY <2>3, <2>4, AnchorStops
  <2>6. Len(z) \in Len(x)..(Len(y) - 1) BY <1>5, <1>6, <1>10, <1>16, SMTT(60)
  <2>7. Cut(y, Len(z) + 1) \in FoldsInto(t, mode, Cut(y, Len(z)))
    BY <1>9, <1>10, <2>6, AnchorIs, ChainSays
  <2>8. Cut(y, Len(z)) = z BY <1>5, <1>6, AncestorCut
  <2> QED BY <2>5, <2>7, <2>8
<1> QED BY <1>6, <1>10, <1>14, <1>15, <1>16

LEMMA ExpandedOnce ==
  ASSUME NEW t, GoodTrie(t), NEW mode, GoodMode(mode), NEW o \in DOMAIN t, Shown(t, mode, o)
  PROVE  \E p \in OpenSet(t, mode) : \E x \in ShownKids(t, mode, p) :
           /\ Covers(Row(t, mode, x), o)
           /\ \A q \in OpenSet(t, mode) : \A y \in ShownKids(t, mode, q) :
                Covers(Row(t, mode, y), o) => y = x
<1> DEFINE O == OpenSet(t, mode)
<1>1. Root \in Parents(t) /\ Parents(t) \subseteq Seq(Nat) BY ParentsAre
<1>2. Root \in O /\ O \subseteq Parents(t) /\ ClosedUnder(t, mode, O) BY <1>1, ReachedIs DEF OpenSet
<1>3. o \in Seq(Nat) /\ o # Root /\ Len(o) \in Nat BY LenProperties DEF GoodTrie, OidNodes
<1>4. \A y : /\ Row(t, mode, y).direct = y /\ Row(t, mode, y).anchor = Anchor(t, mode, y)
  BY RowIs
<1>5. \A y : Covers(Row(t, mode, y), o) <=> (Ancestor(y, o) /\ Ancestor(o, Anchor(t, mode, y)))
  BY <1>4, Zenon DEF Covers
<1> HIDE DEF O
<1>6. PICK p \in O : p \in Above(o) /\ \A q \in O : q \in Above(o) => Len(q) <= Len(p)
  <2>1. Root \in Above(o) BY <1>3, AboveNonempty
  <2> QED BY <1>2, <1>3, <2>1, Deepest
<1>7. p \in Seq(Nat) /\ Ancestor(p, o) /\ Len(p) < Len(o) /\ Len(p) \in Nat
  BY <1>3, <1>6, AboveIs, LenProperties
<1>8. PICK x : x = Cut(o, Len(p) + 1) OBVIOUS
<1>9. x \in Kids(t, p) /\ x \in DOMAIN t /\ x \in Seq(Nat) /\ Len(x) = Len(p) + 1 /\ Ancestor(x, o)
  BY <1>7, <1>8, ChildTowards
<1>10. x \in ShownKids(t, mode, p) BY <1>9, ShownAbove DEF ShownKids
<1>11. PICK a : a = Anchor(t, mode, x) OBVIOUS
<1>12. a \in DOMAIN t /\ a \in Seq(Nat) /\ Len(x) <= Len(a) /\ Len(a) \in Nat
  BY <1>9, <1>11, AnchorAt, LenProperties
<1>13. Ancestor(o, a)
  <2> SUFFICES ASSUME ~Ancestor(o, a) PROVE FALSE OBVIOUS
  <2>1. Ancestor(a, o) BY <1>9, <1>11, AnchorOnPath
  <2>2. Len(a) < Len(o)
    <3>1. Len(a) <= Len(o) BY <2>1 DEF Ancestor
    <3>2. Len(a) # Len(o) BY <1>3, <1>12, <2>1, AncestorSame
    <3> QED BY <1>3, <1>12, <3>1, <3>2
  <2>3. PICK c \in Kids(t, a) : c \in DOMAIN t /\ Ancestor(c, o) BY <1>12, <2>1, <2>2, ChildTowards
  <2>4. Expandable(t, mode, a) BY <2>3, ShownAbove DEF Expandable
  <2>5. a \in OpensTo(t, mode, p) BY <1>10, <1>11, <1>12, <2>4 DEF OpensTo
  <2>6. a \in O BY <1>2, <2>5 DEF ClosedUnder
  <2>7. Len(a) <= Len(p) BY <1>3, <1>6, <1>12, <2>1, <2>2, <2>6, AboveIs
  <2> QED BY <1>7, <1>9, <1>12, <2>7
<1>14. Covers(Row(t, mode, x), o) BY <1>5, <1>9, <1>11, <1>13
<1>15. ASSUME NEW q \in O, NEW y \in ShownKids(t, mode, q), Covers(Row(t, mode, y), o)
       PROVE  y = x
  <2>1. q \in Seq(Nat) /\ Len(q) \in Nat BY <1>1, <1>2, LenProperties
  <2>2. y \in DOMAIN t /\ y \in Seq(Nat) /\ Len(y) = Len(q) + 1 /\ Ancestor(q, y)
    BY DEF ShownKids, Kids, ChildrenIn, GoodTrie, OidNodes
  <2>3. Ancestor(y, o) /\ Ancestor(o, Anchor(t, mode, y)) BY <1>5, <1>15
  <2>4. Ancestor(q, o) /\ Len(q) < Len(o) /\ Cut(o, Len(q) + 1) = y
    <3>1. Ancestor(q, o) BY <1>3, <2>1, <2>2, <2>3, AncestorTrans
    <3>2. Len(y) <= Len(o) /\ Cut(o, Len(y)) = y BY <1>3, <2>2, <2>3, AncestorCut
    <3> QED BY <1>3, <2>1, <2>2, <3>1, <3>2
  <2>5. Len(q) <= Len(p) BY <1>3, <1>6, <2>1, <2>4, AboveIs
  <2>6. CASE Len(q) = Len(p) BY <1>8, <2>4, <2>6
  <2>7. CASE Len(q) < Len(p)
    <3>1. Ancestor(q, p) BY <1>3, <1>7, <2>1, <2>4, <2>7, AncestorChain
    <3>2. Cut(p, Len(q) + 1) = y
      <4>1. Cut(o, Len(p)) = p BY <1>3, <1>7, AncestorCut
      <4>2. Len(p) \in 0..Len(o) /\ Len(q) + 1 \in 0..Len(p) BY <1>3, <1>7, <2>1, <2>7
      <4>3. Cut(Cut(o, Len(p)), Len(q) + 1) = Cut(o, Len(q) + 1) BY <1>3, <4>2, CutCut
      <4> QED BY <2>4, <4>1, <4>3
    <3>3. Ancestor(Anchor(t, mode, y), p) BY <2>7, <3>1, <3>2, RowAboveEnds DEF O
    <3>4. Len(Anchor(t, mode, y)) <= Len(p) /\ Len(o) <= Len(Anchor(t, mode, y)) BY <2>3, <3>3 DEF Ancestor
    <3>5. Len(Anchor(t, mode, y)) \in Nat BY <2>2, AnchorAt, LenProperties
    <3> QED BY <1>3, <1>7, <3>4, <3>5
  <2> QED BY <1>7, <2>1, <2>5, <2>6, <2>7
<1> QED BY <1>6, <1>10, <1>14, <1>15 DEF O

LEMMA ExpansionIsComplete ==
  ASSUME NEW t, GoodTrie(t), NEW mode, GoodMode(mode)
  PROVE  ExpansionComplete(t, mode)
<1> DEFINE O == OpenSet(t, mode)
           shown == UNION {WholeLevel(t, mode, p) : p \in Opened(t, mode)}
<1>1. Opened(t, mode) = O BY OpenedIs DEF OpenSet
<1>2. \A p \in O : p \in Seq(Nat) /\ WholeLevel(t, mode, p) = RowsFor(t, mode, ShownKids(t, mode, p))
  BY ParentsAre, ReachedIs, WholeLevelRows DEF OpenSet
<1>3. \A r : r \in shown <=> \E p \in O : \E x \in ShownKids(t, mode, p) : r = Row(t, mode, x)
  <2>1. \A r : r \in shown <=> \E p \in O : r \in WholeLevel(t, mode, p) BY <1>1
  <2> HIDE DEF shown, O
  <2> QED BY <1>2, <2>1 DEF RowsFor
<1> HIDE DEF shown, O
<1>4. ASSUME NEW o \in DOMAIN t, Shown(t, mode, o)
      PROVE  Cardinality({r \in shown : Covers(r, o)}) = 1
  <2>0. PICK p \in O : \E x \in ShownKids(t, mode, p) :
          /\ Covers(Row(t, mode, x), o)
          /\ \A q \in O : \A y \in ShownKids(t, mode, q) : Covers(Row(t, mode, y), o) => y = x
    BY <1>4, ExpandedOnce DEF O
  <2>1. PICK x \in ShownKids(t, mode, p) :
          /\ Covers(Row(t, mode, x), o)
          /\ \A q \in O : \A y \in ShownKids(t, mode, q) : Covers(Row(t, mode, y), o) => y = x
    BY <2>0
  <2>2. {r \in shown : Covers(r, o)} = {Row(t, mode, x)}
    <3>1. Row(t, mode, x) \in shown BY <1>3
    <3>2. ASSUME NEW r \in shown, Covers(r, o) PROVE r = Row(t, mode, x)
      <4>1. PICK q \in O : \E y \in ShownKids(t, mode, q) : r = Row(t, mode, y) BY <1>3
      <4> QED BY <2>1, <3>2, <4>1
    <3> QED BY <2>1, <3>1, <3>2
  <2>3. Cardinality({Row(t, mode, x)}) = 1 BY FS_Singleton
  <2> QED BY <2>2, <2>3
<1>5. ASSUME NEW r \in shown, r.expandable PROVE WholeLevel(t, mode, r.anchor) # {}
  <2>1. PICK p \in O : \E x \in ShownKids(t, mode, p) : r = Row(t, mode, x) BY <1>3
  <2>2. PICK x \in ShownKids(t, mode, p) : r = Row(t, mode, x) BY <2>1
  <2>3. x \in DOMAIN t BY DEF ShownKids, Kids, ChildrenIn
  <2>4. r.anchor = Anchor(t, mode, x) /\ Expandable(t, mode, r.anchor) BY <1>5, <2>2, RowIs
  <2>5. r.anchor \in Seq(Nat) BY <2>3, <2>4, AnchorAt
  <2>6. PICK c \in Kids(t, r.anchor) : Shown(t, mode, c) BY <2>4 DEF Expandable
  <2>7. Row(t, mode, c) \in WholeLevel(t, mode, r.anchor)
    BY <2>5, <2>6, WholeLevelRows DEF RowsFor, ShownKids
  <2> QED BY <2>7
<1> QED BY <1>4, <1>5 DEF ExpansionComplete, shown

-----------------------------------------------------------------------------
(* Rolling up the families.  After n passes a node carries what is seeded  *)
(* up to n arcs below it; OIDs of at most 65 arcs are done in 64.          *)
Treelike(nodes) ==
  /\ nodes \subseteq Seq(Nat)
  /\ \A o \in nodes : \A n \in 1..Len(o) : Cut(o, n) \in nodes
Within(nodes, o, n) == {d \in nodes : Ancestor(o, d) /\ Len(d) <= Len(o) + n}
Gathered(nodes, seed, n) == [o \in nodes |-> UNION {seed[d] : d \in Within(nodes, o, n)}]

LEMMA GatheredIs ==
  ASSUME NEW nodes, NEW seed, NEW n, NEW o \in nodes, NEW x
  PROVE  x \in Gathered(nodes, seed, n)[o] <=> \E d \in Within(nodes, o, n) : x \in seed[d]
BY DEF Gathered

LEMMA GatheredStart ==
  ASSUME NEW nodes, Treelike(nodes), NEW seed, seed = [o \in nodes |-> seed[o]]
  PROVE  Gathered(nodes, seed, 0) = seed
<1>1. ASSUME NEW o \in nodes PROVE UNION {seed[d] : d \in Within(nodes, o, 0)} = seed[o]
  <2>1. o \in Seq(Nat) /\ Len(o) \in Nat /\ Ancestor(o, o) BY CutWhole DEF Treelike
  <2>2. o \in Within(nodes, o, 0) BY <2>1 DEF Within
  <2>3. ASSUME NEW d \in Within(nodes, o, 0) PROVE d = o
    <3>1. d \in Seq(Nat) /\ Ancestor(o, d) /\ Len(d) <= Len(o) + 0 BY DEF Within, Treelike
    <3>2. Len(o) <= Len(d) /\ Len(d) \in Nat BY <3>1, LenProperties DEF Ancestor
    <3>3. Len(o) = Len(d) BY <2>1, <3>1, <3>2
    <3> QED BY <2>1, <3>1, <3>3, AncestorSame
  <2>4. Within(nodes, o, 0) = {o} BY <2>2, <2>3
  <2> QED BY <2>4
<1> QED BY <1>1 DEF Gathered

LEMMA GatheredUp ==
  ASSUME NEW nodes, Treelike(nodes), NEW seed, NEW n \in Nat
  PROVE  OrUp(nodes, Gathered(nodes, seed, n)) = Gathered(nodes, seed, n + 1)
<1> DEFINE G == Gathered(nodes, seed, n)
           H == Gathered(nodes, seed, n + 1)
<1>1. ASSUME NEW o \in nodes
      PROVE  G[o] \cup UNION {G[c] : c \in ChildrenIn(nodes, o)} = H[o]
  <2>0. o \in Seq(Nat) /\ Len(o) \in Nat BY LenProperties DEF Treelike
  <2>1. \A x : x \in G[o] \cup UNION {G[c] : c \in ChildrenIn(nodes, o)}
                 <=> (x \in G[o] \/ \E c \in ChildrenIn(nodes, o) : x \in G[c])
    <3> HIDE DEF G
    <3> QED OBVIOUS
  <2>2. ASSUME NEW x \in G[o] PROVE x \in H[o]
    <3>1. PICK d \in Within(nodes, o, n) : x \in seed[d] BY GatheredIs
    <3>2. d \in Seq(Nat) /\ Len(d) \in Nat BY LenProperties DEF Within, Treelike
    <3>3. d \in Within(nodes, o, n + 1) BY <2>0, <3>2 DEF Within
    <3> QED BY <3>1, <3>3, GatheredIs
  <2>3. ASSUME NEW c \in ChildrenIn(nodes, o), NEW x \in G[c] PROVE x \in H[o]
    <3>1. c \in nodes /\ c \in Seq(Nat) /\ Len(c) = Len(o) + 1 /\ Ancestor(o, c) BY DEF ChildrenIn, Treelike
    <3>2. PICK d \in Within(nodes, c, n) : x \in seed[d] BY <3>1, GatheredIs
    <3>3. d \in nodes /\ d \in Seq(Nat) /\ Len(d) \in Nat /\ Ancestor(c, d) /\ Len(d) <= Len(c) + n
      BY LenProperties DEF Within, Treelike
    <3>4. Ancestor(o, d) BY <2>0, <3>1, <3>3, AncestorTrans
    <3>5. Len(d) <= Len(o) + (n + 1) BY <2>0, <3>1, <3>3
    <3>6. d \in Within(nodes, o, n + 1) BY <3>3, <3>4, <3>5 DEF Within
    <3> QED BY <3>2, <3>6, GatheredIs
  <2>4. ASSUME NEW x \in H[o], x \notin G[o] PROVE \E c \in ChildrenIn(nodes, o) : x \in G[c]
    <3>1. PICK d \in Within(nodes, o, n + 1) : x \in seed[d] BY GatheredIs
    <3>2. d \in nodes /\ d \in Seq(Nat) /\ Len(d) \in Nat /\ Ancestor(o, d) /\ Len(d) <= Len(o) + (n + 1)
      BY LenProperties DEF Within, Treelike
    <3>3. d \notin Within(nodes, o, n) BY <2>4, <3>1, GatheredIs
    <3>4. ~(Len(d) <= Len(o) + n) BY <3>2, <3>3 DEF Within
    <3>5. Len(o) < Len(d) BY <2>0, <3>2, <3>4
    <3>6. PICK c : c = Cut(d, Len(o) + 1) OBVIOUS
    <3>7. c \in Seq(Nat) /\ Len(c) = Len(o) + 1 /\ Ancestor(o, c) /\ Ancestor(c, d)
      BY <2>0, <3>2, <3>5, <3>6, StepTowards
    <3>8. c \in nodes
      <4>1. Len(o) + 1 \in 1..Len(d) BY <2>0, <3>2, <3>5
      <4> QED BY <3>2, <3>6, <4>1 DEF Treelike
    <3>9. c \in ChildrenIn(nodes, o) BY <3>7, <3>8 DEF ChildrenIn
    <3>10. Len(d) <= Len(c) + n BY <2>0, <3>2, <3>7
    <3>11. d \in Within(nodes, c, n) BY <3>2, <3>7, <3>10 DEF Within
    <3>12. x \in G[c] BY <3>1, <3>8, <3>11, GatheredIs
    <3> QED BY <3>9, <3>12
  <2> HIDE DEF G, H
  <2> QED BY <2>1, <2>2, <2>3, <2>4
<1>2. OrUp(nodes, G) = [o \in nodes |-> G[o] \cup UNION {G[c] : c \in ChildrenIn(nodes, o)}]
  BY DEF OrUp
<1>3. H = [o \in nodes |-> H[o]] BY DEF Gathered
<1> HIDE DEF G, H
<1>4. OrUp(nodes, G) = H BY <1>1, <1>2, <1>3
<1> QED BY <1>4 DEF G, H

(* One pass of the recursion, and what its passes are.                     *)
PassOf(nodes, seed, f, n) ==
  IF n = 0 THEN [flags |-> seed, stable |-> FALSE]
  ELSE IF f[n - 1].stable THEN f[n - 1]
       ELSE [flags |-> OrUp(nodes, f[n - 1].flags), stable |-> OrUp(nodes, f[n - 1].flags) = f[n - 1].flags]
Settled(nodes, seed, n) ==
  n # 0 /\ \E k \in 1..n : Gathered(nodes, seed, k) = Gathered(nodes, seed, k - 1)
PassIs(nodes, seed, n) == [flags |-> Gathered(nodes, seed, n), stable |-> Settled(nodes, seed, n)]

(* Once a pass changes nothing, none does.                                 *)
LEMMA SettledStays ==
  ASSUME NEW nodes, Treelike(nodes), NEW seed, NEW m \in Nat, Settled(nodes, seed, m)
  PROVE  Gathered(nodes, seed, m + 1) = Gathered(nodes, seed, m)
<1> DEFINE still == {k \in 0..m : Gathered(nodes, seed, k + 1) = Gathered(nodes, seed, k)}
<1>1. \A k \in Nat : OrUp(nodes, Gathered(nodes, seed, k)) = Gathered(nodes, seed, k + 1)
  BY GatheredUp
<1>2. still # {}
  <2>1. PICK k \in 1..m : Gathered(nodes, seed, k) = Gathered(nodes, seed, k - 1) BY DEF Settled
  <2>2. k - 1 \in 0..m /\ (k - 1) + 1 = k OBVIOUS
  <2>3. k - 1 \in still BY <2>1, <2>2
  <2> QED BY <2>3
<1>3. PICK k \in still : \A j \in still : j <= k
  <2>1. IsFiniteSet(still)
    <3>1. IsFiniteSet(0..m) BY FS_Interval
    <3>2. still \in SUBSET (0..m) OBVIOUS
    <3> HIDE DEF still
    <3> QED BY <3>1, <3>2, FS_Subset
  <2> DEFINE h == [j \in still |-> j]
  <2>2. h \in [still -> Nat] OBVIOUS
  <2>3. \E x \in still : \A y \in still : h[y] <= h[x]
    <3> HIDE DEF h, still
    <3> QED BY <1>2, <2>1, <2>2, Greatest
  <2> QED BY <2>3
<1>4. k = m
  <2> SUFFICES ASSUME k # m PROVE FALSE OBVIOUS
  <2>1. k \in Nat /\ k + 1 \in Nat /\ k + 1 \in 0..m BY <1>3
  <2>2. Gathered(nodes, seed, (k + 1) + 1) = Gathered(nodes, seed, k + 1)
    <3>1. Gathered(nodes, seed, k + 1) = Gathered(nodes, seed, k) BY <1>3
    <3>2. OrUp(nodes, Gathered(nodes, seed, k + 1)) = Gathered(nodes, seed, (k + 1) + 1) BY <1>1, <2>1
    <3>3. OrUp(nodes, Gathered(nodes, seed, k)) = Gathered(nodes, seed, k + 1) BY <1>1, <2>1
    <3> QED BY <3>1, <3>2, <3>3
  <2>3. k + 1 \in still BY <2>1, <2>2
  <2>4. k + 1 <= k BY <1>3, <2>3
  <2> QED BY <2>1, <2>4
<1> QED BY <1>3, <1>4

LEMMA PassGoesOn ==
  ASSUME NEW nodes, Treelike(nodes), NEW seed, seed = [o \in nodes |-> seed[o]],
         NEW f, NEW n \in Nat, n # 0 => f[n - 1] = PassIs(nodes, seed, n - 1)
  PROVE  PassOf(nodes, seed, f, n) = PassIs(nodes, seed, n)
<1>1. CASE n = 0
  <2>1. Settled(nodes, seed, n) = FALSE BY <1>1 DEF Settled
  <2>2. Gathered(nodes, seed, n) = seed BY <1>1, GatheredStart
  <2> QED BY <1>1, <2>1, <2>2 DEF PassOf, PassIs
<1>2. CASE n # 0
  <2>0. PICK m \in Nat : n = m + 1 /\ n - 1 = m
    <3>1. n - 1 \in Nat /\ n = (n - 1) + 1 BY <1>2
    <3> QED BY <3>1
  <2>1. PICK F : F = Gathered(nodes, seed, m) OBVIOUS
  <2>2. PICK U : U = Gathered(nodes, seed, n) OBVIOUS
  <2>3. OrUp(nodes, F) = U BY <2>0, <2>1, <2>2, GatheredUp
  <2>4. f[m] = PassIs(nodes, seed, m) BY <1>2, <2>0
  <2>5. f[m].flags = F /\ f[m].stable = Settled(nodes, seed, m) BY <2>1, <2>4 DEF PassIs
  <2>6. PassOf(nodes, seed, f, n) = IF f[m].stable THEN f[m] ELSE [flags |-> U, stable |-> U = F]
    BY <1>2, <2>0, <2>3, <2>5, Zenon DEF PassOf
  <2>7. PassIs(nodes, seed, n) = [flags |-> U, stable |-> Settled(nodes, seed, n)] BY <2>2 DEF PassIs
  <2>8. CASE Settled(nodes, seed, m)
    <3>1. U = F BY <2>0, <2>1, <2>2, <2>8, SettledStays
    <3>2. Settled(nodes, seed, n) = TRUE
      <4>1. PICK k \in 1..m : Gathered(nodes, seed, k) = Gathered(nodes, seed, k - 1) BY <2>8 DEF Settled
      <4>2. k \in 1..n BY <2>0
      <4> QED BY <1>2, <4>1, <4>2 DEF Settled
    <3>3. f[m] = [flags |-> F, stable |-> Settled(nodes, seed, m)] BY <2>1, <2>4 DEF PassIs
    <3>4. Settled(nodes, seed, m) = TRUE BY <2>8 DEF Settled
    <3>5. PassOf(nodes, seed, f, n) = f[m] BY <2>5, <2>6, <2>8
    <3> QED BY <2>7, <3>1, <3>2, <3>3, <3>4, <3>5
  <2>9. CASE ~Settled(nodes, seed, m)
    <3>1. PassOf(nodes, seed, f, n) = [flags |-> U, stable |-> U = F] BY <2>5, <2>6, <2>9
    <3>2. Settled(nodes, seed, n) <=> U = F
      <4>1. ASSUME U = F PROVE Settled(nodes, seed, n)
        <5>1. n \in 1..n /\ Gathered(nodes, seed, n) = Gathered(nodes, seed, n - 1)
          BY <1>2, <2>0, <2>1, <2>2, <4>1
        <5> QED BY <1>2, <5>1 DEF Settled
      <4>2. ASSUME Settled(nodes, seed, n) PROVE U = F
        <5>1. PICK k \in 1..n : Gathered(nodes, seed, k) = Gathered(nodes, seed, k - 1) BY <4>2 DEF Settled
        <5>2. CASE k = n BY <2>0, <2>1, <2>2, <5>1, <5>2
        <5>3. CASE k # n
          <6>1. k \in 1..m /\ m # 0 BY <2>0, <5>3
          <6> QED BY <2>9, <5>1, <6>1 DEF Settled
        <5> QED BY <5>2, <5>3
      <4> QED BY <4>1, <4>2
    <3>3. Settled(nodes, seed, n) \in BOOLEAN /\ (U = F) \in BOOLEAN BY DEF Settled
    <3>4. Settled(nodes, seed, n) = (U = F) BY <3>2, <3>3, Zenon
    <3> QED BY <2>7, <3>1, <3>4, Zenon
  <2> QED BY <2>8, <2>9
<1> QED BY <1>1, <1>2

LEMMA PassUnique ==
  ASSUME NEW nodes, Treelike(nodes), NEW seed, seed = [o \in nodes |-> seed[o]],
         NEW f, f = [n \in 0..64 |-> PassOf(nodes, seed, f, n)]
  PROVE  f[64].flags = Gathered(nodes, seed, 64)
<1> DEFINE bad == {n \in 0..64 : f[n] # PassIs(nodes, seed, n)}
           g == [n \in 0..64 |-> n]
<1>1. bad = {}
  <2> SUFFICES ASSUME bad # {} PROVE FALSE OBVIOUS
  <2>1. PICK n \in bad : \A m \in bad : n <= m
    <3>1. g \in [0..64 -> Nat] /\ bad \in SUBSET (0..64) OBVIOUS
    <3>2. \E x \in bad : \A y \in bad : g[x] <= g[y]
      <4> HIDE DEF bad, g
      <4> QED BY <3>1, LeastRank
    <3>3. \A x \in bad : g[x] = x OBVIOUS
    <3> HIDE DEF bad, g
    <3> QED BY <3>2, <3>3
  <2>2. n \in 0..64 /\ n \in Nat OBVIOUS
  <2>3. n # 0 => f[n - 1] = PassIs(nodes, seed, n - 1)
    <3>1. n # 0 => n - 1 \in 0..64 /\ ~(n <= n - 1) BY <2>2
    <3>2. n # 0 => n - 1 \notin bad BY <2>1, <3>1
    <3> QED BY <3>1, <3>2
  <2>4. f[n] = PassOf(nodes, seed, f, n) BY <2>2
  <2>5. f[n] = PassIs(nodes, seed, n) BY <2>2, <2>3, <2>4, PassGoesOn
  <2> QED BY <2>1, <2>5
<1>2. 64 \in 0..64 OBVIOUS
<1>3. f[64] = PassIs(nodes, seed, 64) BY <1>1, <1>2, SMTT(60)
<1> QED BY <1>3 DEF PassIs

LEMMA RollUpIs ==
  ASSUME NEW nodes, Treelike(nodes), NEW seed, seed = [o \in nodes |-> seed[o]]
  PROVE  RollUp(nodes, seed) = Gathered(nodes, seed, 64)
<1> DEFINE h == [n \in 0..64 |-> PassIs(nodes, seed, n)]
<1>1. h = [n \in 0..64 |-> PassOf(nodes, seed, h, n)]
  <2>1. ASSUME NEW n \in 0..64 PROVE h[n] = PassOf(nodes, seed, h, n)
    <3>1. n \in Nat /\ (n # 0 => n - 1 \in 0..64) OBVIOUS
    <3>2. n # 0 => h[n - 1] = PassIs(nodes, seed, n - 1) BY <3>1
    <3>3. h[n] = PassIs(nodes, seed, n) OBVIOUS
    <3> HIDE DEF h
    <3> QED BY <3>1, <3>2, <3>3, PassGoesOn
  <2> QED BY <2>1
<1> HIDE DEF h
<1>2. PICK f : f = CHOOSE e : e = [n \in 0..64 |-> PassOf(nodes, seed, e, n)] OBVIOUS
<1>3. f = [n \in 0..64 |-> PassOf(nodes, seed, f, n)] BY <1>1, <1>2, Zenon
<1>4. RollUp(nodes, seed) = f[64].flags BY <1>2, Zenon DEF RollUp, PassOf
<1>5. f[64].flags = Gathered(nodes, seed, 64)
  <2> HIDE <1>1, <1>2
  <2> QED BY <1>3, PassUnique
<1> QED BY <1>4, <1>5

-----------------------------------------------------------------------------
(* The trie of a symbol table whose OIDs have at most 65 arcs.             *)
Table(symbols) ==
  IsFiniteSet(symbols) /\ \A s \in symbols : s.oid \in Seq(Nat) /\ Len(s.oid) <= 65

LEMMA NodesTreelike ==
  ASSUME NEW symbols, Table(symbols), NEW nodes, nodes = Nodes(symbols)
  PROVE  /\ Treelike(nodes) /\ Root \notin nodes
         /\ \A o \in nodes : Len(o) \in 1..65
<1>1. \A o : o \in nodes <=> \E s \in Browsable(symbols) : \E n \in 1..Len(s.oid) : o = Cut(s.oid, n)
  BY DEF Nodes, Cut
<1>2. \A s \in Browsable(symbols) : s.oid \in Seq(Nat) /\ Len(s.oid) \in Nat /\ Len(s.oid) <= 65
  BY LenProperties DEF Browsable, Table
<1>3. ASSUME NEW o \in nodes
      PROVE  /\ o \in Seq(Nat) /\ Len(o) \in 1..65 /\ o # Root
             /\ \A m \in 1..Len(o) : Cut(o, m) \in nodes
  <2>1. PICK s \in Browsable(symbols) : \E n \in 1..Len(s.oid) : o = Cut(s.oid, n) BY <1>1
  <2>2. PICK n \in 1..Len(s.oid) : o = Cut(s.oid, n) BY <2>1
  <2>3. PICK k \in Nat : k = Len(s.oid) /\ k <= 65 BY <1>2
  <2>4. n \in 0..Len(s.oid) /\ n \in Nat /\ 1 <= n /\ n <= 65 BY <2>3
  <2>5. s.oid \in Seq(Nat) BY <1>2
  <2>6. o \in Seq(Nat) /\ Len(o) = n BY <2>2, <2>4, <2>5, CutOf
  <2>7. Len(o) \in 1..65 BY <2>4, <2>6
  <2>8. o # Root
    <3>1. Len(Root) = 0 /\ 0 \notin 1..65 BY DEF Root
    <3> QED BY <2>7, <3>1, Zenon
  <2>9. ASSUME NEW m \in 1..Len(o) PROVE Cut(o, m) \in nodes
    <3>1. m \in 0..n /\ m \in 1..Len(s.oid) BY <2>3, <2>6
    <3>2. Cut(Cut(s.oid, n), m) = Cut(s.oid, m) BY <2>4, <2>5, <3>1, CutCut
    <3> QED BY <1>1, <2>2, <3>1, <3>2
  <2> QED BY <2>6, <2>7, <2>8, <2>9
<1>4. Root \notin nodes BY <1>3
<1>5. nodes \subseteq Seq(Nat) BY <1>3
<1>6. \A o \in nodes : \A n \in 1..Len(o) : Cut(o, n) \in nodes BY <1>3, Zenon
<1>7. \A o \in nodes : Len(o) \in 1..65 BY <1>3, Zenon
<1> QED BY <1>4, <1>5, <1>6, <1>7, Zenon DEF Treelike

LEMMA ArcsInReach == \A k, l \in 1..65 : k <= l + 64 OBVIOUS

LEMMA TrieIsGood ==
  ASSUME NEW symbols, Table(symbols)
  PROVE  GoodTrie(Trie(symbols))
<1> DEFINE nodes == Nodes(symbols)
           seed == [o \in nodes |-> UNION {Family(s.kind) : s \in Winners(symbols, o)}]
           t == Trie(symbols)
<1>1. PICK all : all = RollUp(nodes, seed) OBVIOUS
<1>2. t = [o \in nodes |-> [owner    |-> Winners(symbols, o),
                            children |-> Cardinality(ChildrenIn(nodes, o)),
                            families |-> all[o]]]
  BY <1>1, Zenon DEF Trie
<1>3. OidNodes(t)
  <2>1. OidTable(symbols) BY DEF Table, OidTable
  <2> QED BY <2>1, TrieNodes
<1>4. Treelike(nodes) /\ Root \notin nodes /\ \A o \in nodes : Len(o) \in 1..65 BY NodesTreelike
<1>5. seed = [o \in nodes |-> seed[o]] OBVIOUS
<1> HIDE DEF seed, t, nodes
<1>6. all = Gathered(nodes, seed, 64) BY <1>1, <1>4, <1>5, RollUpIs
<1>7. /\ DOMAIN t = nodes
      /\ \A o \in nodes : t[o].children = Cardinality(ChildrenIn(nodes, o)) /\ t[o].families = all[o]
  BY <1>2
<1>8. \A o : Kids(t, o) = ChildrenIn(nodes, o) BY <1>7 DEF Kids
<1>9. ASSUME NEW p \in nodes, NEW o \in nodes, Ancestor(p, o)
      PROVE  all[o] \subseteq all[p]
  <2> SUFFICES ASSUME NEW x \in all[o] PROVE x \in all[p] OBVIOUS
  <2>1. PICK d \in Within(nodes, o, 64) : x \in seed[d] BY <1>6, GatheredIs
  <2>2. d \in nodes /\ Ancestor(o, d) BY DEF Within
  <2>3. Ancestor(p, d) BY <1>4, <1>9, <2>2, AncestorTrans DEF Treelike
  <2>4. Len(d) <= Len(p) + 64
    <3>1. Len(d) \in 1..65 /\ Len(p) \in 1..65 BY <1>4, <2>2
    <3> QED BY <3>1, ArcsInReach
  <2>5. d \in Within(nodes, p, 64) BY <2>2, <2>3, <2>4 DEF Within
  <2> QED BY <1>6, <2>1, <2>5, GatheredIs
<1>10. GoodTrie(t)
  BY <1>3, <1>4, <1>7, <1>8, <1>9 DEF GoodTrie, Treelike
<1> QED BY <1>10 DEF t

-----------------------------------------------------------------------------
(* The stored symbols are finitely many of those a module defines.         *)
ViewInv == rows \in SUBSET Symbols /\ IsFiniteSet(rows)

LEMMA ViewStep == ViewInv /\ [ViewNext]_rows => ViewInv'
<1> SUFFICES ASSUME ViewInv, [ViewNext]_rows PROVE ViewInv' OBVIOUS
<1>1. CASE UNCHANGED rows BY <1>1 DEF ViewInv
<1>2. CASE ViewNext
  <2>1. PICK m \in {s.module : s \in Symbols} :
          \E new \in SUBSET {s \in Symbols : s.module = m} : IsFiniteSet(new) /\ ReplaceRows(m, new)
    BY <1>2 DEF ViewNext
  <2>2. PICK new \in SUBSET {s \in Symbols : s.module = m} : IsFiniteSet(new) /\ ReplaceRows(m, new)
    BY <2>1
  <2>3. PICK kept : kept = {s \in rows : s.module # m} OBVIOUS
  <2>4. kept \in SUBSET rows BY <2>3
  <2>5. IsFiniteSet(kept) BY <2>4, FS_Subset DEF ViewInv
  <2>6. rows' = kept \cup new BY <2>2, <2>3 DEF ReplaceRows
  <2>7. IsFiniteSet(kept \cup new) BY <2>2, <2>5, FS_Union
  <2> QED BY <2>4, <2>6, <2>7 DEF ViewInv
<1> QED BY <1>1, <1>2

LEMMA ViewTrie == ViewInv => GoodTrie(Trie(rows))
<1>1. ViewInv => Table(rows) BY ViewAssumption DEF ViewInv, Table
<1> QED BY <1>1, TrieIsGood

(* For any symbols with OIDs of at most 65 arcs, modes and page sizes: the *)
(* spine of a focus has the row that shows it, or shows the deepest of its *)
(* containers that the mode shows, on a page that the spine reads          *)
(* (SpinePages, foldChildren).                                             *)
THEOREM SpinesShow == ViewSpec => []SpinesShowFocus
<1>1. ViewInit => ViewInv BY FS_EmptySet DEF ViewInit, ViewInv
<1>2. ViewInv => SpinesShowFocus
  <2> SUFFICES ASSUME ViewInv, NEW t, t = Trie(rows), NEW mode \in Modes, NEW focus \in DOMAIN t,
                      NEW limit \in PageSizes
               PROVE  SpineShowsFocus(t, mode, focus, limit)
    BY DEF SpinesShowFocus
  <2>1. GoodMode(mode) /\ limit \in Nat \ {0} BY ViewAssumption DEF GoodMode
  <2>2. GoodTrie(t) BY ViewTrie
  <2> QED BY <2>1, <2>2, SpineShows
<1> QED BY <1>1, <1>2, ViewStep, PTL DEF ViewSpec

(* Expanding every chevron renders every node that the mode shows in       *)
(* exactly one row, and none of them opens an empty level (foldChildren).  *)
THEOREM TreesExpandFully == ViewSpec => []TreesExpand
<1>1. ViewInit => ViewInv BY FS_EmptySet DEF ViewInit, ViewInv
<1>2. ViewInv => TreesExpand
  <2> SUFFICES ASSUME ViewInv, NEW mode \in Modes PROVE ExpansionComplete(Trie(rows), mode)
    BY DEF TreesExpand
  <2>1. GoodMode(mode) BY ViewAssumption DEF GoodMode
  <2> QED BY <2>1, ViewTrie, ExpansionIsComplete
<1> QED BY <1>1, <1>2, ViewStep, PTL DEF ViewSpec
=============================================================================

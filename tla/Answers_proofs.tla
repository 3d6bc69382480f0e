----------------------------- MODULE Answers_proofs -----------------------------
(***************************************************************************)
(* Proofs about answers of the server: the event configuration that it     *)
(* exports of a module's notifications, the results of a search, the lines *)
(* of a pasted walk, the instance suffixes of simulated traps, and the     *)
(* rows of the store that answers are made of.                             *)
(***************************************************************************)
EXTENDS AlarmExport, Search, WalkText, TrapIndex, Convert, SequenceTheorems, FiniteSetTheorems,
  WellFoundedInduction, TLAPS

-----------------------------------------------------------------------------
(* Pairs of notifications. *)

LEMMA InUnion ==
  ASSUME NEW S, NEW x
  PROVE  x \in UNION S <=> \E s \in S : x \in s
OBVIOUS

LEMMA PartnersPair ==
  ASSUME NEW pairs, NEW n, NEW r
  PROVE  r \in Partners(pairs, n) <=> \E p \in PairsOf(pairs, n) : r \in {p[1], p[2]} /\ r # n
<1> DEFINE ends == {{p[1], p[2]} : p \in PairsOf(pairs, n)}
<1>1. r \in Partners(pairs, n) <=> r \in UNION ends /\ r # n BY DEF Partners
<1>2. r \in UNION ends <=> \E s \in ends : r \in s BY InUnion, Zenon
<1>3. (\E s \in ends : r \in s) <=> \E p \in PairsOf(pairs, n) : r \in {p[1], p[2]} OBVIOUS
<1> HIDE DEF ends
<1> QED BY <1>1, <1>2, <1>3

LEMMA PartnersMutual ==
  ASSUME NEW pairs, NEW N, pairs \subseteq N \X N, NEW c, NEW r, r \in Partners(pairs, c)
  PROVE  c \in Partners(pairs, r) /\ r \in N /\ c \in N /\ r # c
<1>1. PICK p \in PairsOf(pairs, c) : r \in {p[1], p[2]} /\ r # c
  BY PartnersPair
<1>2. p \in pairs /\ c \in {p[1], p[2]} BY <1>1 DEF PairsOf
<1>3. p \in PairsOf(pairs, r) BY <1>1, <1>2 DEF PairsOf
<1>4. c \in {p[1], p[2]} \ {r} BY <1>1, <1>2
<1>5. p[1] \in N /\ p[2] \in N BY <1>2
<1>7. c \in Partners(pairs, r) BY <1>1, <1>3, <1>4, PartnersPair
<1>8. r \in N /\ c \in N /\ r # c BY <1>1, <1>2, <1>5
<1> QED BY <1>7, <1>8

(* Who is a clear is the second of its pairs, so its partners are raises.  *)
LEMMA PartnerRaises ==
  ASSUME NEW pairs, NEW c, NEW r, Class(pairs, c) = "clear", r \in Partners(pairs, c)
  PROVE  Class(pairs, r) = "raise"
<1>1. PICK p \in PairsOf(pairs, c) : r \in {p[1], p[2]} /\ r # c
  BY PartnersPair
<1>2. p \in pairs /\ c \in {p[1], p[2]} BY <1>1 DEF PairsOf
<1>3. PairsOf(pairs, c) # {} /\ ~\E q \in PairsOf(pairs, c) : q[1] = c
  BY <1>1 DEF Class
<1>4. p[1] = r BY <1>1, <1>2, <1>3
<1>5. p \in PairsOf(pairs, r) BY <1>2, <1>4 DEF PairsOf
<1> QED BY <1>4, <1>5 DEF Class

(* Only one partner leaves the confidence high. *)
LEMMA HighAlone ==
  ASSUME NEW partners, NEW signals, NEW n, IsFiniteSet(partners),
         Confidence(partners, signals, n) = "high", NEW r \in partners
  PROVE  partners = {r}
<1>1. partners # {} OBVIOUS
<1>2. ~Capped(partners, signals, n) BY <1>1 DEF Confidence
<1>3. Cardinality(partners) \in Nat /\ Cardinality(partners) <= 1
  BY <1>2, FS_CardinalityType DEF Capped
<1>4. ASSUME NEW s \in partners, s # r PROVE FALSE
  <2>1. IsFiniteSet({r}) /\ Cardinality({r}) = 1 BY FS_Singleton
  <2>2. Cardinality({r} \cup {s}) = 2 BY <1>4, <2>1, FS_AddElement
  <2>3. {r} \cup {s} \subseteq partners BY <1>4
  <2>4. Cardinality({r} \cup {s}) <= Cardinality(partners) BY <2>3, FS_Subset
  <2> QED BY <1>3, <2>2, <2>4
<1> QED BY <1>4

(* Two High members of a pair have no other partner.                       *)
LEMMA HighPair ==
  ASSUME NEW N, IsFiniteSet(N), NEW R, R = Relationships(N), NEW c \in N, NEW r \in R[c].partners,
         R[c].class = "clear", R[c].confidence = "high", R[r].confidence = "high"
  PROVE  /\ r \in N /\ r # c /\ R[c].partners = {r} /\ R[r].class = "raise"
         /\ \A d \in N : r \in R[d].partners => d = c
<1> DEFINE pairs == Pairs(N)
<1>0. pairs \subseteq N \X N BY DEF Pairs
<1> HIDE DEF pairs
<1>1. \A n \in N : /\ R[n].class = Class(pairs, n) /\ R[n].partners = Partners(pairs, n)
                   /\ R[n].confidence = Confidence(Partners(pairs, n), Signals(N, pairs, n), n)
  BY DEF Relationships, pairs
<1>2. r \in Partners(pairs, c) BY <1>1
<1>3. r \in N /\ r # c /\ c \in Partners(pairs, r) BY <1>0, <1>2, PartnersMutual
<1>4. \A n \in N : IsFiniteSet(Partners(pairs, n))
  <2>1. \A n \in N : Partners(pairs, n) \subseteq N BY <1>0, PartnersMutual
  <2> QED BY <2>1, FS_Subset
<1>5. Partners(pairs, c) = {r} BY <1>1, <1>2, <1>4, HighAlone
<1>6. Partners(pairs, r) = {c} BY <1>1, <1>3, <1>4, HighAlone
<1>7. R[r].class = "raise" BY <1>1, <1>2, <1>3, PartnerRaises
<1>8. ASSUME NEW d \in N, r \in R[d].partners PROVE d = c
  <2>1. r \in Partners(pairs, d) BY <1>1, <1>8
  <2>2. d \in Partners(pairs, r) BY <1>0, <2>1, PartnersMutual
  <2> QED BY <1>6, <2>2
<1> QED BY <1>1, <1>3, <1>5, <1>7, <1>8

-----------------------------------------------------------------------------
(* The rows of the tables, attached to the notifications that were listed. *)
NamesOf(S) == {n.name : n \in S}
OneName(S) == \A n, m \in S : n.name = m.name => n = m
Shaped(S) ==
  \A n \in S : n.name \in Nat /\ Len(n.objects) \in Nat /\ DOMAIN n.objects = 1..Len(n.objects)

(* A notification has the row of the stored one with its name.             *)
RowOf(rel, n, R, x) == rel[n].class = R[x].class /\ rel[n].confidence = R[x].confidence

LEMMA EditionShaped ==
  ASSUME NEW N \in Modules
  PROVE  IsFiniteSet(N) /\ Shaped(N) /\ OneName(N) /\ NamesOf(N) \subseteq Nat
BY ExportAssumption DEF Shaped, OneName, NamesOf

LEMMA RowNamed ==
  ASSUME NEW N, OneName(N), NEW R, R = Relationships(N), NEW rows, rows = RelationshipRows(N)
  PROVE  /\ DOMAIN rows = NamesOf(N)
         /\ \A x \in N : rows[x.name] = [class |-> R[x].class, confidence |-> R[x].confidence]
<1>1. DOMAIN rows = NamesOf(N) BY DEF RelationshipRows, NamesOf
<1>2. ASSUME NEW x \in N
      PROVE  rows[x.name] = [class |-> R[x].class, confidence |-> R[x].confidence]
  <2>1. PICK y : y = CHOOSE n \in N : n.name = x.name OBVIOUS
  <2>2. y \in N /\ y.name = x.name BY <2>1, Zenon
  <2>3. y = x BY <2>2 DEF OneName
  <2>4. x.name \in {n.name : n \in N} OBVIOUS
  <2>5. rows[x.name] = [class |-> R[y].class, confidence |-> R[y].confidence]
    BY <2>1, <2>4 DEF RelationshipRows
  <2> QED BY <2>3, <2>5
<1> QED BY <1>1, <1>2

LEMMA PairNamed ==
  ASSUME NEW N, NEW R, R = Relationships(N), NEW a, NEW b, <<a, b>> \in PairRows(N)
  PROVE  \E x, y \in N : x.name = a /\ y.name = b /\ R[x].class = "clear" /\ y \in R[x].partners
<1>1. PICK p \in N \X N : R[p[2]].class = "clear" /\ p[1] \in R[p[2]].partners /\ <<a, b>> = <<p[2].name, p[1].name>>
  BY DEF PairRows
<1>2. p[1] \in N /\ p[2] \in N /\ p[2].name = a /\ p[1].name = b BY <1>1
<1> QED BY <1>1, <1>2

LEMMA AttachedNames ==
  ASSUME NEW L, OneName(L), Shaped(L), NEW rows, DOMAIN rows \subseteq Nat,
         NEW pairs, NEW rel, rel = Attached(L, rows, pairs)
  PROVE  /\ OneName(DOMAIN rel) /\ Shaped(DOMAIN rel) /\ L \subseteq DOMAIN rel
         /\ \A n \in DOMAIN rel : /\ rel[n].partners = {r \in DOMAIN rel : <<n.name, r.name>> \in pairs}
                                  /\ n.name \in DOMAIN rows => /\ rel[n].class = rows[n.name].class
                                                               /\ rel[n].confidence = rows[n.name].confidence
                                  /\ n.name \notin DOMAIN rows => rel[n].class = "none"
                                  /\ rel[n].listed <=> n \in L
         /\ NamesOf(DOMAIN rel) = NamesOf(L) \cup DOMAIN rows
<1> DEFINE unlisted == {[name |-> m, objects |-> <<>>] : m \in DOMAIN rows \ {n.name : n \in L}}
           all == L \cup unlisted
           row(n) == IF n.name \in DOMAIN rows THEN rows[n.name] ELSE [class |-> "none", confidence |-> "none"]
<1>1. rel = [n \in all |-> [listed |-> n \in L, class |-> row(n).class, confidence |-> row(n).confidence,
                            partners |-> {r \in all : <<n.name, r.name>> \in pairs}]]
  BY DEF Attached
<1>2. DOMAIN rel = all BY <1>1
<1>3. \A n \in all : /\ rel[n].listed = (n \in L) /\ rel[n].class = row(n).class
                     /\ rel[n].confidence = row(n).confidence
                     /\ rel[n].partners = {r \in all : <<n.name, r.name>> \in pairs}
  BY <1>1
<1>4. \A n \in unlisted : n.name \in DOMAIN rows /\ n.name \notin NamesOf(L) /\ n.objects = <<>>
                          /\ n = [name |-> n.name, objects |-> <<>>]
  BY DEF NamesOf
<1>5. OneName(all)
  <2> HIDE DEF unlisted
  <2> SUFFICES ASSUME NEW n \in all, NEW m \in all, n.name = m.name PROVE n = m BY DEF OneName
  <2>1. CASE n \in L /\ m \in L BY <2>1 DEF OneName
  <2>2. CASE n \in L /\ m \in unlisted BY <1>4, <2>2 DEF NamesOf
  <2>3. CASE n \in unlisted /\ m \in L BY <1>4, <2>3 DEF NamesOf
  <2>4. CASE n \in unlisted /\ m \in unlisted BY <1>4, <2>4
  <2> QED BY <2>1, <2>2, <2>3, <2>4
<1>6. Shaped(all)
  <2> HIDE DEF unlisted
  <2>1. \A n \in unlisted : n.name \in Nat BY <1>4
  <2>2. \A n \in unlisted : Len(n.objects) = 0 /\ DOMAIN n.objects = 1..0 BY <1>4
  <2> QED BY <2>1, <2>2 DEF Shaped
<1>7. NamesOf(all) = NamesOf(L) \cup DOMAIN rows
  <2>1. NamesOf(unlisted) = DOMAIN rows \ NamesOf(L)
    <3>1. ASSUME NEW m \in DOMAIN rows \ NamesOf(L) PROVE m \in NamesOf(unlisted)
      <4>1. PICK n : n = [name |-> m, objects |-> <<>>] OBVIOUS
      <4>2. n \in unlisted /\ n.name = m BY <3>1, <4>1 DEF NamesOf
      <4> HIDE DEF unlisted
      <4> QED BY <4>2 DEF NamesOf
    <3>2. NamesOf(unlisted) \subseteq DOMAIN rows \ NamesOf(L)
      <4> HIDE DEF unlisted
      <4> QED BY <1>4 DEF NamesOf
    <3> QED BY <3>1, <3>2
  <2>2. NamesOf(all) = NamesOf(L) \cup NamesOf(unlisted)
    <3> HIDE DEF unlisted
    <3> QED BY DEF NamesOf
  <2> QED BY <2>1, <2>2
<1>8. \A n \in all : n.name \in DOMAIN rows => row(n) = rows[n.name] OBVIOUS
<1>9. \A n \in all : n.name \notin DOMAIN rows => row(n).class = "none" OBVIOUS
<1> HIDE DEF all, row
<1> QED BY <1>2, <1>3, <1>5, <1>6, <1>7, <1>8, <1>9 DEF all

(* Rows and pairs of one edition: who is attached as a High clear has one  *)
(* High partner, a raise, and is its only one.                             *)
Paired(rel, c, r) ==
  /\ r \in DOMAIN rel /\ r # c /\ HighClears(rel, c) = {r} /\ HighClears(rel, r) = {} /\ AlarmType(rel, r) = "raise"
  /\ \A d \in DOMAIN rel : r \in HighClears(rel, d) => d = c

LEMMA HighClearPaired ==
  ASSUME NEW N \in Modules, NEW L, OneName(L), Shaped(L),
         NEW rel, rel = Attached(L, RelationshipRows(N), PairRows(N)),
         NEW c \in DOMAIN rel, NEW r \in HighClears(rel, c)
  PROVE  Paired(rel, c, r)
<1>0. PICK R : R = Relationships(N) OBVIOUS
<1>1. PICK rows : rows = RelationshipRows(N) OBVIOUS
<1>2. IsFiniteSet(N) /\ OneName(N) /\ NamesOf(N) \subseteq Nat BY EditionShaped
<1>3. /\ DOMAIN rows = NamesOf(N)
      /\ \A x \in N : rows[x.name] = [class |-> R[x].class, confidence |-> R[x].confidence]
  BY <1>0, <1>1, <1>2, RowNamed
<1>4. /\ OneName(DOMAIN rel)
      /\ \A n \in DOMAIN rel : rel[n].partners = {q \in DOMAIN rel : <<n.name, q.name>> \in PairRows(N)}
      /\ \A n \in DOMAIN rel : n.name \in DOMAIN rows => /\ rel[n].class = rows[n.name].class
                                                         /\ rel[n].confidence = rows[n.name].confidence
  BY <1>1, <1>2, <1>3, AttachedNames
<1>5. \A n \in DOMAIN rel, x \in N : n.name = x.name => RowOf(rel, n, R, x)
  <2> SUFFICES ASSUME NEW n \in DOMAIN rel, NEW x \in N, n.name = x.name PROVE RowOf(rel, n, R, x) OBVIOUS
  <2>1. n.name \in DOMAIN rows BY <1>3 DEF NamesOf
  <2>2. rel[n].class = rows[x.name].class /\ rel[n].confidence = rows[x.name].confidence BY <1>4, <2>1
  <2>3. rows[x.name].class = R[x].class /\ rows[x.name].confidence = R[x].confidence
    <3>1. rows[x.name] = [class |-> R[x].class, confidence |-> R[x].confidence] BY <1>3
    <3> QED BY ONLY <3>1
  <2> QED BY <2>2, <2>3 DEF RowOf
<1>6. \A n, q \in DOMAIN rel : q \in HighClears(rel, n) =>
        /\ rel[n].class = "clear" /\ rel[n].confidence = "high" /\ rel[q].confidence = "high"
        /\ <<n.name, q.name>> \in PairRows(N)
  BY <1>4 DEF HighClears
<1>7. \A n, q : q \in HighClears(rel, n) => q \in rel[n].partners BY DEF HighClears
<1>8. r \in DOMAIN rel BY <1>4, <1>7
<1>9. PICK x \in N, y \in N : x.name = c.name /\ y.name = r.name /\ R[x].class = "clear" /\ y \in R[x].partners
  <2>1. <<c.name, r.name>> \in PairRows(N) BY <1>6, <1>8
  <2> QED BY <1>0, <2>1, PairNamed
<1>10. RowOf(rel, c, R, x) /\ RowOf(rel, r, R, y) BY <1>5, <1>8, <1>9
<1>11. R[x].confidence = "high" /\ R[y].confidence = "high" /\ rel[r].confidence = "high"
  BY <1>6, <1>8, <1>10 DEF RowOf
<1>12. y # x /\ R[x].partners = {y} /\ R[y].class = "raise" /\ \A d \in N : y \in R[d].partners => d = x
  BY <1>0, <1>2, <1>9, <1>11, HighPair
<1>13. rel[r].class = "raise" BY <1>10, <1>12 DEF RowOf
<1>14. AlarmType(rel, r) = "raise" /\ HighClears(rel, r) = {} BY <1>11, <1>13 DEF AlarmType, HighClears
<1>15. r # c BY <1>2, <1>9, <1>12 DEF OneName
<1>16. ASSUME NEW q \in HighClears(rel, c) PROVE q = r
  <2>1. q \in DOMAIN rel BY <1>4, <1>7
  <2>2. <<c.name, q.name>> \in PairRows(N) BY <1>6, <2>1
  <2>3. PICK u \in N, v \in N : u.name = c.name /\ v.name = q.name /\ v \in R[u].partners
    BY <1>0, <2>2, PairNamed
  <2>4. u = x BY <1>2, <1>9, <2>3 DEF OneName
  <2>5. v = y BY <1>12, <2>3, <2>4
  <2> QED BY <1>4, <1>8, <1>9, <2>1, <2>3, <2>5 DEF OneName
<1>17. ASSUME NEW d \in DOMAIN rel, r \in HighClears(rel, d) PROVE d = c
  <2>1. <<d.name, r.name>> \in PairRows(N) BY <1>6, <1>8, <1>17
  <2>2. PICK u \in N, v \in N : u.name = d.name /\ v.name = r.name /\ v \in R[u].partners
    BY <1>0, <2>1, PairNamed
  <2>3. v = y BY <1>2, <1>9, <2>2 DEF OneName
  <2>4. u = x BY <1>12, <2>2, <2>3
  <2> QED BY <1>4, <1>9, <2>2, <2>4 DEF OneName
<1>18. HighClears(rel, c) = {r} BY <1>16
<1> QED BY <1>8, <1>14, <1>15, <1>17, <1>18 DEF Paired

-----------------------------------------------------------------------------
(* The keys of a pair. *)

LEMMA FirstOfOne ==
  ASSUME NEW n, n.name \in Nat
  PROVE  FirstByName({n}) = {n}
BY DEF FirstByName

LEMMA KeyOfOne ==
  ASSUME NEW rel, NEW c, NEW r, r.name \in Nat, HighClears(rel, c) = {r}, AlarmType(rel, c) = "clear", NEW positional
  PROVE  ClearKey(rel, c, positional) = ReductionKey(rel, r, positional)
<1> DEFINE keyed == {x \in HighClears(rel, c) : ReductionKey(rel, x, positional) # NoKey}
<1>1. ClearKey(rel, c, positional) =
        IF FirstByName(keyed) = {} THEN NoKey
        ELSE ReductionKey(rel, CHOOSE x \in FirstByName(keyed) : TRUE, positional)
  BY DEF ClearKey
<1>2. CASE ReductionKey(rel, r, positional) = NoKey
  <2>1. keyed = {} BY <1>2
  <2>2. FirstByName(keyed) = {} BY <2>1 DEF FirstByName
  <2> QED BY <1>1, <1>2, <2>2
<1>3. CASE ReductionKey(rel, r, positional) # NoKey
  <2>1. keyed = {r} BY <1>3
  <2>2. FirstByName(keyed) = {r} BY <2>1, FirstOfOne
  <2>3. (CHOOSE x \in {r} : TRUE) = r OBVIOUS
  <2> HIDE DEF keyed
  <2> QED BY <1>1, <2>2, <2>3
<1> QED BY <1>2, <1>3

LEMMA KeysAlwaysResolve ==
  ASSUME NEW rel, NEW positional
  PROVE  KeysResolve(rel, positional)
<1> SUFFICES ASSUME NEW c \in ExportedClears(rel), ClearKey(rel, c, positional) # NoKey
             PROVE  \E r \in HighClears(rel, c) :
                      /\ rel[r].listed /\ AlarmType(rel, r) # "plain"
                      /\ ClearKey(rel, c, positional) = ReductionKey(rel, r, positional)
  BY DEF KeysResolve
<1> DEFINE keyed == FirstByName({x \in HighClears(rel, c) : ReductionKey(rel, x, positional) # NoKey})
<1>1. keyed # {} /\ ClearKey(rel, c, positional) = ReductionKey(rel, CHOOSE x \in keyed : TRUE, positional)
  BY DEF ClearKey
<1>2. PICK r : r = CHOOSE x \in keyed : TRUE OBVIOUS
<1>3. r \in keyed BY <1>1, <1>2
<1>4. r \in HighClears(rel, c) /\ ReductionKey(rel, r, positional) # NoKey BY <1>3 DEF FirstByName
<1>5. rel[r].listed /\ AlarmType(rel, r) # "plain" BY <1>4 DEF ReductionKey
<1> QED BY <1>1, <1>2, <1>4, <1>5

LEMMA PartnerOfRaise ==
  ASSUME NEW rel, NEW c, NEW r, c \in DOMAIN rel, c.name \in Nat, rel[c].listed, Paired(rel, c, r)
  PROVE  Partner(rel, r) = {c}
<1> DEFINE names(d) == r \in HighClears(rel, d) \/ (d = r /\ HighClears(rel, d) # {})
<1>1. \A d \in DOMAIN rel : names(d) <=> d = c BY DEF Paired
<1>2. {d \in DOMAIN rel : rel[d].listed /\ names(d)} = {c} BY <1>1
<1>3. FirstByName({c}) = {c} BY FirstOfOne
<1>4. Partner(rel, r) =
        IF r \in FirstByName({d \in DOMAIN rel : rel[d].listed /\ names(d)}) THEN FirstByName(HighClears(rel, r))
        ELSE FirstByName({d \in DOMAIN rel : rel[d].listed /\ names(d)})
  BY DEF Partner
<1>5. r # c BY DEF Paired
<1> HIDE DEF names
<1> QED BY <1>2, <1>3, <1>4, <1>5

(* An exported clear has a partner.                                        *)
LEMMA ClearPaired ==
  ASSUME NEW N \in Modules, NEW L, OneName(L), Shaped(L),
         NEW rel, rel = Attached(L, RelationshipRows(N), PairRows(N)),
         NEW c \in ExportedClears(rel)
  PROVE  /\ c \in DOMAIN rel /\ rel[c].listed /\ AlarmType(rel, c) = "clear"
         /\ \E r \in DOMAIN rel : Paired(rel, c, r)
<1>1. c \in DOMAIN rel /\ rel[c].listed /\ AlarmType(rel, c) = "clear" BY DEF ExportedClears, Exported
<1>2. HighClears(rel, c) # {}
  <2>1. rel[c].confidence = "high" BY <1>1 DEF AlarmType
  <2>2. ~(rel[c].class = "clear" /\ HighClears(rel, c) = {}) BY <1>1, <2>1 DEF AlarmType
  <2>3. rel[c].class = "clear" BY <1>1, <2>1, <2>2 DEF AlarmType
  <2> QED BY <2>2, <2>3
<1>3. PICK r \in HighClears(rel, c) : TRUE BY <1>2
<1>4. Paired(rel, c, r) BY <1>1, HighClearPaired
<1> QED BY <1>1, <1>4 DEF Paired

LEMMA EditionNames ==
  ASSUME NEW N \in Modules, NEW L, OneName(L), Shaped(L),
         NEW rel, rel = Attached(L, RelationshipRows(N), PairRows(N))
  PROVE  \A n \in DOMAIN rel : n.name \in Nat
<1>1. PICK rows : rows = RelationshipRows(N) OBVIOUS
<1>2. DOMAIN rows \subseteq Nat BY <1>1, EditionShaped, RowNamed
<1>3. Shaped(DOMAIN rel) BY <1>1, <1>2, AttachedNames
<1> QED BY <1>3 DEF Shaped

LEMMA ClearsAlwaysResolve ==
  ASSUME NEW N \in Modules, NEW L, OneName(L), Shaped(L),
         NEW rel, rel = Attached(L, RelationshipRows(N), PairRows(N)), NEW positional
  PROVE  ClearsResolve(rel, positional)
<1> SUFFICES ASSUME NEW c \in ExportedClears(rel)
             PROVE  \E r \in DOMAIN rel :
                      /\ HighClears(rel, c) = {r} /\ AlarmType(rel, r) = "raise"
                      /\ ClearKey(rel, c, positional) = ReductionKey(rel, r, positional)
                      /\ \A d \in ExportedClears(rel) \ {c} : r \notin HighClears(rel, d)
  BY DEF ClearsResolve
<1>1. AlarmType(rel, c) = "clear" /\ \E r \in DOMAIN rel : Paired(rel, c, r) BY ClearPaired
<1>2. PICK r \in DOMAIN rel : Paired(rel, c, r) BY <1>1
<1>3. r.name \in Nat BY EditionNames
<1>4. HighClears(rel, c) = {r} /\ AlarmType(rel, r) = "raise" /\ \A d \in DOMAIN rel : r \in HighClears(rel, d) => d = c
  BY <1>2 DEF Paired
<1>5. ClearKey(rel, c, positional) = ReductionKey(rel, r, positional) BY <1>1, <1>3, <1>4, KeyOfOne
<1>6. ExportedClears(rel) \subseteq DOMAIN rel BY DEF ExportedClears, Exported
<1> QED BY <1>4, <1>5, <1>6

(* The exported parameter of a pair that lists the same objects names one  *)
(* of them, if any is loaded.                                              *)
Named(key, n) ==
  {i \in DOMAIN n.objects :
     \/ key[2] = <<"position", i>>
     \/ n.objects[i].fixed /\ key[2] = <<"oid", n.objects[i].oid>>}
Loaded(n) == {o \in {n.objects[i] : i \in DOMAIN n.objects} : o.oid # Unresolved}

LEMMA LeastRank ==
  ASSUME NEW S, S \subseteq Nat, S # {}
  PROVE  \E i \in S : \A j \in S : i <= j
<1>1. PICK i \in S : \A j \in S : ~(<<j, i>> \in OpToRel(<, Nat))
  BY WFMin, NatLessThanWellFounded, Zenon
<1>2. \A j \in S : ~(j < i) BY <1>1 DEF OpToRel
<1>3. \A j \in S : i <= j BY <1>2
<1> QED BY <1>3

LEMMA LeastIndex ==
  ASSUME NEW k \in Nat, NEW S, S \subseteq 1..k, S # {}
  PROVE  \E i \in S : \A j \in S : i <= j
<1>1. S \subseteq Nat OBVIOUS
<1> QED BY <1>1, LeastRank

LEMMA TokenNames ==
  ASSUME NEW rel, NEW r, NEW c, NEW positional, Len(r.objects) \in Nat, DOMAIN r.objects = 1..Len(r.objects),
         r.objects = c.objects, Partner(rel, r) = {c}, AlarmType(rel, r) # "plain", rel[r].listed,
         NEW key, key = ReductionKey(rel, r, positional)
  PROVE  key[1] = r.name /\ (Named(key, r) = {} <=> Loaded(r) = {})
<1> DEFINE at == Correlating(r, c)
           both == {i \in DOMAIN r.objects : r.objects[i].oid # Unresolved}
<1>1. UNION {Correlating(r, p) : p \in Partner(rel, r)} = at OBVIOUS
<1>2. {i \in DOMAIN r.objects :
         /\ r.objects[i].oid # Unresolved
         /\ \E j \in DOMAIN c.objects : c.objects[j].oid = r.objects[i].oid} = both
  OBVIOUS
<1>3. at = {i \in both : \A j \in both : i <= j} BY <1>2 DEF Correlating
<1>4. at = {} <=> both = {}
  <2>1. both # {} => \E i \in both : \A j \in both : i <= j BY LeastIndex
  <2> QED BY <1>3, <2>1
<1>5. both = {} <=> Loaded(r) = {} BY DEF Loaded
<1> HIDE DEF at, both
<1>6. key = <<r.name, InstanceToken(rel, r, positional)>> BY DEF ReductionKey
<1>7. CASE at = {}
  <2>1. InstanceToken(rel, r, positional) = NoToken BY <1>1, <1>7 DEF InstanceToken
  <2>2. key[2] = <<"node">> BY <1>6, <2>1 DEF NoToken
  <2>3. \A i : key[2] # <<"position", i>> /\ key[2] # <<"oid", i>> BY <2>2
  <2>4. Named(key, r) = {} BY <2>3 DEF Named
  <2> QED BY <1>4, <1>5, <1>6, <1>7, <2>4
<1>8. CASE at # {}
  <2>1. PICK i : i = CHOOSE j \in at : TRUE OBVIOUS
  <2>2. i \in at BY <1>8, <2>1
  <2>3. i \in DOMAIN r.objects BY <2>2, <1>3 DEF both
  <2>4. InstanceToken(rel, r, positional) = Parm(r.objects[i], i, positional)
    BY <1>1, <1>8, <2>1 DEF InstanceToken
  <2>5. key[2] = Parm(r.objects[i], i, positional) BY <1>6, <2>4
  <2>6. i \in Named(key, r) BY <2>3, <2>5 DEF Named, Parm
  <2> QED BY <1>4, <1>5, <1>6, <1>8, <2>6
<1> QED BY <1>7, <1>8

LEMMA PairRoundTrip ==
  ASSUME NEW N \in Modules, NEW L, OneName(L), Shaped(L),
         NEW rel, rel = Attached(L, RelationshipRows(N), PairRows(N)), NEW positional,
         NEW c \in ExportedClears(rel), NEW r \in HighClears(rel, c), r \in L, r.objects = c.objects,
         NEW e, NEW f
  PROVE  (Expand(ClearKey(rel, c, positional), c, e) = Expand(ReductionKey(rel, r, positional), r, f))
           <=> (e = f \/ Loaded(c) = {})
<1>0. c \in DOMAIN rel /\ rel[c].listed /\ AlarmType(rel, c) = "clear" BY ClearPaired
<1>1. Paired(rel, c, r) BY <1>0, HighClearPaired
<1>2. c.name \in Nat /\ r.name \in Nat BY <1>0, <1>1, EditionNames DEF Paired
<1>3. HighClears(rel, c) = {r} /\ AlarmType(rel, r) # "plain" BY <1>1 DEF Paired
<1>4. ClearKey(rel, c, positional) = ReductionKey(rel, r, positional) BY <1>0, <1>2, <1>3, KeyOfOne
<1>5. Partner(rel, r) = {c} BY <1>0, <1>1, <1>2, PartnerOfRaise
<1>6. rel[r].listed
  <2>1. DOMAIN RelationshipRows(N) \subseteq Nat BY EditionShaped, RowNamed
  <2> QED BY <2>1, AttachedNames
<1>7. Len(r.objects) \in Nat /\ DOMAIN r.objects = 1..Len(r.objects) BY DEF Shaped
<1>8. PICK key : key = ReductionKey(rel, r, positional) OBVIOUS
<1>9. Named(key, r) = {} <=> Loaded(r) = {} BY <1>3, <1>5, <1>6, <1>7, <1>8, TokenNames
<1>10. Named(key, c) = Named(key, r) /\ Loaded(c) = Loaded(r) BY DEF Named, Loaded
<1> DEFINE values(x) == {[object |-> c.objects[i].key, of |-> x] : i \in Named(key, c)}
<1>11. /\ Expand(key, c, e) = [uei |-> key[1], instance |-> values(e)]
       /\ Expand(key, r, f) = [uei |-> key[1], instance |-> values(f)]
  BY <1>10, Zenon DEF Expand, Named
<1>12. (Expand(key, c, e) = Expand(key, r, f)) <=> (values(e) = values(f))
  <2> HIDE DEF values
  <2> QED BY <1>11
<1>13. values(e) = values(f) <=> (e = f \/ Named(key, c) = {})
  <2>1. ASSUME NEW i \in Named(key, c), values(e) = values(f) PROVE e = f
    <3>1. [object |-> c.objects[i].key, of |-> e] \in values(f) BY <2>1
    <3>2. PICK j \in Named(key, c) : [object |-> c.objects[i].key, of |-> e] = [object |-> c.objects[j].key, of |-> f]
      BY <3>1
    <3>3. [object |-> c.objects[i].key, of |-> e].of = [object |-> c.objects[j].key, of |-> f].of BY <3>2
    <3> QED BY <3>3
  <2>2. Named(key, c) = {} => values(e) = values(f) OBVIOUS
  <2> QED BY <2>1, <2>2
<1> QED BY <1>4, <1>8, <1>9, <1>10, <1>12, <1>13

-----------------------------------------------------------------------------
(* The request.  What was listed has a name of its own; what is attached   *)
(* are rows and pairs of editions of the module: of one, unless an import  *)
(* came between their queries, and of the one that was listed, unless an   *)
(* import came at all.                                                     *)
Records(N) == {[name |-> n.name, objects |-> n.objects] : n \in N}
Asked(step, names, listed, rows, rel, late, apart) ==
  [step |-> step, names |-> names, listed |-> listed, rows |-> rows, rel |-> rel,
   replaced |-> late, parted |-> apart]

Listing(names, listed, late, N) ==
  /\ names \subseteq Nat /\ Shaped(listed) /\ OneName(listed) /\ NamesOf(listed) \subseteq names
  /\ ~late => names = NamesOf(N) /\ listed \subseteq Records(N)
RowsRead(listed, rows, late, apart, M, N) ==
  /\ Shaped(listed) /\ OneName(listed) /\ rows = RelationshipRows(M)
  /\ ~apart => M = N
  /\ ~late => listed = Records(M) /\ ~apart
AllRead(listed, rel, late, apart, M, N) ==
  /\ Shaped(listed) /\ OneName(listed) /\ rel = Attached(listed, RelationshipRows(M), PairRows(N))
  /\ ~apart => M = N
  /\ ~late => listed = Records(M) /\ ~apart

AtObjects(e, N) ==
  \E names, listed, rows, rel : \E late \in BOOLEAN :
    e = Asked("objects", names, listed, rows, rel, late, FALSE) /\ Listing(names, listed, late, N)
AtPairs(e, N) ==
  \E names, listed, rows, rel : \E late, apart \in BOOLEAN :
    /\ e = Asked("pairs", names, listed, rows, rel, late, apart)
    /\ \E M \in Modules : RowsRead(listed, rows, late, apart, M, N)
AtWritten(e) ==
  \E names, listed, rows, rel : \E late, apart \in BOOLEAN :
    /\ e = Asked("written", names, listed, rows, rel, late, apart)
    /\ \E M, N \in Modules : AllRead(listed, rel, late, apart, M, N)
ExportInv ==
  traps \in Modules /\ (export = NoExport \/ AtObjects(export, traps) \/ AtPairs(export, traps) \/ AtWritten(export))

LEMMA AllListed ==
  ASSUME NEW N \in Modules, NEW listed, listed \subseteq Records(N), NamesOf(listed) = NamesOf(N)
  PROVE  listed = Records(N)
<1>1. ASSUME NEW n \in N PROVE [name |-> n.name, objects |-> n.objects] \in listed
  <2>1. n.name \in NamesOf(listed) BY DEF NamesOf
  <2>2. PICK l \in listed : l.name = n.name BY <2>1 DEF NamesOf
  <2>3. PICK m \in N : l = [name |-> m.name, objects |-> m.objects] BY DEF Records
  <2>4. m = n BY <2>2, <2>3, EditionShaped DEF OneName
  <2> QED BY <2>3, <2>4
<1> QED BY <1>1 DEF Records

ObjectsNow(N, m) == IF \E n \in N : n.name = m THEN {n.objects : n \in {n \in N : n.name = m}} ELSE {<<>>}

LEMMA ObjectsListed ==
  ASSUME NEW N \in Modules, NEW names, NEW listed, NEW late \in BOOLEAN, Listing(names, listed, late, N),
         NEW m \in names, \A n \in listed : n.name # m,
         NEW os \in ObjectsNow(N, m)
  PROVE  Listing(names, listed \cup {[name |-> m, objects |-> os]}, late, N)
<1> DEFINE new == [name |-> m, objects |-> os]
<1>1. new.name = m /\ new.objects = os /\ m \in Nat BY DEF Listing
<1>2. CASE \E n \in N : n.name = m
  <2>1. PICK n \in N : n.name = m /\ os = n.objects BY <1>2 DEF ObjectsNow
  <2>2. new \in Records(N) BY <2>1 DEF Records
  <2>3. Len(os) \in Nat /\ DOMAIN os = 1..Len(os) BY <2>1, EditionShaped DEF Shaped
  <2> HIDE DEF new
  <2> QED BY <1>1, <2>2, <2>3 DEF Listing, Shaped, OneName, NamesOf, new
<1>3. CASE ~\E n \in N : n.name = m
  <2>1. os = <<>> BY <1>3 DEF ObjectsNow
  <2>2. Len(os) = 0 /\ DOMAIN os = 1..0 BY <2>1
  <2>3. late BY <1>3 DEF Listing, NamesOf
  <2> HIDE DEF new
  <2> QED BY <1>1, <2>2, <2>3 DEF Listing, Shaped, OneName, NamesOf, new
<1> QED BY <1>2, <1>3

LEMMA AtStep ==
  ASSUME ExportInv
  PROVE  /\ export.step = "objects" => AtObjects(export, traps)
         /\ export.step = "pairs" => AtPairs(export, traps)
         /\ export.step = "written" => AtWritten(export)
<1>1. AtObjects(export, traps) => export.step = "objects" BY DEF AtObjects, Asked
<1>2. AtPairs(export, traps) => export.step = "pairs" BY DEF AtPairs, Asked
<1>3. AtWritten(export) => export.step = "written" BY DEF AtWritten, Asked
<1>4. NoExport.step = "none" BY DEF NoExport
<1> QED BY <1>1, <1>2, <1>3, <1>4 DEF ExportInv

LEMMA ExportStep == ExportInv /\ [ExportNext]_exportVars => ExportInv'
<1> SUFFICES ASSUME ExportInv, [ExportNext]_exportVars PROVE ExportInv' OBVIOUS
<1>0. traps \in Modules /\ FALSE \in BOOLEAN /\ TRUE \in BOOLEAN BY DEF ExportInv
<1>1. CASE ListNotifications
  <2>1. export' = Asked("objects", NamesOf(traps), {}, <<>>, <<>>, FALSE, FALSE) /\ traps' = traps
    BY <1>1 DEF ListNotifications, Asked, NamesOf
  <2>2. Listing(NamesOf(traps), {}, FALSE, traps)
    BY <1>0, EditionShaped DEF Listing, Shaped, OneName, NamesOf
  <2>3. AtObjects(export', traps) BY <1>0, <2>1, <2>2, Zenon DEF AtObjects
  <2> QED BY <1>0, <2>1, <2>3 DEF ExportInv
<1>2. CASE export.step = "objects" /\ \E m \in export.names : ReadObjects(m)
  <2>1. AtObjects(export, traps) BY <1>2, AtStep
  <2>2. PICK names, listed, rows, rel, late :
          late \in BOOLEAN /\ export = Asked("objects", names, listed, rows, rel, late, FALSE) /\ Listing(names, listed, late, traps)
    BY <2>1 DEF AtObjects
  <2>3. export.names = names /\ export.listed = listed BY <2>2 DEF Asked
  <2>4. PICK m \in names : ReadObjects(m) BY <1>2, <2>3
  <2>5. PICK os \in ObjectsNow(traps, m) :
          export' = [export EXCEPT !.listed = export.listed \cup {[name |-> m, objects |-> os]}]
    BY <2>4 DEF ReadObjects, ObjectsNow
  <2>6. \A n \in listed : n.name # m BY <2>3, <2>4 DEF ReadObjects
  <2>7. Listing(names, listed \cup {[name |-> m, objects |-> os]}, late, traps)
    BY <1>0, <2>2, <2>6, ObjectsListed
  <2>8. PICK more : more = listed \cup {[name |-> m, objects |-> os]} OBVIOUS
  <2>9. export' = Asked("objects", names, more, rows, rel, late, FALSE)
    BY ONLY <2>2, <2>3, <2>5, <2>8 DEF Asked
  <2>10. traps' = traps BY <2>4 DEF ReadObjects
  <2>11. Listing(names, more, late, traps) BY <2>7, <2>8
  <2>12. AtObjects(export', traps) BY <2>2, <2>9, <2>11, Zenon DEF AtObjects
  <2> QED BY <1>0, <2>10, <2>12 DEF ExportInv
<1>3. CASE ReadRelationships
  <2>1. AtObjects(export, traps) BY <1>3, AtStep DEF ReadRelationships
  <2>2. PICK names, listed, rows, rel, late :
          late \in BOOLEAN /\ export = Asked("objects", names, listed, rows, rel, late, FALSE) /\ Listing(names, listed, late, traps)
    BY <2>1 DEF AtObjects
  <2>3. names = NamesOf(listed) BY <1>3, <2>2 DEF ReadRelationships, Asked, NamesOf
  <2>4. PICK fresh : fresh = RelationshipRows(traps) OBVIOUS
  <2>5. export' = [export EXCEPT !.step = "pairs", !.rows = fresh] /\ traps' = traps
    BY <1>3, <2>4 DEF ReadRelationships
  <2>6. export' = Asked("pairs", names, listed, fresh, rel, late, FALSE) BY ONLY <2>2, <2>5 DEF Asked
  <2>7. ~late => listed = Records(traps) BY <1>0, <2>2, <2>3, AllListed DEF Listing
  <2>8. RowsRead(listed, fresh, late, FALSE, traps, traps) BY <2>2, <2>4, <2>7 DEF RowsRead, Listing
  <2>9. AtPairs(export', traps) BY <1>0, <2>2, <2>6, <2>8, Zenon DEF AtPairs
  <2> QED BY <1>0, <2>5, <2>9 DEF ExportInv
<1>4. CASE ReadPairs
  <2>1. AtPairs(export, traps) BY <1>4, AtStep DEF ReadPairs
  <2>2. PICK names, listed, rows, rel, late, apart :
          /\ late \in BOOLEAN /\ apart \in BOOLEAN /\ export = Asked("pairs", names, listed, rows, rel, late, apart)
          /\ \E M \in Modules : RowsRead(listed, rows, late, apart, M, traps)
    BY <2>1 DEF AtPairs
  <2>3. PICK M \in Modules : RowsRead(listed, rows, late, apart, M, traps) BY <2>2
  <2>4. export.listed = listed /\ export.rows = rows BY <2>2 DEF Asked
  <2>5. PICK made : made = Attached(listed, rows, PairRows(traps)) OBVIOUS
  <2>6. export' = [export EXCEPT !.step = "written", !.rel = made] /\ traps' = traps
    BY <1>4, <2>4, <2>5 DEF ReadPairs
  <2>7. export' = Asked("written", names, listed, rows, made, late, apart) BY ONLY <2>2, <2>6 DEF Asked
  <2>8. AllRead(listed, made, late, apart, M, traps) BY <2>3, <2>5 DEF RowsRead, AllRead
  <2>9. AtWritten(export') BY <1>0, <2>2, <2>3, <2>7, <2>8 DEF AtWritten
  <2> QED BY <1>0, <2>6, <2>9 DEF ExportInv
<1>5. CASE \E N \in Modules : ReplaceTraps(N)
  <2>1. PICK N \in Modules : ReplaceTraps(N) BY <1>5
  <2>2. traps' \in Modules BY <2>1 DEF ReplaceTraps
  <2>3. CASE export = NoExport
    <3>1. export' = NoExport BY <2>1, <2>3 DEF ReplaceTraps, NoExport
    <3> QED BY <2>2, <3>1 DEF ExportInv
  <2>4. CASE AtObjects(export, traps)
    <3>1. PICK names, listed, rows, rel, late :
            late \in BOOLEAN /\ export = Asked("objects", names, listed, rows, rel, late, FALSE) /\ Listing(names, listed, late, traps)
      BY <2>4 DEF AtObjects
    <3>2. export.step = "objects" BY <3>1 DEF Asked
    <3>3. export' = [export EXCEPT !.replaced = TRUE, !.parted = FALSE] BY <2>1, <3>2 DEF ReplaceTraps
    <3>4. export' = Asked("objects", names, listed, rows, rel, TRUE, FALSE) BY ONLY <3>1, <3>3 DEF Asked
    <3>5. Listing(names, listed, TRUE, traps') BY <3>1 DEF Listing
    <3>6. AtObjects(export', traps') BY <1>0, <3>4, <3>5, Zenon DEF AtObjects
    <3> QED BY <2>2, <3>6 DEF ExportInv
  <2>5. CASE AtPairs(export, traps)
    <3>1. PICK names, listed, rows, rel, late, apart :
            /\ late \in BOOLEAN /\ apart \in BOOLEAN /\ export = Asked("pairs", names, listed, rows, rel, late, apart)
            /\ \E M \in Modules : RowsRead(listed, rows, late, apart, M, traps)
      BY <2>5 DEF AtPairs
    <3>2. PICK M \in Modules : RowsRead(listed, rows, late, apart, M, traps) BY <3>1
    <3>3. export.step = "pairs" BY <3>1 DEF Asked
    <3>4. export' = [export EXCEPT !.replaced = TRUE, !.parted = TRUE] BY <2>1, <3>3 DEF ReplaceTraps
    <3>5. export' = Asked("pairs", names, listed, rows, rel, TRUE, TRUE) BY ONLY <3>1, <3>4 DEF Asked
    <3>6. RowsRead(listed, rows, TRUE, TRUE, M, traps') BY <3>2 DEF RowsRead
    <3>7. AtPairs(export', traps') BY <1>0, <3>2, <3>5, <3>6, Zenon DEF AtPairs
    <3> QED BY <2>2, <3>7 DEF ExportInv
  <2>6. CASE AtWritten(export)
    <3>1. export.step = "written" BY <2>6 DEF AtWritten, Asked
    <3>2. export' = export BY <2>1, <3>1 DEF ReplaceTraps
    <3>3. AtWritten(export') BY <2>6, <3>2
    <3> QED BY <2>2, <3>3 DEF ExportInv
  <2> QED BY <2>3, <2>4, <2>5, <2>6 DEF ExportInv
<1>6. CASE UNCHANGED exportVars
  <2>1. traps' = traps /\ export' = export BY <1>6 DEF exportVars
  <2> QED BY <2>1 DEF ExportInv
<1> QED BY <1>1, <1>2, <1>3, <1>4, <1>5, <1>6 DEF ExportNext, Answering

(* For any module and any imports of it between the queries of the export: *)
(* a clear-key is the key of an exported alarm; if no import came between  *)
(* relationships and pairs, an exported clear resolves exactly one raise,  *)
(* which no other clear resolves; and if none came at all, the raise is    *)
(* exported and a pair with equal OBJECTS clears exactly its entity's      *)
(* alarm (handleModuleEvents, eventconf.FromModule).                       *)
THEOREM AlarmsClear == ExportSpec => []ExportedAlarmsClear
<1>1. ExportInit => ExportInv BY DEF ExportInit, ExportInv
<1>2. ExportInv => ExportedAlarmsClear
  <2> SUFFICES ASSUME ExportInv, export.step = "written", NEW positional \in BOOLEAN
               PROVE  /\ KeysResolve(export.rel, positional)
                      /\ ~export.parted => ClearsResolve(export.rel, positional)
                      /\ ~export.replaced => /\ \A n \in DOMAIN export.rel : export.rel[n].listed
                                             /\ SameObjectsRoundTrip(export.rel, positional, Entities)
    BY DEF ExportedAlarmsClear
  <2>1. AtWritten(export) BY AtStep
  <2>2. PICK names, listed, rows, rel, late, apart :
               /\ late \in BOOLEAN /\ apart \in BOOLEAN
               /\ export = Asked("written", names, listed, rows, rel, late, apart)
               /\ \E M, N \in Modules : AllRead(listed, rel, late, apart, M, N)
    BY <2>1 DEF AtWritten
  <2>10. PICK M \in Modules, N \in Modules : AllRead(listed, rel, late, apart, M, N) BY <2>2
  <2>3. export.rel = rel /\ export.parted = apart /\ export.replaced = late BY <2>2 DEF Asked
  <2>4. KeysResolve(rel, positional) BY KeysAlwaysResolve
  <2>5. Shaped(listed) /\ OneName(listed) BY <2>10 DEF AllRead
  <2>6. ~apart => rel = Attached(listed, RelationshipRows(M), PairRows(M)) BY <2>10 DEF AllRead
  <2>7. ASSUME ~apart PROVE ClearsResolve(rel, positional)
    BY <2>5, <2>6, <2>7, ClearsAlwaysResolve
  <2>8. ASSUME ~late PROVE DOMAIN rel = listed /\ \A n \in DOMAIN rel : rel[n].listed
    <3>1. listed = Records(M) /\ ~apart BY <2>10, <2>8 DEF AllRead
    <3>2. NamesOf(listed) = NamesOf(M)
      <4>1. ASSUME NEW n \in M PROVE n.name \in NamesOf(listed)
        <5>1. PICK l : l = [name |-> n.name, objects |-> n.objects] OBVIOUS
        <5>2. l \in listed /\ l.name = n.name BY <3>1, <5>1 DEF Records
        <5> QED BY <5>2 DEF NamesOf
      <4>2. NamesOf(M) \subseteq NamesOf(listed) BY <4>1 DEF NamesOf
      <4>3. \A l \in listed : \E n \in M : l.name = n.name BY <3>1 DEF Records
      <4> QED BY <4>2, <4>3 DEF NamesOf
    <3>3. OneName(M) /\ NamesOf(M) \subseteq Nat BY EditionShaped
    <3>4. DOMAIN RelationshipRows(M) = NamesOf(M) BY <3>3, RowNamed
    <3>5. /\ OneName(DOMAIN rel) /\ listed \subseteq DOMAIN rel
          /\ \A n \in DOMAIN rel : rel[n].listed <=> n \in listed
          /\ NamesOf(DOMAIN rel) = NamesOf(listed) \cup NamesOf(M)
      BY <2>5, <2>6, <3>1, <3>3, <3>4, AttachedNames
    <3>6. ASSUME NEW n \in DOMAIN rel PROVE n \in listed
      <4>1. n.name \in NamesOf(listed) BY <3>2, <3>5 DEF NamesOf
      <4>2. PICK l \in listed : l.name = n.name BY <4>1 DEF NamesOf
      <4> QED BY <3>5, <4>2 DEF OneName
    <3> QED BY <3>5, <3>6
  <2>9. ASSUME ~late PROVE SameObjectsRoundTrip(rel, positional, Entities)
    <3>0. rel = Attached(listed, RelationshipRows(M), PairRows(M)) BY <2>10, <2>6, <2>9 DEF AllRead
    <3> SUFFICES ASSUME NEW c \in ExportedClears(rel), NEW r \in DOMAIN rel, r \in HighClears(rel, c),
                        r.objects = c.objects, NEW e \in Entities, NEW f \in Entities
                 PROVE  (Expand(ClearKey(rel, c, positional), c, e) = Expand(ReductionKey(rel, r, positional), r, f))
                          <=> (e = f \/ Loaded(c) = {})
      BY DEF SameObjectsRoundTrip, Loaded
    <3>1. r \in listed BY <2>8, <2>9
    <3> QED BY <2>5, <3>0, <3>1, PairRoundTrip
  <2> QED BY <2>3, <2>4, <2>7, <2>8, <2>9
<1> QED BY <1>1, <1>2, ExportStep, PTL DEF ExportSpec

-----------------------------------------------------------------------------
(* Searches.  The rows have ids of their own and a name once per module,   *)
(* and the hits that a request carries to its second query are distinct.   *)
ByOID == {"oid", "lookup_oid"}
Distinct(r) == \A i, j \in DOMAIN r : r[i] = r[j] => i = j
SymbolsInv ==
  /\ replaced \in Nat /\ IsFiniteSet(symbols)
  /\ \A s \in symbols : s.id[1] \in Nat /\ s.id[1] < replaced
  /\ \A s, t \in symbols : s.id = t.id => s = t
  /\ \A s, t \in symbols : s.module = t.module /\ s.name = t.name => s = t
RequestInv ==
  /\ search.step # "none" => search.query \in Queries
  /\ search.step = "lookup" => search = [step |-> "lookup", query |-> search.query]
  /\ search.step \in {"lookup", "prefix"} => search.query.kind \in ByOID
  /\ search.step \in {"text", "exact"} => search.query.kind \notin ByOID
  /\ search.step = "exact" => Distinct(search.hits) /\ \E S : search.hits \in Seq(S)
SearchInv == SymbolsInv /\ RequestInv

LEMMA NewRows ==
  ASSUME NEW k, NEW m, NEW defs, IsFiniteSet(defs),
         NEW rows, rows = {[id |-> <<k, d>>, module |-> m, name |-> d.name, oid |-> d.oid] : d \in defs}
  PROVE  /\ IsFiniteSet(rows)
         /\ \A s \in rows : \E d \in defs : s.id = <<k, d>> /\ s.module = m /\ s.name = d.name
         /\ \A s, t \in rows : s.id = t.id => s = t
<1> DEFINE row(d) == [id |-> <<k, d>>, module |-> m, name |-> d.name, oid |-> d.oid]
<1>1. [d \in defs |-> row(d)] \in Surjection(defs, rows) BY DEF Surjection
<1>2. PICK f : f \in Surjection(defs, rows) BY <1>1
<1>3. IsFiniteSet(rows) BY <1>2, FS_Surjection
<1>4. \A s \in rows : \E d \in defs : s = row(d) OBVIOUS
<1>5. \A d, e \in defs : row(d).id = row(e).id => d = e OBVIOUS
<1>6. \A d \in defs : row(d).id = <<k, d>> /\ row(d).module = m /\ row(d).name = d.name OBVIOUS
<1> HIDE DEF row
<1> QED BY <1>3, <1>4, <1>5, <1>6

LEMMA SymbolsReplaced ==
  ASSUME SymbolsInv, NEW m \in DOMAIN Shelf, NEW defs \in Shelf[m], ReplaceSymbols(m, defs)
  PROVE  SymbolsInv'
<1>1. IsFiniteSet(defs) /\ \A d, e \in defs : d.name = e.name => d = e BY SearchAssumption
<1>2. PICK rows : rows = {[id |-> <<replaced, d>>, module |-> m, name |-> d.name, oid |-> d.oid] : d \in defs}
  OBVIOUS
<1>3. PICK kept : kept = {s \in symbols : s.module # m} OBVIOUS
<1>4. symbols' = kept \cup rows /\ replaced' = replaced + 1 BY <1>2, <1>3 DEF ReplaceSymbols
<1>5. /\ IsFiniteSet(rows)
      /\ \A s \in rows : \E d \in defs : s.id = <<replaced, d>> /\ s.module = m /\ s.name = d.name
      /\ \A s, t \in rows : s.id = t.id => s = t
  BY <1>1, <1>2, NewRows
<1>6. kept \subseteq symbols /\ \A s \in kept : s.module # m BY <1>3
<1>7. IsFiniteSet(kept) BY <1>6, FS_Subset DEF SymbolsInv
<1>8. IsFiniteSet(symbols') BY <1>4, <1>5, <1>7, FS_Union
<1>9. \A s \in rows : s.id[1] = replaced BY <1>5
<1>10. \A s \in symbols' : s.id[1] \in Nat /\ s.id[1] < replaced'
  BY <1>4, <1>6, <1>9 DEF SymbolsInv
<1>11. ASSUME NEW s \in symbols', NEW t \in symbols', s.id = t.id PROVE s = t
  <2>1. CASE s \in kept /\ t \in kept BY <1>6, <1>11, <2>1 DEF SymbolsInv
  <2>2. CASE s \in rows /\ t \in rows BY <1>5, <1>11, <2>2
  <2>3. ASSUME NEW x \in kept, NEW y \in rows PROVE x.id # y.id
    BY <1>6, <1>9, <2>3 DEF SymbolsInv
  <2> QED BY <1>4, <1>11, <2>1, <2>2, <2>3
<1>12. ASSUME NEW s \in symbols', NEW t \in symbols', s.module = t.module, s.name = t.name PROVE s = t
  <2>1. CASE s \in kept /\ t \in kept BY <1>6, <1>12, <2>1 DEF SymbolsInv
  <2>2. CASE s \in rows /\ t \in rows
    <3>1. PICK d \in defs : s.id = <<replaced, d>> /\ s.name = d.name BY <1>5, <2>2
    <3>2. PICK e \in defs : t.id = <<replaced, e>> /\ t.name = e.name BY <1>5, <2>2
    <3>3. d = e BY <1>1, <1>12, <3>1, <3>2
    <3>4. s.id = t.id BY <3>1, <3>2, <3>3
    <3> QED BY <1>5, <2>2, <3>4
  <2>3. ASSUME NEW x \in kept, NEW y \in rows PROVE x.module # y.module BY <1>5, <1>6, <2>3
  <2> QED BY <1>4, <1>12, <2>1, <2>2, <2>3
<1> QED BY <1>4, <1>8, <1>10, <1>11, <1>12 DEF SymbolsInv

(* A ranked list is a sequence of distinct members, which misses one only  *)
(* when the list is full.                                                  *)
LEMMA RankedIs ==
  ASSUME NEW S, IsFiniteSet(S), NEW r \in Ranked(S)
  PROVE  \E n \in Nat : /\ n <= Listed /\ n <= Cardinality(S) /\ (n = Listed \/ n = Cardinality(S))
                        /\ r \in [1..n -> S] /\ Distinct(r)
<1>1. Cardinality(S) \in Nat BY FS_CardinalityType
<1>2. PICK n : n = IF Cardinality(S) < Listed THEN Cardinality(S) ELSE Listed OBVIOUS
<1>3. r \in [1..n -> S] /\ \A i, j \in 1..n : r[i] = r[j] => i = j BY <1>2 DEF Ranked
<1>4. n \in Nat /\ n <= Listed /\ n <= Cardinality(S) /\ (n = Listed \/ n = Cardinality(S))
  BY <1>1, <1>2, SearchAssumption
<1> QED BY <1>3, <1>4 DEF Distinct

LEMMA RankedSeq ==
  ASSUME NEW S, IsFiniteSet(S), NEW r \in Ranked(S)
  PROVE  r \in Seq(S) /\ Distinct(r)
BY RankedIs

(* When what must come first fits the list, the list has all of it. *)
LEMMA FirstAllListed ==
  ASSUME NEW S, IsFiniteSet(S), NEW F, F \subseteq S, F # {}, NEW r \in Ranked(S),
         \A s \in F : \A i \in DOMAIN r : r[i] \notin F => \E j \in 1..(i - 1) : r[j] = s
  PROVE  /\ r[1] \in F
         /\ Cardinality(F) <= Listed => F \subseteq {r[i] : i \in DOMAIN r}
<1>1. PICK n \in Nat : /\ n <= Listed /\ n <= Cardinality(S) /\ (n = Listed \/ n = Cardinality(S))
                       /\ r \in [1..n -> S] /\ Distinct(r)
  BY RankedIs
<1>2. IsFiniteSet(F) /\ Cardinality(F) \in Nat /\ Cardinality(S) \in Nat /\ Cardinality(F) <= Cardinality(S)
  BY FS_Subset, FS_CardinalityType
<1>3. Cardinality(F) # 0 BY <1>2, FS_EmptySet
<1>4. 1 \in 1..n BY <1>1, <1>2, <1>3, SearchAssumption
<1>5. r[1] \in F
  <2>1. PICK s : s \in F OBVIOUS
  <2>2. r[1] \notin F => \E j \in 1..(1 - 1) : r[j] = s BY <1>1, <1>4, <2>1
  <2> QED BY <2>2
<1>6. ASSUME Cardinality(F) <= Listed, NEW s \in F, \A i \in 1..n : r[i] # s PROVE FALSE
  <2>1. \A i \in 1..n : r[i] \in F
    <3> SUFFICES ASSUME NEW i \in 1..n, r[i] \notin F PROVE FALSE OBVIOUS
    <3>1. PICK j \in 1..(i - 1) : r[j] = s BY <1>1
    <3> QED BY <1>6, <3>1
  <2>2. PICK G : G = F \ {s} OBVIOUS
  <2>3. IsFiniteSet(G) /\ Cardinality(G) = Cardinality(F) - 1 BY <1>2, <2>2, FS_RemoveElement
  <2>4. r \in [1..n -> G] BY <1>1, <1>6, <2>1, <2>2
  <2>8. DOMAIN r = 1..n BY <2>4
  <2>9. \A i, j \in 1..n : r[i] = r[j] => i = j BY <1>1, <2>8 DEF Distinct
  <2>5. r \in Injection(1..n, G) BY <2>4, <2>9, Zenon DEF Injection, IsInjective
  <2>6. Cardinality(1..n) <= Cardinality(G) BY <2>3, <2>5, FS_Injection
  <2>7. Cardinality(1..n) = n BY FS_Interval
  <2> QED BY <1>1, <1>2, <1>6, <2>3, <2>6, <2>7
<1> QED BY <1>1, <1>5, <1>6

(* The exact match put first, and not repeated among fresh hits. *)
LEMMA PrependIs ==
  ASSUME NEW S, NEW hits \in Seq(S), Distinct(hits), NEW s
  PROVE  /\ Prepend(hits, s)[1] = s /\ 1 \in DOMAIN Prepend(hits, s)
         /\ (\A i \in DOMAIN hits : hits[i].id = s.id => hits[i] = s) => Distinct(Prepend(hits, s))
<1> DEFINE fresh == \A i \in DOMAIN hits : hits[i].id = s.id => hits[i] = s
<1> HIDE DEF fresh
<1>1. PICK same : same = SameAs(hits, s) OBVIOUS
<1>2. same \subseteq 1..Len(hits) /\ \A i \in 1..Len(hits) : i \in same <=> hits[i].id = s.id
  BY <1>1 DEF SameAs
<1>3. PICK rest : rest = Others(hits, s) OBVIOUS
<1>4. \E T : /\ rest \in Seq(T)
             /\ fresh => Distinct(rest) /\ \A i \in DOMAIN rest : rest[i] # s
  <2>1. CASE same = {}
    <3>1. rest = hits BY <1>1, <1>3, <2>1 DEF Others
    <3>2. \A i \in DOMAIN hits : hits[i] # s BY <1>2, <2>1
    <3> QED BY <3>1, <3>2
  <2>2. CASE same # {}
    <3>0. PICK n : n = Len(hits) /\ n \in Nat OBVIOUS
    <3>13. same \subseteq 1..n BY <1>2, <3>0
    <3>1. PICK k \in same : \A j \in same : k <= j BY <2>2, <3>0, <3>13, LeastIndex
    <3>2. PICK i : i = CHOOSE j \in same : \A l \in same : j <= l OBVIOUS
    <3>3. i \in same /\ i \in 1..Len(hits) BY <1>2, <3>1, <3>2
    <3>4. PICK a : a = SubSeq(hits, 1, i - 1) OBVIOUS
    <3>5. PICK b : b = SubSeq(hits, i + 1, Len(hits)) OBVIOUS
    <3>6. rest = a \o b BY <1>1, <1>3, <2>2, <3>2, <3>4, <3>5 DEF Others
    <3>7. a \in Seq(S) /\ Len(a) = i - 1 /\ \A j \in 1..(i - 1) : a[j] = hits[j]
      BY <3>3, <3>4
    <3>8. b \in Seq(S) /\ Len(b) = Len(hits) - i /\ \A j \in 1..(Len(hits) - i) : b[j] = hits[i + j]
      BY <3>3, <3>5
    <3>9. rest \in Seq(S) /\ Len(rest) = Len(hits) - 1 /\ DOMAIN rest = 1..(Len(hits) - 1)
      <4>1. rest \in Seq(S) /\ Len(rest) = Len(a) + Len(b) BY <3>6, <3>7, <3>8, ConcatProperties
      <4>2. Len(a) + Len(b) = Len(hits) - 1 BY <3>0, <3>3, <3>7, <3>8
      <4> QED BY <4>1, <4>2
    <3>14. Len(hits) \in Nat /\ DOMAIN hits = 1..Len(hits) OBVIOUS
    <3>15. \A j \in 1..(Len(hits) - 1) : j < i => rest[j] = hits[j]
      BY <3>3, <3>6, <3>7, <3>8, <3>14
    <3>16. \A j \in 1..(Len(hits) - 1) : ~(j < i) => rest[j] = hits[j + 1]
      <4> SUFFICES ASSUME NEW j \in 1..(Len(hits) - 1), ~(j < i) PROVE rest[j] = hits[j + 1] OBVIOUS
      <4>1. rest[j] = b[j - (i - 1)] BY <3>3, <3>6, <3>7, <3>8, <3>14
      <4>2. j - (i - 1) \in 1..(Len(hits) - i) /\ i + (j - (i - 1)) = j + 1 BY <3>3, <3>14
      <4> QED BY <3>8, <4>1, <4>2
    <3>10. \A j \in DOMAIN rest : \E l \in DOMAIN hits :
             rest[j] = hits[l] /\ l # i /\ l = IF j < i THEN j ELSE j + 1
      BY <3>3, <3>9, <3>14, <3>15, <3>16
    <3>11. Distinct(rest)
      <4> SUFFICES ASSUME NEW j \in DOMAIN rest, NEW k1 \in DOMAIN rest, rest[j] = rest[k1] PROVE j = k1
        BY DEF Distinct
      <4>1. PICK l \in DOMAIN hits : rest[j] = hits[l] /\ l # i /\ l = IF j < i THEN j ELSE j + 1 BY <3>10
      <4>2. PICK l1 \in DOMAIN hits : rest[k1] = hits[l1] /\ l1 # i /\ l1 = IF k1 < i THEN k1 ELSE k1 + 1 BY <3>10
      <4>3. l = l1 BY <4>1, <4>2 DEF Distinct
      <4>4. j \in Int /\ k1 \in Int /\ i \in Int BY <3>3, <3>9, <3>14
      <4> QED BY <4>1, <4>2, <4>3, <4>4
    <3>12. ASSUME fresh, NEW j \in DOMAIN rest PROVE rest[j] # s
      <4>1. hits[i] = s BY <1>2, <3>3, <3>12 DEF fresh
      <4>2. PICK l \in DOMAIN hits : rest[j] = hits[l] /\ l # i BY <3>10
      <4>3. rest[j] = s => hits[l] = hits[i] /\ i \in DOMAIN hits BY <3>3, <3>14, <4>1, <4>2
      <4> QED BY <4>2, <4>3 DEF Distinct
    <3> QED BY <3>9, <3>11, <3>12
  <2> QED BY <2>1, <2>2
<1>5. PICK T : /\ rest \in Seq(T)
               /\ fresh => Distinct(rest) /\ \A i \in DOMAIN rest : rest[i] # s
  BY <1>4
<1>6. PICK whole : whole = <<s>> \o rest OBVIOUS
<1>7. Prepend(hits, s) = whole BY <1>3, <1>6 DEF Prepend
<1>8. /\ DOMAIN whole = 1..(Len(rest) + 1) /\ Len(rest) \in Nat /\ whole[1] = s
      /\ \A i \in 2..(Len(rest) + 1) : whole[i] = rest[i - 1] /\ i - 1 \in DOMAIN rest
  BY <1>5, <1>6
<1>9. ASSUME Distinct(rest), \A i \in DOMAIN rest : rest[i] # s PROVE Distinct(whole)
  <2> SUFFICES ASSUME NEW i \in DOMAIN whole, NEW j \in DOMAIN whole, whole[i] = whole[j] PROVE i = j
    BY DEF Distinct
  <2>1. \A k \in DOMAIN whole : k = 1 \/ k \in 2..(Len(rest) + 1) BY <1>8
  <2>2. ASSUME NEW k \in 2..(Len(rest) + 1), whole[k] = s PROVE FALSE BY <1>8, <1>9, <2>2
  <2>3. ASSUME i \in 2..(Len(rest) + 1), j \in 2..(Len(rest) + 1) PROVE i = j
    <3>1. rest[i - 1] = rest[j - 1] /\ i - 1 \in DOMAIN rest /\ j - 1 \in DOMAIN rest BY <1>8, <2>3
    <3>2. i - 1 = j - 1 BY <1>9, <3>1 DEF Distinct
    <3>3. i \in Int /\ j \in Int BY <1>8
    <3> QED BY <3>2, <3>3
  <2> QED BY <1>8, <2>1, <2>2, <2>3
<1>10. 1 \in DOMAIN whole BY <1>8
<1>11. Prepend(hits, s)[1] = s /\ 1 \in DOMAIN Prepend(hits, s) BY <1>7, <1>8, <1>10
<1>12. ASSUME fresh PROVE Distinct(Prepend(hits, s))
  <2>1. Distinct(rest) /\ \A i \in DOMAIN rest : rest[i] # s BY <1>5, <1>12
  <2>2. Distinct(whole) BY <1>9, <2>1
  <2> QED BY <1>7, <2>2
<1> QED BY <1>11, <1>12 DEF fresh

LEMMA RequestStep ==
  ASSUME SearchInv, [SearchNext]_searchVars
  PROVE  RequestInv'
<1>1. ASSUME UNCHANGED search PROVE RequestInv'
  BY <1>1 DEF SearchInv, RequestInv
<1>2. ASSUME search' = NoSearch PROVE RequestInv'
  BY <1>2 DEF RequestInv, NoSearch
<1>3. ASSUME NEW m \in DOMAIN Shelf, NEW defs \in Shelf[m], ReplaceSymbols(m, defs) PROVE RequestInv'
  BY <1>1, <1>3 DEF ReplaceSymbols
<1>4. ASSUME NEW q \in Queries, SearchStart(q) PROVE RequestInv'
  <2>1. search' = FirstQuery(q) BY <1>4 DEF SearchStart
  <2>2. CASE q.kind = "oid"
    <3>1. search' = [step |-> "prefix", query |-> q] BY <2>1, <2>2 DEF FirstQuery
    <3> QED BY <2>2, <3>1 DEF RequestInv, ByOID
  <2>3. CASE q.kind = "lookup_oid"
    <3>1. search' = [step |-> "lookup", query |-> q] BY <2>1, <2>3 DEF FirstQuery
    <3> QED BY <2>3, <3>1 DEF RequestInv, ByOID
  <2>4. CASE q.kind = "lookup_symbol"
    <3>1. search' = [step |-> "exact", query |-> q, hits |-> <<>>, error |-> "none"]
      BY <2>1, <2>4 DEF FirstQuery
    <3>2. Distinct(<<>>) /\ <<>> \in Seq({}) BY DEF Distinct
    <3> QED BY <2>4, <3>1, <3>2 DEF RequestInv, ByOID
  <2>5. CASE q.kind \notin {"oid", "lookup_oid", "lookup_symbol"}
    <3>1. search' = [step |-> "text", query |-> q] BY <2>1, <2>5 DEF FirstQuery
    <3> QED BY <2>5, <3>1 DEF RequestInv, ByOID
  <2> QED BY <2>2, <2>3, <2>4, <2>5
<1>5. ASSUME LookupOID PROVE RequestInv'
  <2>1. search.step = "lookup" BY <1>5 DEF LookupOID
  <2>2. search' = NoSearch \/ search' = [search EXCEPT !.step = "prefix"]
    BY <1>5 DEF LookupOID, Found
  <2>3. ASSUME search' = [search EXCEPT !.step = "prefix"] PROVE RequestInv'
    <3>1. search.query \in Queries /\ search.query.kind \in ByOID
          /\ search' = [step |-> "prefix", query |-> search.query]
      BY <2>1, <2>3 DEF SearchInv, RequestInv
    <3> QED BY <2>3, <3>1, <2>1 DEF RequestInv
  <2> QED BY <1>2, <2>2, <2>3
<1>6. ASSUME SearchByOIDPrefix PROVE RequestInv'
  BY <1>2, <1>6 DEF SearchByOIDPrefix, Found
<1>7. ASSUME SearchText PROVE RequestInv'
  <2>1. search.step = "text" /\ search.query \in Queries /\ search.query.kind \notin ByOID
    BY <1>7 DEF SearchText, SearchInv, RequestInv
  <2>2. PICK words : words = Words(search.query) OBVIOUS
  <2>3. \E hits, error : /\ search' = [step |-> "exact", query |-> search.query, hits |-> hits, error |-> error]
                         /\ hits = <<>> \/ hits \in Ranked(Matching(words))
    BY <1>7, <2>2 DEF SearchText
  <2>4. PICK hits, error : /\ search' = [step |-> "exact", query |-> search.query, hits |-> hits, error |-> error]
                           /\ hits = <<>> \/ hits \in Ranked(Matching(words))
    BY <2>3
  <2>5. Matching(words) \subseteq symbols BY DEF Matching
  <2>6. PICK S : S = Matching(words) /\ IsFiniteSet(S) BY <2>5, FS_Subset DEF SearchInv, SymbolsInv
  <2>7. Distinct(hits) /\ \E T : hits \in Seq(T)
    <3>1. CASE hits = <<>>
      <4>1. Distinct(hits) /\ hits \in Seq({}) BY <3>1 DEF Distinct
      <4> QED BY <4>1
    <3>2. CASE hits \in Ranked(S) BY <2>6, <3>2, RankedSeq
    <3> QED BY <2>4, <2>6, <3>1, <3>2
  <2> QED BY <2>1, <2>4, <2>7 DEF RequestInv
<1>8. ASSUME SearchExact PROVE RequestInv'
  <2>1. search.step = "exact" /\ search.query \in Queries BY <1>8 DEF SearchExact, SearchInv, RequestInv
  <2>2. search' = NoSearch \/ search' = [step |-> "suggest", query |-> search.query]
    BY <1>8 DEF SearchExact, Found
  <2>3. ASSUME search' = [step |-> "suggest", query |-> search.query] PROVE RequestInv'
    BY <2>1, <2>3 DEF RequestInv
  <2> QED BY <1>2, <2>2, <2>3
<1>9. ASSUME DidYouMean PROVE RequestInv'
  BY <1>2, <1>9 DEF DidYouMean, Found
<1>10. CASE SearchNext BY <1>3, <1>4, <1>5, <1>6, <1>7, <1>8, <1>9, <1>10 DEF SearchNext
<1>11. CASE UNCHANGED searchVars BY <1>1, <1>11 DEF searchVars
<1> QED BY <1>10, <1>11

LEMMA SymbolsStep ==
  ASSUME SearchInv, [SearchNext]_searchVars
  PROVE  SymbolsInv'
<1>1. ASSUME UNCHANGED <<symbols, replaced>> PROVE SymbolsInv'
  BY <1>1 DEF SearchInv, SymbolsInv
<1>2. ASSUME NEW m \in DOMAIN Shelf, NEW defs \in Shelf[m], ReplaceSymbols(m, defs) PROVE SymbolsInv'
  BY <1>2, SymbolsReplaced DEF SearchInv
<1>3. \A q : SearchStart(q) => UNCHANGED <<symbols, replaced>> BY DEF SearchStart
<1>4. LookupOID \/ SearchByOIDPrefix \/ SearchText \/ SearchExact \/ DidYouMean => UNCHANGED <<symbols, replaced>>
  BY DEF LookupOID, SearchByOIDPrefix, SearchText, SearchExact, DidYouMean
<1>5. CASE SearchNext BY <1>1, <1>2, <1>3, <1>4, <1>5 DEF SearchNext
<1>6. CASE UNCHANGED searchVars BY <1>1, <1>6 DEF searchVars
<1> QED BY <1>5, <1>6


(* The three queries that answer. *)
LEMMA OwnerLeads ==
  ASSUME SearchInv, LookupOID, search' = NoSearch
  PROVE  AnswerLeads
<1>1. search.step = "lookup" /\ search.query.kind \in ByOID BY DEF LookupOID, SearchInv, RequestInv
<1>2. PICK owners : owners = {s \in symbols : s.oid = search.query.oid} OBVIOUS
<1>3. NamedIn(search.query) = owners BY <1>1, <1>2 DEF NamedIn, ByOID
<1>4. owners # {}
  <2>1. owners = {} => search' = [search EXCEPT !.step = "prefix"] BY <1>2 DEF LookupOID
  <2>2. [search EXCEPT !.step = "prefix"] # NoSearch
    <3>1. search = [step |-> "lookup", query |-> search.query] BY <1>1 DEF SearchInv, RequestInv
    <3>2. [search EXCEPT !.step = "prefix"] = [step |-> "prefix", query |-> search.query] BY <3>1
    <3> QED BY <3>2 DEF NoSearch
  <2> QED BY <2>1, <2>2
<1>5. PICK s \in owners : Found("exact", <<s>>) BY <1>2, <1>4 DEF LookupOID
<1>6. found' = [kind |-> "exact", query |-> search.query, hits |-> <<s>>] BY <1>5 DEF Found
<1>7. found'.kind = "exact" /\ found'.hits = <<s>> BY <1>6
<1> QED BY <1>3, <1>5, <1>7 DEF AnswerLeads

LEMMA PrefixLeads ==
  ASSUME SearchInv, SearchByOIDPrefix
  PROVE  AnswerLeads
<1>1. search.step = "prefix" /\ search.query.kind \in ByOID /\ search.query \in Queries
  BY DEF SearchByOIDPrefix, SearchInv, RequestInv
<1>2. PICK p : p = search.query.oid OBVIOUS
<1>3. p \in Seq(Nat) /\ p # <<>> BY <1>1, <1>2, SearchAssumption DEF ByOID
<1>4. PICK below : below = {s \in symbols : s.oid # <<>> /\ Len(p) <= Len(s.oid) /\ SubSeq(s.oid, 1, Len(p)) = p}
  OBVIOUS
<1>5. PICK hits \in Ranked(below) :
        /\ \A s \in below, i \in DOMAIN hits :
             s.oid = p /\ hits[i].oid # p => \E j \in 1..(i - 1) : hits[j] = s
        /\ Found("results", hits)
  BY <1>2, <1>4 DEF SearchByOIDPrefix, Begins
<1>6. PICK F : F = {s \in symbols : s.oid = p} OBVIOUS
<1>7. NamedIn(search.query) = F BY <1>1, <1>2, <1>6 DEF NamedIn, ByOID
<1>8. SubSeq(p, 1, Len(p)) = p /\ Len(p) \in Nat BY <1>3
<1>9. F \subseteq below BY <1>3, <1>4, <1>6, <1>8
<1>10. below \subseteq symbols BY <1>4
<1>11. IsFiniteSet(below) BY <1>10, FS_Subset DEF SearchInv, SymbolsInv
<1>12. hits \in Seq(below) /\ Distinct(hits) BY <1>5, <1>11, RankedSeq
<1>13. \A s \in F, i \in DOMAIN hits : hits[i] \notin F => \E j \in 1..(i - 1) : hits[j] = s
  <2> SUFFICES ASSUME NEW s \in F, NEW i \in DOMAIN hits, hits[i] \notin F
               PROVE  \E j \in 1..(i - 1) : hits[j] = s
    OBVIOUS
  <2>1. hits[i] \in symbols BY <1>10, <1>12
  <2>2. s.oid = p /\ hits[i].oid # p /\ s \in below BY <1>6, <1>9, <2>1
  <2> QED BY <1>5, <2>2
<1>14. F # {} => /\ hits[1] \in F
                 /\ Cardinality(F) <= Listed => F \subseteq {hits[i] : i \in DOMAIN hits}
  <2> SUFFICES ASSUME F # {}
               PROVE  /\ hits[1] \in F
                      /\ Cardinality(F) <= Listed => F \subseteq {hits[i] : i \in DOMAIN hits}
    OBVIOUS
  <2>1. hits \in Ranked(below) BY <1>5
  <2>2. \A s \in F : \A i \in DOMAIN hits : hits[i] \notin F => \E j \in 1..(i - 1) : hits[j] = s BY <1>13
  <2> QED BY <1>9, <1>11, <2>1, <2>2, FirstAllListed
<1>15. found' = [kind |-> "results", query |-> search.query, hits |-> hits] BY <1>5 DEF Found
<1>16. found'.kind = "results" /\ found'.hits = hits BY <1>15
<1> QED BY <1>7, <1>12, <1>14, <1>16 DEF AnswerLeads, Distinct

LEMMA ExactLeads ==
  ASSUME SearchInv, SearchExact
  PROVE  AnswerLeads
<1>1. search.step = "exact" /\ search.query.kind \notin ByOID BY DEF SearchExact, SearchInv, RequestInv
<1>2. PICK q : q = search.query OBVIOUS
<1>3. PICK exact : exact = IF q.kind \notin {"qualified", "lookup_symbol"} THEN {}
                           ELSE {s \in symbols : s.module = q.module /\ s.name = q.name}
  OBVIOUS
<1>4. NamedIn(q) = exact BY <1>1, <1>2, <1>3 DEF NamedIn, ByOID
<1> SUFFICES ASSUME exact # {} PROVE AnswerLeads BY <1>2, <1>4 DEF AnswerLeads
<1>5. PICK s : s = CHOOSE x \in exact : TRUE OBVIOUS
<1>6. s \in exact BY <1>5
<1>7. PICK hits : hits = Prepend(search.hits, s) OBVIOUS
<1>8. Found("results", hits) BY <1>2, <1>3, <1>5, <1>7 DEF SearchExact
<1>9. found' = [kind |-> "results", query |-> search.query, hits |-> hits] BY <1>8 DEF Found
<1>10. found'.kind = "results" /\ found'.hits = hits BY <1>9
<1>11. PICK S : search.hits \in Seq(S) /\ Distinct(search.hits) BY <1>1 DEF SearchInv, RequestInv
<1>12. /\ hits[1] = s /\ 1 \in DOMAIN hits
       /\ (\A i \in DOMAIN search.hits : search.hits[i].id = s.id => search.hits[i] = s) => Distinct(hits)
  <2>1. PICK had : had = search.hits OBVIOUS
  <2> QED BY <1>7, <1>11, <2>1, PrependIs
<1>13. s \in symbols /\ exact = {s}
  <2>1. exact \subseteq symbols /\ \A x, y \in exact : x.module = y.module /\ x.name = y.name
    BY <1>3
  <2> QED BY <1>6, <2>1 DEF SearchInv, SymbolsInv
<1>14. (\A i \in DOMAIN search.hits : search.hits[i] \in symbols) => Distinct(hits)
  BY <1>12, <1>13 DEF SearchInv, SymbolsInv
<1>15. exact \subseteq {hits[i] : i \in DOMAIN hits} BY <1>12, <1>13
<1>16. hits[1] \in exact BY <1>6, <1>12
<1>17. q.kind \notin {"oid", "lookup_oid"} BY <1>1, <1>2 DEF ByOID
<1> QED BY <1>2, <1>4, <1>10, <1>14, <1>15, <1>16, <1>17 DEF AnswerLeads, Distinct

LEMMA AnswerStep ==
  ASSUME SearchInv, [SearchNext]_searchVars,
         search.step \in {"lookup", "prefix", "exact"}, search' = NoSearch
  PROVE  AnswerLeads
<1>1. search # search' BY DEF NoSearch
<1>2. SearchNext BY <1>1 DEF searchVars
<1>3. ~\E m \in DOMAIN Shelf : \E defs \in Shelf[m] : ReplaceSymbols(m, defs) BY <1>1 DEF ReplaceSymbols
<1>4. ~\E q \in Queries : SearchStart(q) BY DEF SearchStart
<1>5. ~SearchText BY DEF SearchText
<1>6. ~DidYouMean BY DEF DidYouMean
<1> QED BY <1>2, <1>3, <1>4, <1>5, <1>6, OwnerLeads, PrefixLeads, ExactLeads DEF SearchNext

(* For any modules, queries and limits: the symbol or the OID that was     *)
(* typed leads the answer, once, also after a text query that failed or an *)
(* import between the two queries (handleSearch, searchWithExactMatch,     *)
(* SearchByOIDPrefix, lookup_oid and lookup_symbol).                       *)
THEOREM TypedLeads == SearchSpec => TypedFirst
<1>1. SearchInit => SearchInv
  BY FS_EmptySet DEF SearchInit, SearchInv, SymbolsInv, RequestInv, NoSearch
<1>2. SearchInv /\ [SearchNext]_searchVars => SearchInv'
  BY RequestStep, SymbolsStep DEF SearchInv
<1>3. SearchInv /\ [SearchNext]_searchVars
        => [search.step \in {"lookup", "prefix", "exact"} /\ search' = NoSearch => AnswerLeads]_searchVars
  BY AnswerStep
<1> QED BY <1>1, <1>2, <1>3, PTL DEF SearchSpec, TypedFirst
-----------------------------------------------------------------------------
(* Functions that are defined along a sequence. *)

LEMMA Ascends ==
  ASSUME NEW n \in Nat, NEW G, 0 \in G, \A i \in 1..n : i - 1 \in G => i \in G
  PROVE  n \in G
<1> SUFFICES ASSUME n \notin G PROVE FALSE OBVIOUS
<1>1. PICK S : S = {i \in 1..n : i \notin G} OBVIOUS
<1>2. S \subseteq 1..n /\ n \in S BY <1>1
<1>3. PICK k \in S : \A i \in S : k <= i BY <1>2, LeastIndex
<1>4. k \in 1..n /\ k \notin G BY <1>1, <1>3
<1>5. k - 1 = 0 \/ k - 1 \in 1..n BY <1>4
<1>6. k - 1 \notin S BY <1>3, <1>4
<1> QED BY <1>1, <1>4, <1>5, <1>6

LEMMA UpTo ==
  ASSUME NEW n \in Nat
  PROVE  /\ 0 \in 0..n /\ n \in 0..n
         /\ \A i \in 1..n : i \in 0..n /\ i - 1 \in 0..n /\ i # 0
         /\ \A i \in 0..n : i = 0 \/ i \in 1..n
OBVIOUS

(* Two functions that start and go on alike. *)
LEMMA GoOnAlike ==
  ASSUME NEW n \in Nat, NEW f, NEW h, f[0] = h[0], \A i \in 1..n : f[i - 1] = h[i - 1] => f[i] = h[i]
  PROVE  f[n] = h[n]
<1>1. PICK G : G = {i \in 0..n : f[i] = h[i]} OBVIOUS
<1>2. 0 \in G BY <1>1
<1>3. \A i \in 1..n : i - 1 \in G => i \in G BY <1>1
<1>4. n \in G BY <1>2, <1>3, Ascends, Zenon
<1> QED BY <1>1, <1>4

Follows(f, n, V, a, g) == f \in [0..n -> V] /\ f[0] = a /\ \A i \in 1..n : f[i] = g[i][f[i - 1]]

LEMMA Recursion ==
  ASSUME NEW n \in Nat, NEW V, NEW a \in V, NEW g, \A i \in 1..n : \A x \in V : g[i][x] \in V
  PROVE  \E f : Follows(f, n, V, a, g)
<1> DEFINE is(f, k) == f[0] = a /\ \A i \in 1..k : f[i] = g[i][f[i - 1]]
           G == {k \in 0..n : \E f \in [0..k -> V] : is(f, k)}
<1>1. 0 \in G
  <2>1. PICK f : f = [i \in 0..0 |-> a] OBVIOUS
  <2>2. f \in [0..0 -> V] /\ is(f, 0) BY <2>1
  <2> QED BY <2>2
<1>2. \A k \in 1..n : k - 1 \in G => k \in G
  <2> SUFFICES ASSUME NEW k \in 1..n, k - 1 \in G PROVE k \in G OBVIOUS
  <2>1. PICK f \in [0..(k - 1) -> V] : is(f, k - 1) OBVIOUS
  <2>2. PICK x : x = g[k][f[k - 1]] OBVIOUS
  <2>3. k \in Nat /\ k - 1 \in 0..(k - 1) /\ k - 1 >= 0 OBVIOUS
  <2>4. x \in V BY <2>1, <2>2, <2>3
  <2>5. PICK h : h = [i \in 0..k |-> IF i = k THEN x ELSE f[i]] OBVIOUS
  <2>6. \A i \in 0..k : i = k \/ i \in 0..(k - 1) BY <2>3
  <2>7. h \in [0..k -> V] BY <2>1, <2>4, <2>5, <2>6
  <2>8. h[k] = x /\ \A i \in 0..(k - 1) : h[i] = f[i] BY <2>3, <2>5
  <2>9. \A i \in 1..(k - 1) : h[i] = g[i][h[i - 1]] BY <2>1, <2>3, <2>8
  <2>10. h[0] = a /\ h[k] = g[k][h[k - 1]] BY <2>1, <2>2, <2>3, <2>8
  <2>11. \A i \in 1..k : h[i] = g[i][h[i - 1]] BY ONLY <2>3, <2>9, <2>10, SMTT(30)
  <2>12. k \in 0..n /\ is(h, k) BY <2>10, <2>11, UpTo
  <2> QED BY <2>7, <2>12, Zenon
<1> HIDE DEF G
<1>3. n \in G BY <1>1, <1>2, Ascends, Zenon
<1> QED BY <1>3 DEF G, Follows

LEMMA Prefix ==
  ASSUME NEW X, NEW s \in Seq(X)
  PROVE  /\ SubSeq(s, 1, 0) = <<>> /\ SubSeq(s, 1, Len(s)) = s
         /\ \A k \in 1..Len(s) : /\ SubSeq(s, 1, k - 1) \in Seq(X) /\ SubSeq(s, 1, k) \in Seq(X)
                                 /\ SubSeq(s, 1, k) = Append(SubSeq(s, 1, k - 1), s[k])
OBVIOUS

-----------------------------------------------------------------------------
(* The text of a capture. *)

JoinFrom(n, parts) == CHOOSE h : h = [i \in 0..n |-> IF i = 0 THEN <<>> ELSE h[i - 1] \o parts[i]]

Joins(f, n, parts, X) == f \in [0..n -> Seq(X)] /\ f[0] = <<>> /\ \A i \in 1..n : f[i] = f[i - 1] \o parts[i]

LEMMA JoinFunction ==
  ASSUME NEW X, NEW n \in Nat, NEW parts, \A i \in 1..n : parts[i] \in Seq(X)
  PROVE  Joins(JoinFrom(n, parts), n, parts, X)
<1>0. PICK j : j = JoinFrom(n, parts) OBVIOUS
<1>1. PICK V : V = Seq(X) OBVIOUS
<1>2. PICK g : g = [i \in 1..n |-> [x \in V |-> x \o parts[i]]] OBVIOUS
<1>3. \A i \in 1..n : \A x \in V : x \o parts[i] \in V BY <1>1
<1>4. \A i \in 1..n : \A x \in V : g[i][x] \in V BY <1>2, <1>3
<1>5. <<>> \in V BY <1>1
<1>6. PICK f \in [0..n -> V] : f[0] = <<>> /\ \A i \in 1..n : f[i] = g[i][f[i - 1]]
  <2>1. \E f : Follows(f, n, V, <<>>, g) BY <1>4, <1>5, Recursion
  <2> QED BY <2>1 DEF Follows
<1>7. \A i \in 1..n : f[i] = f[i - 1] \o parts[i]
  <2> SUFFICES ASSUME NEW i \in 1..n PROVE f[i] = f[i - 1] \o parts[i] OBVIOUS
  <2>1. f[i] = g[i][f[i - 1]] BY <1>6, Zenon
  <2>2. f[i - 1] \in V BY <1>6, UpTo
  <2>3. g[i] = [x \in V |-> x \o parts[i]] BY <1>2, Zenon
  <2> QED BY <2>1, <2>2, <2>3, Zenon
<1>8. f = [i \in 0..n |-> IF i = 0 THEN <<>> ELSE f[i - 1] \o parts[i]]
  <2>1. \A i \in 0..n : f[i] = IF i = 0 THEN <<>> ELSE f[i - 1] \o parts[i] BY <1>6, <1>7, UpTo, Zenon
  <2>2. f = [i \in 0..n |-> f[i]] BY <1>6, Zenon
  <2> QED BY <2>1, <2>2, Zenon
<1>9. j = [i \in 0..n |-> IF i = 0 THEN <<>> ELSE j[i - 1] \o parts[i]] BY <1>0, <1>8, Zenon DEF JoinFrom
<1>10. \A i \in 0..n : j[i] = IF i = 0 THEN <<>> ELSE j[i - 1] \o parts[i]
  <2> SUFFICES ASSUME NEW i \in 0..n PROVE j[i] = IF i = 0 THEN <<>> ELSE j[i - 1] \o parts[i] OBVIOUS
  <2> QED BY <1>9, Zenon
<1>11. j[0] = <<>> /\ \A i \in 1..n : j[i] = j[i - 1] \o parts[i] BY <1>10, UpTo, Zenon
<1>12. \A i \in 0..n : j[i] = f[i]
  <2>1. PICK G : G = {i \in 0..n : j[i] = f[i]} OBVIOUS
  <2>2. 0 \in G BY <1>6, <1>11, <2>1, UpTo, Zenon
  <2>3. \A i \in 1..n : i - 1 \in G => i \in G BY <1>7, <1>11, <2>1, UpTo, Zenon
  <2>4. ASSUME NEW m \in 0..n PROVE m \in G
    <3>1. m \in Nat /\ \A i \in 1..m : i \in 1..n OBVIOUS
    <3>2. \A i \in 1..m : i - 1 \in G => i \in G BY <2>3, <3>1, Zenon
    <3> QED BY <2>2, <3>1, <3>2, Ascends, Zenon
  <2> QED BY <2>1, <2>4, Zenon
<1>13. DOMAIN j = 0..n BY <1>9, Zenon
<1>14. \A i \in 0..n : f[i] \in V BY <1>6, Zenon
<1>15. j = [i \in 0..n |-> j[i]] BY <1>9, Zenon
<1>16. \A i \in 0..n : j[i] \in V BY <1>12, <1>14, Zenon
<1>17. j \in [0..n -> V] BY <1>15, <1>16, Zenon
<1> QED BY <1>0, <1>1, <1>11, <1>17, Zenon DEF Joins

LEMMA JoinedIs ==
  ASSUME NEW X, NEW parts \in Seq(Seq(X))
  PROVE  \E f \in [0..Len(parts) -> Seq(X)] :
           /\ f[0] = <<>> /\ \A n \in 1..Len(parts) : f[n] = f[n - 1] \o parts[n]
           /\ Joined(parts) = f[Len(parts)]
<1>1. PICK n : n = Len(parts) OBVIOUS
<1>2. n \in Nat /\ \A i \in 1..n : parts[i] \in Seq(X) BY <1>1
<1>3. PICK j : j = JoinFrom(n, parts) OBVIOUS
<1>4. j \in [0..n -> Seq(X)] /\ j[0] = <<>> /\ \A i \in 1..n : j[i] = j[i - 1] \o parts[i]
  <2>1. Joins(JoinFrom(n, parts), n, parts, X) BY <1>2, JoinFunction
  <2> QED BY <1>3, <2>1 DEF Joins
<1>5. Joined(parts) = j[n] BY <1>1, <1>3, Zenon DEF Joined, JoinFrom
<1> QED BY <1>1, <1>4, <1>5, Zenon

LEMMA JoinedEmpty == Joined(<<>>) = <<>>
<1>1. PICK none : none = <<>> OBVIOUS
<1>2. none \in Seq(Seq({})) /\ Len(none) = 0 BY <1>1
<1>3. PICK f : f[0] = <<>> /\ Joined(none) = f[Len(none)] BY <1>2, JoinedIs, ZenonT(60)
<1> QED BY <1>1, <1>2, <1>3

LEMMA JoinedAppend ==
  ASSUME NEW X, NEW parts \in Seq(Seq(X)), NEW p \in Seq(X)
  PROVE  Joined(parts) \in Seq(X) /\ Joined(Append(parts, p)) = Joined(parts) \o p
<1>1. PICK n : n = Len(parts) OBVIOUS
<1>2. PICK more : more = Append(parts, p) OBVIOUS
<1>3. /\ n \in Nat /\ n + 1 \in Nat /\ more \in Seq(Seq(X)) /\ Len(more) = n + 1 /\ more[n + 1] = p
      /\ \A i \in 1..n : more[i] = parts[i]
  BY <1>1, <1>2
<1>4. PICK f \in [0..n -> Seq(X)] :
           /\ f[0] = <<>> /\ \A i \in 1..n : f[i] = f[i - 1] \o parts[i]
           /\ Joined(parts) = f[n]
  BY <1>1, JoinedIs, Zenon
<1>5. PICK h \in [0..(n + 1) -> Seq(X)] :
           /\ h[0] = <<>> /\ \A i \in 1..(n + 1) : h[i] = h[i - 1] \o more[i]
           /\ Joined(more) = h[n + 1]
  <2>1. \E h \in [0..Len(more) -> Seq(X)] :
           /\ h[0] = <<>> /\ \A i \in 1..Len(more) : h[i] = h[i - 1] \o more[i]
           /\ Joined(more) = h[Len(more)]
    BY <1>3, JoinedIs, Zenon
  <2> QED BY <1>3, <2>1
<1>6. (\A i \in 1..n : i \in 1..(n + 1)) /\ n + 1 \in 1..(n + 1) /\ (n + 1) - 1 = n BY <1>3
<1>7. f[0] = h[0] /\ \A i \in 1..n : f[i - 1] = h[i - 1] => f[i] = h[i] BY <1>3, <1>4, <1>5, <1>6, Zenon
<1>8. f[n] = h[n] BY <1>3, <1>7, GoOnAlike, Zenon
<1>9. h[n + 1] = h[n] \o p BY <1>3, <1>5, <1>6
<1>10. f[n] \in Seq(X) BY <1>3, <1>4, UpTo
<1> QED BY <1>2, <1>4, <1>5, <1>8, <1>9, <1>10

(* Joining what stands for the items of a sequence, one after another. *)
LEMMA JoinedUpTo ==
  ASSUME NEW X, NEW parts \in Seq(Seq(X)), NEW k \in 1..Len(parts)
  PROVE  /\ Joined(SubSeq(parts, 1, k)) = Joined(SubSeq(parts, 1, k - 1)) \o parts[k]
         /\ Joined(SubSeq(parts, 1, k - 1)) \in Seq(X) /\ Joined(SubSeq(parts, 1, k)) \in Seq(X)
<1>1. /\ SubSeq(parts, 1, k - 1) \in Seq(Seq(X)) /\ SubSeq(parts, 1, k) \in Seq(Seq(X))
      /\ SubSeq(parts, 1, k) = Append(SubSeq(parts, 1, k - 1), parts[k]) /\ parts[k] \in Seq(X)
  BY Prefix
<1> QED BY <1>1, JoinedAppend

(* Reading lines from a walk that is already there. *)
Idents == {v.ident : v \in Answers} \cup {""}
Types == {v.type : v \in Answers} \cup {""}
ReadEntries == [ident : Idents, type : Types, value : Seq(Nat), present : BOOLEAN]
ReadWalks == [entries : Seq(ReadEntries), skipped : Nat]
Lines == [kind : {"record", "gap", "hex", "prose", "cruft"}, ident : Idents, type : Types, value : Seq(Nat)]
RunFrom(w, lines) ==
  LET walk[n \in 0..Len(lines)] == IF n = 0 THEN w ELSE ParseLine(walk[n - 1], lines[n])
  IN walk[Len(lines)]

LEMMA EntryIn ==
  ASSUME NEW a \in Idents, NEW b \in Types, NEW c \in Seq(Nat), NEW d \in BOOLEAN,
         NEW e, e = [ident |-> a, type |-> b, value |-> c, present |-> d]
  PROVE  e \in ReadEntries
<1>1. PICK B : B = BOOLEAN OBVIOUS
<1>2. d \in B BY <1>1, Zenon
<1>3. e \in [ident : Idents, type : Types, value : Seq(Nat), present : B] BY <1>2
<1> QED BY <1>1, <1>3, Zenon DEF ReadEntries

LEMMA ParseLineIs ==
  ASSUME NEW w \in ReadWalks, NEW l \in Lines
  PROVE  /\ l.kind = "cruft" => ParseLine(w, l) = w
         /\ l.kind \in {"record", "gap"} =>
              ParseLine(w, l) = [entries |-> Append(w.entries, Entry(l)), skipped |-> w.skipped] /\ Entry(l) \in ReadEntries
         /\ Continues(w.entries, l) =>
              /\ w.entries # <<>>
              /\ ParseLine(w, l) = [entries |-> [w.entries EXCEPT ![Len(w.entries)].value = @ \o l.value],
                                    skipped |-> w.skipped]
         /\ l.kind \in {"hex", "prose"} /\ ~Continues(w.entries, l) =>
              ParseLine(w, l) = [entries |-> w.entries, skipped |-> w.skipped + 1]
<1>1. w = [entries |-> w.entries, skipped |-> w.skipped] BY DEF ReadWalks
<1>2. l.kind \in {"record", "gap", "hex", "prose", "cruft"} BY DEF Lines
<1>3. CASE l.kind = "cruft" BY <1>3 DEF ParseLine, Continues
<1>4. CASE l.kind \in {"record", "gap"}
  <2>1. ParseLine(w, l) = [w EXCEPT !.entries = Append(w.entries, Entry(l))] BY <1>4 DEF ParseLine, Continues
  <2>2. [w EXCEPT !.entries = Append(w.entries, Entry(l))] = [entries |-> Append(w.entries, Entry(l)), skipped |-> w.skipped]
    <3>1. PICK d : d = Append(w.entries, Entry(l)) OBVIOUS
    <3>2. PICK e : e = w.entries OBVIOUS
    <3>3. PICK k : k = w.skipped OBVIOUS
    <3>4. w = [entries |-> e, skipped |-> k] BY ONLY <1>1, <3>2, <3>3
    <3>5. [w EXCEPT !.entries = d] = [entries |-> d, skipped |-> k] BY ONLY <3>4
    <3> QED BY ONLY <3>1, <3>3, <3>5
  <2>3. Entry(l) \in ReadEntries
    <3>1. l.ident \in Idents /\ l.type \in Types /\ "" \in Types /\ l.value \in Seq(Nat) /\ <<>> \in Seq(Nat)
      <4>1. l.ident \in Idents /\ l.type \in Types /\ l.value \in Seq(Nat) BY DEF Lines
      <4>2. "" \in Types BY DEF Types
      <4>3. <<>> \in Seq(Nat) OBVIOUS
      <4> QED BY ONLY <4>1, <4>2, <4>3, Zenon
    <3>2. CASE l.kind = "gap"
      <4>1. Entry(l) = [ident |-> l.ident, type |-> "", value |-> <<>>, present |-> FALSE] BY <3>2 DEF Entry
      <4>2. PICK e : e = Entry(l) OBVIOUS
      <4>3. e \in ReadEntries BY <3>1, <4>1, <4>2, EntryIn, Zenon
      <4> QED BY ONLY <4>2, <4>3, Zenon
    <3>3. CASE l.kind # "gap"
      <4>1. Entry(l) = [ident |-> l.ident, type |-> l.type, value |-> l.value, present |-> TRUE] BY <3>3 DEF Entry
      <4>2. PICK e : e = Entry(l) OBVIOUS
      <4>3. e \in ReadEntries BY <3>1, <4>1, <4>2, EntryIn, Zenon
      <4> QED BY ONLY <4>2, <4>3, Zenon
    <3> QED BY <3>2, <3>3
  <2> QED BY <1>4, <2>1, <2>2, <2>3 DEF Continues
<1>5. CASE Continues(w.entries, l)
  <2>1. l.kind = "hex" /\ w.entries # <<>> BY <1>5 DEF Continues
  <2>2. ParseLine(w, l) = [w EXCEPT !.entries[Len(w.entries)].value = @ \o l.value]
    BY <1>5, <2>1 DEF ParseLine
  <2>3. [w EXCEPT !.entries[Len(w.entries)].value = @ \o l.value]
          = [entries |-> [w.entries EXCEPT ![Len(w.entries)].value = @ \o l.value], skipped |-> w.skipped]
    <3>1. PICK n : n = Len(w.entries) OBVIOUS
    <3>2. PICK e : e = w.entries OBVIOUS
    <3>4. PICK k : k = w.skipped OBVIOUS
    <3>3. w = [entries |-> e, skipped |-> k] BY <1>1, <3>2, <3>4
    <3>5. [w EXCEPT !.entries[n].value = @ \o l.value] = [w EXCEPT !.entries = [e EXCEPT ![n].value = @ \o l.value]]
      BY <3>2, Zenon
    <3>6. [w EXCEPT !.entries = [e EXCEPT ![n].value = @ \o l.value]]
            = [entries |-> [e EXCEPT ![n].value = @ \o l.value], skipped |-> w.skipped]
      <4>1. PICK d : d = [e EXCEPT ![n].value = @ \o l.value] OBVIOUS
      <4>2. [w EXCEPT !.entries = d] = [entries |-> d, skipped |-> k] BY <3>3
      <4> QED BY <3>4, <4>1, <4>2
    <3> QED BY <3>1, <3>2, <3>5, <3>6, Zenon
  <2> QED BY <1>5, <2>1, <2>2, <2>3
<1>6. CASE l.kind \in {"hex", "prose"} /\ ~Continues(w.entries, l)
  <2>1. ParseLine(w, l) = [w EXCEPT !.skipped = w.skipped + 1] BY <1>6 DEF ParseLine
  <2> QED BY <1>1, <1>6, <2>1
<1> QED BY <1>2, <1>3, <1>4, <1>5, <1>6

LEMMA ParseLineTyped ==
  ASSUME NEW w \in ReadWalks, NEW l \in Lines
  PROVE  ParseLine(w, l) \in ReadWalks
<1>1. w.entries \in Seq(ReadEntries) /\ w.skipped \in Nat /\ l.value \in Seq(Nat) BY DEF ReadWalks, Lines
<1>2. CASE l.kind = "cruft" BY <1>2, ParseLineIs
<1>3. CASE l.kind \in {"record", "gap"}
  <2>1. PICK e : e = Entry(l) OBVIOUS
  <2>2. ParseLine(w, l) = [entries |-> Append(w.entries, e), skipped |-> w.skipped] /\ e \in ReadEntries
    BY <1>3, <2>1, ParseLineIs
  <2>3. Append(w.entries, e) \in Seq(ReadEntries) BY <1>1, <2>2
  <2> QED BY <1>1, <2>2, <2>3 DEF ReadWalks
<1>4. CASE Continues(w.entries, l)
  <2>1. PICK n : n = Len(w.entries) /\ n \in Nat BY <1>1
  <2>2. n \in 1..n /\ w.entries[n] \in ReadEntries
    <3>1. w.entries # <<>> BY <1>4, ParseLineIs
    <3> QED BY <1>1, <2>1, <3>1
  <2>3. [w.entries[n] EXCEPT !.value = @ \o l.value] \in ReadEntries
    <3>1. PICK e : e = w.entries[n] OBVIOUS
    <3>2. e.value \o l.value \in Seq(Nat) BY <1>1, <2>2, <3>1 DEF ReadEntries
    <3>3. [e EXCEPT !.value = e.value \o l.value] \in ReadEntries BY <2>2, <3>1, <3>2 DEF ReadEntries
    <3> QED BY <3>1, <3>3
  <2>4. [w.entries EXCEPT ![n] = [w.entries[n] EXCEPT !.value = @ \o l.value]] \in Seq(ReadEntries)
    BY <1>1, <2>1, <2>2, <2>3
  <2>5. [w.entries EXCEPT ![n].value = @ \o l.value] = [w.entries EXCEPT ![n] = [w.entries[n] EXCEPT !.value = @ \o l.value]]
    BY <1>1, <2>1, <2>2
  <2>6. ParseLine(w, l) = [entries |-> [w.entries EXCEPT ![Len(w.entries)].value = @ \o l.value], skipped |-> w.skipped]
    BY <1>4, ParseLineIs
  <2>7. PICK e : e = [w.entries EXCEPT ![n].value = @ \o l.value] OBVIOUS
  <2>8. e \in Seq(ReadEntries) BY <2>4, <2>5, <2>7
  <2>9. ParseLine(w, l) = [entries |-> e, skipped |-> w.skipped] BY <2>1, <2>6, <2>7
  <2> QED BY <1>1, <2>8, <2>9 DEF ReadWalks
<1>5. CASE l.kind \in {"hex", "prose"} /\ ~Continues(w.entries, l)
  <2>1. ParseLine(w, l) = [entries |-> w.entries, skipped |-> w.skipped + 1] BY <1>5, ParseLineIs
  <2> QED BY <1>1, <2>1 DEF ReadWalks
<1> QED BY <1>2, <1>3, <1>4, <1>5 DEF Lines

WalkFrom(w, n, lines) == CHOOSE h : h = [i \in 0..n |-> IF i = 0 THEN w ELSE ParseLine(h[i - 1], lines[i])]

LEMMA RunFunction ==
  ASSUME NEW w \in ReadWalks, NEW n \in Nat, NEW lines, \A i \in 1..n : lines[i] \in Lines
  PROVE  /\ WalkFrom(w, n, lines) \in [0..n -> ReadWalks] /\ WalkFrom(w, n, lines)[0] = w
         /\ \A i \in 1..n : WalkFrom(w, n, lines)[i] = ParseLine(WalkFrom(w, n, lines)[i - 1], lines[i])
<1>0. PICK j : j = WalkFrom(w, n, lines) OBVIOUS
<1>1. PICK V : V = ReadWalks OBVIOUS
<1>2. PICK g : g = [i \in 1..n |-> [x \in V |-> ParseLine(x, lines[i])]] OBVIOUS
<1>3. \A i \in 1..n : \A x \in V : ParseLine(x, lines[i]) \in V BY <1>1, ParseLineTyped
<1>4. \A i \in 1..n : \A x \in V : g[i][x] \in V BY <1>2, <1>3
<1>5. w \in V BY <1>1
<1>6. PICK f \in [0..n -> V] : f[0] = w /\ \A i \in 1..n : f[i] = g[i][f[i - 1]]
  <2>1. \E f : Follows(f, n, V, w, g) BY <1>4, <1>5, Recursion
  <2> QED BY <2>1 DEF Follows
<1>7. \A i \in 1..n : f[i] = ParseLine(f[i - 1], lines[i])
  <2> SUFFICES ASSUME NEW i \in 1..n PROVE f[i] = ParseLine(f[i - 1], lines[i]) OBVIOUS
  <2>1. f[i] = g[i][f[i - 1]] BY <1>6, Zenon
  <2>2. f[i - 1] \in V BY <1>6, UpTo
  <2>3. g[i] = [x \in V |-> ParseLine(x, lines[i])] BY <1>2, Zenon
  <2> QED BY <2>1, <2>2, <2>3, Zenon
<1>8. f = [i \in 0..n |-> IF i = 0 THEN w ELSE ParseLine(f[i - 1], lines[i])]
  <2>1. \A i \in 0..n : f[i] = IF i = 0 THEN w ELSE ParseLine(f[i - 1], lines[i]) BY <1>6, <1>7, UpTo, Zenon
  <2>2. f = [i \in 0..n |-> f[i]] BY <1>6, Zenon
  <2> QED BY <2>1, <2>2, Zenon
<1>9. j = [i \in 0..n |-> IF i = 0 THEN w ELSE ParseLine(j[i - 1], lines[i])] BY <1>0, <1>8, Zenon DEF WalkFrom
<1>10. \A i \in 0..n : j[i] = IF i = 0 THEN w ELSE ParseLine(j[i - 1], lines[i])
  <2> SUFFICES ASSUME NEW i \in 0..n PROVE j[i] = IF i = 0 THEN w ELSE ParseLine(j[i - 1], lines[i]) OBVIOUS
  <2> QED BY <1>9, Zenon
<1>11. j[0] = w /\ \A i \in 1..n : j[i] = ParseLine(j[i - 1], lines[i]) BY <1>10, UpTo, Zenon
<1>12. \A i \in 0..n : j[i] = f[i]
  <2>1. PICK G : G = {i \in 0..n : j[i] = f[i]} OBVIOUS
  <2>2. 0 \in G BY <1>6, <1>11, <2>1, UpTo, Zenon
  <2>3. \A i \in 1..n : i - 1 \in G => i \in G BY <1>7, <1>11, <2>1, UpTo, Zenon
  <2>4. ASSUME NEW m \in 0..n PROVE m \in G
    <3>1. m \in Nat /\ \A i \in 1..m : i \in 1..n OBVIOUS
    <3>2. \A i \in 1..m : i - 1 \in G => i \in G BY <2>3, <3>1, Zenon
    <3> QED BY <2>2, <3>1, <3>2, Ascends, Zenon
  <2> QED BY <2>1, <2>4, Zenon
<1>13. DOMAIN j = 0..n BY <1>9, Zenon
<1>14. \A i \in 0..n : f[i] \in V BY <1>6, Zenon
<1>15. j = [i \in 0..n |-> j[i]] BY <1>9, Zenon
<1>16. \A i \in 0..n : j[i] \in V BY <1>12, <1>14, Zenon
<1>17. j \in [0..n -> V] BY <1>15, <1>16, Zenon
<1> QED BY <1>0, <1>1, <1>11, <1>17, Zenon

LEMMA RunIs ==
  ASSUME NEW w \in ReadWalks, NEW lines \in Seq(Lines)
  PROVE  \E f \in [0..Len(lines) -> ReadWalks] :
           /\ f[0] = w /\ \A n \in 1..Len(lines) : f[n] = ParseLine(f[n - 1], lines[n])
           /\ RunFrom(w, lines) = f[Len(lines)]
<1>1. PICK n : n = Len(lines) OBVIOUS
<1>2. n \in Nat /\ \A i \in 1..n : lines[i] \in Lines BY <1>1
<1>3. PICK j : j = WalkFrom(w, n, lines) OBVIOUS
<1>4. j \in [0..n -> ReadWalks] /\ j[0] = w /\ \A i \in 1..n : j[i] = ParseLine(j[i - 1], lines[i])
  <2>1. /\ WalkFrom(w, n, lines) \in [0..n -> ReadWalks] /\ WalkFrom(w, n, lines)[0] = w
        /\ \A i \in 1..n : WalkFrom(w, n, lines)[i] = ParseLine(WalkFrom(w, n, lines)[i - 1], lines[i])
    BY <1>2, RunFunction
  <2> QED BY <1>3, <2>1
<1>5. RunFrom(w, lines) = j[n] BY <1>1, <1>3, Zenon DEF RunFrom, WalkFrom
<1> QED BY <1>1, <1>4, <1>5, Zenon

LEMMA RunEmpty == \A w \in ReadWalks : RunFrom(w, <<>>) = w
<1> SUFFICES ASSUME NEW w \in ReadWalks PROVE RunFrom(w, <<>>) = w OBVIOUS
<1>1. PICK none : none = <<>> OBVIOUS
<1>2. none \in Seq(Lines) /\ Len(none) = 0 BY <1>1
<1>3. PICK f \in [0..Len(none) -> ReadWalks] :
           /\ f[0] = w /\ \A n \in 1..Len(none) : f[n] = ParseLine(f[n - 1], none[n])
           /\ RunFrom(w, none) = f[Len(none)]
  BY <1>2, RunIs, Zenon
<1> QED BY <1>1, <1>2, <1>3

LEMMA RunAppend ==
  ASSUME NEW w \in ReadWalks, NEW lines \in Seq(Lines), NEW l \in Lines
  PROVE  RunFrom(w, lines) \in ReadWalks /\ RunFrom(w, Append(lines, l)) = ParseLine(RunFrom(w, lines), l)
<1>1. PICK n : n = Len(lines) OBVIOUS
<1>2. PICK more : more = Append(lines, l) OBVIOUS
<1>3. /\ n \in Nat /\ n + 1 \in Nat /\ more \in Seq(Lines) /\ Len(more) = n + 1 /\ more[n + 1] = l
      /\ \A i \in 1..n : more[i] = lines[i]
  BY <1>1, <1>2
<1>4. PICK f \in [0..n -> ReadWalks] :
           /\ f[0] = w /\ \A i \in 1..n : f[i] = ParseLine(f[i - 1], lines[i])
           /\ RunFrom(w, lines) = f[n]
  BY <1>1, RunIs, Zenon
<1>5. PICK h \in [0..(n + 1) -> ReadWalks] :
           /\ h[0] = w /\ \A i \in 1..(n + 1) : h[i] = ParseLine(h[i - 1], more[i])
           /\ RunFrom(w, more) = h[n + 1]
  <2>1. \E h \in [0..Len(more) -> ReadWalks] :
           /\ h[0] = w /\ \A i \in 1..Len(more) : h[i] = ParseLine(h[i - 1], more[i])
           /\ RunFrom(w, more) = h[Len(more)]
    BY <1>3, RunIs, Zenon
  <2> QED BY <1>3, <2>1
<1>6. (\A i \in 1..n : i \in 1..(n + 1)) /\ n + 1 \in 1..(n + 1) /\ (n + 1) - 1 = n BY <1>3
<1>7. f[0] = h[0] /\ \A i \in 1..n : f[i - 1] = h[i - 1] => f[i] = h[i] BY <1>3, <1>4, <1>5, <1>6, Zenon
<1>8. f[n] = h[n] BY <1>3, <1>7, GoOnAlike, Zenon
<1>9. h[n + 1] = ParseLine(h[n], l) BY <1>3, <1>5, <1>6
<1>10. f[n] \in ReadWalks BY <1>3, <1>4, UpTo
<1> QED BY <1>2, <1>4, <1>5, <1>8, <1>9, <1>10

LEMMA RunTyped ==
  ASSUME NEW w \in ReadWalks, NEW lines \in Seq(Lines)
  PROVE  RunFrom(w, lines) \in ReadWalks
<1>1. PICK f \in [0..Len(lines) -> ReadWalks] : RunFrom(w, lines) = f[Len(lines)] BY RunIs
<1>2. Len(lines) \in 0..Len(lines) OBVIOUS
<1> QED BY <1>1, <1>2

LEMMA ConcatAppend ==
  ASSUME NEW X, NEW s \in Seq(X), NEW a \in Seq(X), NEW x \in X
  PROVE  s \o a \in Seq(X) /\ s \o Append(a, x) = Append(s \o a, x)
BY SMTT(60)

LEMMA RunConcat ==
  ASSUME NEW w \in ReadWalks, NEW s \in Seq(Lines), NEW t \in Seq(Lines)
  PROVE  RunFrom(w, s \o t) = RunFrom(RunFrom(w, s), t)
<1>1. PICK v : v = RunFrom(w, s) OBVIOUS
<1>2. v \in ReadWalks BY <1>1, RunTyped
<1>3. PICK n : n = Len(t) OBVIOUS
<1> DEFINE up(k) == SubSeq(t, 1, k)
<1>4. /\ n \in Nat /\ up(0) = <<>> /\ up(n) = t
      /\ \A k \in 1..n : up(k - 1) \in Seq(Lines) /\ t[k] \in Lines /\ up(k) = Append(up(k - 1), t[k])
  BY <1>3, Prefix
<1> HIDE DEF up
<1>5. PICK G : G = {k \in 0..n : RunFrom(w, s \o up(k)) = RunFrom(v, up(k))} OBVIOUS
<1>6. 0 \in G
  <2>1. s \o <<>> = s OBVIOUS
  <2>2. RunFrom(v, <<>>) = v BY <1>2, RunEmpty
  <2>3. RunFrom(w, s \o up(0)) = RunFrom(v, up(0)) BY <1>1, <1>4, <2>1, <2>2, Zenon
  <2> QED BY <1>4, <1>5, <2>3, UpTo
<1>7. \A k \in 1..n : k - 1 \in G => k \in G
  <2> SUFFICES ASSUME NEW k \in 1..n, k - 1 \in G PROVE k \in G OBVIOUS
  <2>1. PICK a : a = up(k - 1) OBVIOUS
  <2>2. PICK l : l = t[k] OBVIOUS
  <2>3. a \in Seq(Lines) /\ l \in Lines /\ up(k) = Append(a, l) BY <1>4, <2>1, <2>2
  <2>4. s \o Append(a, l) = Append(s \o a, l) /\ s \o a \in Seq(Lines) BY <2>3, ConcatAppend
  <2>5. RunFrom(w, Append(s \o a, l)) = ParseLine(RunFrom(w, s \o a), l) BY <2>3, <2>4, RunAppend
  <2>6. RunFrom(v, Append(a, l)) = ParseLine(RunFrom(v, a), l) BY <1>2, <2>3, RunAppend
  <2>7. RunFrom(w, s \o a) = RunFrom(v, a) BY <1>5, <2>1
  <2>8. RunFrom(w, s \o up(k)) = RunFrom(v, up(k)) BY <2>3, <2>4, <2>5, <2>6, <2>7, Zenon
  <2> QED BY <1>4, <1>5, <2>8, UpTo
<1>8. n \in G BY <1>4, <1>6, <1>7, Ascends, Zenon
<1> QED BY <1>1, <1>4, <1>5, <1>8

(* Cruft changes nothing, and a line of prose is counted. *)
Noise(junk) == Cardinality({i \in DOMAIN junk : junk[i].kind # "cruft"})

LEMMA JunkLines ==
  ASSUME NEW junk \in Junk
  PROVE  junk \in Seq(Lines) /\ \A i \in 1..Len(junk) : junk[i] \in Lines /\ junk[i].kind \in {"cruft", "prose"}
<1>1. PICK J : J = {TextLine(k, "", "", <<>>) : k \in {"cruft", "prose"}} OBVIOUS
<1>2. Junk \subseteq Seq(J) BY <1>1, WalkAssumption
<1>3. "" \in Idents /\ "" \in Types BY DEF Idents, Types
<1>40. PICK none : none = <<>> OBVIOUS
<1>4. none = <<>> /\ none \in Seq(Nat) BY <1>40
<1>5. \A k \in {"cruft", "prose"} : TextLine(k, "", "", <<>>) \in Lines /\ TextLine(k, "", "", <<>>).kind = k
  <2> SUFFICES ASSUME NEW k \in {"cruft", "prose"}
               PROVE  TextLine(k, "", "", none) \in Lines /\ TextLine(k, "", "", none).kind = k
    BY <1>4
  <2>1. TextLine(k, "", "", none) = [kind |-> k, ident |-> "", type |-> "", value |-> none] BY DEF TextLine
  <2>2. [kind |-> k, ident |-> "", type |-> "", value |-> none] \in Lines
    <3>1. k \in {"record", "gap", "hex", "prose", "cruft"} OBVIOUS
    <3> QED BY <1>3, <1>4, <3>1 DEF Lines
  <2>3. [kind |-> k, ident |-> "", type |-> "", value |-> none].kind = k OBVIOUS
  <2> QED BY <2>1, <2>2, <2>3, Zenon
<1>6. \A l \in J : l \in Lines /\ l.kind \in {"cruft", "prose"} BY <1>1, <1>5, Zenon
<1>7. junk \in Seq(J) BY <1>2
<1>8. \A i \in 1..Len(junk) : junk[i] \in J BY <1>7
<1>9. junk \in Seq(Lines) BY <1>6, <1>7
<1> QED BY <1>6, <1>8, <1>9

LEMMA CountOneMore ==
  ASSUME NEW P, NEW k \in Nat \ {0}
  PROVE  LET a == {i \in 1..(k - 1) : i \in P}
             b == {i \in 1..k : i \in P}
         IN /\ Cardinality(a) \in Nat /\ Cardinality(b) \in Nat
            /\ Cardinality(b) = IF k \in P THEN Cardinality(a) + 1 ELSE Cardinality(a)
<1>20. PICK a : a = {i \in 1..(k - 1) : i \in P} OBVIOUS
<1>21. PICK b : b = {i \in 1..k : i \in P} OBVIOUS
<1> SUFFICES /\ Cardinality(a) \in Nat /\ Cardinality(b) \in Nat
             /\ Cardinality(b) = IF k \in P THEN Cardinality(a) + 1 ELSE Cardinality(a)
  BY <1>20, <1>21, Zenon
<1>1. PICK I : I = 1..k OBVIOUS
<1>2. k \in Nat /\ IsFiniteSet(I) BY <1>1, FS_Interval
<1>3. a \subseteq I /\ b \subseteq I BY <1>1, <1>20, <1>21
<1>4. IsFiniteSet(a) /\ IsFiniteSet(b) BY <1>2, <1>3, FS_Subset
<1>5. Cardinality(a) \in Nat /\ Cardinality(b) \in Nat BY <1>4, FS_CardinalityType
<1>6. k \notin a BY <1>2, <1>20
<1>7. b = IF k \in P THEN a \cup {k} ELSE a BY <1>2, <1>20, <1>21
<1>8. CASE k \in P
  <2>1. b = a \cup {k} BY <1>7, <1>8
  <2>2. Cardinality(a \cup {k}) = Cardinality(a) + 1 BY <1>4, <1>6, FS_AddElement
  <2> QED BY <1>5, <1>8, <2>1, <2>2
<1>9. CASE k \notin P BY <1>5, <1>7, <1>9
<1> QED BY <1>8, <1>9

LEMMA JunkRuns ==
  ASSUME NEW w \in ReadWalks, NEW junk \in Junk
  PROVE  /\ Noise(junk) \in Nat
         /\ RunFrom(w, junk) = [entries |-> w.entries, skipped |-> w.skipped + Noise(junk)]
<1>1. PICK n : n = Len(junk) OBVIOUS
<1> DEFINE up(k) == SubSeq(junk, 1, k)
<1>2. /\ n \in Nat /\ up(0) = <<>> /\ up(n) = junk /\ DOMAIN junk = 1..n
      /\ \A k \in 1..n : /\ up(k - 1) \in Seq(Lines) /\ junk[k] \in Lines /\ up(k) = Append(up(k - 1), junk[k])
                         /\ junk[k].kind \in {"cruft", "prose"}
  BY <1>1, Prefix, JunkLines
<1> HIDE DEF up
<1>3. PICK P : P = {i \in 1..n : junk[i].kind # "cruft"} OBVIOUS
<1> DEFINE prose(k) == {i \in 1..k : i \in P}
           after(k) == [entries |-> w.entries, skipped |-> w.skipped + Cardinality(prose(k))]
<1>4. PICK G : G = {k \in 0..n : RunFrom(w, up(k)) = after(k)} OBVIOUS
<1>5. w = [entries |-> w.entries, skipped |-> w.skipped] /\ w.skipped \in Nat BY DEF ReadWalks
<1>6. 0 \in G
  <2>1. prose(0) = {} OBVIOUS
  <2>2. Cardinality(prose(0)) = 0 BY <2>1, FS_EmptySet
  <2>3. w.skipped + Cardinality(prose(0)) = w.skipped BY <1>5, <2>2
  <2>4. after(0) = w BY <1>5, <2>3, Zenon
  <2>5. RunFrom(w, up(0)) = w BY <1>2, RunEmpty
  <2> QED BY <1>2, <1>4, <2>4, <2>5, UpTo
<1>7. \A k \in 1..n : k - 1 \in G => k \in G
  <2> SUFFICES ASSUME NEW k \in 1..n, k - 1 \in G PROVE k \in G OBVIOUS
  <2>1. PICK l : l = junk[k] OBVIOUS
  <2>2. PICK v : v = RunFrom(w, up(k - 1)) OBVIOUS
  <2> DEFINE a == up(k - 1)
  <2>31. a \in Seq(Lines) /\ l \in Lines /\ up(k) = Append(a, l) BY <1>2, <2>1
  <2> HIDE DEF a
  <2>32. RunFrom(w, a) = v BY <2>2 DEF a
  <2>3. v \in ReadWalks /\ RunFrom(w, up(k)) = ParseLine(v, l)
    <3>1. RunFrom(w, a) \in ReadWalks BY <2>31, RunTyped
    <3>2. RunFrom(w, Append(a, l)) = ParseLine(RunFrom(w, a), l) BY <2>31, RunAppend
    <3> QED BY <2>31, <2>32, <3>1, <3>2, Zenon
  <2>4. v = after(k - 1) BY <1>4, <2>2
  <2>5. v.entries = w.entries /\ v.skipped = w.skipped + Cardinality(prose(k - 1)) BY <2>4
  <2>61. k \in Nat \ {0} BY <1>2
  <2>6. /\ Cardinality(prose(k - 1)) \in Nat /\ Cardinality(prose(k)) \in Nat
        /\ Cardinality(prose(k)) = IF k \in P THEN Cardinality(prose(k - 1)) + 1 ELSE Cardinality(prose(k - 1))
    <3>1. LET a2 == {i \in 1..(k - 1) : i \in P}
              b2 == {i \in 1..k : i \in P}
          IN /\ Cardinality(a2) \in Nat /\ Cardinality(b2) \in Nat
             /\ Cardinality(b2) = IF k \in P THEN Cardinality(a2) + 1 ELSE Cardinality(a2)
      BY <2>61, CountOneMore
    <3> QED BY <3>1, Zenon
  <2>7. l \in Lines /\ l.kind \in {"cruft", "prose"} /\ (k \in P <=> l.kind # "cruft") BY <1>2, <1>3, <2>1
  <2> HIDE DEF prose
  <2>8. CASE l.kind = "cruft"
    <3>1. ParseLine(v, l) = v BY <2>3, <2>7, <2>8, ParseLineIs
    <3> QED BY <1>2, <1>4, <2>3, <2>4, <2>6, <2>7, <2>8, <3>1, UpTo
  <2>9. CASE l.kind = "prose"
    <3>1. ~Continues(v.entries, l) BY <2>9 DEF Continues
    <3>2. ParseLine(v, l) = [entries |-> v.entries, skipped |-> v.skipped + 1]
      BY <2>3, <2>7, <2>9, <3>1, ParseLineIs
    <3>3. v.skipped + 1 = w.skipped + Cardinality(prose(k)) BY <1>5, <2>5, <2>6, <2>7, <2>9
    <3>4. RunFrom(w, up(k)) = after(k) BY <2>3, <2>5, <3>2, <3>3
    <3> QED BY <1>2, <1>4, <3>4, UpTo
  <2> QED BY <2>7, <2>8, <2>9
<1>8. n \in G BY <1>2, <1>6, <1>7, Ascends, Zenon
<1>9. prose(n) = {i \in DOMAIN junk : junk[i].kind # "cruft"} BY <1>2, <1>3
<1>10. Cardinality(prose(n)) = Noise(junk) BY <1>9 DEF Noise
<1>11. Noise(junk) \in Nat
  <2>1. PICK I : I = 1..n OBVIOUS
  <2>2. IsFiniteSet(I) /\ P \subseteq I BY <1>2, <1>3, <2>1, FS_Interval
  <2>3. prose(n) = P BY <1>3
  <2> QED BY <1>10, <2>2, <2>3, FS_Subset, FS_CardinalityType
<1>12. RunFrom(w, up(n)) = after(n) BY <1>4, <1>8
<1> QED BY <1>2, <1>10, <1>11, <1>12

LEMMA LineRuns ==
  ASSUME NEW w \in ReadWalks, NEW junk \in Junk, NEW l \in Lines
  PROVE  /\ <<l>> \o junk \in Seq(Lines)
         /\ RunFrom(w, <<l>> \o junk)
              = [entries |-> ParseLine(w, l).entries, skipped |-> ParseLine(w, l).skipped + Noise(junk)]
<1>1. PICK one : one = <<l>> OBVIOUS
<1>2. one \in Seq(Lines) /\ junk \in Seq(Lines) BY <1>1, JunkLines
<1>3. PICK none : none = <<>> OBVIOUS
<1>4. none \in Seq(Lines) /\ one = Append(none, l) BY <1>1, <1>3
<1>5. RunFrom(w, none) = w BY <1>3, RunEmpty
<1>6. RunFrom(w, one) = ParseLine(w, l) BY <1>4, <1>5, RunAppend
<1>7. RunFrom(w, one \o junk) = RunFrom(ParseLine(w, l), junk) BY <1>2, <1>6, RunConcat
<1>8. one \o junk \in Seq(Lines) BY <1>2
<1>9. ParseLine(w, l) \in ReadWalks BY ParseLineTyped
<1> QED BY <1>1, <1>7, <1>8, <1>9, JunkRuns

(* What an answer's lines are, and the entry they are read as: its bytes   *)
(* after the first k lines, and how many of those were lost.               *)
ReadValue(v, k) ==
  IF v.type = "none" THEN <<>> ELSE IF v.type = HexString THEN Joined(SubSeq(v.lines, 1, k)) ELSE v.lines[1]
ReadAs(v, bytes) ==
  [ident |-> v.ident, type |-> IF v.type = "none" THEN "" ELSE v.type, value |-> bytes, present |-> v.type # "none"]
LostBy(v, k) == IF v.type \in {HexString, "none"} THEN 0 ELSE k - 1

LEMMA TextLineIn ==
  ASSUME NEW k \in {"record", "gap", "hex", "prose", "cruft"}, NEW a \in Idents, NEW b \in Types, NEW c \in Seq(Nat)
  PROVE  TextLine(k, a, b, c) \in Lines
<1>1. PICK l : l = TextLine(k, a, b, c) OBVIOUS
<1>2. l = [kind |-> k, ident |-> a, type |-> b, value |-> c] BY <1>1 DEF TextLine
<1>3. l \in Lines BY <1>2 DEF Lines
<1> QED BY <1>1, <1>2, <1>3

IsAnswer(v) ==
  /\ v.lines \in Seq(Seq(Nat)) /\ Len(v.lines) \in Nat /\ 1 \in 1..Len(v.lines)
  /\ \A i \in 1..Len(v.lines) : v.lines[i] \in Seq(Nat)
  /\ v.ident \in Idents /\ v.type \in Types /\ "" \in Idents /\ "" \in Types

LEMMA AnswerIs ==
  ASSUME NEW v \in Answers
  PROVE  IsAnswer(v)
<1>1. v.lines \in Seq(Seq(Nat)) /\ v.lines # <<>> BY WalkAssumption
<1>2. v.ident \in Idents /\ "" \in Idents BY DEF Idents
<1>3. v.type \in Types /\ "" \in Types BY DEF Types
<1>4. PICK s : s = v.lines OBVIOUS
<1>5. PICK X : X = Seq(Nat) OBVIOUS
<1>6. s \in Seq(X) /\ s # <<>> BY <1>1, <1>4, <1>5
<1>7. Len(s) \in Nat /\ 1 \in 1..Len(s) /\ \A i \in 1..Len(s) : s[i] \in X BY <1>6
<1> QED BY <1>1, <1>2, <1>3, <1>4, <1>5, <1>7, Zenon DEF IsAnswer

IsPrinted(v) ==
  /\ Printed(v) \in Seq(Lines) /\ Len(Printed(v)) \in Nat /\ 1 \in 1..Len(Printed(v))
  /\ v.type = "none" => Len(Printed(v)) = 1 /\ Printed(v)[1] = TextLine("gap", v.ident, "", <<>>)
  /\ v.type # "none" => /\ Len(Printed(v)) = Len(v.lines)
                        /\ Printed(v)[1] = TextLine("record", v.ident, v.type, v.lines[1])
  /\ v.type \notin {"none", HexString} => \A i \in 2..Len(Printed(v)) : Printed(v)[i].kind \in {"hex", "prose"}
  /\ v.type = HexString => \A i \in 2..Len(Printed(v)) : Printed(v)[i] = TextLine("hex", "", "", v.lines[i])

LEMMA PrintedIs ==
  ASSUME NEW v \in Answers
  PROVE  IsPrinted(v)
<1>1. PICK p : p = Printed(v) OBVIOUS
<1>2. PICK none : none = <<>> OBVIOUS
<1>3. none \in Seq(Nat) BY <1>2
<1>4. HexString # "none" BY DEF HexString
<1>40. IsAnswer(v) BY AnswerIs
<1>5. CASE v.type = "none"
  <2>1. PICK l : l = TextLine("gap", v.ident, "", none) OBVIOUS
  <2>20. v.ident \in Idents /\ "" \in Types BY <1>40 DEF IsAnswer
  <2>2. l \in Lines BY <1>3, <2>1, <2>20, TextLineIn
  <2>3. p = <<l>> BY <1>1, <1>2, <1>5, <2>1, Zenon DEF Printed
  <2>4. p \in Seq(Lines) /\ Len(p) = 1 /\ p[1] = l BY <2>2, <2>3
  <2>5. Len(p) \in Nat /\ 1 \in 1..Len(p) /\ \A i \in 2..Len(p) : FALSE BY <2>4
  <2> QED BY <1>1, <1>2, <1>4, <1>5, <2>1, <2>4, <2>5, Zenon DEF IsPrinted
<1>6. CASE v.type # "none"
  <2>1. PICK n : n = Len(v.lines) OBVIOUS
  <2>21. n \in Nat /\ 1 \in 1..n BY <1>40, <2>1 DEF IsAnswer
  <2>22. \A i \in 1..n : v.lines[i] \in Seq(Nat) BY <1>40, <2>1 DEF IsAnswer
  <2>23. v.ident \in Idents /\ v.type \in Types /\ "" \in Idents /\ "" \in Types BY <1>40 DEF IsAnswer
  <2>7. \A i \in 1..n : i = 1 \/ i \in 2..n BY <2>21
  <2>10. 1 \in 1..n /\ \A i \in 2..n : i \in 1..n /\ i # 1 BY <2>21
  <2> DEFINE line(i) == IF i = 1 THEN TextLine("record", v.ident, v.type, v.lines[1])
                        ELSE IF v.type = HexString \/ v.hexlike THEN TextLine("hex", "", "", v.lines[i])
                        ELSE TextLine("prose", "", "", v.lines[i])
  <2>3. p = [i \in 1..n |-> line(i)] BY <1>1, <1>6, <2>1, Zenon DEF Printed
  <2>4. line(1) = TextLine("record", v.ident, v.type, v.lines[1]) /\ line(1) \in Lines
    <3>1. PICK c : c = v.lines[1] OBVIOUS
    <3>2. c \in Seq(Nat) BY <2>10, <2>22, <3>1, Zenon
    <3>3. TextLine("record", v.ident, v.type, c) \in Lines BY <2>23, <3>2, TextLineIn
    <3> QED BY <3>1, <3>3, Zenon
  <2>5. \A i \in 2..n : line(i) \in Lines /\ line(i).kind \in {"hex", "prose"}
    <3> SUFFICES ASSUME NEW i \in 2..n PROVE line(i) \in Lines /\ line(i).kind \in {"hex", "prose"} OBVIOUS
    <3>0. PICK c : c = v.lines[i] OBVIOUS
    <3>1. i # 1 /\ c \in Seq(Nat) BY <2>10, <2>22, <3>0, Zenon
    <3>2. TextLine("hex", "", "", c) \in Lines BY <2>23, <3>1, TextLineIn
    <3>3. TextLine("prose", "", "", c) \in Lines BY <2>23, <3>1, TextLineIn
    <3>5. TextLine("hex", "", "", c).kind = "hex" /\ TextLine("prose", "", "", c).kind = "prose" BY DEF TextLine
    <3>4. line(i) = TextLine("hex", "", "", c) \/ line(i) = TextLine("prose", "", "", c)
      BY <3>0, <3>1, Zenon
    <3> HIDE DEF line
    <3> QED BY <3>2, <3>3, <3>4, <3>5
  <2>6. v.type = HexString => \A i \in 2..n : line(i) = TextLine("hex", "", "", v.lines[i])
    <3> SUFFICES ASSUME v.type = HexString, NEW i \in 2..n PROVE line(i) = TextLine("hex", "", "", v.lines[i])
      OBVIOUS
    <3>1. i # 1 BY <2>10
    <3> QED BY <3>1, Zenon
  <2> HIDE DEF line
  <2>8. \A i \in 1..n : line(i) \in Lines BY <2>4, <2>5, <2>7, Zenon
  <2>9. p \in Seq(Lines) /\ Len(p) = n
    <3>1. PICK L : L = Lines OBVIOUS
    <3>2. p \in [1..n -> L] BY <2>3, <2>8, <3>1, Zenon
    <3> QED BY <2>21, <3>1, <3>2
  <2>11. p[1] = line(1) /\ \A i \in 2..n : p[i] = line(i) BY <2>3, <2>10, Zenon
  <2>12. \A i \in 2..n : p[i].kind \in {"hex", "prose"} BY <2>5, <2>11
  <2>13. v.type = HexString => \A i \in 2..n : p[i] = TextLine("hex", "", "", v.lines[i]) BY <2>6, <2>11
  <2> QED BY <1>1, <1>6, <2>1, <2>21, <2>4, <2>9, <2>11, <2>12, <2>13, Zenon DEF IsPrinted
<1> QED BY <1>5, <1>6

LEMMA FirstLine ==
  ASSUME NEW w \in ReadWalks, NEW v \in Answers
  PROVE  /\ LostBy(v, 1) = 0
         /\ ParseLine(w, Printed(v)[1]) = [entries |-> Append(w.entries, ReadAs(v, ReadValue(v, 1))), skipped |-> w.skipped]
<1>1. PICK l : l = Printed(v)[1] OBVIOUS
<1>20. IsPrinted(v) /\ IsAnswer(v) BY PrintedIs, AnswerIs
<1>2. l \in Lines
  <2>1. PICK p : p = Printed(v) OBVIOUS
  <2>2. p \in Seq(Lines) /\ 1 \in 1..Len(p) BY <1>20, <2>1, Zenon DEF IsPrinted
  <2> QED BY <1>1, <2>1, <2>2
<1>3. l.kind \in {"record", "gap"} /\ Entry(l) = ReadAs(v, ReadValue(v, 1))
  <2>0. PICK none : none = <<>> OBVIOUS
  <2>1. none \in Seq(Nat) BY <2>0
  <2>2. PICK one : one = v.lines[1] OBVIOUS
  <2>3. one \in Seq(Nat) /\ v.lines \in Seq(Seq(Nat)) /\ 1 \in 1..Len(v.lines)
    BY <1>20, <2>2, Zenon DEF IsAnswer
  <2>30. v.ident \in Idents /\ v.type \in Types /\ "" \in Idents /\ "" \in Types BY <1>20 DEF IsAnswer
  <2>4. CASE v.type = "none"
    <3>1. l = TextLine("gap", v.ident, "", none) BY <1>1, <1>20, <2>0, <2>4, Zenon DEF IsPrinted
    <3>2. l.kind = "gap" /\ l.ident = v.ident BY <3>1 DEF TextLine
    <3>3. Entry(l) = [ident |-> v.ident, type |-> "", value |-> <<>>, present |-> FALSE] BY <3>2, Zenon DEF Entry
    <3>4. ReadValue(v, 1) = <<>> BY <2>4, Zenon DEF ReadValue
    <3>5. ReadAs(v, <<>>) = [ident |-> v.ident, type |-> "", value |-> <<>>, present |-> FALSE]
      <4>1. (v.type # "none") = FALSE BY <2>4
      <4> QED BY <2>4, <4>1, Zenon DEF ReadAs
    <3> QED BY <3>2, <3>3, <3>4, <3>5
  <2>5. CASE v.type # "none"
    <3>1. l = TextLine("record", v.ident, v.type, one) BY <1>1, <1>20, <2>2, <2>5, Zenon DEF IsPrinted
    <3>2. l.kind = "record" /\ l.ident = v.ident /\ l.type = v.type /\ l.value = one
      BY <3>1 DEF TextLine
    <3>3. Entry(l) = [ident |-> v.ident, type |-> v.type, value |-> one, present |-> TRUE] BY <3>2 DEF Entry
    <3>4. ReadValue(v, 1) = one
      <4>1. CASE v.type # HexString BY <2>2, <2>5, <4>1 DEF ReadValue
      <4>2. CASE v.type = HexString
        <5>1. ReadValue(v, 1) = Joined(SubSeq(v.lines, 1, 1)) BY <2>5, <4>2 DEF ReadValue
        <5>2. PICK s : s = SubSeq(v.lines, 1, 1) OBVIOUS
        <5>3. PICK t : t = SubSeq(v.lines, 1, 0) OBVIOUS
        <5>4. t = <<>> /\ t \in Seq(Seq(Nat)) /\ s = Append(t, one) BY <2>2, <2>3, <5>2, <5>3
        <5>5. Joined(t) = <<>> BY <5>4, JoinedEmpty
        <5>6. Joined(s) = Joined(t) \o one BY <2>3, <5>4, JoinedAppend
        <5>7. <<>> \o one = one BY <2>3
        <5> QED BY <5>1, <5>2, <5>5, <5>6, <5>7, Zenon
      <4> QED BY <4>1, <4>2
    <3>5. ReadAs(v, one) = [ident |-> v.ident, type |-> v.type, value |-> one, present |-> TRUE]
      <4>1. (v.type # "none") = TRUE BY <2>5
      <4> QED BY <2>5, <4>1, Zenon DEF ReadAs
    <3> QED BY <3>2, <3>3, <3>4, <3>5
  <2> QED BY <2>4, <2>5
<1>4. LostBy(v, 1) = 0 BY DEF LostBy
<1> QED BY <1>1, <1>2, <1>3, <1>4, ParseLineIs

LEMMA ReadValueTyped ==
  ASSUME NEW v \in Answers, NEW k \in 1..Len(Printed(v))
  PROVE  ReadValue(v, k) \in Seq(Nat) /\ ReadAs(v, ReadValue(v, k)) \in ReadEntries
<1>1. PICK b : b = ReadValue(v, k) OBVIOUS
<1>20. IsPrinted(v) /\ IsAnswer(v) BY PrintedIs, AnswerIs
<1>2. b \in Seq(Nat)
  <2>1. CASE v.type = "none"
    <3>1. b = <<>> BY <1>1, <2>1 DEF ReadValue
    <3> QED BY <3>1
  <2>2. CASE v.type = HexString /\ v.type # "none"
    <3>1. b = Joined(SubSeq(v.lines, 1, k)) BY <1>1, <2>2 DEF ReadValue
    <3>2. k \in 1..Len(v.lines) /\ v.lines \in Seq(Seq(Nat)) BY <1>20, <2>2 DEF IsPrinted, IsAnswer
    <3> QED BY <3>1, <3>2, JoinedUpTo
  <2>3. CASE v.type # HexString /\ v.type # "none"
    <3>1. b = v.lines[1] BY <1>1, <2>3 DEF ReadValue
    <3> QED BY <1>20, <3>1, Zenon DEF IsAnswer
  <2> QED BY <2>1, <2>2, <2>3
<1>3. PICK d : d = (v.type # "none") OBVIOUS
<1>4. d \in BOOLEAN BY <1>3
<1>5. PICK t : t = IF v.type = "none" THEN "" ELSE v.type OBVIOUS
<1>6. t \in Types /\ v.ident \in Idents BY <1>5, <1>20 DEF IsAnswer
<1>7. PICK e : e = [ident |-> v.ident, type |-> t, value |-> b, present |-> d] OBVIOUS
<1>8. e \in ReadEntries BY <1>2, <1>4, <1>6, <1>7, EntryIn, Zenon
<1>9. ReadAs(v, b) = e BY <1>3, <1>5, <1>7, Zenon DEF ReadAs
<1> QED BY <1>1, <1>2, <1>8, <1>9

SetAt(s, n, f) == [s EXCEPT ![n] = f]

LEMMA LastReplaced ==
  ASSUME NEW X, NEW r \in Seq(X), NEW e \in X, NEW f \in X
  PROVE  SetAt(Append(r, e), Len(r) + 1, f) = Append(r, f)
<1>60. PICK n : n = Len(r) OBVIOUS
<1>61. PICK s : s = Append(r, e) OBVIOUS
<1>1. PICK g : g = SetAt(s, n + 1, f) OBVIOUS
<1>2. PICK h : h = Append(r, f) OBVIOUS
<1>3. n \in Nat /\ s \in Seq(X) /\ DOMAIN s = 1..(n + 1) /\ \A i \in 1..n : s[i] = r[i] BY <1>60, <1>61
<1>4. h \in Seq(X) /\ DOMAIN h = 1..(n + 1) /\ h[n + 1] = f /\ \A i \in 1..n : h[i] = r[i] BY <1>2, <1>60
<1>52. \A t \in Seq(X) : t \in [DOMAIN t -> X] OBVIOUS
<1>50. s \in [1..(n + 1) -> X] BY <1>3, <1>52, Zenon
<1>51. h \in [1..(n + 1) -> X] BY <1>4, <1>52, Zenon
<1>5. s = [i \in 1..(n + 1) |-> s[i]] /\ h = [i \in 1..(n + 1) |-> h[i]] BY <1>50, <1>51, Zenon
<1>6. g = [i \in 1..(n + 1) |-> IF i = n + 1 THEN f ELSE s[i]] BY <1>1, <1>3 DEF SetAt
<1>7. \A i \in 1..(n + 1) : i = n + 1 \/ i \in 1..n BY <1>3
<1>8. \A i \in 1..(n + 1) : (IF i = n + 1 THEN f ELSE s[i]) = h[i] BY <1>3, <1>4, <1>7
<1> QED BY <1>1, <1>2, <1>5, <1>6, <1>8, <1>60, <1>61, Zenon

LEMMA NextLine ==
  ASSUME NEW w \in ReadWalks, NEW v \in Answers, NEW k \in 2..Len(Printed(v)), NEW u \in ReadWalks,
         u.entries = Append(w.entries, ReadAs(v, ReadValue(v, k - 1)))
  PROVE  /\ LostBy(v, k - 1) \in Nat /\ LostBy(v, k) \in Nat
         /\ ParseLine(u, Printed(v)[k])
              = [entries |-> Append(w.entries, ReadAs(v, ReadValue(v, k))),
                 skipped |-> u.skipped + (LostBy(v, k) - LostBy(v, k - 1))]
<1>1. PICK l : l = Printed(v)[k] OBVIOUS
<1>20. IsPrinted(v) /\ IsAnswer(v) BY PrintedIs, AnswerIs
<1>2. k \in Nat /\ k >= 2 /\ k - 1 \in Nat /\ k \in 1..Len(Printed(v)) /\ k - 1 \in 1..Len(Printed(v)) /\ l \in Lines
  <2>1. PICK p : p = Printed(v) OBVIOUS
  <2>2. p \in Seq(Lines) /\ k \in 2..Len(p) /\ l = p[k] BY <1>1, <1>20, <2>1, Zenon DEF IsPrinted
  <2>3. k \in Nat /\ k >= 2 /\ k - 1 \in Nat /\ k \in 1..Len(p) /\ k - 1 \in 1..Len(p) /\ l \in Lines BY <2>2
  <2> QED BY <2>1, <2>3, Zenon
<1>3. v.type # "none"
  <2>1. PICK n : n = Len(Printed(v)) OBVIOUS
  <2>2. v.type = "none" => n = 1 BY <1>20, <2>1, Zenon DEF IsPrinted
  <2> QED BY <1>2, <2>1, <2>2
<1>4. PICK b : b = ReadValue(v, k - 1) OBVIOUS
<1>5. PICK c : c = ReadValue(v, k) OBVIOUS
<1>6. PICK e : e = ReadAs(v, b) OBVIOUS
<1>7. e \in ReadEntries /\ b \in Seq(Nat) BY <1>2, <1>4, <1>6, ReadValueTyped
<1>8. e = [ident |-> v.ident, type |-> v.type, value |-> b, present |-> (v.type # "none")] BY <1>3, <1>6, Zenon DEF ReadAs
<1>9. w.entries \in Seq(ReadEntries) /\ u.skipped \in Nat BY DEF ReadWalks
<1>10. PICK n : n = Len(w.entries) OBVIOUS
<1>11. n \in Nat /\ u.entries = Append(w.entries, e) /\ Len(u.entries) = n + 1 /\ u.entries[n + 1] = e /\ u.entries # <<>>
  BY <1>4, <1>6, <1>7, <1>9, <1>10
<1>12. CASE v.type = HexString
  <2>1. k \in 1..Len(v.lines) /\ v.lines \in Seq(Seq(Nat)) /\ v.lines[k] \in Seq(Nat) BY <1>2, <1>3, <1>20, Zenon DEF IsPrinted, IsAnswer
  <2>30. "" \in Idents /\ "" \in Types BY <1>20 DEF IsAnswer
  <2>2. l = TextLine("hex", "", "", v.lines[k]) BY <1>1, <1>12, <1>20, Zenon DEF IsPrinted
  <2>3. l.kind = "hex" /\ l.value = v.lines[k] BY <2>2 DEF TextLine
  <2>4. e.type = HexString BY <1>8, <1>12
  <2>5. Continues(u.entries, l) BY <1>11, <2>3, <2>4 DEF Continues
  <2>6. c = b \o l.value
    <3>1. c = Joined(SubSeq(v.lines, 1, k)) /\ b = Joined(SubSeq(v.lines, 1, k - 1))
      BY <1>3, <1>4, <1>5, <1>12 DEF ReadValue
    <3> QED BY <2>1, <2>3, <3>1, JoinedUpTo
  <2>7. ParseLine(u, l) = [entries |-> [u.entries EXCEPT ![Len(u.entries)].value = @ \o l.value], skipped |-> u.skipped]
    BY <1>2, <2>5, ParseLineIs
  <2>8. PICK s : s = u.entries OBVIOUS
  <2>9. PICK d : d = [s EXCEPT ![n + 1].value = @ \o l.value] OBVIOUS
  <2>10. ParseLine(u, l) = [entries |-> d, skipped |-> u.skipped] BY <1>11, <2>7, <2>8, <2>9
  <2>11. PICK f : f = ReadAs(v, c) OBVIOUS
  <2>12. [e EXCEPT !.value = c] = f
    <3>1. f = [ident |-> v.ident, type |-> v.type, value |-> c, present |-> (v.type # "none")]
      BY <1>3, <2>11, Zenon DEF ReadAs
    <3>2. PICK g : g = (v.type # "none") OBVIOUS
    <3>3. e = [ident |-> v.ident, type |-> v.type, value |-> b, present |-> g] BY <1>8, <3>2, Zenon
    <3>4. f = [ident |-> v.ident, type |-> v.type, value |-> c, present |-> g] BY <3>1, <3>2, Zenon
    <3> QED BY <3>3, <3>4
  <2>13. d = [s EXCEPT ![n + 1] = f]
    <3>1. s \in Seq(ReadEntries) /\ n + 1 \in DOMAIN s /\ s[n + 1] = e BY <1>7, <1>9, <1>11, <2>8
    <3>2. d = [s EXCEPT ![n + 1] = [s[n + 1] EXCEPT !.value = s[n + 1].value \o l.value]] BY <2>9, Zenon
    <3>3. e.value = b BY <1>8
    <3>4. [s[n + 1] EXCEPT !.value = s[n + 1].value \o l.value] = f BY <2>6, <2>12, <3>1, <3>3, Zenon
    <3> QED BY <3>2, <3>4, Zenon
  <2>14. f \in ReadEntries BY <1>2, <1>5, <2>11, ReadValueTyped
  <2>15. d = Append(w.entries, f)
    <3>1. s = Append(w.entries, e) BY <1>11, <2>8
    <3>2. PICK r : r = w.entries OBVIOUS
    <3>3. PICK X : X = ReadEntries OBVIOUS
    <3>4. r \in Seq(X) /\ e \in X /\ f \in X /\ n = Len(r) /\ s = Append(r, e) BY <1>7, <1>9, <1>10, <2>14, <3>1, <3>2, <3>3
    <3>50. SetAt(Append(r, e), Len(r) + 1, f) = Append(r, f) BY <3>4, LastReplaced
    <3>5. SetAt(s, n + 1, f) = Append(r, f) BY <3>4, <3>50
    <3>6. d = SetAt(s, n + 1, f) BY <2>13, Zenon DEF SetAt
    <3> QED BY <3>2, <3>5, <3>6, Zenon
  <2>16. LostBy(v, k) = 0 /\ LostBy(v, k - 1) = 0 BY <1>12 DEF LostBy
  <2>17. LostBy(v, k) \in Nat /\ LostBy(v, k - 1) \in Nat /\ u.skipped + (LostBy(v, k) - LostBy(v, k - 1)) = u.skipped
    BY <1>9, <2>16
  <2> QED BY <1>1, <1>5, <2>10, <2>11, <2>15, <2>17, Zenon
<1>13. CASE v.type # HexString
  <2>1. l.kind \in {"hex", "prose"} BY <1>1, <1>3, <1>13, <1>20, Zenon DEF IsPrinted
  <2>2. e.type = v.type BY <1>8
  <2>3. ~Continues(u.entries, l) BY <1>11, <1>13, <2>2 DEF Continues
  <2>4. ParseLine(u, l) = [entries |-> u.entries, skipped |-> u.skipped + 1] BY <1>2, <2>1, <2>3, ParseLineIs
  <2>5. b = c BY <1>3, <1>4, <1>5, <1>13 DEF ReadValue
  <2>6. LostBy(v, k) = k - 1 /\ LostBy(v, k - 1) = (k - 1) - 1 BY <1>3, <1>13 DEF LostBy
  <2>7. LostBy(v, k) \in Nat /\ LostBy(v, k - 1) \in Nat /\ LostBy(v, k) - LostBy(v, k - 1) = 1 BY <1>2, <2>6
  <2> QED BY <1>1, <1>4, <1>5, <1>6, <1>11, <2>4, <2>5, <2>7
<1> QED BY <1>12, <1>13

(* An answer with junk after each of its lines is one entry more, with all *)
(* of its bytes that were not lost.                                        *)
Noisy(v, junk) == [i \in DOMAIN Printed(v) |-> <<Printed(v)[i]>> \o junk]
Lost(v) == IF v.type \in {HexString, "none"} THEN {} ELSE 2..Len(v.lines)
ReadBack(v) == ReadAs(v, ReadValue(v, Len(Printed(v))))

LEMMA OneMore == \A k \in Nat, m \in Nat : k >= 1 => k * m = (k - 1) * m + m /\ k * m \in Nat /\ (k - 1) * m \in Nat
OBVIOUS

LEMMA NoisyIs ==
  ASSUME NEW v \in Answers, NEW junk \in Junk
  PROVE  /\ Noisy(v, junk) \in Seq(Seq(Lines)) /\ Len(Noisy(v, junk)) = Len(Printed(v))
         /\ \A i \in 1..Len(Printed(v)) : Printed(v)[i] \in Lines /\ Noisy(v, junk)[i] = <<Printed(v)[i]>> \o junk
<1>1. PICK p : p = Printed(v) OBVIOUS
<1>2. PICK L : L = Lines OBVIOUS
<1>3. p \in Seq(L)
  <2>1. IsPrinted(v) BY PrintedIs
  <2> QED BY <1>1, <1>2, <2>1, Zenon DEF IsPrinted
<1>4. junk \in Seq(L) BY <1>2, JunkLines
<1>5. PICK q : q = Noisy(v, junk) OBVIOUS
<1>6. q = [i \in DOMAIN p |-> <<p[i]>> \o junk] BY <1>1, <1>5, Zenon DEF Noisy
<1>7. DOMAIN p = 1..Len(p) /\ Len(p) \in Nat /\ \A i \in 1..Len(p) : p[i] \in L BY <1>3
<1>8. \A i \in 1..Len(p) : <<p[i]>> \o junk \in Seq(L) BY <1>4, <1>7
<1>9. q \in Seq(Seq(L)) /\ Len(q) = Len(p) /\ \A i \in 1..Len(p) : q[i] = <<p[i]>> \o junk
  <2>1. PICK n : n = Len(p) OBVIOUS
  <2>2. PICK S : S = Seq(L) OBVIOUS
  <2>3. n \in Nat /\ q = [i \in 1..n |-> <<p[i]>> \o junk] /\ \A i \in 1..n : <<p[i]>> \o junk \in S
    BY <1>6, <1>7, <1>8, <2>1, <2>2
  <2>4. (\A i \in 1..n : q[i] = <<p[i]>> \o junk) /\ DOMAIN q = 1..n /\ q \in [1..n -> S] BY <2>3, Zenon
  <2>5. q \in Seq(S) /\ Len(q) = n BY <2>3, <2>4
  <2> QED BY <2>1, <2>2, <2>4, <2>5
<1> QED BY <1>1, <1>2, <1>5, <1>7, <1>9, Zenon

LEMMA VariableRuns ==
  ASSUME NEW w \in ReadWalks, NEW v \in Answers, NEW junk \in Junk
  PROVE  /\ Joined(Noisy(v, junk)) \in Seq(Lines)
         /\ Cardinality(Lost(v)) \in Nat /\ Len(Printed(v)) * Noise(junk) \in Nat
         /\ RunFrom(w, Joined(Noisy(v, junk)))
              = [entries |-> Append(w.entries, ReadBack(v)),
                 skipped |-> w.skipped + (Cardinality(Lost(v)) + Len(Printed(v)) * Noise(junk))]
<1>1. PICK n : n = Len(Printed(v)) OBVIOUS
<1>2. PICK m : m = Noise(junk) OBVIOUS
<1>3. PICK q : q = Noisy(v, junk) OBVIOUS
<1>4. /\ n \in Nat /\ 1 \in 1..n /\ m \in Nat /\ w.skipped \in Nat /\ w.entries \in Seq(ReadEntries)
  <2>1. IsPrinted(v) BY PrintedIs
  <2>2. m \in Nat BY <1>2, JunkRuns
  <2> QED BY <1>1, <2>1, <2>2 DEF IsPrinted, ReadWalks
<1>5. q \in Seq(Seq(Lines)) /\ Len(q) = n /\ \A i \in 1..n : Printed(v)[i] \in Lines /\ q[i] = <<Printed(v)[i]>> \o junk
  BY <1>1, <1>3, NoisyIs, Zenon
<1> DEFINE up(k) == Joined(SubSeq(q, 1, k))
           read(k) == Append(w.entries, ReadAs(v, ReadValue(v, k)))
           lost(k) == LostBy(v, k)
<1>6. up(0) = <<>> /\ up(n) = Joined(q)
  <2>1. SubSeq(q, 1, 0) = <<>> /\ SubSeq(q, 1, n) = q BY <1>5, Prefix
  <2> QED BY <2>1, JoinedEmpty
<1>7. \A k \in 1..n : up(k) = up(k - 1) \o q[k] /\ up(k - 1) \in Seq(Lines) /\ up(k) \in Seq(Lines)
  BY <1>5, JoinedUpTo
<1>8. \A k \in 1..n : q[k] \in Seq(Lines) /\ Printed(v)[k] \in Lines
  <2>1. PICK S : S = Seq(Lines) OBVIOUS
  <2>2. q \in Seq(S) /\ Len(q) = n BY <1>5, <2>1
  <2>3. \A k \in 1..n : q[k] \in S BY <2>2
  <2> QED BY <1>5, <2>1, <2>3, Zenon
<1>9. ParseLine(w, Printed(v)[1]) = [entries |-> read(1), skipped |-> w.skipped] /\ lost(1) = 0 BY FirstLine
<1>10. \A k \in 2..n : \A u \in ReadWalks : u.entries = read(k - 1) =>
         /\ lost(k - 1) \in Nat /\ lost(k) \in Nat
         /\ ParseLine(u, Printed(v)[k]) = [entries |-> read(k), skipped |-> u.skipped + (lost(k) - lost(k - 1))]
  BY <1>1, NextLine
<1> HIDE DEF up, read, lost
<1>11. \A k \in 1..n : \A u \in ReadWalks :
         LET l == Printed(v)[k]
         IN RunFrom(u, q[k]) = [entries |-> ParseLine(u, l).entries, skipped |-> ParseLine(u, l).skipped + m]
  <2> SUFFICES ASSUME NEW k \in 1..n, NEW u \in ReadWalks, NEW l, l = Printed(v)[k]
               PROVE  RunFrom(u, q[k]) = [entries |-> ParseLine(u, l).entries, skipped |-> ParseLine(u, l).skipped + m]
    OBVIOUS
  <2>1. l \in Lines /\ q[k] = <<l>> \o junk BY <1>5
  <2> QED BY <1>2, <2>1, LineRuns
<1> DEFINE after(k) == [entries |-> read(k), skipped |-> w.skipped + lost(k) + k * m]
<1>12. PICK G : G = {k \in 0..n : k # 0 => lost(k) \in Nat /\ RunFrom(w, up(k)) = after(k)} OBVIOUS
<1>13. 0 \in G BY <1>4, <1>12
<1>14. \A k \in 1..n : k - 1 \in G => k \in G
  <2> SUFFICES ASSUME NEW k \in 1..n, k - 1 \in G PROVE k \in G OBVIOUS
  <2>1. PICK u : u = RunFrom(w, up(k - 1)) OBVIOUS
  <2>2. u \in ReadWalks
    <3>1. up(k - 1) \in Seq(Lines) BY <1>7
    <3> QED BY <2>1, <3>1, RunTyped
  <2>3. RunFrom(w, up(k)) = RunFrom(u, q[k])
    <3>1. PICK a : a = up(k - 1) OBVIOUS
    <3>2. PICK b : b = q[k] OBVIOUS
    <3>3. a \in Seq(Lines) /\ b \in Seq(Lines) /\ up(k) = a \o b BY <1>7, <1>8, <3>1, <3>2, Zenon
    <3>4. RunFrom(w, a \o b) = RunFrom(RunFrom(w, a), b) BY <3>3, RunConcat
    <3> QED BY <2>1, <3>1, <3>2, <3>3, <3>4, Zenon
  <2>4. PICK x : x = ParseLine(u, Printed(v)[k]) OBVIOUS
  <2>5. RunFrom(w, up(k)) = [entries |-> x.entries, skipped |-> x.skipped + m] BY <1>11, <2>2, <2>3, <2>4, Zenon
  <2>6. k \in 0..n /\ k \in Nat /\ k # 0 BY <1>4
  <2>7. CASE k = 1
    <3>1. u = w
      <4>1. up(k - 1) = <<>> BY <1>6, <2>7
      <4> QED BY <2>1, <4>1, RunEmpty
    <3>2. x = [entries |-> read(1), skipped |-> w.skipped] BY <1>9, <2>4, <2>7, <3>1
    <3>3. x.entries = read(k) /\ x.skipped + m = w.skipped + lost(k) + k * m BY <1>4, <1>9, <2>7, <3>2
    <3>4. RunFrom(w, up(k)) = after(k) BY <2>5, <3>3, Zenon
    <3>5. lost(k) \in Nat BY <1>9, <2>7
    <3> QED BY <1>12, <2>6, <3>4, <3>5, Zenon
  <2>8. CASE k # 1
    <3>1. k \in 2..n /\ k - 1 # 0 /\ k - 1 \in Nat BY <1>4, <2>8
    <3>2. u = after(k - 1) /\ lost(k - 1) \in Nat BY <1>12, <2>1, <3>1
    <3>3. u.entries = read(k - 1) /\ u.skipped = w.skipped + lost(k - 1) + (k - 1) * m BY <3>2
    <3>4. /\ lost(k) \in Nat
          /\ x = [entries |-> read(k), skipped |-> u.skipped + (lost(k) - lost(k - 1))]
      BY <1>10, <2>2, <2>4, <3>1, <3>3, Zenon
    <3>5. x.entries = read(k) /\ x.skipped = u.skipped + (lost(k) - lost(k - 1)) BY <3>4
    <3>6. k * m = (k - 1) * m + m /\ k * m \in Nat /\ (k - 1) * m \in Nat BY <1>4, <2>6, OneMore
    <3>7. x.skipped + m = w.skipped + lost(k) + k * m
      <4>1. PICK c : c = k * m OBVIOUS
      <4>2. PICK d : d = (k - 1) * m OBVIOUS
      <4>3. c \in Nat /\ d \in Nat /\ c = d + m BY <3>6, <4>1, <4>2
      <4>4. x.skipped = w.skipped + lost(k - 1) + d + (lost(k) - lost(k - 1)) BY <3>3, <3>5, <4>2
      <4>5. x.skipped + m = w.skipped + lost(k) + c BY <1>4, <3>2, <3>4, <4>3, <4>4
      <4> QED BY <4>1, <4>5
    <3>8. RunFrom(w, up(k)) = after(k) BY <2>5, <3>5, <3>7, Zenon
    <3> QED BY <1>12, <2>6, <3>4, <3>8, Zenon
  <2> QED BY <2>7, <2>8
<1>15. n \in G BY <1>4, <1>13, <1>14, Ascends, Zenon
<1>16. RunFrom(w, up(n)) = after(n) /\ lost(n) \in Nat BY <1>4, <1>12, <1>15
<1>17. Cardinality(Lost(v)) = lost(n)
  <2>1. CASE v.type \in {HexString, "none"}
    <3>1. Lost(v) = {} /\ lost(n) = 0 BY <2>1 DEF Lost, lost, LostBy
    <3> QED BY <3>1, FS_EmptySet
  <2>2. CASE v.type \notin {HexString, "none"}
    <3>1. Lost(v) = 2..Len(v.lines) /\ lost(n) = n - 1 BY <2>2 DEF Lost, lost, LostBy
    <3>2. Len(v.lines) = n
      <4>1. IsPrinted(v) BY PrintedIs
      <4>2. v.type # "none" BY <2>2
      <4> QED BY <1>1, <4>1, <4>2, Zenon DEF IsPrinted
    <3>3. n >= 1 /\ 2 \in Int /\ n \in Int BY <1>4
    <3>4. Cardinality(2..n) = IF 2 > n THEN 0 ELSE n - 2 + 1 BY <3>3, FS_Interval
    <3>5. Cardinality(2..n) = n - 1 BY <3>3, <3>4
    <3> QED BY <3>1, <3>2, <3>5
  <2> QED BY <2>1, <2>2
<1>18. up(n) \in Seq(Lines)
  <2>1. n \in 1..n BY <1>4
  <2> QED BY <1>7, <2>1, Zenon
<1>19. n * m \in Nat BY <1>4
<1>20. PICK a : a = Cardinality(Lost(v)) OBVIOUS
<1>21. PICK c : c = n * m OBVIOUS
<1>22. a \in Nat /\ c \in Nat /\ w.skipped + lost(n) + n * m = w.skipped + (a + c) /\ a + c \in Nat
  BY <1>4, <1>16, <1>17, <1>19, <1>20, <1>21
<1>23. read(n) = Append(w.entries, ReadBack(v)) BY <1>1 DEF read, ReadBack
<1>24. RunFrom(w, Joined(q)) = [entries |-> Append(w.entries, ReadBack(v)), skipped |-> w.skipped + (a + c)]
  BY <1>6, <1>16, <1>22, <1>23, Zenon
<1> QED BY <1>1, <1>2, <1>3, <1>6, <1>18, <1>20, <1>21, <1>22, <1>24, Zenon

(* The lines that are lost, counted variable by variable. *)
CountFrom(n, vars, junk) ==
  CHOOSE h : h = [i \in 0..n |-> IF i = 0 THEN 0
                                 ELSE h[i - 1] + Cardinality(Lost(vars[i])) + Len(Printed(vars[i])) * Noise(junk)]
Counts(f, n, vars, junk) ==
  /\ f \in [0..n -> Nat] /\ f[0] = 0
  /\ \A i \in 1..n : f[i] = f[i - 1] + Cardinality(Lost(vars[i])) + Len(Printed(vars[i])) * Noise(junk)

LEMMA CountFunction ==
  ASSUME NEW n \in Nat, NEW vars, \A i \in 1..n : vars[i] \in Answers, NEW junk \in Junk
  PROVE  Counts(CountFrom(n, vars, junk), n, vars, junk)
<1> DEFINE more(x, i) == x + Cardinality(Lost(vars[i])) + Len(Printed(vars[i])) * Noise(junk)
<1>0. PICK j : j = CountFrom(n, vars, junk) OBVIOUS
<1>1. PICK V : V = Nat OBVIOUS
<1>3. \A i \in 1..n : \A x \in V : more(x, i) \in V
  <2> SUFFICES ASSUME NEW i \in 1..n, NEW x \in Nat PROVE more(x, i) \in Nat BY <1>1
  <2>1. PICK v : v = vars[i] OBVIOUS
  <2>2. v \in Answers BY <2>1
  <2>3. PICK e : e \in ReadWalks
    <3>1. [entries |-> <<>>, skipped |-> 0] \in ReadWalks BY DEF ReadWalks
    <3> QED BY <3>1
  <2>4. Cardinality(Lost(v)) \in Nat /\ Len(Printed(v)) * Noise(junk) \in Nat BY <2>2, <2>3, VariableRuns
  <2>5. PICK a : a = Cardinality(Lost(v)) OBVIOUS
  <2>6. PICK b : b = Len(Printed(v)) * Noise(junk) OBVIOUS
  <2>7. x + a + b \in Nat BY <2>4, <2>5, <2>6
  <2> QED BY <2>1, <2>5, <2>6, <2>7
<1>2. PICK g : g = [i \in 1..n |-> [x \in V |-> more(x, i)]] OBVIOUS
<1> HIDE DEF more
<1>4. \A i \in 1..n : \A x \in V : g[i][x] \in V BY <1>2, <1>3
<1>5. 0 \in V BY <1>1
<1>6. PICK f \in [0..n -> V] : f[0] = 0 /\ \A i \in 1..n : f[i] = g[i][f[i - 1]]
  <2>1. \E f : Follows(f, n, V, 0, g) BY <1>4, <1>5, Recursion
  <2> QED BY <2>1 DEF Follows
<1>7. \A i \in 1..n : f[i] = more(f[i - 1], i)
  <2> SUFFICES ASSUME NEW i \in 1..n PROVE f[i] = more(f[i - 1], i) OBVIOUS
  <2>1. f[i] = g[i][f[i - 1]] BY <1>6, Zenon
  <2>2. f[i - 1] \in V BY <1>6, UpTo
  <2>3. g[i] = [x \in V |-> more(x, i)] BY <1>2, Zenon
  <2> QED BY <2>1, <2>2, <2>3, Zenon
<1>8. f = [i \in 0..n |-> IF i = 0 THEN 0 ELSE more(f[i - 1], i)]
  <2>1. \A i \in 0..n : f[i] = IF i = 0 THEN 0 ELSE more(f[i - 1], i) BY <1>6, <1>7, UpTo, Zenon
  <2>2. f = [i \in 0..n |-> f[i]] BY <1>6, Zenon
  <2> QED BY <2>1, <2>2, Zenon
<1>9. j = [i \in 0..n |-> IF i = 0 THEN 0 ELSE more(j[i - 1], i)] BY <1>0, <1>8, Zenon DEF CountFrom, more
<1>10. \A i \in 0..n : j[i] = IF i = 0 THEN 0 ELSE more(j[i - 1], i)
  <2> SUFFICES ASSUME NEW i \in 0..n PROVE j[i] = IF i = 0 THEN 0 ELSE more(j[i - 1], i) OBVIOUS
  <2> QED BY <1>9, Zenon
<1>11. j[0] = 0 /\ \A i \in 1..n : j[i] = more(j[i - 1], i) BY <1>10, UpTo, Zenon
<1>12. \A i \in 0..n : j[i] = f[i]
  <2>1. PICK G : G = {i \in 0..n : j[i] = f[i]} OBVIOUS
  <2>2. 0 \in G BY <1>6, <1>11, <2>1, UpTo, Zenon
  <2>3. \A i \in 1..n : i - 1 \in G => i \in G BY <1>7, <1>11, <2>1, UpTo, Zenon
  <2>4. ASSUME NEW m \in 0..n PROVE m \in G
    <3>1. m \in Nat /\ \A i \in 1..m : i \in 1..n OBVIOUS
    <3>2. \A i \in 1..m : i - 1 \in G => i \in G BY <2>3, <3>1, Zenon
    <3> QED BY <2>2, <3>1, <3>2, Ascends, Zenon
  <2> QED BY <2>1, <2>4, Zenon
<1>14. \A i \in 0..n : f[i] \in V BY <1>6, Zenon
<1>15. j = [i \in 0..n |-> j[i]] BY <1>9, Zenon
<1>16. \A i \in 0..n : j[i] \in V BY <1>12, <1>14, Zenon
<1>17. j \in [0..n -> V] BY <1>15, <1>16, Zenon
<1> QED BY <1>0, <1>1, <1>11, <1>17, Zenon DEF Counts, more

NothingRead == [entries |-> <<>>, skipped |-> 0]
Text(vars, junk) == Joined([i \in DOMAIN vars |-> Joined(Noisy(vars[i], junk))])

LEMMA WalkRuns ==
  ASSUME NEW vars \in Seq(Answers), NEW junk \in Junk
  PROVE  RunFrom(NothingRead, Text(vars, junk))
           = [entries |-> [i \in 1..Len(vars) |-> ReadBack(vars[i])],
              skipped |-> CountFrom(Len(vars), vars, junk)[Len(vars)]]
<1>1. PICK n : n = Len(vars) OBVIOUS
<1>2. PICK c : c = CountFrom(n, vars, junk) OBVIOUS
<1>3. PICK L : L = Seq(Lines) OBVIOUS
<1>4. PICK q : q = [i \in DOMAIN vars |-> Joined(Noisy(vars[i], junk))] OBVIOUS
<1>5. PICK rs : rs = [i \in 1..n |-> ReadBack(vars[i])] OBVIOUS
<1>6. n \in Nat /\ DOMAIN vars = 1..n /\ \A i \in 1..n : vars[i] \in Answers BY <1>1
<1>7. NothingRead \in ReadWalks BY DEF NothingRead, ReadWalks
<1>8. Counts(c, n, vars, junk) BY <1>2, <1>6, CountFunction
<1>9. \A i \in 1..n : Joined(Noisy(vars[i], junk)) \in L BY <1>3, <1>6, <1>7, VariableRuns
<1>10. q = [i \in 1..n |-> Joined(Noisy(vars[i], junk))] BY <1>4, <1>6
<1>11. (\A i \in 1..n : q[i] = Joined(Noisy(vars[i], junk))) /\ q \in [1..n -> L] BY <1>9, <1>10, Zenon
<1>12. q \in Seq(L) /\ Len(q) = n BY <1>6, <1>11
<1>13. \A i \in 1..n : ReadBack(vars[i]) \in ReadEntries
  <2> SUFFICES ASSUME NEW i \in 1..n, NEW v, v = vars[i] PROVE ReadBack(v) \in ReadEntries OBVIOUS
  <2>1. v \in Answers BY <1>6
  <2>2. PICK k : k = Len(Printed(v)) OBVIOUS
  <2>3. IsPrinted(v) BY <2>1, PrintedIs
  <2>40. k \in Nat /\ 1 \in 1..k BY <2>2, <2>3, Zenon DEF IsPrinted
  <2>4. k \in 1..Len(Printed(v))
    <3>1. k \in 1..k BY <2>40
    <3> QED BY <2>2, <3>1, Zenon
  <2>5. ReadAs(v, ReadValue(v, k)) \in ReadEntries BY <2>1, <2>4, ReadValueTyped
  <2> QED BY <2>2, <2>5, Zenon DEF ReadBack
<1>14. rs \in Seq(ReadEntries) /\ Len(rs) = n
  <2>1. PICK X : X = ReadEntries OBVIOUS
  <2>2. rs \in [1..n -> X] BY <1>5, <1>13, <2>1, Zenon
  <2>3. rs \in Seq(X) /\ Len(rs) = n BY <1>6, <2>2
  <2> QED BY <2>1, <2>3
<1> DEFINE up(k) == Joined(SubSeq(q, 1, k))
           first(k) == SubSeq(rs, 1, k)
<1>15. up(0) = <<>> /\ up(n) = Joined(q) /\ first(0) = <<>> /\ first(n) = rs
  <2>1. SubSeq(q, 1, 0) = <<>> /\ SubSeq(q, 1, n) = q BY <1>12, Prefix
  <2>2. SubSeq(rs, 1, 0) = <<>> /\ SubSeq(rs, 1, n) = rs BY <1>14, Prefix
  <2> QED BY <2>1, <2>2, JoinedEmpty
<1>16. \A k \in 1..n : up(k) = up(k - 1) \o q[k] /\ up(k - 1) \in Seq(Lines)
  <2> SUFFICES ASSUME NEW k \in 1..n PROVE up(k) = up(k - 1) \o q[k] /\ up(k - 1) \in Seq(Lines) OBVIOUS
  <2>1. q \in Seq(Seq(Lines)) /\ k \in 1..Len(q) BY <1>3, <1>12
  <2> QED BY <2>1, JoinedUpTo
<1>17. \A k \in 1..n : first(k) = Append(first(k - 1), rs[k]) BY <1>14, Prefix
<1> HIDE DEF up, first
<1>18. PICK G : G = {k \in 0..n : RunFrom(NothingRead, up(k)) = [entries |-> first(k), skipped |-> c[k]]} OBVIOUS
<1>19. 0 \in G
  <2>1. RunFrom(NothingRead, up(0)) = NothingRead BY <1>7, <1>15, RunEmpty
  <2>2. NothingRead = [entries |-> first(0), skipped |-> c[0]] BY <1>8, <1>15 DEF NothingRead, Counts
  <2> QED BY <1>6, <1>18, <2>1, <2>2, UpTo, Zenon
<1>20. \A k \in 1..n : k - 1 \in G => k \in G
  <2> SUFFICES ASSUME NEW k \in 1..n, k - 1 \in G PROVE k \in G OBVIOUS
  <2>1. PICK a : a = up(k - 1) OBVIOUS
  <2>2. PICK v : v = vars[k] OBVIOUS
  <2>3. PICK b : b = Joined(Noisy(v, junk)) OBVIOUS
  <2>4. PICK u : u = RunFrom(NothingRead, a) OBVIOUS
  <2>5. v \in Answers /\ b \in Seq(Lines) /\ a \in Seq(Lines) /\ up(k) = a \o b
    <3>1. q[k] = b BY <1>11, <2>2, <2>3, Zenon
    <3>2. b \in L BY <1>9, <2>2, <2>3, Zenon
    <3> QED BY <1>3, <1>6, <1>16, <2>1, <2>2, <3>1, <3>2, Zenon
  <2>6. RunFrom(NothingRead, a \o b) = RunFrom(RunFrom(NothingRead, a), b) BY <1>7, <2>5, RunConcat
  <2>7. u \in ReadWalks BY <1>7, <2>4, <2>5, RunTyped
  <2>8. RunFrom(u, b) = [entries |-> Append(u.entries, ReadBack(v)),
                         skipped |-> u.skipped + (Cardinality(Lost(v)) + Len(Printed(v)) * Noise(junk))]
    BY <2>3, <2>5, <2>7, VariableRuns, Zenon
  <2>9. u = [entries |-> first(k - 1), skipped |-> c[k - 1]] BY <1>18, <2>1, <2>4
  <2>10. u.entries = first(k - 1) /\ u.skipped = c[k - 1] BY <2>9
  <2>11. Append(u.entries, ReadBack(v)) = first(k)
    <3>1. rs[k] = ReadBack(v) BY <1>5, <2>2, Zenon
    <3> QED BY <1>17, <2>10, <3>1, Zenon
  <2>12. u.skipped + (Cardinality(Lost(v)) + Len(Printed(v)) * Noise(junk)) = c[k]
    <3>1. PICK x : x = Cardinality(Lost(v)) OBVIOUS
    <3>2. PICK y : y = Len(Printed(v)) * Noise(junk) OBVIOUS
    <3>3. x \in Nat /\ y \in Nat BY <1>7, <2>5, <3>1, <3>2, VariableRuns
    <3>4. c[k] = c[k - 1] + x + y BY <1>8, <2>2, <3>1, <3>2, Zenon DEF Counts
    <3>5. c[k - 1] \in Nat
      <4>1. c \in [0..n -> Nat] BY <1>8 DEF Counts
      <4> QED BY <1>6, <4>1, UpTo
    <3>6. c[k - 1] + (x + y) = c[k - 1] + x + y BY <3>3, <3>5
    <3> QED BY <2>10, <3>1, <3>2, <3>4, <3>6, Zenon
  <2>13. RunFrom(NothingRead, up(k)) = [entries |-> first(k), skipped |-> c[k]]
    BY <2>4, <2>5, <2>6, <2>8, <2>11, <2>12, Zenon
  <2> QED BY <1>6, <1>18, <2>13, UpTo, Zenon
<1>21. n \in G BY <1>6, <1>19, <1>20, Ascends, Zenon
<1>22. RunFrom(NothingRead, up(n)) = [entries |-> first(n), skipped |-> c[n]] BY <1>18, <1>21
<1>23. up(n) = Text(vars, junk) BY <1>4, <1>15, Zenon DEF Text
<1> QED BY <1>1, <1>2, <1>5, <1>15, <1>22, <1>23, Zenon

LEMMA WalkReadsBack ==
  ASSUME NEW vars \in Seq(Answers), NEW junk \in Junk
  PROVE  WalkReadBack(vars, junk)
<1>1. PICK n : n = Len(vars) OBVIOUS
<1>2. PICK walk : walk = Parse(Text(vars, junk)) OBVIOUS
<1>3. walk = RunFrom(NothingRead, Text(vars, junk)) BY <1>2, Zenon DEF Parse, RunFrom, NothingRead
<1>4. walk = [entries |-> [i \in 1..n |-> ReadBack(vars[i])], skipped |-> CountFrom(n, vars, junk)[n]]
  BY <1>1, <1>3, WalkRuns
<1>5. n \in Nat /\ DOMAIN vars = 1..n /\ \A i \in 1..n : vars[i] \in Answers BY <1>1
<1>6. walk.entries = [i \in 1..n |-> ReadBack(vars[i])] /\ walk.skipped = CountFrom(n, vars, junk)[n] BY <1>4
<1>7. Len(walk.entries) = n BY <1>5, <1>6
<1>8. \A i \in 1..n :
        /\ walk.entries[i].ident = vars[i].ident
        /\ walk.entries[i].value = IF vars[i].type = HexString THEN Joined(vars[i].lines)
                                   ELSE IF vars[i].type = "none" THEN <<>> ELSE vars[i].lines[1]
  <2> SUFFICES ASSUME NEW i \in 1..n, NEW v, v = vars[i]
               PROVE  /\ walk.entries[i].ident = v.ident
                      /\ walk.entries[i].value = IF v.type = HexString THEN Joined(v.lines)
                                                 ELSE IF v.type = "none" THEN <<>> ELSE v.lines[1]
    OBVIOUS
  <2>1. walk.entries[i] = ReadBack(v) BY <1>6, Zenon
  <2>2. v \in Answers BY <1>5
  <2>3. PICK k : k = Len(Printed(v)) OBVIOUS
  <2>4. PICK b : b = ReadValue(v, k) OBVIOUS
  <2>5. PICK t : t = IF v.type = "none" THEN "" ELSE v.type OBVIOUS
  <2>6. PICK d : d = (v.type # "none") OBVIOUS
  <2>7. ReadBack(v) = [ident |-> v.ident, type |-> t, value |-> b, present |-> d]
    BY <2>3, <2>4, <2>5, <2>6, Zenon DEF ReadBack, ReadAs
  <2>8. ReadBack(v).ident = v.ident /\ ReadBack(v).value = b BY <2>7
  <2>9. b = IF v.type = HexString THEN Joined(v.lines) ELSE IF v.type = "none" THEN <<>> ELSE v.lines[1]
    <3>1. CASE v.type = HexString
      <4>1. v.type # "none" BY <3>1 DEF HexString
      <4>2. b = Joined(SubSeq(v.lines, 1, k)) BY <2>4, <3>1, <4>1, Zenon DEF ReadValue
      <4>3. k = Len(v.lines) /\ v.lines \in Seq(Seq(Nat))
        <5>1. IsPrinted(v) /\ IsAnswer(v) BY <2>2, PrintedIs, AnswerIs
        <5> QED BY <2>3, <4>1, <5>1, Zenon DEF IsPrinted, IsAnswer
      <4>4. SubSeq(v.lines, 1, k) = v.lines BY <4>3, Prefix
      <4> QED BY <3>1, <4>2, <4>4, Zenon
    <3>2. CASE v.type # HexString BY <2>4, <3>2, Zenon DEF ReadValue
    <3> QED BY <3>1, <3>2
  <2> QED BY <2>1, <2>8, <2>9, Zenon
<1> QED BY <1>1, <1>2, <1>5, <1>6, <1>7, <1>8, Zenon DEF WalkReadBack, Text, Noisy, CountFrom, Lost, Noise

-----------------------------------------------------------------------------
(* Whatever an agent answers, and whatever cruft or prose follows a line,  *)
(* walk.Parse reads one entry for each variable, with every byte of a      *)
(* Hex-STRING that snmpwalk wrapped, adds no bytes to another value, and   *)
(* counts each line that it could not use (parser.go).                     *)
THEOREM WalksRead == WalkSpec => []WalksParse
<1> DEFINE Inv == printed \in Seq(Answers)
<1>1. WalkInit => Inv BY DEF WalkInit
<1>2. Inv /\ [WalkNext]_printed => Inv' BY DEF WalkNext, PrintVariable
<1>3. Inv => WalksParse BY WalkReadsBack DEF WalksParse
<1> QED BY <1>1, <1>2, <1>3, PTL DEF WalkSpec

-----------------------------------------------------------------------------
(* The index columns of a table: what classifyIndexColumn makes of each,   *)
(* and how many arcs of the suffix RFC 2578 gives it (0: as many as are    *)
(* counted, or left).                                                      *)
Syntaxes == [token : STRING, refined : BOOLEAN, size : [lo : Nat, hi : Nat], bits : SUBSET Int]
IntegerTokens == {"INTEGER", "Integer32", "Enumeration", "InterfaceIndex", "InterfaceIndexOrZero",
                  "InetPortNumber", "InetVersion", "IANAifType", "TruthValue", "RowStatus", "Unsigned32"}
Conventions == {"MacAddress", "InetAddressIPv4", "InetAddressIPv6"}
OctetTokens ==
  Conventions \cup {"OCTET STRING", "OctetString", "PhysAddress", "DateAndTime", "InetAddress", "InetAddressDNS"}

Describes(c, x, z, b) == c.syntax = x /\ c.min = z.lo /\ c.max = z.hi /\ c.implied = b

LEMMA DescriptorIs ==
  ASSUME NEW x, NEW z, NEW b
  PROVE  Describes(Descriptor(x, z, b), x, z, b)
BY DEF Descriptor, Describes

LEMMA GreatestIs ==
  ASSUME NEW S, IsFiniteSet(S), S \subseteq Nat, S # {}
  PROVE  \E b \in S : \A c \in S : c <= b
<1> DEFINE top(T) == T = {} \/ \E b \in T : \A c \in T : c <= b
<1>1. PICK n : n = Cardinality(S) OBVIOUS
<1>2. n \in Nat BY <1>1, FS_CardinalityType
<1>3. PICK G : G = {k \in 0..n : \A T \in SUBSET S : Cardinality(T) = k => top(T)} OBVIOUS
<1>4. \A T \in SUBSET S : IsFiniteSet(T) BY FS_Subset
<1>5. 0 \in G
  <2>1. \A T \in SUBSET S : Cardinality(T) = 0 => T = {} BY <1>4, FS_EmptySet
  <2> QED BY <1>2, <1>3, <2>1, UpTo
<1>6. \A k \in 1..n : k - 1 \in G => k \in G
  <2> SUFFICES ASSUME NEW k \in 1..n, k - 1 \in G, NEW T \in SUBSET S, Cardinality(T) = k PROVE top(T)
    BY <1>2, <1>3, UpTo
  <2>1. k \in Nat /\ k # 0 /\ k - 1 \in Nat BY <1>2
  <2>2. IsFiniteSet(T) BY <1>4
  <2>3. CASE T = {} BY <2>3
  <2>4. CASE T # {}
    <3>1. PICK x \in T : TRUE BY <2>4
    <3>2. PICK U : U = T \ {x} OBVIOUS
    <3>3. Cardinality(U) = k - 1 BY <2>2, <3>1, <3>2, FS_RemoveElement
    <3>4. top(U) BY <1>3, <3>2, <3>3
    <3>5. x \in Nat /\ U \subseteq Nat BY <3>1, <3>2
    <3>6. CASE U = {}
      <4>1. \A c \in T : c = x BY <3>2, <3>6
      <4> QED BY <3>1, <3>5, <4>1
    <3>7. CASE U # {}
      <4>1. PICK b \in U : \A c \in U : c <= b BY <3>4, <3>7
      <4>2. b \in Nat /\ b \in T BY <3>2, <3>5, <4>1
      <4>3. \A c \in T : c = x \/ c \in U BY <3>2
      <4>4. CASE x <= b
        <5>1. \A c \in T : c <= b BY <4>1, <4>3, <4>4
        <5> QED BY <4>2, <5>1
      <4>5. CASE ~(x <= b)
        <5>1. \A c \in T : c <= x BY <3>5, <4>1, <4>2, <4>3, <4>5
        <5> QED BY <3>1, <5>1
      <4> QED BY <4>4, <4>5
    <3> QED BY <3>6, <3>7
  <2> QED BY <2>3, <2>4
<1>7. n \in G BY <1>2, <1>5, <1>6, Ascends, Zenon
<1> QED BY <1>1, <1>3, <1>7

LEMMA BitsBytesIs ==
  ASSUME NEW B, B \subseteq Int, IsFiniteSet(B)
  PROVE  BitsBytes(B) \in Nat
<1>1. PICK L : L = {b \in B : b >= 0} OBVIOUS
<1>2. L \subseteq Nat /\ IsFiniteSet(L)
  <2>1. L \subseteq B BY <1>1
  <2>3. \A b \in L : b \in B /\ b >= 0 BY <1>1
  <2>2. L \subseteq Nat
    <3> SUFFICES ASSUME NEW b \in L PROVE b \in Nat OBVIOUS
    <3>1. b \in Int /\ b >= 0 BY <2>3
    <3> QED BY <3>1
  <2> QED BY <2>1, <2>2, FS_Subset
<1>3. PICK h : h = CHOOSE b \in L : \A c \in L : c <= b OBVIOUS
<1>4. BitsBytes(B) = IF L = {} THEN 0 ELSE IF h >= BitsCap THEN 0 ELSE h \div ByteBits + 1
  BY <1>1, <1>3 DEF BitsBytes
<1>5. CASE L = {} BY <1>4, <1>5
<1>6. CASE L # {}
  <2>1. h \in L BY <1>2, <1>3, <1>6, GreatestIs
  <2>2. h \in Nat /\ ByteBits \in Nat \ {0} BY <1>2, <2>1, IndexAssumption
  <2>3. h \div ByteBits \in Nat BY <2>2
  <2> QED BY <1>4, <1>6, <2>3
<1> QED BY <1>5, <1>6

SizeIn == [lo : Nat, hi : Nat]

LEMMA SizeOfIs ==
  ASSUME NEW s \in Syntaxes
  PROVE  /\ SizeOf(s) \in SizeIn
         /\ s.token = "InetAddressIPv4" /\ s.size = Unsized => SizeOf(s).lo = Quad /\ SizeOf(s).hi = Quad /\ Quad \in Nat \ {0}
<1>1. s.size \in SizeIn BY DEF Syntaxes, SizeIn
<1>2. DOMAIN FixedSize = Conventions /\ \A t \in Conventions : FixedSize[t] \in Nat \ {0}
  BY IndexAssumption DEF Conventions
<1>3. FixedSize["InetAddressIPv4"] = Quad BY IndexAssumption
<1>4. Unsized \in SizeIn BY DEF Unsized, SizeIn
<1>5. CASE s.size = Unsized /\ s.token \in DOMAIN FixedSize
  <2>1. PICK f : f = FixedSize[s.token] OBVIOUS
  <2>2. f \in Nat \ {0} BY <1>2, <1>5, <2>1
  <2>5. ~(s.size.lo > s.size.hi) BY <1>5 DEF Unsized
  <2>6. SizeOf(s) = [lo |-> FixedSize[s.token], hi |-> FixedSize[s.token]] BY <1>5, <2>5, Zenon DEF SizeOf
  <2>3. SizeOf(s) = [lo |-> f, hi |-> f] BY <2>1, <2>6
  <2>4. s.token = "InetAddressIPv4" => f = Quad BY <1>3, <2>1
  <2> QED BY <2>2, <2>3, <2>4 DEF SizeIn
<1>6. CASE ~(s.size = Unsized /\ s.token \in DOMAIN FixedSize)
  <2>1. SizeOf(s) = IF s.size.lo > s.size.hi THEN Unsized ELSE s.size BY <1>6 DEF SizeOf
  <2>2. "InetAddressIPv4" \in Conventions BY DEF Conventions
  <2> QED BY <1>1, <1>2, <1>4, <1>6, <2>1, <2>2
<1> QED BY <1>5, <1>6

LEMMA TokensAre ==
  ASSUME NEW s
  PROVE  /\ IsInteger(s) <=> s.token \in IntegerTokens
         /\ IsOctetString(s) <=> s.token \in OctetTokens
         /\ IsInetAddressType(s) => s.token = "InetAddressType"
<1>1. PICK t : t = s.token OBVIOUS
<1>2. TrapTypeLetter(t) = "i" <=> t \in IntegerTokens \ {"Unsigned32"} BY DEF TrapTypeLetter, IntegerTokens
<1>3. DOMAIN FixedSize = Conventions BY IndexAssumption DEF Conventions
<1>4. IsInteger(s) <=> s.token \in IntegerTokens BY <1>1, <1>2 DEF IsInteger, IntegerTokens
<1>5. IsOctetString(s) <=> s.token \in OctetTokens BY <1>3 DEF IsOctetString, OctetTokens
<1> QED BY <1>4, <1>5 DEF IsInetAddressType

(* A column whose typed values fill w arcs of the suffix, or as many as    *)
(* they need: counted, unless the column is implied.                       *)
ReadsBack(c, w, m, value) ==
  /\ w \in Nat
  /\ w > 0 => Len(value) = w /\ ComposeColumn(c, value) = value
  /\ w = 0 /\ m => ComposeColumn(c, value) = value
  /\ w = 0 /\ ~m => ComposeColumn(c, value) = <<Len(value)>> \o value

LEMMA SizedIs ==
  ASSUME NEW lo \in Nat, NEW hi \in Nat, NEW value \in Sized(lo, hi)
  PROVE  Len(value) \in lo..hi /\ value \in Seq(Octets)
<1>1. PICK n \in lo..hi : value \in [1..n -> Octets]
  <2>1. \E a \in {[1..n -> Octets] : n \in lo..hi} : value \in a BY InUnion, Zenon DEF Sized
  <2> QED BY <2>1
<1>2. n \in Nat BY <1>1
<1> QED BY <1>1, <1>2

LEMMA One == \A k : (k = 1 => k \in Nat /\ k > 0) /\ (k = 0 => ~(k > 0))
OBVIOUS

LEMMA Only == \A k \in Nat : \A l \in k..k : l = k
OBVIOUS

LEMMA Filled ==
  ASSUME NEW c, NEW m, NEW w \in Nat, w > 0, NEW value \in Sized(w, w), ComposeColumn(c, value) = value
  PROVE  ReadsBack(c, w, m, value)
<1>1. w # 0 OBVIOUS
<1>2. Len(value) \in w..w BY SizedIs, Zenon
<1>3. Len(value) = w BY <1>2, Only, Zenon
<1> QED BY <1>1, <1>3, Zenon DEF ReadsBack

LEMMA OneArc ==
  ASSUME NEW c, NEW m, NEW value \in Sized(1, 1), c.syntax \notin {"OCTET STRING", "OBJECT IDENTIFIER"}
  PROVE  ReadsBack(c, 1, m, value)
<1>1. PICK k : k = 1 OBVIOUS
<1>2. k \in Nat /\ k > 0 BY <1>1, One, Zenon
<1>3. value \in Sized(k, k) BY <1>1
<1>4. ComposeColumn(c, value) = value BY DEF ComposeColumn
<1>5. ReadsBack(c, k, m, value) BY <1>2, <1>3, <1>4, Filled, Zenon
<1> QED BY <1>1, <1>5

LEMMA ColumnReads ==
  ASSUME NEW s \in Syntaxes, IsFiniteSet(s.bits), NEW m \in BOOLEAN, NEW c, c = ClassifyColumn(s, m),
         c # NoDescriptor, NEW value \in Typed(c)
  PROVE  ReadsBack(c, Width(s), m, value)
<1>1. PICK t : t = s.token OBVIOUS
<1>2. PICK w : w = Width(s) OBVIOUS
<1>3. PICK z : z = SizeOf(s) OBVIOUS
<1>4. PICK b : b = BitsBytes(s.bits) OBVIOUS
<1>5. PICK four : four = (t = "InetAddressIPv4" /\ s.size = Unsized) OBVIOUS
<1>6. PICK fixed : fixed = (z.lo = z.hi /\ z.lo > 0) OBVIOUS
<1>7. z \in SizeIn /\ (four => z.lo = Quad /\ z.hi = Quad) /\ z.lo \in Nat /\ z.hi \in Nat
  BY <1>1, <1>3, <1>5, SizeOfIs DEF SizeIn
<1>8. b \in Nat BY <1>4, BitsBytesIs DEF Syntaxes
<1>9. Quad \in Nat /\ Quad > 0 /\ MaxTyped \in Nat
  <2>1. "InetAddressIPv4" \in Conventions BY DEF Conventions
  <2>2. FixedSize["InetAddressIPv4"] \in Nat \ {0} BY <2>1, IndexAssumption DEF Conventions
  <2> QED BY <2>2, IndexAssumption
<1>10. /\ IsInteger(s) <=> t \in IntegerTokens
       /\ IsOctetString(s) <=> t \in OctetTokens
       /\ IsInetAddressType(s) => t = "InetAddressType"
  BY <1>1, TokensAre
<1>11. c = CASE IsInetAddressType(s) -> Descriptor("InetAddressType", Unsized, FALSE)
             [] ~IsInetAddressType(s) /\ IsInteger(s) -> Descriptor("INTEGER", Unsized, FALSE)
             [] t = "IpAddress" \/ four -> Descriptor("IpAddress", Unsized, FALSE)
             [] IsOctetString(s) /\ ~four -> Descriptor("OCTET STRING", z, m /\ ~fixed)
             [] t = "OBJECT IDENTIFIER" -> Descriptor("OBJECT IDENTIFIER", Unsized, m)
             [] t = "BITS" /\ b > 0 -> Descriptor("BITS", [lo |-> b, hi |-> b], FALSE)
             [] OTHER -> NoDescriptor
  BY <1>1, <1>3, <1>4, <1>5, <1>6, Zenon DEF ClassifyColumn
<1>12. w = CASE t = "IpAddress" -> Quad
             [] t = "BITS" -> b
             [] t # "BITS" /\ IsOctetString(s) -> IF z.lo = z.hi THEN z.lo ELSE 0
             [] t = "OBJECT IDENTIFIER" -> 0
             [] OTHER -> 1
  BY <1>1, <1>2, <1>3, <1>4, Zenon DEF Width
<1>13. PICK inet : inet = IsInetAddressType(s) OBVIOUS
<1>14. Typed(c) =
         CASE c.syntax = "IpAddress" -> Sized(Quad, Quad)
           [] c.syntax \in {"OCTET STRING", "BITS"} ->
                Sized(IF c.min > 1 THEN c.min ELSE 1, IF c.max > 0 THEN c.max ELSE MaxTyped)
           [] c.syntax = "OBJECT IDENTIFIER" -> Sized(1, MaxTyped)
           [] OTHER -> Sized(1, 1)
  BY DEF Typed
<1>20. CASE IsInetAddressType(s)
  <2>1. t = "InetAddressType" BY <1>10, <1>20
  <2>2. t \notin IntegerTokens /\ t \notin OctetTokens BY <2>1 DEF IntegerTokens, OctetTokens, Conventions
  <2>3. c = Descriptor("InetAddressType", Unsized, FALSE) BY <1>5, <1>10, <1>11, <1>20, <2>1, <2>2
  <2>4. w = 1 BY <1>10, <1>12, <2>1, <2>2
  <2>50. Describes(c, "InetAddressType", Unsized, FALSE) BY <2>3, DescriptorIs, Zenon
  <2>5. c.syntax = "InetAddressType" BY <2>50 DEF Describes
  <2>6. value \in Sized(1, 1) BY <1>14, <2>5
  <2> QED BY <1>2, <2>4, <2>5, <2>6, OneArc
<1>21. CASE ~IsInetAddressType(s) /\ t \in IntegerTokens
  <2>1. t \notin OctetTokens /\ t \notin {"IpAddress", "BITS", "OBJECT IDENTIFIER", "InetAddressIPv4"}
    BY <1>21 DEF IntegerTokens, OctetTokens, Conventions
  <2>3. c = Descriptor("INTEGER", Unsized, FALSE) BY <1>5, <1>10, <1>11, <1>21, <2>1
  <2>4. w = 1 BY <1>10, <1>12, <2>1
  <2>50. Describes(c, "INTEGER", Unsized, FALSE) BY <2>3, DescriptorIs, Zenon
  <2>5. c.syntax = "INTEGER" BY <2>50 DEF Describes
  <2>6. value \in Sized(1, 1) BY <1>14, <2>5
  <2> QED BY <1>2, <2>4, <2>5, <2>6, OneArc
<1>22. CASE t = "IpAddress" \/ four
  <2>3. c = Descriptor("IpAddress", Unsized, FALSE) /\ w = Quad
    <3>1. CASE t = "IpAddress"
      <4>1. t \notin IntegerTokens /\ t # "InetAddressType" BY <3>1 DEF IntegerTokens
      <4>2. ~IsInetAddressType(s) /\ ~IsInteger(s) BY <1>10, <4>1
      <4>3. t \notin OctetTokens /\ t # "BITS" /\ t # "OBJECT IDENTIFIER" /\ ~four
        BY <1>5, <3>1 DEF OctetTokens, Conventions
      <4>4. ~IsOctetString(s) BY <1>10, <4>3
      <4> QED BY <1>11, <1>12, <3>1, <4>2, <4>3, <4>4
    <3>2. CASE t # "IpAddress"
      <4>1. t = "InetAddressIPv4" /\ four BY <1>5, <1>22, <3>2
      <4>2. t \notin IntegerTokens /\ t # "InetAddressType" /\ t \in OctetTokens
        BY <4>1 DEF IntegerTokens, OctetTokens, Conventions
      <4>3. ~IsInetAddressType(s) /\ ~IsInteger(s) /\ IsOctetString(s) BY <1>10, <4>2
      <4>4. t # "BITS" /\ t # "OBJECT IDENTIFIER" BY <4>1
      <4>5. z.lo = Quad /\ z.hi = Quad BY <1>7, <4>1
      <4>6. w = Quad BY <1>12, <3>2, <4>3, <4>4, <4>5
      <4>7. c = Descriptor("IpAddress", Unsized, FALSE) BY <1>11, <3>2, <4>1, <4>3, <4>4
      <4> QED BY <4>6, <4>7
    <3> QED BY <3>1, <3>2
  <2>50. Describes(c, "IpAddress", Unsized, FALSE) BY <2>3, DescriptorIs, Zenon
  <2>5. c.syntax = "IpAddress" BY <2>50 DEF Describes
  <2>6. value \in Sized(Quad, Quad) BY <1>14, <2>5
  <2>7. ComposeColumn(c, value) = value BY <2>5 DEF ComposeColumn
  <2>8. ReadsBack(c, Quad, m, value) BY <1>9, <2>6, <2>7, Filled, Zenon
  <2> QED BY <1>2, <2>3, <2>8, Zenon
<1>23. CASE t \in OctetTokens /\ ~four
  <2>1. t \notin IntegerTokens /\ t \notin {"InetAddressType", "IpAddress", "BITS", "OBJECT IDENTIFIER"}
    BY <1>23 DEF IntegerTokens, OctetTokens, Conventions
  <2>2. PICK i : i = (m /\ ~fixed) OBVIOUS
  <2>3. c = Descriptor("OCTET STRING", z, i) BY <1>10, <1>11, <1>23, <2>1, <2>2
  <2>4. w = IF z.lo = z.hi THEN z.lo ELSE 0 BY <1>10, <1>12, <1>23, <2>1
  <2>5. c.syntax = "OCTET STRING" /\ c.min = z.lo /\ c.max = z.hi /\ c.implied = i
    <3>1. Describes(c, "OCTET STRING", z, i) BY <2>3, DescriptorIs, Zenon
    <3> QED BY <3>1 DEF Describes
  <2>6. value \in Sized(IF z.lo > 1 THEN z.lo ELSE 1, IF z.hi > 0 THEN z.hi ELSE MaxTyped) BY <1>14, <2>5
  <2>7. CASE fixed
    <3>1. z.lo = z.hi /\ z.lo > 0 BY <1>6, <2>7
    <3>2. w = z.lo BY <2>4, <3>1
    <3>3. value \in Sized(w, w)
      <4>1. (IF z.lo > 1 THEN z.lo ELSE 1) = w /\ (IF z.hi > 0 THEN z.hi ELSE MaxTyped) = w BY <1>7, <3>1, <3>2
      <4> QED BY <2>6, <4>1
    <3>4. w \in Nat /\ w > 0 BY <1>7, <3>1, <3>2
    <3>5. ComposeColumn(c, value) = value
      <4>1. c.min > 0 /\ c.min = c.max BY <2>5, <3>1
      <4> QED BY <4>1, Zenon DEF ComposeColumn
    <3>6. ReadsBack(c, w, m, value) BY <3>3, <3>4, <3>5, Filled, Zenon
    <3> QED BY <1>2, <3>6, Zenon
  <2>8. CASE ~fixed
    <3>0. ~(z.lo = z.hi /\ z.lo > 0) BY <1>6, <2>8
    <3>1. w = 0 /\ ~(c.min > 0 /\ c.min = c.max)
      <4>1. c.min = z.lo /\ c.max = z.hi BY <2>5, Zenon
      <4>2. ~(z.lo > 0 /\ z.lo = z.hi) BY <3>0, Zenon
      <4>3. ~(c.min > 0 /\ c.min = c.max) BY <4>1, <4>2, Zenon
      <4>4. z.lo = z.hi => z.lo = 0
        <5>1. PICK x : x = z.lo OBVIOUS
        <5>2. x \in Nat /\ (x > 0 \/ x = 0) BY <1>7, <5>1
        <5> QED BY <3>0, <5>1, <5>2, Zenon
      <4>5. w = 0
        <5>1. CASE z.lo = z.hi BY <2>4, <4>4, <5>1
        <5>2. CASE z.lo # z.hi BY <2>4, <5>2
        <5> QED BY <5>1, <5>2
      <4> QED BY <4>3, <4>5
    <3>9. w \in Nat /\ ~(w > 0) BY <3>1
    <3>2. CASE m
      <4>1. c.implied = TRUE BY <2>2, <2>5, <2>8, <3>2
      <4>2. ComposeColumn(c, value) = value BY <4>1, Zenon DEF ComposeColumn
      <4> QED BY <1>2, <3>2, <3>9, <4>2, Zenon DEF ReadsBack
    <3>3. CASE ~m
      <4>1. c.implied = FALSE BY <2>2, <2>5, <3>3
      <4>2. ComposeColumn(c, value) = <<Len(value)>> \o value BY <2>5, <3>1, <4>1, Zenon DEF ComposeColumn
      <4> QED BY <1>2, <3>1, <3>3, <4>2 DEF ReadsBack
    <3> QED BY <3>2, <3>3
  <2> QED BY <2>7, <2>8
<1>24. CASE t = "OBJECT IDENTIFIER"
  <2>1. t \notin IntegerTokens /\ t \notin OctetTokens /\ t # "InetAddressType" /\ ~four
    BY <1>5, <1>24 DEF IntegerTokens, OctetTokens, Conventions
  <2>3. c = Descriptor("OBJECT IDENTIFIER", Unsized, m) BY <1>10, <1>11, <1>24, <2>1
  <2>4. w = 0 BY <1>10, <1>12, <1>24, <2>1
  <2>5. c.syntax = "OBJECT IDENTIFIER" /\ c.min = 0 /\ c.implied = m
    <3>1. Describes(c, "OBJECT IDENTIFIER", Unsized, m) BY <2>3, DescriptorIs, Zenon
    <3> QED BY <3>1 DEF Describes, Unsized
  <2>6. ~(c.min > 0 /\ c.min = c.max)
    <3>1. PICK x : x = c.min OBVIOUS
    <3>3. x = 0 BY <2>5, <3>1, Zenon
    <3>2. ~(x > 0) BY <3>3, One, Zenon
    <3> QED BY <3>1, <3>2, Zenon
  <2>7. CASE m
    <3>1. c.implied = TRUE BY <2>5, <2>7
    <3>2. ComposeColumn(c, value) = value BY <3>1, Zenon DEF ComposeColumn
    <3>3. w \in Nat /\ ~(w > 0) BY <2>4
    <3> QED BY <1>2, <2>7, <3>2, <3>3, Zenon DEF ReadsBack
  <2>8. CASE ~m
    <3>1. c.implied = FALSE BY <2>5, <2>8
    <3>2. ComposeColumn(c, value) = <<Len(value)>> \o value BY <2>5, <2>6, <3>1, Zenon DEF ComposeColumn
    <3> QED BY <1>2, <2>4, <2>8, <3>2 DEF ReadsBack
  <2> QED BY <2>7, <2>8
<1>25. CASE t = "BITS" /\ b > 0
  <2>1. t \notin IntegerTokens /\ t \notin OctetTokens /\ t # "InetAddressType" /\ ~four
    BY <1>5, <1>25 DEF IntegerTokens, OctetTokens, Conventions
  <2>2. PICK y : y = [lo |-> b, hi |-> b] OBVIOUS
  <2>3. c = Descriptor("BITS", y, FALSE) BY <1>10, <1>11, <1>25, <2>1, <2>2
  <2>4. w = b BY <1>10, <1>12, <1>25, <2>1
  <2>5. c.syntax = "BITS" /\ c.min = b /\ c.max = b
    <3>1. Describes(c, "BITS", y, FALSE) BY <2>3, DescriptorIs, Zenon
    <3> QED BY <2>2, <3>1 DEF Describes
  <2>6. value \in Sized(b, b)
    <3>1. (IF c.min > 1 THEN c.min ELSE 1) = b /\ (IF c.max > 0 THEN c.max ELSE MaxTyped) = b BY <1>8, <1>25, <2>5
    <3>2. value \in Sized(IF c.min > 1 THEN c.min ELSE 1, IF c.max > 0 THEN c.max ELSE MaxTyped) BY <1>14, <2>5
    <3> QED BY <3>1, <3>2
  <2>7. ComposeColumn(c, value) = value BY <2>5 DEF ComposeColumn
  <2>8. ReadsBack(c, b, m, value) BY <1>8, <1>25, <2>6, <2>7, Filled, Zenon
  <2> QED BY <1>2, <2>4, <2>8, Zenon
<1>26. \/ IsInetAddressType(s) \/ (~IsInetAddressType(s) /\ t \in IntegerTokens) \/ t = "IpAddress" \/ four
       \/ (t \in OctetTokens /\ ~four) \/ t = "OBJECT IDENTIFIER" \/ (t = "BITS" /\ b > 0)
  BY <1>10, <1>11
<1> QED BY <1>20, <1>21, <1>22, <1>23, <1>24, <1>25, <1>26

(* The suffix of a row, composed column by column, and what is left of it  *)
(* after each.                                                             *)
SuffixFrom(n, columns, values) ==
  CHOOSE h : h = [i \in 0..n |-> IF i = 0 THEN <<>> ELSE h[i - 1] \o ComposeColumn(columns[i], values[i])]
Composes(f, n, columns, values, X) ==
  /\ f \in [0..n -> Seq(X)] /\ f[0] = <<>>
  /\ \A i \in 1..n : f[i] = f[i - 1] \o ComposeColumn(columns[i], values[i])

LEMMA SuffixFunction ==
  ASSUME NEW X, NEW n \in Nat, NEW columns, NEW values, \A i \in 1..n : ComposeColumn(columns[i], values[i]) \in Seq(X)
  PROVE  Composes(SuffixFrom(n, columns, values), n, columns, values, X)
<1> DEFINE more(x, i) == x \o ComposeColumn(columns[i], values[i])
<1>0. PICK j : j = SuffixFrom(n, columns, values) OBVIOUS
<1>1. PICK V : V = Seq(X) OBVIOUS
<1>2. PICK g : g = [i \in 1..n |-> [x \in V |-> more(x, i)]] OBVIOUS
<1>3. \A i \in 1..n : \A x \in V : more(x, i) \in V BY <1>1
<1> HIDE DEF more
<1>4. \A i \in 1..n : \A x \in V : g[i][x] \in V BY <1>2, <1>3
<1>5. <<>> \in V BY <1>1
<1>6. PICK f \in [0..n -> V] : f[0] = <<>> /\ \A i \in 1..n : f[i] = g[i][f[i - 1]]
  <2>1. \E f : Follows(f, n, V, <<>>, g) BY <1>4, <1>5, Recursion
  <2> QED BY <2>1 DEF Follows
<1>7. \A i \in 1..n : f[i] = more(f[i - 1], i)
  <2> SUFFICES ASSUME NEW i \in 1..n PROVE f[i] = more(f[i - 1], i) OBVIOUS
  <2>1. f[i] = g[i][f[i - 1]] BY <1>6, Zenon
  <2>2. f[i - 1] \in V BY <1>6, UpTo
  <2>3. g[i] = [x \in V |-> more(x, i)] BY <1>2, Zenon
  <2> QED BY <2>1, <2>2, <2>3, Zenon
<1>8. f = [i \in 0..n |-> IF i = 0 THEN <<>> ELSE more(f[i - 1], i)]
  <2>1. \A i \in 0..n : f[i] = IF i = 0 THEN <<>> ELSE more(f[i - 1], i) BY <1>6, <1>7, UpTo, Zenon
  <2>2. f = [i \in 0..n |-> f[i]] BY <1>6, Zenon
  <2> QED BY <2>1, <2>2, Zenon
<1>9. j = [i \in 0..n |-> IF i = 0 THEN <<>> ELSE more(j[i - 1], i)] BY <1>0, <1>8, Zenon DEF SuffixFrom, more
<1>10. \A i \in 0..n : j[i] = IF i = 0 THEN <<>> ELSE more(j[i - 1], i)
  <2> SUFFICES ASSUME NEW i \in 0..n PROVE j[i] = IF i = 0 THEN <<>> ELSE more(j[i - 1], i) OBVIOUS
  <2> QED BY <1>9, Zenon
<1>11. j[0] = <<>> /\ \A i \in 1..n : j[i] = more(j[i - 1], i) BY <1>10, UpTo, Zenon
<1>12. \A i \in 0..n : j[i] = f[i]
  <2>1. PICK G : G = {i \in 0..n : j[i] = f[i]} OBVIOUS
  <2>2. 0 \in G BY <1>6, <1>11, <2>1, UpTo, Zenon
  <2>3. \A i \in 1..n : i - 1 \in G => i \in G BY <1>7, <1>11, <2>1, UpTo, Zenon
  <2>4. ASSUME NEW m \in 0..n PROVE m \in G
    <3>1. m \in Nat /\ \A i \in 1..m : i \in 1..n OBVIOUS
    <3>2. \A i \in 1..m : i - 1 \in G => i \in G BY <2>3, <3>1, Zenon
    <3> QED BY <2>2, <3>1, <3>2, Ascends, Zenon
  <2> QED BY <2>1, <2>4, Zenon
<1>14. \A i \in 0..n : f[i] \in V BY <1>6, Zenon
<1>15. j = [i \in 0..n |-> j[i]] BY <1>9, Zenon
<1>16. \A i \in 0..n : j[i] \in V BY <1>12, <1>14, Zenon
<1>17. j \in [0..n -> V] BY <1>15, <1>16, Zenon
<1> QED BY <1>0, <1>1, <1>11, <1>17, Zenon DEF Composes, more

Chain(a, b) == a \o b

LEMMA Chained ==
  ASSUME NEW X, NEW a \in Seq(X), NEW b \in Seq(X), NEW c \in Seq(X)
  PROVE  Chain(Chain(a, b), c) = Chain(a, Chain(b, c))
BY ConcatAssociative DEF Chain

LEMMA JoinNothing ==
  ASSUME NEW X, NEW a \in Seq(X)
  PROVE  <<>> \o a = a /\ a \o <<>> = a
OBVIOUS

Leaves(t, n, p, all, X) ==
  t \in [0..n -> Seq(X)] /\ t[0] = all /\ t[n] = <<>> /\ \A i \in 1..n : t[i - 1] = p[i] \o t[i]

LEMMA WhatIsLeft ==
  ASSUME NEW X, NEW n \in Nat, NEW p, NEW f \in [0..n -> Seq(X)], f[0] = <<>>,
         \A i \in 1..n : p[i] \in Seq(X) /\ f[i] = f[i - 1] \o p[i]
  PROVE  \E t : Leaves(t, n, p, f[n], X)
<1>1. PICK V : V = Seq(X) OBVIOUS
<1>2. \A i \in 1..n : n - i + 1 \in 1..n /\ n - (i - 1) = n - i + 1 /\ n - i = (n - i + 1) - 1 OBVIOUS
<1>3. PICK g : g = [i \in 1..n |-> [x \in V |-> p[n - i + 1] \o x]] OBVIOUS
<1>4. \A i \in 1..n : \A x \in V : g[i][x] \in V
  <2> SUFFICES ASSUME NEW i \in 1..n, NEW x \in V PROVE g[i][x] \in V OBVIOUS
  <2>1. PICK q : q = p[n - i + 1] OBVIOUS
  <2>2. q \in Seq(X) BY <1>2, <2>1
  <2>3. g[i][x] = q \o x BY <1>3, <2>1, Zenon
  <2>4. q \o x \in Seq(X) BY <1>1, <2>2
  <2> QED BY <1>1, <2>3, <2>4
<1>5. <<>> \in V BY <1>1
<1>6. PICK u : Follows(u, n, V, <<>>, g) BY <1>4, <1>5, Recursion
<1>7. u \in [0..n -> V] /\ u[0] = <<>> /\ \A i \in 1..n : u[i] = g[i][u[i - 1]] BY <1>6 DEF Follows
<1>8. \A i \in 1..n : u[i] = p[n - i + 1] \o u[i - 1]
  <2> SUFFICES ASSUME NEW i \in 1..n PROVE u[i] = p[n - i + 1] \o u[i - 1] OBVIOUS
  <2>1. u[i - 1] \in V BY <1>7, UpTo
  <2>2. g[i] = [x \in V |-> p[n - i + 1] \o x] BY <1>3, Zenon
  <2> QED BY <1>7, <2>1, <2>2, Zenon
<1>9. PICK t : t = [i \in 0..n |-> u[n - i]] OBVIOUS
<1>10. \A i \in 0..n : n - i \in 0..n OBVIOUS
<1>11. t \in [0..n -> V] BY <1>7, <1>9, <1>10
<1>12. t[n] = <<>> /\ t[0] = u[n] BY <1>7, <1>9
<1>13. \A i \in 1..n : t[i - 1] = p[i] \o t[i]
  <2> SUFFICES ASSUME NEW i \in 1..n PROVE t[i - 1] = p[i] \o t[i] OBVIOUS
  <2>1. PICK k : k = n - i + 1 OBVIOUS
  <2>2. k \in 1..n /\ n - k + 1 = i /\ k - 1 = n - i /\ n - (i - 1) = k BY <2>1
  <2>3. u[k] = p[i] \o u[n - i] BY <1>8, <2>2
  <2>4. t[i - 1] = u[n - (i - 1)] /\ t[i] = u[n - i] BY <1>9, UpTo, Zenon
  <2> QED BY <2>2, <2>3, <2>4
<1>14. \A i \in 0..n : f[i] \in Seq(X) /\ t[i] \in Seq(X) BY <1>1, <1>11
<1>15. PICK G : G = {k \in 0..n : f[k] \o t[k] = t[0]} OBVIOUS
<1>16. 0 \in G BY <1>14, <1>15, UpTo, JoinNothing
<1>17. \A k \in 1..n : k - 1 \in G => k \in G
  <2> SUFFICES ASSUME NEW k \in 1..n, k - 1 \in G PROVE k \in G OBVIOUS
  <2>1. PICK a : a = f[k - 1] OBVIOUS
  <2>2. PICK b : b = p[k] OBVIOUS
  <2>3. PICK c : c = t[k] OBVIOUS
  <2>4. a \in Seq(X) /\ b \in Seq(X) /\ c \in Seq(X) BY <1>14, <2>1, <2>2, <2>3, UpTo
  <2>5. Chain(Chain(a, b), c) = Chain(a, Chain(b, c)) BY <2>4, Chained
  <2>6. f[k] = Chain(a, b) /\ t[k - 1] = Chain(b, c) BY <1>13, <2>1, <2>2, <2>3 DEF Chain
  <2>7. Chain(a, t[k - 1]) = t[0] BY <1>15, <2>1 DEF Chain
  <2>8. f[k] \o t[k] = t[0] BY <2>3, <2>5, <2>6, <2>7, Zenon DEF Chain
  <2> QED BY <1>15, <2>8, UpTo
<1>18. n \in G BY <1>16, <1>17, Ascends, Zenon
<1>19. f[n] \o <<>> = f[n] BY <1>14, UpTo, JoinNothing
<1>20. t[0] = f[n] BY <1>12, <1>15, <1>18, <1>19
<1>21. Leaves(t, n, p, f[n], X) BY <1>1, <1>11, <1>12, <1>13, <1>20, Zenon DEF Leaves
<1> QED BY <1>21

(* The middle of three sequences, and the last. *)
Divides(s, a, b, c) ==
  /\ Len(s) = Len(a) + Len(b) + Len(c)
  /\ SubSeq(s, Len(a) + 1, Len(a) + Len(b)) = b
  /\ SubSeq(s, Len(a) + Len(b) + 1, Len(s)) = c
  /\ Len(a) > 0 => s # <<>> /\ s[1] = a[1]

LEMMA Cut ==
  ASSUME NEW X, NEW a \in Seq(X), NEW b \in Seq(X), NEW c \in Seq(X)
  PROVE  Divides((a \o b) \o c, a, b, c)
<1>1. PICK s : s = (a \o b) \o c OBVIOUS
<1>2. PICK k : k = Len(a) OBVIOUS
<1>3. PICK l : l = Len(b) OBVIOUS
<1>4. PICK n : n = Len(c) OBVIOUS
<1>5. k \in Nat /\ l \in Nat /\ n \in Nat BY <1>2, <1>3, <1>4
<1>6. s \in Seq(X) /\ Len(s) = k + l + n BY <1>1, <1>2, <1>3, <1>4
<1>7. \A i \in 1..l : s[k + i] = b[i] BY <1>1, <1>2, <1>3, <1>5
<1>8. \A i \in 1..n : s[k + l + i] = c[i] BY <1>1, <1>2, <1>3, <1>4, <1>5
<1>9. PICK d : d = SubSeq(s, k + 1, k + l) OBVIOUS
<1>10. PICK e : e = SubSeq(s, k + l + 1, k + l + n) OBVIOUS
<1>11. d \in Seq(X) /\ Len(d) = l /\ \A i \in 1..l : d[i] = s[k + i] BY <1>5, <1>6, <1>9
<1>12. e \in Seq(X) /\ Len(e) = n /\ \A i \in 1..n : e[i] = s[k + l + i] BY <1>5, <1>6, <1>10
<1>13. d = b BY <1>3, <1>7, <1>11
<1>14. e = c BY <1>4, <1>8, <1>12
<1>15. k > 0 => s # <<>> /\ s[1] = a[1] BY <1>1, <1>2, <1>5, <1>6
<1> QED BY <1>1, <1>2, <1>3, <1>4, <1>6, <1>9, <1>10, <1>13, <1>14, <1>15, Zenon DEF Divides

(* One column of the reader: what it takes of the rest of the suffix. *)
ReadOne(entry, last, i, r) ==
  LET w == Width(entry.index[i])
      from == IF w = 0 /\ ~(i = last /\ entry.implied) THEN 1 ELSE 0
      n == IF w > 0 THEN w
           ELSE IF from = 0 THEN Len(r.rest)
           ELSE IF r.rest = <<>> THEN 0 ELSE r.rest[1]
  IN IF from + n > Len(r.rest) THEN {}
     ELSE {[values |-> Append(r.values, SubSeq(r.rest, from + 1, from + n)),
            rest |-> SubSeq(r.rest, from + n + 1, Len(r.rest))]}

Reading(a, t) == [values |-> a, rest |-> t]

(* Taking `n` arcs after the first `from` of the rest. *)
Takes(entry, last, i, from, n, rest) ==
  /\ from = IF Width(entry.index[i]) = 0 /\ ~(i = last /\ entry.implied) THEN 1 ELSE 0
  /\ n = IF Width(entry.index[i]) > 0 THEN Width(entry.index[i])
         ELSE IF from = 0 THEN Len(rest) ELSE IF rest = <<>> THEN 0 ELSE rest[1]

LeavesOne(entry, last, i, a, rest, value, t) ==
  ReadOne(entry, last, i, Reading(a, rest)) = {Reading(Append(a, value), t)}

LEMMA TakesColumn ==
  ASSUME NEW entry, NEW last, NEW i, NEW X, NEW head \in Seq(X), NEW value \in Seq(X), NEW t \in Seq(X), NEW a,
         NEW rest, rest = Chain(Chain(head, value), t),
         Takes(entry, last, i, Len(head), Len(value), rest)
  PROVE  LeavesOne(entry, last, i, a, rest, value, t)
<1>1. PICK from : from = Len(head) OBVIOUS
<1>2. PICK n : n = Len(value) OBVIOUS
<1>3. PICK l : l = Len(rest) OBVIOUS
<1>4. from \in Nat /\ n \in Nat /\ Len(t) \in Nat BY <1>1, <1>2
<1>5. l = from + n + Len(t) /\ SubSeq(rest, from + 1, from + n) = value /\ SubSeq(rest, from + n + 1, l) = t
  <2>2. rest = (head \o value) \o t BY DEF Chain
  <2>1. Divides(rest, head, value, t) BY <2>2, Cut
  <2> QED BY <1>1, <1>2, <1>3, <2>1, Zenon DEF Divides
<1>6. ~(from + n > l) BY <1>4, <1>5
<1>7. PICK r : r = Reading(a, rest) OBVIOUS
<1>8. r.rest = rest /\ r.values = a BY <1>7 DEF Reading
<1>9. ReadOne(entry, last, i, r)
        = IF from + n > Len(r.rest) THEN {}
          ELSE {[values |-> Append(r.values, SubSeq(r.rest, from + 1, from + n)),
                 rest |-> SubSeq(r.rest, from + n + 1, Len(r.rest))]}
  BY <1>1, <1>2, <1>8, Zenon DEF ReadOne, Takes
<1>10. ReadOne(entry, last, i, r) = {[values |-> Append(a, value), rest |-> t]}
  BY <1>3, <1>5, <1>6, <1>8, <1>9, Zenon
<1> QED BY <1>7, <1>10, Zenon DEF Reading, LeavesOne

LEMMA ReadsColumn ==
  ASSUME NEW entry, NEW last, NEW i, NEW X, Nat \subseteq X, NEW value \in Seq(X), value # <<>>, NEW t \in Seq(X), NEW a,
         NEW c, ReadsBack(c, Width(entry.index[i]), i = last /\ entry.implied, value),
         i = last => t = <<>>
  PROVE  LeavesOne(entry, last, i, a, ComposeColumn(c, value) \o t, value, t)
<1>1. PICK w : w = Width(entry.index[i]) OBVIOUS
<1>2. PICK p : p = ComposeColumn(c, value) OBVIOUS
<1>3. PICK l : l = Len(value) OBVIOUS
<1>4. l \in Nat /\ l > 0 BY <1>3
<1>5. /\ w \in Nat
      /\ w > 0 => l = w /\ p = value
      /\ w = 0 /\ (i = last /\ entry.implied) => p = value
      /\ w = 0 /\ ~(i = last /\ entry.implied) => p = <<l>> \o value
  BY <1>1, <1>2, <1>3, Zenon DEF ReadsBack
<1>6. PICK none : none = <<>> OBVIOUS
<1>7. none \in Seq(X) /\ Len(none) = 0 /\ none \o value = value BY <1>6
<1>8. PICK rest : rest = p \o t OBVIOUS
<1>9. CASE w > 0
  <2>1. rest = Chain(Chain(none, value), t) BY <1>5, <1>7, <1>8, <1>9 DEF Chain
  <2>2. w # 0 BY <1>5, <1>9
  <2>3. Len(none) = IF w = 0 /\ ~(i = last /\ entry.implied) THEN 1 ELSE 0 BY <1>7, <2>2, Zenon
  <2>4. Len(value) = IF w > 0 THEN w
                     ELSE IF Len(none) = 0 THEN Len(rest) ELSE IF rest = <<>> THEN 0 ELSE rest[1]
    BY <1>3, <1>5, <1>9, Zenon
  <2>6. Takes(entry, last, i, Len(none), Len(value), rest)
    BY <1>1, <2>3, <2>4, Zenon DEF Takes
  <2>5. LeavesOne(entry, last, i, a, rest, value, t) BY <1>7, <2>1, <2>6, TakesColumn
  <2> QED BY <1>2, <1>8, <2>5, Zenon
<1>10. CASE ~(w > 0) /\ (i = last /\ entry.implied)
  <2>1. w = 0 /\ p = value BY <1>5, <1>10
  <2>2. rest = Chain(Chain(none, value), t) BY <1>7, <1>8, <2>1 DEF Chain
  <2>3. Len(none) = IF w = 0 /\ ~(i = last /\ entry.implied) THEN 1 ELSE 0 BY <1>7, <1>10, Zenon
  <2>4. rest = value
    <3>1. t = <<>> BY <1>10
    <3> QED BY <1>8, <2>1, <3>1
  <2>5. Len(value) = IF w > 0 THEN w
                     ELSE IF Len(none) = 0 THEN Len(rest) ELSE IF rest = <<>> THEN 0 ELSE rest[1]
    BY <1>7, <1>10, <2>4, Zenon
  <2>7. Takes(entry, last, i, Len(none), Len(value), rest)
    BY <1>1, <2>3, <2>5, Zenon DEF Takes
  <2>6. LeavesOne(entry, last, i, a, rest, value, t) BY <1>7, <2>2, <2>7, TakesColumn
  <2> QED BY <1>2, <1>8, <2>6, Zenon
<1>11. CASE ~(w > 0) /\ ~(i = last /\ entry.implied)
  <2>0. w = 0 BY <1>5, <1>11
  <2>1. p = <<l>> \o value BY <1>5, <1>11, <2>0, Zenon
  <2>2. PICK one : one = <<l>> OBVIOUS
  <2>3. one \in Seq(X) /\ Len(one) = 1 /\ one[1] = l BY <1>4, <2>2
  <2>4. rest = Chain(Chain(one, value), t) BY <1>8, <2>1, <2>2, Zenon DEF Chain
  <2>5. Len(one) = IF w = 0 /\ ~(i = last /\ entry.implied) THEN 1 ELSE 0 BY <1>11, <2>0, <2>3, Zenon
  <2>6. rest # <<>> /\ rest[1] = l
    <3>1. Divides((one \o value) \o t, one, value, t) BY <2>3, Cut
    <3>2. Len(one) > 0 BY <2>3
    <3> QED BY <2>3, <2>4, <3>1, <3>2, Zenon DEF Divides, Chain
  <2>7. Len(one) # 0 BY <2>3
  <2>8. Len(value) = IF w > 0 THEN w
                     ELSE IF Len(one) = 0 THEN Len(rest) ELSE IF rest = <<>> THEN 0 ELSE rest[1]
    BY <1>3, <1>11, <2>6, <2>7, Zenon
  <2>10. Takes(entry, last, i, Len(one), Len(value), rest)
    BY <1>1, <2>5, <2>8, Zenon DEF Takes
  <2>9. LeavesOne(entry, last, i, a, rest, value, t) BY <2>3, <2>4, <2>10, TakesColumn
  <2> QED BY <1>2, <1>8, <2>9, Zenon
<1> QED BY <1>9, <1>10, <1>11

(* The reader, column after column. *)
Onward(entry, last, i, readings) == UNION {ReadOne(entry, last, i, r) : r \in readings}
ReadFrom(entry, suffix, last) ==
  CHOOSE h : h = [i \in 0..last |-> IF i = 0 THEN {Reading(<<>>, suffix)} ELSE Onward(entry, last, i, h[i - 1])]

LEMMA OnwardOne ==
  ASSUME NEW entry, NEW last, NEW i, NEW a, NEW rest, NEW value, NEW t, LeavesOne(entry, last, i, a, rest, value, t)
  PROVE  Onward(entry, last, i, {Reading(a, rest)}) = {Reading(Append(a, value), t)}
<1>1. PICK x : x = Reading(a, rest) OBVIOUS
<1>2. PICK y : y = ReadOne(entry, last, i, x) OBVIOUS
<1>3. \A r \in {x} : ReadOne(entry, last, i, r) = y BY <1>2
<1>4. {ReadOne(entry, last, i, r) : r \in {x}} = {y}
  <2>1. PICK S : S = {ReadOne(entry, last, i, r) : r \in {x}} OBVIOUS
  <2>2. y \in S BY <1>2, <2>1, Zenon
  <2>3. \A z \in S : z = y
    <3> SUFFICES ASSUME NEW z \in S PROVE z = y OBVIOUS
    <3>1. PICK r \in {x} : z = ReadOne(entry, last, i, r) BY <2>1, Zenon
    <3> QED BY <1>3, <3>1, Zenon
  <2> QED BY <2>1, <2>2, <2>3
<1>5. UNION {y} = y OBVIOUS
<1>6. Onward(entry, last, i, {x}) = y BY <1>4, <1>5, Zenon DEF Onward
<1>7. y = {Reading(Append(a, value), t)} BY <1>1, <1>2, Zenon DEF LeavesOne
<1> QED BY <1>1, <1>6, <1>7, Zenon

AllLeave(entry, last, v, t) ==
  \A i \in 1..last : LeavesOne(entry, last, i, SubSeq(v, 1, i - 1), t[i - 1], v[i], t[i])
RowIsRead(entry, last, v, t) == ReadFrom(entry, t[0], last)[last] = {Reading(v, <<>>)}

LEMMA ReadsRow ==
  ASSUME NEW Y, NEW entry, NEW last \in Nat, NEW v \in Seq(Y), Len(v) = last, NEW t, t[last] = <<>>,
         AllLeave(entry, last, v, t)
  PROVE  RowIsRead(entry, last, v, t)
<1>0. PICK j : j = ReadFrom(entry, t[0], last) OBVIOUS
<1>1. PICK first : first = {Reading(<<>>, t[0])} OBVIOUS
<1>2. PICK f : f = [i \in 0..last |-> {Reading(SubSeq(v, 1, i), t[i])}] OBVIOUS
<1>3. /\ SubSeq(v, 1, 0) = <<>> /\ SubSeq(v, 1, last) = v
      /\ \A i \in 1..last : SubSeq(v, 1, i) = Append(SubSeq(v, 1, i - 1), v[i])
  BY Prefix
<1>4. \A i \in 0..last : f[i] = {Reading(SubSeq(v, 1, i), t[i])} BY <1>2, Zenon
<1>5. f[0] = first /\ f[last] = {Reading(v, <<>>)} BY <1>1, <1>3, <1>4, UpTo, Zenon
<1>6. \A i \in 1..last : f[i] = Onward(entry, last, i, f[i - 1])
  <2> SUFFICES ASSUME NEW i \in 1..last PROVE f[i] = Onward(entry, last, i, f[i - 1]) OBVIOUS
  <2>1. f[i - 1] = {Reading(SubSeq(v, 1, i - 1), t[i - 1])} BY <1>4, UpTo, Zenon
  <2>2. f[i] = {Reading(Append(SubSeq(v, 1, i - 1), v[i]), t[i])} BY <1>3, <1>4, UpTo, Zenon
  <2>3. LeavesOne(entry, last, i, SubSeq(v, 1, i - 1), t[i - 1], v[i], t[i]) BY Zenon DEF AllLeave
  <2>4. Onward(entry, last, i, {Reading(SubSeq(v, 1, i - 1), t[i - 1])}) = {Reading(Append(SubSeq(v, 1, i - 1), v[i]), t[i])}
    BY <2>3, OnwardOne
  <2> QED BY <2>1, <2>2, <2>4, Zenon
<1>8. f = [i \in 0..last |-> IF i = 0 THEN first ELSE Onward(entry, last, i, f[i - 1])]
  <2>1. \A i \in 0..last : f[i] = IF i = 0 THEN first ELSE Onward(entry, last, i, f[i - 1])
    BY <1>5, <1>6, UpTo, Zenon
  <2>2. f = [i \in 0..last |-> f[i]] BY <1>2, Zenon
  <2> QED BY <2>1, <2>2, Zenon
<1>9. j = [i \in 0..last |-> IF i = 0 THEN first ELSE Onward(entry, last, i, j[i - 1])]
  <2>1. j = CHOOSE h : h = [i \in 0..last |-> IF i = 0 THEN first ELSE Onward(entry, last, i, h[i - 1])]
    BY <1>0, <1>1, Zenon DEF ReadFrom
  <2> QED BY <1>8, <2>1, Zenon
<1>10. \A i \in 0..last : j[i] = IF i = 0 THEN first ELSE Onward(entry, last, i, j[i - 1])
  <2> SUFFICES ASSUME NEW i \in 0..last PROVE j[i] = IF i = 0 THEN first ELSE Onward(entry, last, i, j[i - 1]) OBVIOUS
  <2> QED BY <1>9, Zenon
<1>11. j[0] = first /\ \A i \in 1..last : j[i] = Onward(entry, last, i, j[i - 1]) BY <1>10, UpTo, Zenon
<1>12. PICK G : G = {i \in 0..last : j[i] = f[i]} OBVIOUS
<1>13. 0 \in G BY <1>5, <1>11, <1>12, UpTo, Zenon
<1>14. \A i \in 1..last : i - 1 \in G => i \in G BY <1>6, <1>11, <1>12, UpTo, Zenon
<1>15. last \in G BY <1>13, <1>14, Ascends, Zenon
<1> QED BY <1>0, <1>5, <1>12, <1>15, Zenon DEF RowIsRead

LEMMA DecodeReads ==
  ASSUME NEW entry, NEW suffix
  PROVE  Decode(entry, suffix)
           = {r.values : r \in {x \in ReadFrom(entry, suffix, Len(entry.index))[Len(entry.index)] : x.rest = <<>>}}
BY Zenon DEF Decode, ReadFrom, Onward, ReadOne, Reading

LEMMA ColumnComposes ==
  ASSUME NEW X, Nat \subseteq X, NEW c, NEW value \in Seq(X)
  PROVE  ComposeColumn(c, value) \in Seq(X)
<1>1. PICK n : n = Len(value) OBVIOUS
<1>2. n \in X BY <1>1
<1>3. <<n>> \o value \in Seq(X) BY <1>2
<1>4. ComposeColumn(c, value) = value \/ ComposeColumn(c, value) = <<n>> \o value BY <1>1, Zenon DEF ComposeColumn
<1> QED BY <1>3, <1>4

LEMMA ColumnLeaves ==
  ASSUME NEW X, Nat \subseteq X, NEW entry, NEW i, entry.index[i] \in Syntaxes, IsFiniteSet(entry.index[i].bits),
         NEW c, c = ClassifyColumn(entry.index[i], ImpliedFor(entry, i)), c # NoDescriptor,
         NEW value \in Seq(X), value # <<>>, value \in Typed(c), NEW a, NEW t \in Seq(X), i = Len(entry.index) => t = <<>>
  PROVE  LeavesOne(entry, Len(entry.index), i, a, ComposeColumn(c, value) \o t, value, t)
<1>1. ImpliedFor(entry, i) \in BOOLEAN BY DEF ImpliedFor
<1>2. ReadsBack(c, Width(entry.index[i]), ImpliedFor(entry, i), value) BY <1>1, ColumnReads, Zenon
<1>3. ReadsBack(c, Width(entry.index[i]), i = Len(entry.index) /\ entry.implied, value) BY <1>2, Zenon DEF ImpliedFor
<1> QED BY <1>3, ReadsColumn, Zenon

LEMMA ComposedAre ==
  ASSUME NEW columns, NEW values
  PROVE  ComposeAllColumns(columns, values) = SuffixFrom(Len(columns), columns, values)[Len(columns)]
BY Zenon DEF ComposeAllColumns, SuffixFrom

(* A row is read back from its suffix. *)
Described(entry, columns) ==
  /\ entry.index \in Seq(Syntaxes) /\ \A i \in DOMAIN entry.index : IsFiniteSet(entry.index[i].bits)
  /\ columns = [i \in DOMAIN entry.index |-> ClassifyColumn(entry.index[i], ImpliedFor(entry, i))]
  /\ \A i \in DOMAIN columns : columns[i] # NoDescriptor
Fits(columns, values) ==
  /\ values \in [DOMAIN columns -> Sized(1, MaxTyped)]
  /\ \A i \in DOMAIN columns : values[i] \in Typed(columns[i])
RowReads(entry, columns, values) == Decode(entry, ComposeAllColumns(columns, values)) = {values}

LEMMA RowDecodes ==
  ASSUME NEW entry, NEW columns, Described(entry, columns), NEW values, Fits(columns, values)
  PROVE  RowReads(entry, columns, values)
<1>a. /\ entry.index \in Seq(Syntaxes) /\ \A i \in DOMAIN entry.index : IsFiniteSet(entry.index[i].bits)
      /\ columns = [i \in DOMAIN entry.index |-> ClassifyColumn(entry.index[i], ImpliedFor(entry, i))]
      /\ \A i \in DOMAIN columns : columns[i] # NoDescriptor
  BY Zenon DEF Described
<1>b. /\ values \in [DOMAIN columns -> Sized(1, MaxTyped)]
      /\ \A i \in DOMAIN columns : values[i] \in Typed(columns[i])
  BY Zenon DEF Fits
<1>1. PICK n : n = Len(entry.index) OBVIOUS
<1>2. PICK X : X = Octets \cup Nat OBVIOUS
<1>3. n \in Nat /\ DOMAIN entry.index = 1..n /\ DOMAIN columns = 1..n BY <1>1, <1>a
<1>4. \A i \in 1..n : columns[i] = ClassifyColumn(entry.index[i], ImpliedFor(entry, i)) BY <1>3, <1>a
<1>5. Len(columns) = n BY <1>3
<1>6. \A i \in 1..n : values[i] \in Seq(X) /\ values[i] # <<>>
  <2> SUFFICES ASSUME NEW i \in 1..n PROVE values[i] \in Seq(X) /\ values[i] # <<>> OBVIOUS
  <2>1. PICK s : s = values[i] OBVIOUS
  <2>2. s \in Sized(1, MaxTyped) BY <1>3, <2>1, <1>b
  <2>3. 1 \in Nat /\ MaxTyped \in Nat BY IndexAssumption
  <2>4. Len(s) \in 1..MaxTyped /\ s \in Seq(Octets) BY <2>2, <2>3, SizedIs
  <2> QED BY <1>2, <2>1, <2>4
<1>7. Nat \subseteq X BY <1>2
<1>8. \A i \in 1..n : ComposeColumn(columns[i], values[i]) \in Seq(X)
  <2> SUFFICES ASSUME NEW i \in 1..n PROVE ComposeColumn(columns[i], values[i]) \in Seq(X) OBVIOUS
  <2> QED BY <1>6, <1>7, ColumnComposes, Zenon
<1>9. PICK f : f = SuffixFrom(n, columns, values) OBVIOUS
<1>10. Composes(f, n, columns, values, X) BY <1>3, <1>8, <1>9, SuffixFunction
<1>11. PICK p : p = [i \in 1..n |-> ComposeColumn(columns[i], values[i])] OBVIOUS
<1>12. \A i \in 1..n : p[i] = ComposeColumn(columns[i], values[i]) BY <1>11, Zenon
<1>13. f \in [0..n -> Seq(X)] /\ f[0] = <<>> BY <1>10, Zenon DEF Composes
<1>14. \A i \in 1..n : p[i] \in Seq(X) /\ f[i] = f[i - 1] \o p[i] BY <1>8, <1>10, <1>12, Zenon DEF Composes
<1>15. \E t : Leaves(t, n, p, f[n], X) BY <1>3, <1>13, <1>14, WhatIsLeft, Zenon
<1>16. PICK t : Leaves(t, n, p, f[n], X) BY <1>15
<1>17. t \in [0..n -> Seq(X)] /\ t[0] = f[n] /\ t[n] = <<>> BY <1>16, Zenon DEF Leaves
<1>18. \A i \in 1..n : t[i - 1] = ComposeColumn(columns[i], values[i]) \o t[i] BY <1>12, <1>16, Zenon DEF Leaves
<1>19. ASSUME NEW i \in 1..n PROVE LeavesOne(entry, n, i, SubSeq(values, 1, i - 1), t[i - 1], values[i], t[i])
  <2>1. PICK a : a = SubSeq(values, 1, i - 1) OBVIOUS
  <2>2. PICK value : value = values[i] OBVIOUS
  <2>3. PICK rest : rest = t[i] OBVIOUS
  <2>4. PICK c : c = columns[i] OBVIOUS
  <2>5. entry.index[i] \in Syntaxes /\ IsFiniteSet(entry.index[i].bits) BY <1>3, <1>a
  <2>6. c = ClassifyColumn(entry.index[i], ImpliedFor(entry, i)) /\ c # NoDescriptor BY <1>3, <1>a, <1>4, <2>4, Zenon
  <2>7. value \in Seq(X) /\ value # <<>> /\ value \in Typed(c) BY <1>3, <1>b, <1>6, <2>2, <2>4, Zenon
  <2>8. rest \in Seq(X) /\ (i = n => rest = <<>>) BY <1>17, <2>3, UpTo
  <2>9. i = Len(entry.index) => rest = <<>> BY <1>1, <2>8, Zenon
  <2>10. LeavesOne(entry, Len(entry.index), i, a, ComposeColumn(c, value) \o rest, value, rest)
    BY <1>7, <2>5, <2>6, <2>7, <2>8, <2>9, ColumnLeaves, Zenon
  <2>11. t[i - 1] = ComposeColumn(c, value) \o rest BY <1>18, <2>2, <2>3, <2>4, Zenon
  <2> QED BY <1>1, <2>1, <2>2, <2>3, <2>10, <2>11, Zenon
<1>20. values \in Seq(Seq(X)) /\ Len(values) = n
  <2>1. values = [i \in 1..n |-> values[i]] BY <1>3, <1>b
  <2>2. values \in [1..n -> Seq(X)] BY <1>6, <2>1
  <2> QED BY <1>3, <2>2
<1>21. ReadFrom(entry, t[0], n)[n] = {Reading(values, <<>>)}
  <2>1. AllLeave(entry, n, values, t) BY <1>19, Zenon DEF AllLeave
  <2>2. t[n] = <<>> /\ n \in Nat BY <1>3, <1>17, Zenon
  <2>3. PICK Y : Y = Seq(X) OBVIOUS
  <2>4. values \in Seq(Y) BY <1>20, <2>3
  <2>5. Len(values) = n BY <1>20
  <2>6. RowIsRead(entry, n, values, t) BY <2>1, <2>2, <2>4, <2>5, ReadsRow
  <2> QED BY <2>6, Zenon DEF RowIsRead
<1>22. ComposeAllColumns(columns, values) = t[0] BY <1>5, <1>9, <1>17, ComposedAre, Zenon
<1>23. PICK S : S = ReadFrom(entry, t[0], n)[n] OBVIOUS
<1>24. Decode(entry, t[0]) = {r.values : r \in {x \in S : x.rest = <<>>}} BY <1>1, <1>23, DecodeReads, Zenon
<1>25. {x \in S : x.rest = <<>>} = {Reading(values, <<>>)}
  <2>1. S = {Reading(values, <<>>)} BY <1>21, <1>23
  <2>2. Reading(values, <<>>).rest = <<>> BY DEF Reading
  <2> QED BY <2>1, <2>2, Zenon
<1>26. Reading(values, <<>>).values = values BY DEF Reading
<1>27. {r.values : r \in {Reading(values, <<>>)}} = {values}
  <2>1. PICK y : y = Reading(values, <<>>) OBVIOUS
  <2>2. y.values = values BY <1>26, <2>1
  <2>3. {r.values : r \in {y}} = {values} BY <2>2
  <2> QED BY <2>1, <2>3
<1> QED BY <1>22, <1>24, <1>25, <1>27, Zenon DEF RowReads

LEMMA LoneInteger ==
  ASSUME NEW s, WalkReadsInteger(s), NEW m
  PROVE  ClassifyColumn(s, m).syntax = "INTEGER"
<1>1. s.token \in {"INTEGER", "Integer32"} BY DEF WalkReadsInteger
<1>2. s.token \in IntegerTokens /\ s.token # "InetAddressType" BY <1>1 DEF IntegerTokens
<1>3. IsInteger(s) /\ ~IsInetAddressType(s) BY <1>2, TokensAre
<1>4. PICK d : d = Descriptor("INTEGER", Unsized, FALSE) OBVIOUS
<1>5. PICK four : four = (s.token = "InetAddressIPv4" /\ s.size = Unsized) OBVIOUS
<1>6. s.token # "IpAddress" /\ ~four /\ s.token \notin {"BITS", "OBJECT IDENTIFIER"} BY <1>1, <1>5
<1>7. s.token \notin OctetTokens BY <1>1 DEF OctetTokens, Conventions
<1>8. ~IsOctetString(s) BY <1>7, TokensAre
<1>9. PICK c : c = ClassifyColumn(s, m) OBVIOUS
<1>10. PICK z : z = SizeOf(s) OBVIOUS
<1>11. PICK b : b = BitsBytes(s.bits) OBVIOUS
<1>12. c = CASE IsInetAddressType(s) -> Descriptor("InetAddressType", Unsized, FALSE)
             [] ~IsInetAddressType(s) /\ IsInteger(s) -> d
             [] s.token = "IpAddress" \/ four -> Descriptor("IpAddress", Unsized, FALSE)
             [] IsOctetString(s) /\ ~four -> Descriptor("OCTET STRING", z, m /\ ~(z.lo = z.hi /\ z.lo > 0))
             [] s.token = "OBJECT IDENTIFIER" -> Descriptor("OBJECT IDENTIFIER", Unsized, m)
             [] s.token = "BITS" /\ b > 0 -> Descriptor("BITS", [lo |-> b, hi |-> b], FALSE)
             [] OTHER -> NoDescriptor
  BY <1>4, <1>5, <1>9, <1>10, <1>11, Zenon DEF ClassifyColumn
<1>13. c = d BY <1>3, <1>6, <1>8, <1>12
<1>14. Describes(d, "INTEGER", Unsized, FALSE) BY <1>4, DescriptorIs, Zenon
<1> QED BY <1>9, <1>13, <1>14, Zenon DEF Describes

LEMMA NotEmpty ==
  ASSUME NEW S, Cardinality(S) = 1
  PROVE  S # {}
BY FS_EmptySet

(* The notification's page: its columns are those of the one table entry.  *)
LEMMA PageDecodes ==
  ASSUME NEW objects, NEW entries,
         \A p \in DOMAIN entries : entries[p].index \in Seq(Syntaxes)
           /\ \A i \in DOMAIN entries[p].index : IsFiniteSet(entries[p].index[i].bits)
  PROVE  SuffixDecodes(objects, entries)
<1>1. PICK C : C = {x \in objects : x.kind = "column"} OBVIOUS
<1>2. PICK parents : parents = {o.parent : o \in C} OBVIOUS
<1>3. PICK key : key = CHOOSE p \in parents : TRUE OBVIOUS
<1>4. PICK entry : entry = entries[key] OBVIOUS
<1>5. PICK columns : columns = [i \in DOMAIN entry.index |-> ClassifyColumn(entry.index[i], ImpliedFor(entry, i))] OBVIOUS
<1>6. PICK strategy : strategy = Strategy(objects, entries) OBVIOUS
<1>7. PICK raw : raw = [mode |-> "raw-suffix", columns |-> <<>>] OBVIOUS
<1>8. strategy = IF \A o \in objects : o.kind \notin {"column", "unloaded"} THEN [raw EXCEPT !.mode = "scalar-only"]
                 ELSE IF C # objects \/ Cardinality(parents) # 1 \/ ~(parents \subseteq DOMAIN entries) THEN raw
                 ELSE IF entry.index = <<>> \/ \E i \in DOMAIN columns : columns[i] = NoDescriptor THEN raw
                 ELSE [mode |-> "indexed", columns |-> columns]
  BY <1>1, <1>2, <1>3, <1>4, <1>5, <1>6, <1>7, ZenonT(60) DEF Strategy
<1>9. raw.mode # "indexed" /\ [raw EXCEPT !.mode = "scalar-only"].mode # "indexed" BY <1>7
<1>10. ASSUME strategy.mode = "indexed"
       PROVE  /\ Cardinality(parents) = 1 /\ parents \subseteq DOMAIN entries
              /\ entry.index # <<>> /\ \A i \in DOMAIN columns : columns[i] # NoDescriptor
              /\ strategy.columns = columns
  <2>1. ~(\A o \in objects : o.kind \notin {"column", "unloaded"}) BY <1>8, <1>9, <1>10, Zenon
  <2>2. ~(C # objects \/ Cardinality(parents) # 1 \/ ~(parents \subseteq DOMAIN entries)) BY <1>8, <1>9, <1>10, <2>1, Zenon
  <2>3. ~(entry.index = <<>> \/ \E i \in DOMAIN columns : columns[i] = NoDescriptor)
    BY <1>8, <1>9, <1>10, <2>1, <2>2, Zenon
  <2>4. strategy = [mode |-> "indexed", columns |-> columns] BY <1>8, <2>1, <2>2, <2>3, Zenon
  <2>5. strategy.columns = columns BY <2>4
  <2> QED BY <2>2, <2>3, <2>5, Zenon
<1>11. SuffixDecodes(objects, entries) <=>
         (strategy.mode = "indexed" =>
           /\ \A values \in {v \in [DOMAIN strategy.columns -> Sized(1, MaxTyped)] :
                               \A i \in DOMAIN strategy.columns : v[i] \in Typed(strategy.columns[i])} :
                Decode(entry, ComposeAllColumns(strategy.columns, values)) = {values}
           /\ Len(strategy.columns) = 1 /\ WalkReadsInteger(entry.index[1]) => strategy.columns[1].syntax = "INTEGER")
  BY <1>1, <1>2, <1>3, <1>4, <1>6, Zenon DEF SuffixDecodes
<1>12. SUFFICES ASSUME strategy.mode = "indexed"
                PROVE  /\ \A values \in {v \in [DOMAIN columns -> Sized(1, MaxTyped)] : \A i \in DOMAIN columns : v[i] \in Typed(columns[i])} :
                            Decode(entry, ComposeAllColumns(columns, values)) = {values}
                       /\ Len(columns) = 1 /\ WalkReadsInteger(entry.index[1]) => columns[1].syntax = "INTEGER"
  BY <1>10, <1>11, Zenon
<1>13. key \in parents
  <2>2. Cardinality(parents) = 1 BY <1>10, <1>12, Zenon
  <2>3. parents # {} BY <2>2, NotEmpty, Zenon
  <2> QED BY <1>3, <2>3
<1>14. entry.index \in Seq(Syntaxes) /\ \A i \in DOMAIN entry.index : IsFiniteSet(entry.index[i].bits)
  BY <1>4, <1>10, <1>12, <1>13
<1>15. ASSUME NEW values \in [DOMAIN columns -> Sized(1, MaxTyped)], \A i \in DOMAIN columns : values[i] \in Typed(columns[i])
       PROVE  Decode(entry, ComposeAllColumns(columns, values)) = {values}
  <2>1. \A i \in DOMAIN columns : columns[i] # NoDescriptor BY <1>10, <1>12, Zenon
  <2>2. Described(entry, columns) BY <1>5, <1>14, <2>1, Zenon DEF Described
  <2>3. Fits(columns, values) BY <1>15, Zenon DEF Fits
  <2>4. RowReads(entry, columns, values) BY <2>2, <2>3, RowDecodes
  <2> QED BY <2>4, Zenon DEF RowReads
<1>16. ASSUME Len(columns) = 1, WalkReadsInteger(entry.index[1]) PROVE columns[1].syntax = "INTEGER"
  <2>1. DOMAIN columns = 1..Len(entry.index) /\ Len(entry.index) \in Nat BY <1>5, <1>14
  <2>2. Len(columns) = Len(entry.index) BY <1>5, <2>1
  <2>3. 1 \in DOMAIN entry.index BY <1>14, <1>16, <2>2
  <2>4. columns[1] = ClassifyColumn(entry.index[1], ImpliedFor(entry, 1)) BY <1>5, <2>3, Zenon
  <2> QED BY <1>16, <2>4, LoneInteger, Zenon
<1> QED BY <1>15, <1>16, Zenon

(* The row that the page composes a trap for is the row that the table's   *)
(* INDEX clause reads from the suffix (handlers.go:1227-1238), in every    *)
(* notification whose columns the simulator describes.                     *)
THEOREM SuffixesRead == SimulatorSpec => []SuffixesDecode
<1> DEFINE Inv == simulated \subseteq Tables
<1>1. SimulatorInit => Inv BY DEF SimulatorInit
<1>2. Inv /\ [SimulatorNext]_simulated => Inv' BY DEF SimulatorNext, OpenSimulator
<1>3. Inv => SuffixesDecode
  <2> SUFFICES ASSUME Inv, NEW x \in simulated PROVE SuffixDecodes(x.objects, x.entries) BY DEF SuffixesDecode
  <2>1. x \in Tables OBVIOUS
  <2>2. \A p \in DOMAIN x.entries : x.entries[p].index \in Seq(Syntaxes)
          /\ \A i \in DOMAIN x.entries[p].index : IsFiniteSet(x.entries[p].index[i].bits)
    BY <2>1, IndexAssumption, Zenon DEF Syntaxes
  <2> QED BY <2>2, PageDecodes, Zenon
<1> QED BY <1>1, <1>2, <1>3, PTL DEF SimulatorSpec


-----------------------------------------------------------------------------
(* What one compile stores of a dump. *)

Definitions == [ident : Descriptors, tag : Tags, oid : Arcs, objects : Seq(Descriptors), text : SUBSET Bytes]

(* What the decoder reads of a dump, at once or on its retry. *)
Reads(read, defs) ==
  /\ defs \in Seq(Definitions) /\ DOMAIN read = DOMAIN defs
  /\ \A i \in DOMAIN defs :
       /\ i \in Nat \ {0} /\ Clean(read[i].text)
       /\ read[i].ident = defs[i].ident /\ read[i].tag = defs[i].tag
       /\ read[i].oid = defs[i].oid /\ read[i].objects = defs[i].objects

LEMMA SanitizedClean ==
  ASSUME NEW text
  PROVE  Clean(SanitizeXMLBytes(text))
BY DEF Clean, SanitizeXMLBytes, Refused

LEMMA RecoveredReads ==
  ASSUME NEW defs \in Seq(Definitions)
  PROVE  Reads(Recovered(defs), defs)
<1>1. \A i \in DOMAIN defs : i \in Nat \ {0} /\ defs[i] \in Definitions OBVIOUS
<1>2. CASE Accepted(defs)
  <2>1. Recovered(defs) = defs BY <1>2 DEF Recovered
  <2>2. \A i \in DOMAIN defs : Clean(defs[i].text) BY <1>2 DEF Accepted
  <2> QED BY <1>1, <2>1, <2>2 DEF Reads
<1>3. CASE ~Accepted(defs)
  <2>1. PICK read : read = [i \in DOMAIN defs |-> [defs[i] EXCEPT !.text = SanitizeXMLBytes(@)]] OBVIOUS
  <2>2. Recovered(defs) = read BY <1>3, <2>1 DEF Recovered
  <2>3. ASSUME NEW i \in DOMAIN defs
        PROVE  /\ Clean(read[i].text)
               /\ read[i].ident = defs[i].ident /\ read[i].tag = defs[i].tag
               /\ read[i].oid = defs[i].oid /\ read[i].objects = defs[i].objects
    <3>1. PICK d \in Definitions : d = defs[i] BY <1>1
    <3>2. PICK text : text = SanitizeXMLBytes(d.text) OBVIOUS
    <3>3. read[i] = [d EXCEPT !.text = text] BY <2>1, <3>1, <3>2
    <3>4. Clean(text) BY <3>2, SanitizedClean
    <3>5. read[i].text = text BY ONLY <3>3, d \in Definitions DEF Definitions
    <3>6. read[i].ident = d.ident /\ read[i].tag = d.tag /\ read[i].oid = d.oid /\ read[i].objects = d.objects
      BY ONLY <3>3, d \in Definitions DEF Definitions
    <3> QED BY <3>1, <3>4, <3>5, <3>6
  <2>4. DOMAIN read = DOMAIN defs BY <2>1
  <2> QED BY <1>1, <2>2, <2>3, <2>4 DEF Reads
<1> QED BY <1>2, <1>3

LEMMA SectionIs ==
  ASSUME NEW tag \in Tags
  PROVE  Section(tag) \in 1..7
<1>1. DOMAIN Sections = 1..7 BY DEF Sections
<1>2. \E k \in DOMAIN Sections : tag \in Sections[k] BY DEF Tags
<1>3. Section(tag) \in DOMAIN Sections BY <1>2, Zenon DEF Section
<1> QED BY <1>1, <1>3

LEMMA Sectioned ==
  ASSUME NEW defs \in Seq(Definitions), NEW i \in DOMAIN defs
  PROVE  Section(defs[i].tag) \in 1..7
<1>1. PICK d \in Definitions : d = defs[i] OBVIOUS
<1>2. d.tag \in Tags BY DEF Definitions
<1> QED BY <1>1, <1>2, SectionIs

LEMMA ToldIs ==
  ASSUME NEW defs \in Seq(Definitions), NEW lined, NEW i \in DOMAIN defs
  PROVE  ToldAs(defs, lined, i) \in 0..7
BY Sectioned DEF ToldAs

(* The order of definitions is total, and a name has a first one.          *)
Ordered(defs, lined) ==
  \A i, j \in DOMAIN defs :
    /\ WrittenBefore(defs, lined, i, j) => ~WrittenBefore(defs, lined, j, i)
    /\ i # j => WrittenBefore(defs, lined, i, j) \/ WrittenBefore(defs, lined, j, i)

LEMMA DefinitionsOrdered ==
  ASSUME NEW defs \in Seq(Definitions), NEW lined
  PROVE  Ordered(defs, lined)
<1> SUFFICES ASSUME NEW i \in DOMAIN defs, NEW j \in DOMAIN defs
             PROVE  /\ WrittenBefore(defs, lined, i, j) => ~WrittenBefore(defs, lined, j, i)
                    /\ i # j => WrittenBefore(defs, lined, i, j) \/ WrittenBefore(defs, lined, j, i)
  BY DEF Ordered
<1>1. PICK a : a = ToldAs(defs, lined, i) OBVIOUS
<1>2. PICK b : b = ToldAs(defs, lined, j) OBVIOUS
<1>3. a \in 0..7 /\ b \in 0..7 BY <1>1, <1>2, ToldIs
<1>4. i \in Nat /\ j \in Nat OBVIOUS
<1>5. WrittenBefore(defs, lined, i, j) <=> (a < b \/ (a = b /\ i < j)) BY <1>1, <1>2 DEF WrittenBefore
<1>6. WrittenBefore(defs, lined, j, i) <=> (b < a \/ (b = a /\ j < i)) BY <1>1, <1>2 DEF WrittenBefore
<1> QED BY <1>3, <1>4, <1>5, <1>6

LEMMA FirstOfName ==
  ASSUME NEW defs \in Seq(Definitions), NEW lined, NEW n, Of(defs, n) # {}
  PROVE  \E i \in Of(defs, n) : IsWritten(defs, lined, n, i)
<1> DEFINE S == Of(defs, n)
           R == {ToldAs(defs, lined, i) : i \in S}
<1>1. S \subseteq 1..Len(defs) /\ Len(defs) \in Nat BY DEF Of
<1>2. \A i \in S : i \in Nat /\ ToldAs(defs, lined, i) \in 0..7 BY ToldIs DEF Of
<1>3. R \subseteq 0..7 /\ R # {} BY <1>2
<1>4. PICK a \in R : \A b \in R : a <= b
  <2>1. R \subseteq Nat BY <1>3, SMTT(60)
  <2> HIDE DEF R
  <2> QED BY <1>3, <2>1, LeastRank, Zenon
<1> DEFINE A == {i \in S : ToldAs(defs, lined, i) = a}
<1>5. A \subseteq 1..Len(defs) /\ A # {} BY <1>1
<1>6. PICK i \in A : \A j \in A : i <= j BY <1>1, <1>5, LeastIndex
<1>7. ASSUME NEW j \in S \ {i} PROVE WrittenBefore(defs, lined, i, j)
  <2>1. PICK b : b = ToldAs(defs, lined, j) OBVIOUS
  <2>2. b \in R /\ a <= b /\ a \in Nat /\ b \in Nat BY <1>2, <1>3, <1>4, <2>1, SMTT(60)
  <2>3. a = b => i < j BY <1>2, <1>6, <2>1
  <2>4. ToldAs(defs, lined, i) = a BY <1>6
  <2> HIDE DEF S, R, A
  <2> QED BY <2>1, <2>2, <2>3, <2>4 DEF WrittenBefore
<1> QED BY <1>6, <1>7 DEF IsWritten

(* Of two symbols the one that was written before the other is kept.       *)
LEMMA PrecedesIs ==
  ASSUME NEW defs, NEW read, Reads(read, defs), NEW lined, NEW identity,
         NEW i \in DOMAIN defs, NEW j \in DOMAIN defs
  PROVE  Precedes(Symbol(read, i, identity, lined), Symbol(read, j, identity, lined))
           <=> WrittenBefore(defs, lined, i, j)
<1>1. i \in Nat \ {0} /\ j \in Nat \ {0} BY DEF Reads
<1>2. read[i].tag = defs[i].tag /\ read[j].tag = defs[j].tag BY DEF Reads
<1>3. PICK a : a = Section(defs[i].tag) OBVIOUS
<1>4. PICK b : b = Section(defs[j].tag) OBVIOUS
<1>5. a \in 1..7 /\ b \in 1..7 BY <1>3, <1>4, Sectioned DEF Reads
<1>6. PICK s : s = Symbol(read, i, identity, lined) OBVIOUS
<1>7. PICK t : t = Symbol(read, j, identity, lined) OBVIOUS
<1>8. s.section = a /\ s.place = i /\ s.line = (IF i \in lined THEN i ELSE 0) BY <1>2, <1>3, <1>6 DEF Symbol
<1>9. t.section = b /\ t.place = j /\ t.line = (IF j \in lined THEN j ELSE 0) BY <1>2, <1>4, <1>7 DEF Symbol
<1>10. PICK c : c = ToldAs(defs, lined, i) OBVIOUS
<1>11. PICK d : d = ToldAs(defs, lined, j) OBVIOUS
<1>12. c = (IF i \in lined THEN 0 ELSE a) /\ d = (IF j \in lined THEN 0 ELSE b)
  BY <1>3, <1>4, <1>10, <1>11 DEF ToldAs
<1>13. WrittenBefore(defs, lined, i, j) <=> (c < d \/ (c = d /\ i < j)) BY <1>10, <1>11 DEF WrittenBefore
<1>14. InSlice(s, t) <=> (a < b \/ (a = b /\ i < j)) BY <1>8, <1>9 DEF InSlice
<1>15. LinedBefore(s, t) <=> i \in lined /\ (j \notin lined \/ i < j) BY <1>1, <1>8, <1>9 DEF LinedBefore
<1>16. LinedBefore(t, s) <=> j \in lined /\ (i \notin lined \/ j < i) BY <1>1, <1>8, <1>9 DEF LinedBefore
<1>17. Precedes(s, t) <=> LinedBefore(s, t) \/ (~LinedBefore(t, s) /\ InSlice(s, t)) BY DEF Precedes
<1>18. Precedes(s, t) <=> (c < d \/ (c = d /\ i < j))
  <2>1. CASE i \in lined /\ j \in lined
    <3>1. i = j => a = b BY <1>3, <1>4
    <3> QED BY <1>1, <1>5, <1>12, <1>14, <1>15, <1>16, <1>17, <2>1, <3>1
  <2>2. CASE i \in lined /\ j \notin lined BY <1>1, <1>5, <1>12, <1>14, <1>15, <1>16, <1>17, <2>2
  <2>3. CASE i \notin lined /\ j \in lined BY <1>1, <1>5, <1>12, <1>14, <1>15, <1>16, <1>17, <2>3
  <2>4. CASE i \notin lined /\ j \notin lined BY <1>1, <1>5, <1>12, <1>14, <1>15, <1>16, <1>17, <2>4
  <2> QED BY <2>1, <2>2, <2>3, <2>4
<1> QED BY <1>6, <1>7, <1>13, <1>18, Zenon

LEMMA SymbolOf ==
  ASSUME NEW defs, NEW read, Reads(read, defs), NEW lined, NEW identity, NEW i \in DOMAIN defs, NEW s,
         s = Symbol(read, i, identity, lined)
  PROVE  /\ s.name = defs[i].ident /\ s.oid = defs[i].oid /\ s.place = i
         /\ s.kind = KindOf(defs[i].tag, s.name = identity)
         /\ Clean(s.text)
         /\ defs[i].tag = "row" => s.indexColumns = defs[i].objects
<1>1. /\ Clean(read[i].text)
      /\ read[i].ident = defs[i].ident /\ read[i].tag = defs[i].tag
      /\ read[i].oid = defs[i].oid /\ read[i].objects = defs[i].objects
  BY DEF Reads
<1>2. /\ s.name = read[i].ident /\ s.oid = read[i].oid /\ s.place = i /\ s.text = read[i].text
      /\ s.indexColumns = IF read[i].tag = "row" THEN read[i].objects ELSE <<>>
  BY DEF Symbol
<1>3. s.kind = KindOf(read[i].tag, read[i].ident = identity) BY DEF Symbol
<1> QED BY <1>1, <1>2, <1>3

LEMMA Keeps ==
  ASSUME NEW defs, NEW read, Reads(read, defs), NEW lined, NEW identity, NEW i \in DOMAIN defs
  PROVE  Symbol(read, i, identity, lined) \in Kept(ToModel(read, identity, lined))
           <=> IsWritten(defs, lined, defs[i].ident, i)
<1> DEFINE sym(j) == Symbol(read, j, identity, lined)
           syms == ToModel(read, identity, lined)
<1>1. DOMAIN read = DOMAIN defs BY DEF Reads
<1>2. syms = {sym(j) : j \in DOMAIN defs} BY <1>1 DEF ToModel
<1>3. \A j \in DOMAIN defs : sym(j).name = defs[j].ident /\ sym(j).place = j BY SymbolOf
<1>4. \A j \in DOMAIN defs : Precedes(sym(i), sym(j)) <=> WrittenBefore(defs, lined, i, j) BY PrecedesIs
<1> HIDE DEF sym, syms
<1>5. sym(i) \in Kept(syms) <=> \A b \in syms \ {sym(i)} : b.name = sym(i).name => Precedes(sym(i), b)
  BY <1>2 DEF Kept
<1>6. (\A b \in syms \ {sym(i)} : b.name = sym(i).name => Precedes(sym(i), b))
        <=> \A j \in DOMAIN defs \ {i} : defs[j].ident = defs[i].ident => WrittenBefore(defs, lined, i, j)
  <2>1. \A j \in DOMAIN defs \ {i} : sym(j) # sym(i) BY <1>3
  <2>2. ASSUME \A b \in syms \ {sym(i)} : b.name = sym(i).name => Precedes(sym(i), b),
               NEW j \in DOMAIN defs \ {i}, defs[j].ident = defs[i].ident
        PROVE  WrittenBefore(defs, lined, i, j)
    <3>1. sym(j) \in syms \ {sym(i)} BY <1>2, <2>1
    <3>2. sym(j).name = sym(i).name BY <1>3, <2>2
    <3> QED BY <1>4, <2>2, <3>1, <3>2
  <2>3. ASSUME \A j \in DOMAIN defs \ {i} : defs[j].ident = defs[i].ident => WrittenBefore(defs, lined, i, j),
               NEW b \in syms \ {sym(i)}, b.name = sym(i).name
        PROVE  Precedes(sym(i), b)
    <3>1. PICK j \in DOMAIN defs : b = sym(j) BY <1>2
    <3>2. j # i BY <2>3, <3>1
    <3>3. defs[j].ident = defs[i].ident BY <1>3, <2>3, <3>1
    <3> QED BY <1>4, <2>3, <3>1, <3>2, <3>3
  <2> QED BY <2>2, <2>3
<1>7. IsWritten(defs, lined, defs[i].ident, i)
        <=> \A j \in DOMAIN defs \ {i} : defs[j].ident = defs[i].ident => WrittenBefore(defs, lined, i, j)
  BY DEF IsWritten, Of
<1> QED BY <1>5, <1>6, <1>7 DEF sym, syms

(* What is kept, by the definitions it was made of.                        *)
KeptOf(defs, read, identity, lined, kept) ==
  /\ \A s \in kept : \E i \in DOMAIN defs :
       s = Symbol(read, i, identity, lined) /\ IsWritten(defs, lined, defs[i].ident, i)
  /\ \A i \in DOMAIN defs : IsWritten(defs, lined, defs[i].ident, i) => Symbol(read, i, identity, lined) \in kept

LEMMA KeptIs ==
  ASSUME NEW defs, NEW read, Reads(read, defs), NEW lined, NEW identity
  PROVE  KeptOf(defs, read, identity, lined, Kept(ToModel(read, identity, lined)))
<1>1. DOMAIN read = DOMAIN defs BY DEF Reads
<1>2. Kept(ToModel(read, identity, lined)) \subseteq {Symbol(read, i, identity, lined) : i \in DOMAIN defs}
  BY <1>1 DEF Kept, ToModel
<1>3. \A i \in DOMAIN defs :
        Symbol(read, i, identity, lined) \in Kept(ToModel(read, identity, lined))
          <=> IsWritten(defs, lined, defs[i].ident, i)
  BY Keeps, Zenon
<1>4. ASSUME NEW s \in Kept(ToModel(read, identity, lined))
      PROVE  \E i \in DOMAIN defs : s = Symbol(read, i, identity, lined) /\ IsWritten(defs, lined, defs[i].ident, i)
  <2>1. PICK i \in DOMAIN defs : s = Symbol(read, i, identity, lined) BY <1>2
  <2> QED BY <1>3, <2>1
<1> QED BY <1>3, <1>4, Zenon DEF KeptOf

LEMMA SymbolsStored ==
  ASSUME NEW defs, NEW read, Reads(read, defs), NEW lined, NEW identity, NEW stored,
         stored.symbols = Kept(ToModel(read, identity, lined))
  PROVE  SymbolsAsWritten(defs, identity, lined, stored)
<1> DEFINE sym(i) == Symbol(read, i, identity, lined)
           kept == stored.symbols
<1>1. KeptOf(defs, read, identity, lined, kept) BY KeptIs
<1>2. defs \in Seq(Definitions) BY DEF Reads
<1>3. \A i \in DOMAIN defs : sym(i).name = defs[i].ident BY SymbolOf
<1> HIDE DEF sym, kept
<1>4. \A s \in kept : \E i \in DOMAIN defs : s = sym(i) /\ IsWritten(defs, lined, defs[i].ident, i)
  BY <1>1 DEF KeptOf, sym
<1>5. \A i \in DOMAIN defs : IsWritten(defs, lined, defs[i].ident, i) => sym(i) \in kept BY <1>1 DEF KeptOf, sym
<1>6. ASSUME NEW s \in kept, NEW t \in kept, s.name = t.name PROVE s = t
  <2>1. PICK i \in DOMAIN defs : s = sym(i) /\ IsWritten(defs, lined, defs[i].ident, i) BY <1>4
  <2>2. PICK j \in DOMAIN defs : t = sym(j) /\ IsWritten(defs, lined, defs[j].ident, j) BY <1>4
  <2>3. defs[i].ident = defs[j].ident BY <1>3, <1>6, <2>1, <2>2
  <2>4. i # j => WrittenBefore(defs, lined, i, j) /\ WrittenBefore(defs, lined, j, i)
    BY <2>1, <2>2, <2>3 DEF IsWritten, Of
  <2>5. i = j BY <1>2, <2>4, DefinitionsOrdered DEF Ordered
  <2> QED BY <2>1, <2>2, <2>5
<1>7. {s.name : s \in kept} = {defs[i].ident : i \in DOMAIN defs}
  <2>1. ASSUME NEW s \in kept PROVE \E i \in DOMAIN defs : s.name = defs[i].ident BY <1>3, <1>4
  <2>2. ASSUME NEW i \in DOMAIN defs PROVE \E s \in kept : s.name = defs[i].ident
    <3>1. PICK n : n = defs[i].ident OBVIOUS
    <3>2. Of(defs, n) # {} BY <3>1 DEF Of
    <3>3. PICK j \in Of(defs, n) : IsWritten(defs, lined, n, j) BY <1>2, <3>2, FirstOfName
    <3>4. j \in DOMAIN defs /\ defs[j].ident = n BY <3>3 DEF Of
    <3>5. sym(j) \in kept BY <1>5, <3>3, <3>4
    <3> QED BY <1>3, <3>1, <3>4, <3>5
  <2> QED BY <2>1, <2>2
<1>8. ASSUME NEW s \in kept
      PROVE  /\ Clean(s.text)
             /\ \E i \in DOMAIN defs :
                  /\ IsWritten(defs, lined, s.name, i)
                  /\ s.oid = defs[i].oid /\ s.kind = KindOf(defs[i].tag, s.name = identity)
  <2>1. PICK i \in DOMAIN defs : s = sym(i) /\ IsWritten(defs, lined, defs[i].ident, i) BY <1>4
  <2>2. s = Symbol(read, i, identity, lined) BY <2>1 DEF sym
  <2>3. /\ s.name = defs[i].ident /\ s.oid = defs[i].oid
        /\ s.kind = KindOf(defs[i].tag, s.name = identity) /\ Clean(s.text)
    BY <2>2, SymbolOf
  <2> QED BY <2>1, <2>3
<1> QED BY <1>6, <1>7, <1>8 DEF SymbolsAsWritten, kept

(* The rows of a clause: each name it lists, at its first place.           *)
FirstAt(clause, j) == j \in DOMAIN clause /\ \A k \in DOMAIN clause : clause[k] = clause[j] => j <= k

LEMMA FirstPlace ==
  ASSUME NEW clause \in Seq(Descriptors), NEW m \in DOMAIN clause
  PROVE  \E j \in DOMAIN clause : FirstAt(clause, j) /\ clause[j] = clause[m]
<1> DEFINE S == {j \in DOMAIN clause : clause[j] = clause[m]}
<1>1. Len(clause) \in Nat /\ S \subseteq 1..Len(clause) /\ S # {} OBVIOUS
<1>2. PICK j \in S : \A k \in S : j <= k BY <1>1, LeastIndex
<1> QED BY <1>2 DEF FirstAt

(* The references of a name that is defined once, at i.                    *)
RowsOf(defs, read, i, refs) ==
  /\ \A r \in refs : \E j \in DOMAIN defs[i].objects : r = Reference(read, i, j) /\ FirstAt(defs[i].objects, j)
  /\ \A j \in DOMAIN defs[i].objects : FirstAt(defs[i].objects, j) => Reference(read, i, j) \in refs

LEMMA ReferenceOf ==
  ASSUME NEW defs, NEW read, Reads(read, defs), NEW i \in DOMAIN defs, NEW j, NEW r, r = Reference(read, i, j)
  PROVE  /\ r.source = defs[i].ident /\ r.target = defs[i].objects[j] /\ r.kind = RefKind(defs[i].tag)
         /\ r.clause = i /\ r.nth = j
         /\ r.position = IF defs[i].tag = "notification" THEN j - 1 ELSE 0
BY DEF Reads, Reference

LEMMA ReferencesBuilt ==
  ASSUME NEW defs, NEW read, Reads(read, defs), NEW r
  PROVE  r \in BuildReferences(read) <=>
           \E i \in DOMAIN defs : /\ defs[i].tag \in Referring
                                  /\ \E j \in DOMAIN defs[i].objects : r = Reference(read, i, j)
<1> DEFINE of(i) == {Reference(read, i, j) : j \in DOMAIN read[i].objects}
           I == {i \in DOMAIN read : read[i].tag \in Referring}
           all == {of(i) : i \in I}
<1>1. DOMAIN read = DOMAIN defs BY DEF Reads
<1>2. \A i \in DOMAIN defs : read[i].tag = defs[i].tag /\ read[i].objects = defs[i].objects BY DEF Reads
<1>3. BuildReferences(read) = UNION all BY Zenon DEF BuildReferences
<1>4. r \in UNION all <=> \E s \in all : r \in s BY InUnion, Zenon
<1>5. (\E s \in all : r \in s) <=> \E i \in I : r \in of(i) BY Zenon
<1>6. \A i \in DOMAIN defs : r \in of(i) <=> \E j \in DOMAIN defs[i].objects : r = Reference(read, i, j) BY <1>2
<1>7. \A i : i \in I <=> i \in DOMAIN defs /\ defs[i].tag \in Referring BY <1>1, <1>2
<1> HIDE DEF of, I, all
<1>8. (\E i \in I : r \in of(i)) <=>
        \E i \in DOMAIN defs : /\ defs[i].tag \in Referring
                               /\ \E j \in DOMAIN defs[i].objects : r = Reference(read, i, j)
  BY <1>6, <1>7, Zenon
<1> QED BY <1>3, <1>4, <1>5, <1>8, Zenon

LEMMA RowsInserted ==
  ASSUME NEW defs, NEW read, Reads(read, defs), NEW i \in DOMAIN defs, Of(defs, defs[i].ident) = {i},
         defs[i].tag \in Referring, NEW stored, stored.rows = Inserted(BuildReferences(read))
  PROVE  RowsOf(defs, read, i, References(stored, defs[i].ident, RefKind(defs[i].tag)))
<1> DEFINE refs == References(stored, defs[i].ident, RefKind(defs[i].tag))
           built == BuildReferences(read)
<1>1. PICK clause : clause = defs[i].objects OBVIOUS
<1>2. clause \in Seq(Descriptors)
  <2>1. PICK d \in Definitions : d = defs[i] BY DEF Reads
  <2> QED BY <1>1, <2>1 DEF Definitions
<1>3. \A j \in DOMAIN clause : j \in Nat BY <1>2
<1>4. \A r : r \in refs <=> /\ r \in built /\ \A s \in built : SameReference(r, s) => ~Appended(s, r)
                            /\ r.source = defs[i].ident /\ r.kind = RefKind(defs[i].tag)
  BY DEF References, Inserted
<1>5. \A r \in built : r.source = defs[i].ident => \E j \in DOMAIN clause : r = Reference(read, i, j)
  <2> SUFFICES ASSUME NEW r \in built, r.source = defs[i].ident PROVE \E j \in DOMAIN clause : r = Reference(read, i, j)
    OBVIOUS
  <2>0. r \in BuildReferences(read) OBVIOUS
  <2>1. PICK k \in DOMAIN defs : /\ defs[k].tag \in Referring
                                 /\ \E j \in DOMAIN defs[k].objects : r = Reference(read, k, j)
    BY <2>0, ReferencesBuilt, SMT
  <2>2. PICK j \in DOMAIN defs[k].objects : r = Reference(read, k, j) BY <2>1
  <2>3. defs[k].ident = defs[i].ident BY <2>2, ReferenceOf
  <2>4. k = i BY <2>3 DEF Of
  <2> QED BY <1>1, <2>2, <2>4
<1>6. \A j \in DOMAIN clause : Reference(read, i, j) \in built BY <1>1, ReferencesBuilt, Zenon
<1>7. ASSUME NEW j \in DOMAIN clause, NEW r, r = Reference(read, i, j)
      PROVE  /\ r.source = defs[i].ident /\ r.target = clause[j] /\ r.kind = RefKind(defs[i].tag)
             /\ r.clause = i /\ r.nth = j
  BY <1>1, <1>7, ReferenceOf
<1>8. i \in Nat BY DEF Reads
<1> HIDE DEF refs, built
<1>9. ASSUME NEW j \in DOMAIN clause, NEW k \in DOMAIN clause, NEW r, NEW s,
             r = Reference(read, i, j), s = Reference(read, i, k)
      PROVE  SameReference(r, s) /\ Appended(s, r) <=> clause[k] = clause[j] /\ k < j
  <2>1. r.source = s.source /\ r.kind = s.kind /\ r.clause = i /\ s.clause = i BY <1>7, <1>9
  <2>2. r.target = clause[j] /\ s.target = clause[k] /\ r.nth = j /\ s.nth = k BY <1>7, <1>9
  <2> QED BY <1>8, <2>1, <2>2 DEF SameReference, Appended
<1>10. ASSUME NEW r \in refs PROVE \E j \in DOMAIN clause : r = Reference(read, i, j) /\ FirstAt(clause, j)
  <2>1. r \in built /\ r.source = defs[i].ident /\ \A s \in built : SameReference(r, s) => ~Appended(s, r) BY <1>4
  <2>2. PICK j \in DOMAIN clause : r = Reference(read, i, j) BY <1>5, <2>1
  <2>3. ASSUME NEW k \in DOMAIN clause, clause[k] = clause[j] PROVE j <= k
    <3>1. PICK s : s = Reference(read, i, k) OBVIOUS
    <3>2. s \in built BY <1>6, <3>1
    <3>3. ~(SameReference(r, s) /\ Appended(s, r)) BY <2>1, <3>2
    <3>4. ~(clause[k] = clause[j] /\ k < j) BY <1>9, <2>2, <3>1, <3>3
    <3> QED BY <1>3, <2>3, <3>4
  <2> QED BY <2>2, <2>3 DEF FirstAt
<1>11. ASSUME NEW j \in DOMAIN clause, FirstAt(clause, j) PROVE Reference(read, i, j) \in refs
  <2>1. PICK r : r = Reference(read, i, j) OBVIOUS
  <2>2. r \in built /\ r.source = defs[i].ident /\ r.kind = RefKind(defs[i].tag) BY <1>6, <1>7, <2>1
  <2>3. ASSUME NEW s \in built, SameReference(r, s), Appended(s, r) PROVE FALSE
    <3>1. s.source = defs[i].ident BY <2>2, <2>3 DEF SameReference
    <3>2. PICK k \in DOMAIN clause : s = Reference(read, i, k) BY <1>5, <3>1
    <3>3. clause[k] = clause[j] /\ k < j BY <1>9, <2>1, <2>3, <3>2
    <3> QED BY <1>3, <1>11, <3>3 DEF FirstAt
  <2> QED BY <1>4, <2>1, <2>2, <2>3
<1> QED BY <1>1, <1>10, <1>11 DEF RowsOf, refs

LEMMA RowsListed ==
  ASSUME NEW defs, NEW read, Reads(read, defs), NEW i \in DOMAIN defs, NEW refs, RowsOf(defs, read, i, refs)
  PROVE  /\ Names(refs, defs[i].objects)
         /\ defs[i].tag = "notification" => InOrderOf(refs, defs[i].objects)
<1>1. PICK clause : clause = defs[i].objects OBVIOUS
<1>2. clause \in Seq(Descriptors)
  <2>1. PICK d \in Definitions : d = defs[i] BY DEF Reads
  <2> QED BY <1>1, <2>1 DEF Definitions
<1>3. \A j \in DOMAIN clause : j \in Nat BY <1>2
<1>4. i \in Nat BY DEF Reads
<1>5. \A r \in refs : \E j \in DOMAIN clause : r = Reference(read, i, j) /\ FirstAt(clause, j) BY <1>1 DEF RowsOf
<1>6. \A j \in DOMAIN clause : FirstAt(clause, j) => Reference(read, i, j) \in refs BY <1>1 DEF RowsOf
<1>7. \A j : Reference(read, i, j).target = clause[j] BY <1>1, ReferenceOf
<1>8. Names(refs, clause)
  <2>1. ASSUME NEW r \in refs PROVE \E j \in DOMAIN clause : r.target = clause[j] BY <1>5, <1>7
  <2>2. ASSUME NEW m \in DOMAIN clause PROVE \E r \in refs : r.target = clause[m]
    <3>1. PICK j \in DOMAIN clause : FirstAt(clause, j) /\ clause[j] = clause[m] BY <1>2, FirstPlace
    <3> QED BY <1>6, <1>7, <3>1
  <2>3. ASSUME NEW r \in refs, NEW s \in refs, r.target = s.target PROVE r = s
    <3>1. PICK j \in DOMAIN clause : r = Reference(read, i, j) /\ FirstAt(clause, j) BY <1>5
    <3>2. PICK k \in DOMAIN clause : s = Reference(read, i, k) /\ FirstAt(clause, k) BY <1>5
    <3>3. clause[j] = clause[k] BY <1>7, <2>3, <3>1, <3>2
    <3>4. j = k BY <1>3, <3>1, <3>2, <3>3 DEF FirstAt
    <3> QED BY <3>1, <3>2, <3>4
  <2> QED BY <2>1, <2>2, <2>3 DEF Names
<1>9. ASSUME defs[i].tag = "notification" PROVE InOrderOf(refs, clause)
  <2> SUFFICES ASSUME NEW r \in refs, NEW s \in refs
               PROVE  ListedBefore(r, s) <=>
                        \E j \in DOMAIN clause : clause[j] = r.target
                                                 /\ \A k \in DOMAIN clause : clause[k] = s.target => j < k
    BY Zenon DEF InOrderOf
  <2>1. PICK j \in DOMAIN clause : r = Reference(read, i, j) /\ FirstAt(clause, j) BY <1>5
  <2>2. PICK k \in DOMAIN clause : s = Reference(read, i, k) /\ FirstAt(clause, k) BY <1>5
  <2>3. r.target = clause[j] /\ r.position = j - 1 /\ r.clause = i /\ r.nth = j BY <1>1, <1>9, <2>1, ReferenceOf
  <2>4. s.target = clause[k] /\ s.position = k - 1 /\ s.clause = i /\ s.nth = k BY <1>1, <1>9, <2>2, ReferenceOf
  <2>5. j \in Nat /\ k \in Nat BY <1>3
  <2>6. ListedBefore(r, s) <=> j < k BY ONLY <1>4, <2>3, <2>4, <2>5 DEF ListedBefore, Appended
  <2>7. ASSUME j < k, NEW m \in DOMAIN clause, clause[m] = s.target PROVE j < m
    <3>1. k <= m /\ m \in Nat BY <1>3, <2>2, <2>4, <2>7 DEF FirstAt
    <3> QED BY <2>5, <2>7, <3>1
  <2>8. ASSUME NEW m \in DOMAIN clause, clause[m] = r.target, \A h \in DOMAIN clause : clause[h] = s.target => m < h
        PROVE  j < k
    <3>1. j <= m /\ m \in Nat BY <1>3, <2>1, <2>3, <2>8 DEF FirstAt
    <3>2. m < k BY <2>4, <2>8
    <3> QED BY <2>5, <3>1, <3>2
  <2> QED BY <2>3, <2>6, <2>7, <2>8
<1> QED BY <1>1, <1>8, <1>9

LEMMA ClausesStored ==
  ASSUME NEW defs, NEW read, Reads(read, defs), NEW lined, NEW identity, NEW stored,
         stored.symbols = Kept(ToModel(read, identity, lined)), stored.rows = Inserted(BuildReferences(read))
  PROVE  ClausesKept(defs, stored)
<1> SUFFICES ASSUME NEW i \in DOMAIN defs, Of(defs, defs[i].ident) = {i}
             PROVE  LET refs == References(stored, defs[i].ident, RefKind(defs[i].tag)) IN
                    /\ defs[i].tag \in Referring => Names(refs, defs[i].objects)
                    /\ defs[i].tag = "notification" => InOrderOf(refs, defs[i].objects)
                    /\ defs[i].tag = "row" =>
                         \A s \in stored.symbols : s.name = defs[i].ident => Names(refs, s.indexColumns)
  BY Zenon DEF ClausesKept
<1>1. PICK refs : refs = References(stored, defs[i].ident, RefKind(defs[i].tag)) OBVIOUS
<1>2. CASE defs[i].tag \in Referring
  <2>1. RowsOf(defs, read, i, refs) BY <1>1, <1>2, RowsInserted
  <2>2. Names(refs, defs[i].objects) BY <2>1, RowsListed
  <2>3. defs[i].tag = "notification" => InOrderOf(refs, defs[i].objects) BY <2>1, RowsListed
  <2>4. ASSUME defs[i].tag = "row", NEW s \in stored.symbols, s.name = defs[i].ident
        PROVE  Names(refs, s.indexColumns)
    <3>1. KeptOf(defs, read, identity, lined, stored.symbols) BY KeptIs
    <3>2. PICK j \in DOMAIN defs : s = Symbol(read, j, identity, lined) BY <3>1 DEF KeptOf
    <3>3. defs[j].ident = defs[i].ident BY <2>4, <3>2, SymbolOf
    <3>4. j = i BY <3>3 DEF Of
    <3>5. s.indexColumns = defs[i].objects BY <2>4, <3>2, <3>4, SymbolOf
    <3> QED BY <2>2, <3>5
  <2> QED BY <1>1, <2>2, <2>3, <2>4
<1>3. CASE defs[i].tag \notin Referring
  <2>1. defs[i].tag # "row" /\ defs[i].tag # "notification" BY <1>3 DEF Referring
  <2> QED BY <1>3, <2>1
<1> QED BY <1>2, <1>3

LEMMA LossStored ==
  ASSUME NEW defs, NEW read, Reads(read, defs), NEW lined, NEW identity, NEW stored, NEW syms,
         syms = ToModel(read, identity, lined),
         ~Accepted(defs) \/ Kept(syms) # syms => stored.status # "clean"
  PROVE  LossReported(defs, stored)
<1>1. ASSUME NEW i \in DOMAIN defs, NEW j \in DOMAIN defs, i # j, defs[i].ident = defs[j].ident
      PROVE  Kept(syms) # syms
  <2> DEFINE sym(k) == Symbol(read, k, identity, lined)
  <2>1. DOMAIN read = DOMAIN defs BY DEF Reads
  <2>2. sym(i) \in syms /\ sym(j) \in syms BY <2>1 DEF ToModel
  <2>3. ASSUME Kept(syms) = syms PROVE FALSE
    <3>1. IsWritten(defs, lined, defs[i].ident, i) BY <2>2, <2>3, Keeps
    <3>2. IsWritten(defs, lined, defs[j].ident, j) BY <2>2, <2>3, Keeps
    <3>3. WrittenBefore(defs, lined, i, j) /\ WrittenBefore(defs, lined, j, i)
      BY <1>1, <3>1, <3>2 DEF IsWritten, Of
    <3>4. Ordered(defs, lined) BY DefinitionsOrdered DEF Reads
    <3> QED BY <3>3, <3>4 DEF Ordered
  <2> QED BY <2>3
<1> QED BY <1>1, Zenon DEF LossReported

LEMMA RootStored ==
  ASSUME NEW defs, NEW read, Reads(read, defs), NEW identity, NEW stored, stored.oidRoot = OIDRoot(read, identity)
  PROVE  RootFound(defs, identity, stored)
<1> SUFFICES ASSUME NEW i \in DOMAIN defs, Of(defs, identity) = {i}, defs[i].tag \in {"node", "scalar", "table"}
             PROVE  OIDRoot(read, identity) = defs[i].oid
  BY Zenon DEF RootFound
<1> DEFINE B(k) == Bearers(read, identity, k)
           K == {"node", "scalar", "table"}
           IsFirst(k) == /\ B(k) # {} /\ (k = "scalar" => B("node") = {})
                         /\ (k = "table" => B("node") \cup B("scalar") = {})
           IsLeast(j, S) == \A m \in S : j <= m
<1>1. PICK tag \in K : tag = defs[i].tag OBVIOUS
<1>2. \A k : B(k) = IF k = tag THEN {i} ELSE {}
  <2>1. \A j : j \in Of(defs, identity) <=> j \in DOMAIN read /\ read[j].ident = identity BY DEF Of, Reads
  <2>2. read[i].tag = tag BY <1>1 DEF Reads
  <2> QED BY <2>1, <2>2 DEF Bearers
<1>3. OIDRoot(read, identity) =
        LET first == CHOOSE k \in K : IsFirst(k)
        IN IF \A k \in K : B(k) = {} THEN <<>> ELSE read[CHOOSE j \in B(first) : IsLeast(j, B(first))].oid
  BY Zenon DEF OIDRoot
<1>4. i \in Nat BY DEF Reads
<1> HIDE DEF B
<1>5. B(tag) = {i} /\ \A k \in K : k # tag => B(k) = {} BY <1>2
<1>6. IsFirst(tag) /\ \A k \in K : IsFirst(k) => k = tag BY <1>1, <1>5
<1>7. PICK first : first = CHOOSE k \in K : IsFirst(k) OBVIOUS
<1>8. first = tag
  <2>1. \E k \in K : IsFirst(k) BY <1>6
  <2>2. first \in K /\ IsFirst(first)
    <3> HIDE DEF IsFirst, K
    <3> QED BY <1>7, <2>1, Zenon
  <2> QED BY <1>6, <2>2
<1>9. PICK least : least = CHOOSE j \in {i} : IsLeast(j, {i}) OBVIOUS
<1>10. least = i
  <2>1. IsLeast(i, {i}) BY <1>4
  <2> HIDE DEF IsLeast
  <2>2. \E j \in {i} : IsLeast(j, {i}) BY <2>1
  <2> QED BY <1>9, <2>2, Zenon
<1>11. B(tag) # {} BY <1>5
<1>12. OIDRoot(read, identity) = read[least].oid
  <2>1. B(first) = {i} BY <1>5, <1>8
  <2> HIDE DEF IsFirst, IsLeast
  <2> QED BY <1>3, <1>7, <1>9, <1>1, <1>11, <2>1, Zenon
<1>13. read[i].oid = defs[i].oid BY DEF Reads
<1> QED BY <1>10, <1>12, <1>13

LEMMA CompiledAsWritten ==
  ASSUME NEW defs \in Seq(Definitions), NEW lined, NEW identity, NEW severities
  PROVE  StoredAsWritten(defs, identity, lined, severities)
<1>1. PICK read : read = Recovered(defs) OBVIOUS
<1>2. Reads(read, defs) BY <1>1, RecoveredReads
<1>3. PICK syms : syms = ToModel(read, identity, lined) OBVIOUS
<1>4. PICK seen : seen = severities \cup (IF Accepted(defs) /\ Kept(syms) = syms THEN {} ELSE {"warning"}) OBVIOUS
<1>5. PICK stored : stored = CompileOne(defs, identity, lined, severities) OBVIOUS
<1>6. stored = [symbols |-> Kept(syms), oidRoot |-> OIDRoot(read, identity), rows |-> Inserted(BuildReferences(read)),
                status |-> IF "error" \in seen THEN "errors" ELSE IF "warning" \in seen THEN "warnings" ELSE "clean"]
  BY <1>1, <1>3, <1>4, <1>5, Zenon DEF CompileOne
<1>7. /\ stored.symbols = Kept(syms) /\ stored.oidRoot = OIDRoot(read, identity)
      /\ stored.rows = Inserted(BuildReferences(read))
      /\ stored.status = IF "error" \in seen THEN "errors" ELSE IF "warning" \in seen THEN "warnings" ELSE "clean"
  BY ONLY <1>6
<1>8. ~Accepted(defs) \/ Kept(syms) # syms => "warning" \in seen BY <1>4
<1>9. "warning" \in seen => stored.status # "clean" BY ONLY <1>7
<1>10. SymbolsAsWritten(defs, identity, lined, stored) BY <1>2, <1>3, <1>7, SymbolsStored
<1>11. ClausesKept(defs, stored) BY <1>2, <1>3, <1>7, ClausesStored
<1>12. LossReported(defs, stored) BY <1>2, <1>3, <1>8, <1>9, LossStored
<1>13. RootFound(defs, identity, stored) BY <1>2, <1>7, RootStored
<1> QED BY <1>5, <1>10, <1>11, <1>12, <1>13, Zenon DEF StoredAsWritten

(* Whatever a module's dump defines, in whatever order and however often,  *)
(* the store gets what the source wrote.                                   *)
THEOREM DumpsStored == ConvertSpec => []DefinitionsStored
<1> DEFINE Inv == dump \in Seq(Definitions)
<1>1. ConvertInit => Inv BY DEF ConvertInit
<1>2. Inv /\ [ConvertNext]_dump => Inv'
  <2> SUFFICES ASSUME Inv, ConvertNext PROVE Inv' OBVIOUS
  <2>1. Definable \in Seq(SUBSET Definitions) BY ConvertAssumption DEF ConvertAssumption, Definitions
  <2>2. PICK n : n = Len(dump) + 1 OBVIOUS
  <2>3. n \in 1..Len(Definable) BY <2>1, <2>2 DEF ConvertNext
  <2>4. PICK d \in Definable[n] : dump' = Append(dump, d) BY <2>2 DEF ConvertNext, ReadDefinition
  <2>5. d \in Definitions BY <2>1, <2>3, <2>4
  <2> QED BY <2>4, <2>5
<1>3. Inv => DefinitionsStored BY CompiledAsWritten DEF DefinitionsStored
<1> QED BY <1>1, <1>2, <1>3, PTL DEF ConvertSpec

=============================================================================

------------------------------ MODULE Tools_proofs ------------------------------
(***************************************************************************)
(* Proofs about the corpus tools: what filing promises, and that mib-      *)
(* ingest, with the server and the operator at work beside it, is filing.  *)
(***************************************************************************)
EXTENDS MibIngest, MibMigrate, MibIndex, SequenceTheorems, FiniteSetTheorems, WellFoundedInduction,
  TLAPS

(* No step of filing loses the last copy of a file, for every set of places*)
(* and contents, but for copies that nobody had looked at since they came. *)
THEOREM FilingLosesNothing == F!FilingSpec => F!NothingLost
<1> DEFINE kept(c) == F!Held(c) => F!Held(c)' \/ \E p \in unseen : tree[p] = c
<1>1. F!FilingTypeOK /\ [F!FilingNext]_<<tree, unseen>> => F!FilingTypeOK'
  <2> SUFFICES ASSUME F!FilingTypeOK, [F!FilingNext]_<<tree, unseen>> PROVE F!FilingTypeOK'
    OBVIOUS
  <2>1. CASE \E p \in Places : F!Arrive(p) \/ F!Collapse(p)
    BY <2>1 DEF F!FilingTypeOK, F!Arrive, F!Collapse
  <2>2. CASE \E p, q \in Places : F!Shift(p, q)
    BY <2>2 DEF F!FilingTypeOK, F!Shift
  <2>3. CASE UNCHANGED tree
    BY <2>3 DEF F!FilingTypeOK
  <2> QED BY <2>1, <2>2, <2>3 DEF F!FilingNext
<1>2. ASSUME F!FilingTypeOK, F!FilingNext, NEW c \in Mib PROVE kept(c)
  <2> SUFFICES ASSUME NEW h \in Places, tree[h] = c, \A p \in unseen : tree[p] # c PROVE F!Held(c)'
    BY DEF F!Held
  <2>1. CASE \E p \in Places : F!Arrive(p)
    <3>1. PICK p \in Places : F!Arrive(p) BY <2>1
    <3>2. h # p BY <1>2, <3>1, IngestAssumption DEF F!Arrive
    <3>3. tree'[h] = c BY <1>2, <3>1, <3>2 DEF F!Arrive, F!FilingTypeOK
    <3> QED BY <3>3 DEF F!Held
  <2>2. CASE \E p \in Places : F!Collapse(p)
    <3>1. PICK p \in Places : F!Collapse(p) BY <2>2
    <3>2. PICK q \in Places \ {p} : tree[q] = tree[p] BY <3>1 DEF F!Collapse
    <3>3. CASE h = p
      <4>1. tree'[q] = c BY <1>2, <3>1, <3>2, <3>3 DEF F!Collapse, F!FilingTypeOK
      <4> QED BY <4>1 DEF F!Held
    <3>4. CASE h # p
      <4>1. tree'[h] = c BY <1>2, <3>1, <3>4 DEF F!Collapse, F!FilingTypeOK
      <4> QED BY <4>1 DEF F!Held
    <3> QED BY <3>3, <3>4
  <2>3. CASE \E p, q \in Places : F!Shift(p, q)
    <3>1. PICK p, q \in Places : F!Shift(p, q) BY <2>3
    <3>2. h # q BY <1>2, <3>1, IngestAssumption DEF F!Shift
    <3>3. CASE h = p
      <4>1. tree'[q] = c BY <1>2, <3>1, <3>2, <3>3 DEF F!Shift, F!FilingTypeOK
      <4> QED BY <4>1 DEF F!Held
    <3>4. CASE h # p
      <4>1. tree'[h] = c BY <1>2, <3>1, <3>2, <3>4 DEF F!Shift, F!FilingTypeOK
      <4> QED BY <4>1 DEF F!Held
    <3> QED BY <3>3, <3>4
  <2>4. CASE UNCHANGED tree
    BY <2>4 DEF F!Held
  <2> QED BY <1>2, <2>1, <2>2, <2>3, <2>4 DEF F!FilingNext
<1>3. F!FilingTypeOK /\ [F!FilingNext]_<<tree, unseen>> => [\A c \in Mib : kept(c)]_<<tree, unseen>>
  BY <1>2
<1> QED BY <1>1, <1>3, PTL DEF F!FilingSpec, F!FilingInit, F!NothingLost, F!filingVars

-----------------------------------------------------------------------------
(* Places and the least of a set. *)

LEMMA LowestIn ==
  ASSUME NEW S \in SUBSET Dropped, S # {}
  PROVE  Lowest(S) \in S /\ \A g \in S : Lowest(S) <= g
<1>1. S \subseteq Nat BY IngestAssumption
<1>2. PICK f \in S : \A g \in S : ~(<<g, f>> \in OpToRel(<, Nat))
  BY <1>1, WFMin, NatLessThanWellFounded, Zenon
<1>3. \A g \in S : ~(g < f) BY <1>1, <1>2 DEF OpToRel
<1>4. \A g \in S : f <= g BY <1>1, <1>3
<1> QED BY <1>4 DEF Lowest

LEMMA NotImport ==
  ASSUME NEW m, NEW b, NEW f
  PROVE  IngestPlace(m, b) # In(f)
<1>1. Classification(m) \in {Unsorted, Ietf(m.name), VendorDir(m.oid[Len(Vendor) + 1]),
                            [dir |-> <<"iana">>, confidence |-> "high"],
                            [dir |-> <<"experimental">>, confidence |-> "high"]}
  BY Zenon DEF Classification
<1>2. CASE Classification(m) = Unsorted
  <2>1. IngestPlace(m, b) = <<"unsorted", b>> BY <1>2 DEF IngestPlace, Unsorted
  <2>2. In(f)[1] = "import" BY DEF In
  <2>3. <<"unsorted", b>>[1] = "unsorted" OBVIOUS
  <2> QED BY <2>1, <2>2, <2>3
<1>3. CASE Classification(m) = Ietf(m.name)
  BY <1>3 DEF IngestPlace, Ietf, In
<1>4. CASE Classification(m) = VendorDir(m.oid[Len(Vendor) + 1])
  BY <1>4 DEF IngestPlace, VendorDir, In
<1>5. ASSUME NEW root \in {"iana", "experimental"},
             Classification(m) = [dir |-> <<root>>, confidence |-> "high"]
      PROVE  IngestPlace(m, b) # In(f)
  <2>1. IngestPlace(m, b) = Append(<<root>>, m.name) BY <1>5 DEF IngestPlace
  <2>2. <<root>> \in Seq({root, m.name}) /\ Len(<<root>>) = 1 /\ <<root>>[1] = root OBVIOUS
  <2>3. Append(<<root>>, m.name)[1] = root BY <2>2, AppendProperties
  <2>4. In(f)[1] = "import" BY DEF In
  <2> QED BY <2>1, <2>3, <2>4
<1> QED BY <1>1, <1>2, <1>3, <1>4, <1>5

LEMMA DstCurated ==
  ASSUME NEW f \in Dropped, NEW c \in Mib, Parses(c)
  PROVE  Dst(f, c) \in Curated /\ \A g : Dst(f, c) # In(g)
<1>1. Dst(f, c) \in Curated BY DEF Curated
<1>2. \A g : Dst(f, c) # In(g) BY NotImport DEF Dst
<1> QED BY <1>1, <1>2

-----------------------------------------------------------------------------
(* The inductive invariant: what a run in progress may rely on although the*)
(* server takes files away from under it.                                  *)
Run == [step: {"hash", "remove", "read", "compile", "plan", "move", "rename"},
        collapse: BOOLEAN, dry: BOOLEAN, walked: SUBSET Dropped, kept: SUBSET Dropped,
        dups: SUBSET Dropped, item: [Dropped -> Mib \cup {Gone}],
        fate: [Dropped -> {"none", "marked", "nonmib", "unread", "budget", "parsed", "broken", "refused",
                           "moved"}],
        todo: SUBSET Dropped, gitFailed: BOOLEAN]

IngestType ==
  /\ tree \in [Places -> Mib \cup {Gone}]
  /\ ingest = NoRun \/ ingest \in Run

(* Each copy still to be removed has another copy outside that list. *)
CopiesBacked ==
  ingest.step = "remove" =>
    \A f \in ingest.dups :
      tree[In(f)] # Gone => \E q \in Places \ {In(d) : d \in ingest.dups} : tree[q] = tree[In(f)]

(* A file the run has read is unchanged until it is taken away. *)
ItemsCurrent ==
  ingest.step \in {"compile", "plan", "move", "rename"} =>
    /\ \A f \in ingest.kept : ingest.item[f] # Gone => tree[In(f)] \in {Gone, ingest.item[f]}
    /\ \A f \in Dropped : (ingest.fate[f] = "marked" => ingest.item[f] # Gone)
                           /\ (ingest.fate[f] = "parsed" => Parses(ingest.item[f]))

(* The moves left are of files that compiled; the next one goes to a place *)
(* that was found free, and that only the server can have filled since.    *)
Goal == Dst(Lowest(ingest.todo), ingest.item[Lowest(ingest.todo)])
MovesSound ==
  /\ ingest.step \in {"move", "rename"} => \A f \in ingest.todo : Parses(ingest.item[f])
  /\ ingest.step = "rename" => /\ ingest.todo # {}
                               /\ (Taken(Lowest(ingest.todo)) => Goal \in unseen)

IngestInv == IngestType /\ CopiesBacked /\ ItemsCurrent /\ MovesSound

LEMMA PlacesFacts ==
  /\ \A f \in Dropped : In(f) \in Places
  /\ Curated \subseteq Places
  /\ \A f, g : In(f) = In(g) => f = g
  /\ NoRun \notin Run
  /\ NoRun.step = "none"
<1>1. NoRun \notin Run
  <2> SUFFICES ASSUME NoRun \in Run PROVE FALSE OBVIOUS
  <2>1. NoRun.step \in {"hash", "remove", "read", "compile", "plan", "move", "rename"} BY DEF Run
  <2> QED BY <2>1 DEF NoRun
<1>2. \A f, g : In(f) = In(g) => f = g
  <2> SUFFICES ASSUME NEW f, NEW g, In(f) = In(g) PROVE f = g OBVIOUS
  <2>1. In(f)[2] = f /\ In(g)[2] = g BY DEF In
  <2> QED BY <2>1
<1> QED BY <1>1, <1>2 DEF Places, NoRun

LEMMA IngestInitInv == IngestInit => IngestInv
BY PlacesFacts DEF IngestInit, IngestInv, IngestType, CopiesBacked, ItemsCurrent, MovesSound, NoRun

(* The two moves of the world beside the run. *)
LEMMA DropsStep ==
  ASSUME IngestInv, NEW f \in Dropped, NEW c \in Mib, OperatorDrops(f, c)
  PROVE  IngestInv' /\ [F!FilingNext]_<<tree, unseen>>
<1>1. IngestInv'
  BY PlacesFacts DEF IngestInv, IngestType, CopiesBacked, ItemsCurrent, MovesSound, OperatorDrops, NoRun
<1>2. F!Arrive(In(f)) BY PlacesFacts DEF F!Arrive, OperatorDrops
<1>3. UNCHANGED unseen BY DEF OperatorDrops
<1> QED BY <1>1, <1>2, <1>3, PlacesFacts DEF F!FilingNext

LEMMA TakesStep ==
  ASSUME IngestInv, NEW f \in Dropped, ServerTakes(f)
  PROVE  IngestInv' /\ [F!FilingNext]_<<tree, unseen>>
<1> DEFINE c == tree[In(f)]
           p == Dst(f, c)
<1>1. c \in Mib /\ Parses(c) /\ In(f) \in Places
  BY PlacesFacts DEF ServerTakes, IngestInv, IngestType
<1>2. p \in Places /\ \A g : p # In(g)
  BY <1>1, DstCurated, PlacesFacts
<1>3. /\ tree[p] \in {Gone, c} /\ UNCHANGED ingest
      /\ unseen' = (IF ingest.step = "rename" /\ tree[p] = Gone THEN unseen \cup {p} ELSE unseen)
      /\ tree' = [tree EXCEPT ![In(f)] = Gone, ![p] = c]
  BY DEF ServerTakes
<1>4. tree' \in [Places -> Mib \cup {Gone}]
  BY <1>1, <1>2, <1>3 DEF IngestInv, IngestType
<1>5. /\ tree'[In(f)] = Gone /\ tree'[p] = c
      /\ \A q \in Places \ {In(f), p} : tree'[q] = tree[q]
  BY <1>1, <1>2, <1>3 DEF IngestInv, IngestType
<1> HIDE DEF c, p
<1>6. CopiesBacked'
  <2> SUFFICES ASSUME ingest.step = "remove", NEW d \in ingest.dups, tree'[In(d)] # Gone
               PROVE  \E q \in Places \ {In(e) : e \in ingest.dups} : tree'[q] = tree'[In(d)]
    BY <1>3 DEF CopiesBacked
  <2>1. d \in Dropped /\ In(d) \in Places /\ In(d) # In(f) /\ In(d) # p
    BY <1>2, <1>3, <1>5, PlacesFacts DEF IngestInv, IngestType, Run, NoRun
  <2>2. tree'[In(d)] = tree[In(d)] BY <2>1, <1>5
  <2>3. PICK q \in Places \ {In(e) : e \in ingest.dups} : tree[q] = tree[In(d)]
    BY <2>2 DEF IngestInv, CopiesBacked
  <2>4. CASE q = In(f)
    <3>1. tree'[p] = tree'[In(d)] BY <2>2, <2>3, <2>4, <1>5 DEF c
    <3> QED BY <3>1, <1>2
  <2>5. CASE q = p
    <3>1. tree'[q] = tree'[In(d)] BY <2>2, <2>3, <2>5, <1>3, <1>5
    <3> QED BY <3>1, <2>3
  <2>6. CASE q \notin {In(f), p}
    <3>1. tree'[q] = tree'[In(d)] BY <2>2, <2>3, <2>6, <1>5
    <3> QED BY <3>1, <2>3
  <2> QED BY <2>4, <2>5, <2>6
<1>7. ItemsCurrent'
  <2> SUFFICES ASSUME ingest.step \in {"compile", "plan", "move", "rename"}
               PROVE  \A g \in ingest.kept : ingest.item[g] # Gone => tree'[In(g)] \in {Gone, ingest.item[g]}
    BY <1>3 DEF IngestInv, ItemsCurrent
  <2>1. \A g \in ingest.kept : g \in Dropped /\ (ingest.item[g] # Gone => tree[In(g)] \in {Gone, ingest.item[g]})
    BY PlacesFacts DEF IngestInv, IngestType, ItemsCurrent, Run
  <2> QED BY <2>1, <1>2, <1>5, PlacesFacts DEF IngestInv, ItemsCurrent
<1>8. MovesSound'
  <2> SUFFICES ASSUME ingest.step = "rename", Taken(Lowest(ingest.todo))' PROVE Goal \in unseen'
    BY <1>3 DEF IngestInv, MovesSound, Goal
  <2>1. PICK g : g = Lowest(ingest.todo) OBVIOUS
  <2>2. ingest \in Run /\ ingest.todo # {} BY PlacesFacts DEF IngestInv, IngestType, MovesSound
  <2>3. g \in ingest.todo /\ g \in Dropped BY <2>1, <2>2, LowestIn DEF Run
  <2>4. ingest.item[g] \in Mib /\ Parses(ingest.item[g])
    BY <2>2, <2>3, IngestAssumption DEF IngestInv, MovesSound, Parses
  <2>5. PICK q : q = Dst(g, ingest.item[g]) OBVIOUS
  <2>6. q = Goal /\ q \in Places /\ \A e : q # In(e)
    BY <2>1, <2>3, <2>4, <2>5, DstCurated, PlacesFacts DEF Goal
  <2>7. tree'[q] # Gone BY <1>3, <2>1, <2>5 DEF Taken
  <2>8. CASE tree[q] # Gone
    BY <1>3, <2>1, <2>5, <2>6, <2>8 DEF IngestInv, MovesSound, Taken
  <2>9. CASE tree[q] = Gone
    BY <1>3, <1>5, <2>6, <2>7, <2>9
  <2> QED BY <2>8, <2>9
<1>11. unseen' \subseteq unseen \cup F!Filled
  BY <1>1, <1>2, <1>3, <1>5, IngestAssumption DEF F!Filled
<1>9. CASE tree[p] = Gone
  <2>1. tree' = [tree EXCEPT ![In(f)] = Gone, ![p] = tree[In(f)]] BY <1>3 DEF c
  <2>2. tree[In(f)] # Gone BY DEF ServerTakes
  <2>3. F!Shift(In(f), p) BY <2>1, <2>2, <1>9 DEF F!Shift
  <2> QED BY <2>3, <1>1, <1>2, <1>3, <1>4, <1>6, <1>7, <1>8, <1>11 DEF F!FilingNext, IngestInv, IngestType
<1>10. CASE tree[p] = c
  <2>1. tree' = [tree EXCEPT ![In(f)] = Gone]
    BY <1>1, <1>2, <1>4, <1>5, <1>10 DEF IngestInv, IngestType
  <2>2. F!Collapse(In(f)) BY <2>1, <1>2, <1>10 DEF F!Collapse, c
  <2> QED BY <2>2, <1>1, <1>3, <1>4, <1>6, <1>7, <1>8, <1>11 DEF F!FilingNext, IngestInv, IngestType
<1> QED BY <1>3, <1>9, <1>10

(* The steps of the run itself. *)
LEMMA StartStep ==
  ASSUME IngestInv, NEW collapse \in BOOLEAN, NEW dry \in BOOLEAN, IngestStart(collapse, dry)
  PROVE  IngestInv' /\ [F!FilingNext]_<<tree, unseen>>
<1>1. UNCHANGED <<tree, unseen>> /\ ingest'.step \in {"hash", "read"} BY DEF IngestStart
<1>2. ingest' \in Run BY DEF IngestStart, Run, There
<1> QED BY <1>1, <1>2 DEF IngestInv, IngestType, CopiesBacked, ItemsCurrent, MovesSound

LEMMA HashStep ==
  ASSUME IngestInv, CollapseHash
  PROVE  IngestInv' /\ [F!FilingNext]_<<tree, unseen>>
<1>1. ingest \in Run /\ UNCHANGED <<tree, unseen>>
  BY PlacesFacts DEF CollapseHash, IngestInv, IngestType
<1>0. PICK unreadable \in SUBSET There(ingest.kept) :
        LET dups == Duplicates(There(ingest.kept) \ unreadable) IN
        ingest' = [ingest EXCEPT !.step = IF ingest.dry THEN "read" ELSE "remove",
                                 !.dups = IF ingest.dry THEN {} ELSE dups, !.kept = @ \ dups]
  BY DEF CollapseHash
<1> DEFINE files == There(ingest.kept) \ unreadable
           dups == Duplicates(files)
<1>2. dups \in SUBSET Dropped /\ ingest'.dups \subseteq dups /\ ingest'.step \in {"remove", "read"}
  BY <1>0, <1>1 DEF Duplicates, There, Run
<1>3. ingest' \in Run
  BY <1>0, <1>1, <1>2 DEF Run
<1>4. CopiesBacked'
  <2> SUFFICES ASSUME NEW f \in ingest'.dups, tree[In(f)] # Gone
               PROVE  \E q \in Places \ {In(d) : d \in ingest'.dups} : tree[q] = tree[In(f)]
    BY <1>1 DEF CopiesBacked
  <2> DEFINE same == {g \in files : tree[In(g)] = tree[In(f)]}
  <2>1. same \in SUBSET Dropped /\ same # {}
    BY <1>1, <1>2 DEF There, Run, Duplicates
  <2>2. PICK m \in same : \A g \in same : m <= g
    BY <2>1, LowestIn
  <2>3. m \notin dups
    <3> SUFFICES ASSUME NEW g \in files, g < m, tree[In(g)] = tree[In(m)] PROVE FALSE
      BY DEF Duplicates
    <3>1. g \in same /\ m \in Nat /\ g \in Nat BY <2>1, <2>2, IngestAssumption
    <3>2. m <= g BY <2>2, <3>1
    <3> QED BY <3>1, <3>2
  <2>4. In(m) \in Places \ {In(d) : d \in ingest'.dups}
    BY <1>2, <2>1, <2>2, <2>3, PlacesFacts
  <2> QED BY <2>2, <2>4
<1> QED BY <1>1, <1>2, <1>3, <1>4 DEF IngestInv, IngestType, ItemsCurrent, MovesSound

LEMMA RemoveStep ==
  ASSUME IngestInv, CollapseRemove
  PROVE  IngestInv' /\ [F!FilingNext]_<<tree, unseen>>
<1> DEFINE f == Lowest(ingest.dups)
<1>1. ingest \in Run /\ ingest.step = "remove" /\ ingest'.step = "remove" /\ UNCHANGED unseen
  BY PlacesFacts DEF CollapseRemove, IngestInv, IngestType, Run
<1>2. f \in ingest.dups /\ f \in Dropped /\ In(f) \in Places
  BY <1>1, LowestIn, PlacesFacts DEF CollapseRemove, Run
<1>3. ingest' = [ingest EXCEPT !.dups = @ \ {f}] /\ tree' = [tree EXCEPT ![In(f)] = Gone]
  BY DEF CollapseRemove
<1> HIDE DEF f
<1>4. ingest' \in Run /\ ingest'.dups = ingest.dups \ {f}
  BY <1>1, <1>3 DEF Run
<1>5. tree' \in [Places -> Mib \cup {Gone}]
  BY <1>2, <1>3 DEF IngestInv, IngestType
<1>6. CopiesBacked'
  <2> SUFFICES ASSUME NEW d \in ingest'.dups, tree'[In(d)] # Gone
               PROVE  \E q \in Places \ {In(e) : e \in ingest'.dups} : tree'[q] = tree'[In(d)]
    BY DEF CopiesBacked
  <2>1. d \in ingest.dups /\ d # f /\ In(d) \in Places /\ In(d) # In(f)
    BY <1>1, <1>4, PlacesFacts DEF Run
  <2>2. tree'[In(d)] = tree[In(d)] BY <1>3, <2>1 DEF IngestInv, IngestType
  <2>3. PICK q \in Places \ {In(e) : e \in ingest.dups} : tree[q] = tree[In(d)]
    BY <1>1, <2>1, <2>2 DEF IngestInv, CopiesBacked
  <2>4. q # In(f) BY <1>2, <2>3
  <2>5. tree'[q] = tree[q] BY <1>3, <2>3, <2>4 DEF IngestInv, IngestType
  <2> QED BY <1>4, <2>2, <2>3, <2>5
<1>7. CASE tree[In(f)] = Gone
  <2>1. tree' = tree BY <1>2, <1>3, <1>7 DEF IngestInv, IngestType
  <2> QED BY <2>1, <1>1, <1>4, <1>5, <1>6 DEF IngestInv, IngestType, ItemsCurrent, MovesSound
<1>8. CASE tree[In(f)] # Gone
  <2>1. PICK q \in Places \ {In(e) : e \in ingest.dups} : tree[q] = tree[In(f)]
    BY <1>1, <1>2, <1>8 DEF IngestInv, CopiesBacked
  <2>2. q # In(f) BY <1>2, <2>1
  <2>3. F!Collapse(In(f)) BY <1>3, <2>1, <2>2 DEF F!Collapse
  <2> QED BY <2>3, <1>1, <1>2, <1>4, <1>5, <1>6 DEF F!FilingNext, IngestInv, IngestType, ItemsCurrent, MovesSound
<1> QED BY <1>7, <1>8

Fate(f, read) ==
  CASE f \notin ingest.kept -> "none"
    [] f \in ingest.kept \ read -> "unread"
    [] OTHER -> IF tree[In(f)] \in Marker THEN "marked" ELSE "nonmib"

LEMMA ReadStep ==
  ASSUME IngestInv, ReadFiles
  PROVE  IngestInv' /\ [F!FilingNext]_<<tree, unseen>>
<1>1. /\ ingest \in Run /\ UNCHANGED <<tree, unseen>>
  BY PlacesFacts DEF ReadFiles, IngestInv, IngestType
<1>2. PICK unreadable \in SUBSET There(ingest.kept) :
        LET read == There(ingest.kept) \ unreadable IN
        ingest' = [ingest EXCEPT !.step = "compile",
                     !.item = [f \in Dropped |-> IF f \in read THEN tree[In(f)] ELSE Gone],
                     !.fate = [f \in Dropped |-> Fate(f, read)]]
  BY DEF ReadFiles, Fate
<1> DEFINE read == There(ingest.kept) \ unreadable
<1>3. /\ ingest'.step = "compile" /\ ingest'.kept = ingest.kept
      /\ ingest'.item = [f \in Dropped |-> IF f \in read THEN tree[In(f)] ELSE Gone]
      /\ ingest'.fate = [f \in Dropped |-> Fate(f, read)]
  BY <1>1, <1>2 DEF Run
<1>4. \A f \in Dropped : tree[In(f)] \in Mib \cup {Gone}
  BY PlacesFacts DEF IngestInv, IngestType
<1>5. \A f \in Dropped : f \in read => tree[In(f)] # Gone
  BY DEF There
<1>6. \A f : Fate(f, read) \in {"none", "unread", "marked", "nonmib"}
             /\ (Fate(f, read) = "marked" => f \in read)
  BY DEF Fate
<1>7. ingest' \in Run
  <2> HIDE DEF read
  <2>1. ingest'.item \in [Dropped -> Mib \cup {Gone}] BY <1>3, <1>4
  <2>2. ingest'.fate \in [Dropped -> {"none", "marked", "nonmib", "unread", "budget", "parsed", "broken",
                                      "refused", "moved"}]
    BY <1>3, <1>6
  <2> QED BY <1>1, <1>2, <1>3, <2>1, <2>2 DEF Run
<1>8. ItemsCurrent'
  <2> HIDE DEF read
  <2> QED BY <1>1, <1>3, <1>5, <1>6 DEF ItemsCurrent, Run
<1> QED BY <1>1, <1>3, <1>7, <1>8 DEF IngestInv, IngestType, CopiesBacked, MovesSound

LEMMA CompileStep ==
  ASSUME IngestInv, CompileFiles
  PROVE  IngestInv' /\ [F!FilingNext]_<<tree, unseen>>
<1> DEFINE marked == {f \in ingest.kept : ingest.fate[f] = "marked"}
<1>1. ingest \in Run /\ UNCHANGED <<tree, unseen>> /\ ingest.step = "compile"
  BY PlacesFacts, SMTT(60) DEF CompileFiles, IngestInv, IngestType
<1>2. PICK cut \in SUBSET marked :
        ingest' = [ingest EXCEPT !.step = "plan",
                    !.fate = [f \in Dropped |->
                       CASE f \in cut -> "budget"
                         [] f \in marked \ cut ->
                              IF tree[In(f)] # Gone /\ Parses(tree[In(f)]) THEN "parsed" ELSE "broken"
                         [] OTHER -> ingest.fate[f]]]
  BY DEF CompileFiles
<1> DEFINE told(f) == CASE f \in cut -> "budget"
                         [] f \in marked \ cut ->
                              IF tree[In(f)] # Gone /\ Parses(tree[In(f)]) THEN "parsed" ELSE "broken"
                         [] OTHER -> ingest.fate[f]
<1>3. \A f : /\ f \in cut => told(f) = "budget"
             /\ f \in marked \ cut => told(f) = IF tree[In(f)] # Gone /\ Parses(tree[In(f)])
                                                    THEN "parsed" ELSE "broken"
             /\ f \notin marked => told(f) = ingest.fate[f]
  BY <1>2, Zenon
<1> HIDE DEF told
<1>4. /\ ingest'.fate = [f \in Dropped |-> told(f)] /\ ingest'.step = "plan"
      /\ ingest'.kept = ingest.kept /\ ingest'.item = ingest.item
  BY <1>1, <1>2 DEF Run, told
<1>5. \A f \in Dropped : told(f) \in {"none", "marked", "nonmib", "unread", "budget", "parsed", "broken", "refused", "moved"}
  BY <1>1, <1>2, <1>3, SMTT(60) DEF Run
<1>6. ingest' \in Run
  BY <1>1, <1>2, <1>4, <1>5 DEF Run
<1>7. \A f \in Dropped : told(f) = "parsed" => Parses(ingest.item[f])
  <2> SUFFICES ASSUME NEW f \in Dropped, told(f) = "parsed" PROVE Parses(ingest.item[f])
    OBVIOUS
  <2>1. CASE f \in marked
    <3>1. f \in ingest.kept /\ tree[In(f)] # Gone /\ Parses(tree[In(f)]) BY <1>3, <2>1
    <3>2. f \in Dropped /\ ingest.item[f] # Gone BY <2>1, <1>1 DEF IngestInv, ItemsCurrent
    <3>3. tree[In(f)] = ingest.item[f] BY <3>1, <3>2, <1>1 DEF IngestInv, ItemsCurrent
    <3> QED BY <3>1, <3>3
  <2>2. CASE f \notin marked
    <3>1. ingest.fate[f] = "parsed" BY <1>3, <2>2
    <3> HIDE DEF marked
    <3> QED BY <3>1, <1>1 DEF IngestInv, ItemsCurrent
  <2> QED BY <2>1, <2>2
<1>9. \A f \in Dropped : told(f) = "marked" => ingest.fate[f] = "marked"
  BY <1>2, <1>3
<1>8. ItemsCurrent'
  BY <1>1, <1>4, <1>7, <1>9 DEF IngestInv, ItemsCurrent
<1> QED BY <1>1, <1>4, <1>6, <1>8 DEF IngestInv, IngestType, CopiesBacked, MovesSound

LEMMA PlanStep ==
  ASSUME IngestInv, PlanMoves
  PROVE  IngestInv' /\ [F!FilingNext]_<<tree, unseen>>
<1>1. ingest \in Run /\ UNCHANGED <<tree, unseen>> /\ ingest.step = "plan"
  BY PlacesFacts DEF PlanMoves, IngestInv, IngestType
<1>2. CASE ingest' = NoRun
  BY <1>1, <1>2, PlacesFacts DEF IngestInv, IngestType, CopiesBacked, ItemsCurrent, MovesSound
<1>3. CASE ingest' # NoRun
  <2>1. ingest' \in Run /\ ingest'.step = "move"
    BY <1>1, <1>3 DEF PlanMoves, Run
  <2>2. /\ ingest'.kept = ingest.kept /\ ingest'.item = ingest.item
        /\ \A f \in ingest'.todo : f \in Dropped /\ ingest.fate[f] = "parsed"
        /\ \A f \in Dropped : ingest'.fate[f] \in {"refused", ingest.fate[f]}
    BY <1>1, <1>3 DEF PlanMoves, Run
  <2>3. ItemsCurrent'
    <3>1. ItemsCurrent BY DEF IngestInv
    <3> QED BY <1>1, <2>1, <2>2, <3>1 DEF ItemsCurrent
  <2>4. MovesSound'
    BY <1>1, <2>1, <2>2 DEF IngestInv, ItemsCurrent, MovesSound
  <2> QED BY <1>1, <2>1, <2>3, <2>4, SMTT(60) DEF IngestInv, IngestType, CopiesBacked
<1> QED BY <1>2, <1>3

LEMMA LookStep ==
  ASSUME IngestInv, LookAgain
  PROVE  IngestInv' /\ [F!FilingNext]_<<tree, unseen>>
<1> DEFINE f == Lowest(ingest.todo)
<1>1. /\ ingest \in Run /\ UNCHANGED tree /\ unseen' = {} /\ ingest.step = "move" /\ ingest.todo # {}
      /\ f \in Dropped
  BY PlacesFacts, LowestIn DEF LookAgain, IngestInv, IngestType, Run
<1>2. CASE Taken(f)
  <2>1. ingest' = [ingest EXCEPT !.todo = @ \ {f}, !.fate[f] = "refused"]
    BY <1>2 DEF LookAgain
  <2>2. ingest' \in Run /\ ingest'.step = "move" BY <1>1, <2>1 DEF Run
  <2>3. /\ ingest'.kept = ingest.kept /\ ingest'.item = ingest.item /\ ingest'.todo \subseteq ingest.todo
        /\ \A g \in Dropped : ingest'.fate[g] \in {"refused", ingest.fate[g]}
    BY <1>1, <2>1 DEF Run
  <2>4. ItemsCurrent' /\ MovesSound'
    BY <1>1, <2>2, <2>3 DEF IngestInv, ItemsCurrent, MovesSound
  <2> QED BY <1>1, <2>2, <2>4 DEF F!FilingNext, IngestInv, IngestType, CopiesBacked
<1>3. CASE ~Taken(f)
  <2>1. ingest' = [ingest EXCEPT !.step = "rename"]
    BY <1>3 DEF LookAgain
  <2>2. /\ ingest' \in Run /\ ingest'.step = "rename" /\ ingest'.kept = ingest.kept
        /\ ingest'.item = ingest.item /\ ingest'.todo = ingest.todo /\ ingest'.fate = ingest.fate
    BY <1>1, <2>1 DEF Run
  <2>3. ItemsCurrent' /\ MovesSound'
    BY <1>1, <1>3, <2>2 DEF IngestInv, ItemsCurrent, MovesSound, Taken
  <2> QED BY <1>1, <2>2, <2>3 DEF F!FilingNext, IngestInv, IngestType, CopiesBacked
<1> QED BY <1>2, <1>3

LEMMA RenameStep ==
  ASSUME IngestInv, RenameFile
  PROVE  IngestInv' /\ [F!FilingNext]_<<tree, unseen>>
<1> DEFINE f == Lowest(ingest.todo)
           p == Dst(f, ingest.item[f])
<1>1. ingest \in Run /\ ingest.step = "rename"
  BY PlacesFacts DEF RenameFile, IngestInv, IngestType
<1>2. f \in ingest.todo /\ f \in Dropped /\ (tree[p] = Gone \/ p \in unseen)
  BY <1>1, LowestIn DEF IngestInv, MovesSound, Run, Taken, Goal
<1>3. ingest.item[f] \in Mib /\ Parses(ingest.item[f])
  BY <1>1, <1>2, IngestAssumption DEF IngestInv, MovesSound, Parses
<1>4. p \in Places /\ \A g : p # In(g)
  BY <1>2, <1>3, DstCurated, PlacesFacts
<1>5. tree[In(f)] # Gone /\ tree' = [tree EXCEPT ![In(f)] = Gone, ![p] = tree[In(f)]]
  BY DEF RenameFile
<1>6. PICK failed \in BOOLEAN :
        ingest' = [ingest EXCEPT !.step = "move", !.todo = @ \ {f}, !.fate[f] = "moved",
                                 !.gitFailed = ingest.gitFailed \/ failed]
  BY DEF RenameFile
<1> HIDE DEF f, p
<1>7. F!FilingNext
  <2>1. F!Shift(In(f), p) BY <1>2, <1>5 DEF F!Shift
  <2>2. unseen' = {} BY DEF RenameFile
  <2> QED BY <2>1, <2>2, <1>2, <1>4, PlacesFacts DEF F!FilingNext
<1>8. tree' \in [Places -> Mib \cup {Gone}]
  BY <1>2, <1>4, <1>5, PlacesFacts DEF IngestInv, IngestType
<1>9. /\ ingest'.kept = ingest.kept /\ ingest'.item = ingest.item /\ ingest'.todo \subseteq ingest.todo
      /\ ingest'.step = "move"
      /\ ingest'.fate = [ingest.fate EXCEPT ![f] = "moved"]
  BY <1>1, <1>6 DEF Run
<1>10. ingest' \in Run
  <2>1. (ingest.gitFailed \/ failed) \in BOOLEAN OBVIOUS
  <2>2. ingest'.fate \in [Dropped -> {"none", "marked", "nonmib", "unread", "budget", "parsed", "broken", "refused", "moved"}]
    BY <1>1, <1>9 DEF Run
  <2> QED BY <1>1, <1>6, <1>9, <2>1, <2>2 DEF Run
<1>11. \A g \in ingest.kept : tree'[In(g)] \in {Gone, tree[In(g)]}
  BY <1>1, <1>2, <1>4, <1>5, PlacesFacts DEF IngestInv, IngestType, Run
<1>12. ItemsCurrent' /\ MovesSound'
  BY <1>1, <1>9, <1>11 DEF IngestInv, ItemsCurrent, MovesSound, Run
<1> QED BY <1>7, <1>8, <1>9, <1>10, <1>12 DEF IngestInv, IngestType, CopiesBacked

LEMMA EndStep ==
  ASSUME IngestInv, CollapseFails \/ RenameFails \/ IngestDone \/ IngestKilled
  PROVE  IngestInv' /\ [F!FilingNext]_<<tree, unseen>>
<1>1. ingest' = NoRun /\ UNCHANGED tree /\ unseen' \in {unseen, {}}
  BY DEF CollapseFails, RenameFails, IngestDone, IngestKilled
<1> QED BY <1>1, PlacesFacts DEF F!FilingNext, IngestInv, IngestType, CopiesBacked, ItemsCurrent, MovesSound

LEMMA DoneStep ==
  ASSUME IngestInv, CollapseDone
  PROVE  IngestInv' /\ [F!FilingNext]_<<tree, unseen>>
<1>1. ingest \in Run /\ UNCHANGED <<tree, unseen>> /\ ingest' = [ingest EXCEPT !.step = "read"]
  BY PlacesFacts DEF CollapseDone, IngestInv, IngestType
<1>2. ingest' \in Run /\ ingest'.step = "read" BY <1>1 DEF Run
<1> QED BY <1>1, <1>2 DEF IngestInv, IngestType, CopiesBacked, ItemsCurrent, MovesSound

LEMMA IngestStep ==
  IngestInv /\ [IngestNext]_ingestVars => IngestInv' /\ [F!FilingNext]_<<tree, unseen>>
<1> SUFFICES ASSUME IngestInv, [IngestNext]_ingestVars PROVE IngestInv' /\ [F!FilingNext]_<<tree, unseen>>
  OBVIOUS
<1>1. CASE \E f \in Dropped : ServerTakes(f) \/ \E c \in Mib : OperatorDrops(f, c)
  BY <1>1, TakesStep, DropsStep
<1>2. CASE \E collapse, dry \in BOOLEAN : IngestStart(collapse, dry)
  BY <1>2, StartStep
<1>3. CASE UNCHANGED ingestVars
  BY <1>3 DEF ingestVars, IngestInv, IngestType, CopiesBacked, ItemsCurrent, MovesSound, Taken, Goal
<1> QED BY <1>1, <1>2, <1>3, HashStep, RemoveStep, DoneStep, ReadStep, CompileStep, PlanStep,
           LookStep, RenameStep, EndStep DEF IngestNext

(* Every run of mib-ingest, killed or not and with the server importing    *)
(* the same folder at every moment, implements filing.                     *)
THEOREM IngestImplementsFiling == IngestSpec => IngestFiles
<1>1. IngestInit => F!FilingInit
  BY DEF IngestInit, F!FilingInit, F!FilingTypeOK
<1> QED BY <1>1, IngestInitInv, IngestStep, PTL DEF IngestSpec, IngestFiles, F!FilingSpec, F!filingVars

(* So no step of it, nor of the server beside it, loses the last copy of a *)
(* file, unless the server put that copy where the tool is about to rename *)
(* to, after the tool's last look (ingest.go:677-687).                     *)
THEOREM IngestLosesNothing == IngestSpec => F!NothingLost
BY IngestImplementsFiling, FilingLosesNothing, PTL DEF IngestFiles

-----------------------------------------------------------------------------
(* What mib-ingest says at its exit is true: the argument on top of the    *)
(* invariant with which it was shown to be filing.                         *)

(* A file that the run found is gone, or it is among those it kept, or it  *)
(* is a copy about to be removed.                                          *)
Present(f) == tree[In(f)] # Gone
WalkedKnown ==
  ingest # NoRun /\ ~ingest.dry =>
    \A f \in ingest.walked : Present(f) => f \in ingest.kept \cup ingest.dups
CopiesGone == ingest.step \in {"hash", "read", "compile", "plan", "move", "rename"} => ingest.dups = {}

(* Every kept file has a fate, and the fate is true of the file.           *)
Skipped == {"nonmib", "unread"}
Fates == [compile |-> {"marked"} \cup Skipped, plan |-> {"budget", "broken", "parsed"} \cup Skipped,
          move |-> {"budget", "broken", "parsed", "refused", "moved"} \cup Skipped]
Judged(fates) == \A f \in ingest.kept : ingest.fate[f] \in fates
Unmarked == \A f \in ingest.kept : ingest.fate[f] = "nonmib" => tree[In(f)] \notin Marker
Settled ==
  \A f \in ingest.kept : /\ ingest.fate[f] = "parsed" => f \in ingest.todo
                         /\ ingest.fate[f] = "moved" => ~Present(f)
FatesTrue ==
  /\ ingest.step = "compile" => Judged(Fates.compile) /\ Unmarked
  /\ ingest.step = "plan" => Judged(Fates.plan) /\ Unmarked
  /\ ingest.step \in {"move", "rename"} => Judged(Fates.move) /\ Unmarked /\ Settled /\ ~ingest.dry

ExitInv == WalkedKnown /\ CopiesGone /\ FatesTrue

-----------------------------------------------------------------------------
(* During a run the drop folder only loses files.                          *)
LEMMA OnlyLosses ==
  ASSUME IngestInv, IngestInv', [IngestNext]_ingestVars, ingest # NoRun
  PROVE  \A f \in Dropped : tree'[In(f)] \in {Gone, tree[In(f)]}
<1>1. CASE UNCHANGED tree BY <1>1
<1>2. CASE \E f \in Dropped : ServerTakes(f)
  <2>1. PICK f \in Dropped : ServerTakes(f) BY <1>2
  <2> DEFINE c == tree[In(f)]
             p == Dst(f, c)
  <2>2. c \in Mib /\ Parses(c) BY <2>1, PlacesFacts DEF ServerTakes, IngestInv, IngestType
  <2>3. \A g : p # In(g) BY <2>2, DstCurated
  <2>4. tree' = [tree EXCEPT ![In(f)] = Gone, ![p] = c] BY <2>1 DEF ServerTakes
  <2> HIDE DEF c, p
  <2> QED BY <2>3, <2>4, PlacesFacts DEF IngestInv, IngestType
<1>3. CASE CollapseRemove
  <2>1. tree' = [tree EXCEPT ![In(Lowest(ingest.dups))] = Gone] BY <1>3 DEF CollapseRemove
  <2> QED BY <2>1, PlacesFacts DEF IngestInv, IngestType
<1>4. CASE RenameFile
  <2> DEFINE f == Lowest(ingest.todo)
             p == Dst(f, ingest.item[f])
  <2>1. ingest \in Run /\ ingest.step = "rename"
    BY <1>4, PlacesFacts DEF RenameFile, IngestInv, IngestType
  <2>2. f \in ingest.todo /\ f \in Dropped BY <2>1, LowestIn DEF IngestInv, MovesSound, Run
  <2>3. ingest.item[f] \in Mib /\ Parses(ingest.item[f])
    BY <2>1, <2>2, IngestAssumption DEF IngestInv, MovesSound, Parses
  <2>4. \A g : p # In(g) BY <2>2, <2>3, DstCurated
  <2>5. tree' = [tree EXCEPT ![In(f)] = Gone, ![p] = tree[In(f)]] BY <1>4 DEF RenameFile
  <2> HIDE DEF f, p
  <2> QED BY <2>4, <2>5, PlacesFacts DEF IngestInv, IngestType
<1>5. CASE \E f \in Dropped, c \in Mib : OperatorDrops(f, c)
  BY <1>5 DEF OperatorDrops
<1> QED BY <1>1, <1>2, <1>3, <1>4, <1>5
        DEF IngestNext, ingestVars, IngestStart, CollapseHash, CollapseFails, CollapseDone, ReadFiles,
            CompileFiles, PlanMoves, LookAgain, RenameFails, IngestDone, IngestKilled

(* A step of another process leaves what the run believes true.            *)
LEMMA BesideStep ==
  ASSUME IngestInv, IngestInv', ExitInv, [IngestNext]_ingestVars, UNCHANGED ingest
  PROVE  ExitInv'
<1>1. CASE ingest = NoRun
  BY <1>1, PlacesFacts DEF ExitInv, WalkedKnown, CopiesGone, FatesTrue, NoRun
<1>2. CASE ingest # NoRun
  <2>1. ingest \in Run BY <1>2 DEF IngestInv, IngestType
  <2>2. \A f \in Dropped : tree'[In(f)] \in {Gone, tree[In(f)]} BY <1>2, OnlyLosses
  <2>3. Gone \notin Marker BY IngestAssumption
  <2>4. WalkedKnown' /\ CopiesGone' BY <2>1, <2>2 DEF ExitInv, WalkedKnown, CopiesGone, Present, Run
  <2>5. FatesTrue' BY <2>1, <2>2, <2>3 DEF ExitInv, FatesTrue, Judged, Unmarked, Settled, Present, Run
  <2> QED BY <2>4, <2>5 DEF ExitInv
<1> QED BY <1>1, <1>2

LEMMA EndsExit ==
  ASSUME ingest' = NoRun
  PROVE  ExitInv'
BY PlacesFacts DEF ExitInv, WalkedKnown, CopiesGone, FatesTrue, NoRun

LEMMA StartExit ==
  ASSUME NEW collapse \in BOOLEAN, NEW dry \in BOOLEAN, IngestStart(collapse, dry)
  PROVE  ExitInv'
<1>1. /\ ingest'.step \in {"hash", "read"} /\ ingest'.dups = {} /\ tree' = tree
      /\ ingest'.walked = There(Dropped) /\ ingest'.kept = There(Dropped)
  BY DEF IngestStart
<1> QED BY <1>1 DEF ExitInv, WalkedKnown, CopiesGone, FatesTrue

LEMMA CollapseExit ==
  ASSUME IngestInv, IngestInv', ExitInv, CollapseHash \/ CollapseRemove \/ CollapseDone
  PROVE  ExitInv'
<1>1. ingest \in Run /\ ingest # NoRun
  BY PlacesFacts DEF CollapseHash, CollapseRemove, CollapseDone, IngestInv, IngestType
<1>2. CASE CollapseHash
  <2>0. PICK dups : ingest' = [ingest EXCEPT !.step = IF ingest.dry THEN "read" ELSE "remove",
                                             !.dups = IF ingest.dry THEN {} ELSE dups, !.kept = @ \ dups]
    BY <1>2, Zenon DEF CollapseHash
  <2>1. /\ ingest'.step = (IF ingest.dry THEN "read" ELSE "remove")
        /\ ingest'.dups = (IF ingest.dry THEN {} ELSE dups)
        /\ ingest'.kept = ingest.kept \ dups /\ ingest'.walked = ingest.walked
        /\ ingest'.dry = ingest.dry /\ tree' = tree /\ ingest.step = "hash"
    BY <1>1, <1>2, <2>0 DEF CollapseHash, Run
  <2> QED BY <1>1, <2>1 DEF ExitInv, WalkedKnown, CopiesGone, FatesTrue, Present
<1>3. CASE CollapseRemove
  <2> DEFINE f == Lowest(ingest.dups)
  <2>1. /\ ingest'.step = "remove" /\ ingest'.dups = ingest.dups \ {f}
        /\ ingest'.kept = ingest.kept /\ ingest'.walked = ingest.walked /\ ingest'.dry = ingest.dry
    BY <1>1, <1>3 DEF CollapseRemove, Run
  <2>2. f \in Dropped BY <1>1, <1>3, LowestIn DEF CollapseRemove, Run
  <2>3. tree' = [tree EXCEPT ![In(f)] = Gone] BY <1>3 DEF CollapseRemove
  <2> HIDE DEF f
  <2>4. \A g \in Dropped : Present(g)' => Present(g) /\ g # f
    BY <2>2, <2>3, PlacesFacts DEF Present, IngestInv, IngestType
  <2> QED BY <1>1, <2>1, <2>4 DEF ExitInv, WalkedKnown, CopiesGone, FatesTrue, Run
<1>4. CASE CollapseDone
  <2>1. /\ ingest'.step = "read" /\ ingest'.dups = ingest.dups /\ ingest.dups = {} /\ tree' = tree
        /\ ingest'.kept = ingest.kept /\ ingest'.walked = ingest.walked /\ ingest'.dry = ingest.dry
    BY <1>1, <1>4 DEF CollapseDone, Run
  <2> QED BY <1>1, <2>1 DEF ExitInv, WalkedKnown, CopiesGone, FatesTrue, Present
<1> QED BY <1>2, <1>3, <1>4

LEMMA ReadExit ==
  ASSUME IngestInv, ExitInv, ReadFiles
  PROVE  ExitInv'
<1>1. ingest \in Run /\ ingest # NoRun /\ ingest.step = "read" /\ tree' = tree
  BY PlacesFacts DEF ReadFiles, IngestInv, IngestType
<1>2. PICK read, item : ingest' = [ingest EXCEPT !.step = "compile", !.item = item,
                                                 !.fate = [f \in Dropped |-> Fate(f, read)]]
  BY Zenon DEF ReadFiles, Fate
<1>3. /\ ingest'.step = "compile" /\ ingest'.dups = ingest.dups /\ ingest'.kept = ingest.kept
      /\ ingest'.walked = ingest.walked /\ ingest'.dry = ingest.dry
      /\ ingest'.fate = [f \in Dropped |-> Fate(f, read)]
  BY <1>1, <1>2 DEF Run
<1>4. \A f \in ingest.kept : /\ Fate(f, read) \in Fates.compile
                             /\ Fate(f, read) = "nonmib" => tree[In(f)] \notin Marker
  BY DEF Fate, Fates, Skipped
<1>5. \A f \in ingest.kept : ingest'.fate[f] = Fate(f, read)
  BY <1>1, <1>3 DEF Run
<1> QED BY <1>1, <1>3, <1>4, <1>5
        DEF ExitInv, WalkedKnown, CopiesGone, FatesTrue, Judged, Unmarked, Present

LEMMA CompileExit ==
  ASSUME IngestInv, ExitInv, CompileFiles
  PROVE  ExitInv'
<1> DEFINE marked == {f \in ingest.kept : ingest.fate[f] = "marked"}
<1>1. ingest \in Run /\ ingest # NoRun /\ ingest.step = "compile" /\ tree' = tree
  BY PlacesFacts DEF CompileFiles, IngestInv, IngestType
<1>2. PICK cut \in SUBSET marked :
        ingest' = [ingest EXCEPT !.step = "plan",
                    !.fate = [f \in Dropped |->
                       CASE f \in cut -> "budget"
                         [] f \in marked \ cut ->
                              IF tree[In(f)] # Gone /\ Parses(tree[In(f)]) THEN "parsed" ELSE "broken"
                         [] OTHER -> ingest.fate[f]]]
  BY DEF CompileFiles
<1> DEFINE told(f) == CASE f \in cut -> "budget"
                         [] f \in marked \ cut ->
                              IF tree[In(f)] # Gone /\ Parses(tree[In(f)]) THEN "parsed" ELSE "broken"
                         [] OTHER -> ingest.fate[f]
<1>3. \A f : /\ f \in cut => told(f) = "budget"
             /\ f \in marked \ cut => told(f) = IF tree[In(f)] # Gone /\ Parses(tree[In(f)])
                                                    THEN "parsed" ELSE "broken"
             /\ f \notin marked => told(f) = ingest.fate[f]
  BY <1>2, Zenon
<1> HIDE DEF told
<1>4. /\ ingest'.fate = [f \in Dropped |-> told(f)] /\ ingest'.step = "plan"
      /\ ingest'.kept = ingest.kept /\ ingest'.walked = ingest.walked
      /\ ingest'.dups = ingest.dups /\ ingest'.dry = ingest.dry
  BY <1>1, <1>2 DEF Run, told
<1>5. Judged(Fates.compile) /\ Unmarked BY <1>1 DEF ExitInv, FatesTrue
<1>6. \A f \in ingest.kept : /\ ingest'.fate[f] \in Fates.plan
                             /\ ingest'.fate[f] = "nonmib" => ingest.fate[f] = "nonmib"
  BY <1>1, <1>2, <1>3, <1>4, <1>5 DEF Judged, Fates, Skipped, Run
<1> QED BY <1>1, <1>4, <1>5, <1>6, SMTT(60)
        DEF ExitInv, WalkedKnown, CopiesGone, FatesTrue, Judged, Unmarked, Present

LEMMA PlanExit ==
  ASSUME IngestInv, ExitInv, PlanMoves, ingest' # NoRun
  PROVE  ExitInv'
<1> DEFINE parsed == {f \in ingest.kept : ingest.fate[f] = "parsed"}
<1>1. ingest \in Run /\ ingest # NoRun /\ ingest.step = "plan" /\ tree' = tree /\ ~ingest.dry
  BY PlacesFacts DEF PlanMoves, IngestInv, IngestType
<1>2. /\ ingest'.step = "move" /\ ingest'.kept = ingest.kept /\ ingest'.walked = ingest.walked
      /\ ingest'.dups = ingest.dups /\ ingest'.dry = ingest.dry
      /\ ingest'.todo = {f \in parsed : ~Taken(f)}
      /\ ingest'.fate = [f \in Dropped |-> IF f \in parsed /\ Taken(f) THEN "refused" ELSE ingest.fate[f]]
  BY <1>1 DEF PlanMoves, Run
<1>3. \A f \in ingest.kept : ingest'.fate[f] = IF f \in parsed /\ Taken(f) THEN "refused" ELSE ingest.fate[f]
  BY <1>1, <1>2 DEF Run
<1>4. Judged(Fates.plan) /\ Unmarked BY <1>1 DEF ExitInv, FatesTrue
<1>5. Judged(Fates.move)' /\ Unmarked' /\ Settled'
  BY <1>1, <1>2, <1>3, <1>4 DEF Judged, Unmarked, Settled, Fates, Skipped
<1> QED BY <1>1, <1>2, <1>5 DEF ExitInv, WalkedKnown, CopiesGone, FatesTrue, Present

LEMMA LookExit ==
  ASSUME IngestInv, ExitInv, LookAgain
  PROVE  ExitInv'
<1> DEFINE f == Lowest(ingest.todo)
<1>1. ingest \in Run /\ ingest # NoRun /\ ingest.step = "move" /\ tree' = tree
  BY PlacesFacts DEF LookAgain, IngestInv, IngestType
<1>2. f \in Dropped BY <1>1, LowestIn DEF LookAgain, Run
<1>3. Judged(Fates.move) /\ Unmarked /\ Settled /\ ~ingest.dry BY <1>1 DEF ExitInv, FatesTrue
<1>4. CASE Taken(f)
  <2>1. /\ ingest'.step = "move" /\ ingest'.kept = ingest.kept /\ ingest'.walked = ingest.walked
        /\ ingest'.dups = ingest.dups /\ ingest'.dry = ingest.dry /\ ingest'.todo = ingest.todo \ {f}
        /\ ingest'.fate = [ingest.fate EXCEPT ![f] = "refused"]
    BY <1>1, <1>4 DEF LookAgain, Run
  <2>2. \A g \in ingest.kept : ingest'.fate[g] = IF g = f THEN "refused" ELSE ingest.fate[g]
    BY <1>1, <1>2, <2>1 DEF Run
  <2> HIDE DEF f
  <2>3. Judged(Fates.move)' /\ Unmarked' /\ Settled'
    BY <1>1, <1>3, <2>1, <2>2 DEF Judged, Unmarked, Settled, Fates, Present
  <2> QED BY <1>1, <1>3, <2>1, <2>3 DEF ExitInv, WalkedKnown, CopiesGone, FatesTrue, Present
<1>5. CASE ~Taken(f)
  <2>1. /\ ingest'.step = "rename" /\ ingest'.kept = ingest.kept /\ ingest'.walked = ingest.walked
        /\ ingest'.dups = ingest.dups /\ ingest'.dry = ingest.dry /\ ingest'.todo = ingest.todo
        /\ ingest'.fate = ingest.fate
    BY <1>1, <1>5 DEF LookAgain, Run
  <2> QED BY <1>1, <1>3, <2>1
          DEF ExitInv, WalkedKnown, CopiesGone, FatesTrue, Judged, Unmarked, Settled, Present
<1> QED BY <1>4, <1>5

LEMMA RenameExit ==
  ASSUME IngestInv, IngestInv', ExitInv, RenameFile
  PROVE  ExitInv'
<1> DEFINE f == Lowest(ingest.todo)
           p == Dst(f, ingest.item[f])
<1>1. ingest \in Run /\ ingest # NoRun /\ ingest.step = "rename"
  BY PlacesFacts DEF RenameFile, IngestInv, IngestType
<1>2. f \in ingest.todo /\ f \in Dropped BY <1>1, LowestIn DEF IngestInv, MovesSound, Run
<1>3. \A g \in Dropped : tree'[In(g)] \in {Gone, tree[In(g)]}
  BY <1>1, OnlyLosses DEF IngestNext
<1>4. p # In(f)
  <2>1. ingest.item[f] \in Mib /\ Parses(ingest.item[f])
    BY <1>1, <1>2, IngestAssumption DEF IngestInv, MovesSound, Parses
  <2> QED BY <1>2, <2>1, DstCurated
<1>5. tree' = [tree EXCEPT ![In(f)] = Gone, ![p] = tree[In(f)]] BY DEF RenameFile
<1>6. /\ ingest'.step = "move" /\ ingest'.kept = ingest.kept /\ ingest'.walked = ingest.walked
      /\ ingest'.dups = ingest.dups /\ ingest'.dry = ingest.dry /\ ingest'.todo = ingest.todo \ {f}
      /\ ingest'.fate = [ingest.fate EXCEPT ![f] = "moved"]
  BY <1>1 DEF RenameFile, Run
<1>7. \A g \in ingest.kept : ingest'.fate[g] = IF g = f THEN "moved" ELSE ingest.fate[g]
  BY <1>1, <1>2, <1>6 DEF Run
<1> HIDE DEF f, p
<1>8. tree'[In(f)] = Gone BY <1>2, <1>4, <1>5, PlacesFacts DEF IngestInv, IngestType
<1>9. Judged(Fates.move) /\ Unmarked /\ Settled /\ ~ingest.dry BY <1>1 DEF ExitInv, FatesTrue
<1>10. Gone \notin Marker /\ ingest.kept \subseteq Dropped /\ ingest.walked \subseteq Dropped
  BY <1>1, IngestAssumption DEF Run
<1>11. Judged(Fates.move)' /\ Unmarked' /\ Settled'
  BY <1>3, <1>6, <1>7, <1>8, <1>9, <1>10 DEF Judged, Unmarked, Settled, Fates, Present
<1>12. WalkedKnown' /\ CopiesGone'
  BY <1>1, <1>3, <1>6, <1>10 DEF ExitInv, WalkedKnown, CopiesGone, Present
<1> QED BY <1>6, <1>9, <1>11, <1>12 DEF ExitInv, FatesTrue

LEMMA ExitStep ==
  ASSUME IngestInv, IngestInv', ExitInv, [IngestNext]_ingestVars
  PROVE  ExitInv'
<1>1. CASE UNCHANGED ingest BY <1>1, BesideStep
<1>2. CASE ingest' = NoRun BY <1>2, EndsExit
<1>3. CASE \E collapse, dry \in BOOLEAN : IngestStart(collapse, dry) BY <1>3, StartExit
<1>4. CASE PlanMoves /\ ingest' # NoRun BY <1>4, PlanExit
<1> QED BY <1>1, <1>2, <1>3, <1>4, CollapseExit, ReadExit, CompileExit, LookExit, RenameExit
        DEF IngestNext, ingestVars, ServerTakes, OperatorDrops, CollapseFails, RenameFails, IngestDone,
            IngestKilled

-----------------------------------------------------------------------------
(* The exit itself. *)
LEMMA ExitIsTrue ==
  ASSUME IngestInv, ExitInv, IngestNext, ingest.step \in {"move", "rename"}, ingest' = NoRun,
         verdict'.code \in {"ok", "failed", "fatal"}
  PROVE  Told /\ LeavesNoMIB
<1>1. ingest \in Run /\ ingest # NoRun BY PlacesFacts DEF IngestInv, IngestType
<1>2. IngestDone \/ RenameFails
  <2>1. ~(LookAgain \/ RenameFile \/ \E collapse, dry \in BOOLEAN : IngestStart(collapse, dry))
    <3>1. LookAgain => ingest'.step \in {"move", "rename"} BY <1>1 DEF LookAgain, Run
    <3>2. RenameFile => ingest'.step = "move" BY <1>1 DEF RenameFile, Run
    <3> QED BY <1>1, <3>1, <3>2, PlacesFacts DEF IngestStart
  <2>2. ~IngestKilled BY DEF IngestKilled
  <2>3. ~(\E f \in Dropped : ServerTakes(f) \/ \E c \in Mib : OperatorDrops(f, c))
    BY <1>1 DEF ServerTakes, OperatorDrops
  <2> QED BY <1>1, <2>1, <2>2, <2>3
          DEF IngestNext, CollapseHash, CollapseRemove, CollapseFails, CollapseDone, ReadFiles,
              CompileFiles, PlanMoves
<1>3. Judged(Fates.move) /\ Unmarked /\ Settled /\ ~ingest.dry /\ ingest.dups = {}
  BY DEF ExitInv, FatesTrue, CopiesGone
<1>4. /\ verdict'.left = Listing(ingest) /\ verdict'.more = Cardinality(LeftBehind(ingest) \ Listing(ingest))
      /\ verdict'.code = "ok" => Failures(ingest) = {} /\ ingest.todo = {}
  BY <1>2 DEF IngestDone, RenameFails, Summary
<1>5. \A f \in There(ingest.walked) :
        f \in ingest.kept /\ (f \in ingest.todo \/ ingest.fate[f] \in {"budget", "broken", "refused"} \cup Skipped)
  BY <1>1, <1>3 DEF There, Present, ExitInv, WalkedKnown, Judged, Settled, Fates, Skipped
<1>6. There(ingest.walked) \subseteq LeftBehind(ingest) \cup ingest.todo
  BY <1>5 DEF LeftBehind, Skipped
<1>7. Told
  <2> DEFINE kept == LeftBehind(ingest) \ Listing(ingest)
             untold == There(ingest.walked) \ (Listing(ingest) \cup ingest.todo)
  <2>1. untold \subseteq kept BY <1>6
  <2>2. IsFiniteSet(kept)
    <3>1. kept \in SUBSET Dropped BY <1>1 DEF LeftBehind, Run
    <3> QED BY <3>1, IngestAssumption, FS_Subset
  <2>3. Cardinality(untold) <= Cardinality(kept) BY <2>1, <2>2, FS_Subset
  <2> QED BY <1>4, <2>3 DEF Told
<1>8. LeavesNoMIB
  BY <1>3, <1>4, <1>5 DEF LeavesNoMIB, Failures, Unmarked, Skipped
<1> QED BY <1>7, <1>8

(* An exit code 0 and the list of files left behind are true of the drop   *)
(* folder, for any files and contents, with copies collapsed, files that   *)
(* cannot be read, a server that empties the same folder, a compile bound, *)
(* renames that fail and a list that is cut off at any length              *)
(* (classifyFiles, applyMoves, printSummary, ingest.go:216-233).           *)
THEOREM ExitsTruthfully == IngestSpec => ExitTruthful
<1>1. IngestInit => ExitInv
  BY PlacesFacts DEF IngestInit, ExitInv, WalkedKnown, CopiesGone, FatesTrue, NoRun
<1>2. IngestInv /\ [IngestNext]_ingestVars => IngestInv'
  BY IngestStep
<1>3. IngestInv /\ IngestInv' /\ ExitInv /\ [IngestNext]_ingestVars => ExitInv'
  BY ExitStep
<1>4. IngestInv /\ ExitInv /\ [IngestNext]_ingestVars =>
        [ingest.step \in {"move", "rename"} /\ ingest' = NoRun /\ verdict'.code \in {"ok", "failed", "fatal"} =>
           Told /\ LeavesNoMIB]_ingestVars
  BY ExitIsTrue
<1> QED BY <1>1, <1>2, <1>3, <1>4, IngestInitInv, PTL DEF IngestSpec, ExitTruthful

-----------------------------------------------------------------------------
(* What mib-ingest --report names.                                         *)

(* A file of the corpus lies where its own module belongs; only files that *)
(* the run kept wait to be moved.                                          *)
CuratedPlaced ==
  \A p \in Curated : tree[p] # Gone => /\ Parses(tree[p])
                                      /\ \E g \in Dropped : p = Dst(g, tree[p])
TodoKept == ingest.step \in {"move", "rename"} => ingest.todo \subseteq ingest.kept
PlacedInv == CuratedPlaced /\ TodoKept

LEMMA PlacedByMove ==
  ASSUME IngestInv, PlacedInv, NEW f \in Dropped, NEW c \in Mib, Parses(c),
         tree' = [tree EXCEPT ![In(f)] = Gone, ![Dst(f, c)] = c]
  PROVE  CuratedPlaced'
<1> DEFINE p == Dst(f, c)
<1>1. \A g : p # In(g) BY DstCurated
<1>2. tree' = [tree EXCEPT ![In(f)] = Gone, ![p] = c] OBVIOUS
<1>3. \A q \in Places : tree'[q] = IF q = p THEN c ELSE IF q = In(f) THEN Gone ELSE tree[q]
  BY <1>1, <1>2 DEF IngestInv, IngestType
<1>4. p = Dst(f, c) OBVIOUS
<1> HIDE DEF p
<1> SUFFICES ASSUME NEW q \in Curated, tree'[q] # Gone
             PROVE  Parses(tree'[q]) /\ \E g \in Dropped : q = Dst(g, tree'[q])
  BY DEF CuratedPlaced
<1>5. CASE q = p BY <1>3, <1>4, <1>5, PlacesFacts
<1>6. CASE q # p
  <2>1. tree'[q] = tree[q] BY <1>3, <1>6, PlacesFacts
  <2> QED BY <2>1 DEF PlacedInv, CuratedPlaced
<1> QED BY <1>5, <1>6

LEMMA CuratedStep ==
  ASSUME IngestInv, IngestInv', PlacedInv, [IngestNext]_ingestVars
  PROVE  CuratedPlaced'
<1>1. CASE UNCHANGED tree BY <1>1 DEF PlacedInv, CuratedPlaced
<1>2. CASE \E f \in Dropped : ServerTakes(f)
  <2>1. PICK f \in Dropped : ServerTakes(f) BY <1>2
  <2>2. tree[In(f)] \in Mib /\ Parses(tree[In(f)])
    BY <2>1, PlacesFacts DEF ServerTakes, IngestInv, IngestType
  <2>3. tree' = [tree EXCEPT ![In(f)] = Gone, ![Dst(f, tree[In(f)])] = tree[In(f)]]
    BY <2>1 DEF ServerTakes
  <2> QED BY <2>2, <2>3, PlacedByMove
<1>3. CASE CollapseRemove
  <2>1. tree' = [tree EXCEPT ![In(Lowest(ingest.dups))] = Gone] BY <1>3 DEF CollapseRemove
  <2>2. \A q \in Curated : tree'[q] \in {Gone, tree[q]}
    BY <2>1, PlacesFacts DEF IngestInv, IngestType
  <2> QED BY <2>2 DEF PlacedInv, CuratedPlaced
<1>4. CASE RenameFile
  <2>0. PICK f : f = Lowest(ingest.todo) OBVIOUS
  <2>1. ingest \in Run /\ ingest.step = "rename"
    BY <1>4, PlacesFacts DEF RenameFile, IngestInv, IngestType
  <2>2. f \in ingest.kept /\ f \in Dropped
    BY <2>0, <2>1, LowestIn DEF IngestInv, MovesSound, Run, PlacedInv, TodoKept
  <2>3. /\ tree[In(f)] # Gone
        /\ tree' = [tree EXCEPT ![In(f)] = Gone, ![Dst(f, ingest.item[f])] = tree[In(f)]]
    BY <1>4, <2>0 DEF RenameFile
  <2>4. tree[In(f)] = ingest.item[f]
    <3>1. f \in ingest.todo BY <2>0, <2>1, LowestIn DEF IngestInv, MovesSound, Run
    <3>2. ingest.item[f] # Gone
      BY <2>1, <3>1, IngestAssumption DEF IngestInv, MovesSound, Parses
    <3> QED BY <2>1, <2>2, <2>3, <3>2 DEF IngestInv, ItemsCurrent
  <2>5. tree[In(f)] \in Mib /\ Parses(tree[In(f)])
    BY <2>0, <2>1, <2>3, <2>4, <2>2, LowestIn, PlacesFacts DEF IngestInv, IngestType, MovesSound, Run
  <2> QED BY <2>2, <2>3, <2>4, <2>5, PlacedByMove
<1>5. CASE \E f \in Dropped, c \in Mib : OperatorDrops(f, c)
  <2>1. PICK f \in Dropped, c \in Mib : OperatorDrops(f, c) BY <1>5
  <2>2. \A q \in Curated : q # In(f) /\ q \in Places
    <3>1. \A q \in Curated : q # In(f) BY NotImport DEF Curated, Dst
    <3> QED BY <3>1, PlacesFacts
  <2>3. \A q \in Curated : tree'[q] = tree[q]
    BY <2>1, <2>2 DEF OperatorDrops, IngestInv, IngestType
  <2> QED BY <2>3 DEF PlacedInv, CuratedPlaced
<1> QED BY <1>1, <1>2, <1>3, <1>4, <1>5
        DEF IngestNext, ingestVars, IngestStart, CollapseHash, CollapseFails, CollapseDone, ReadFiles,
            CompileFiles, PlanMoves, LookAgain, RenameFails, IngestDone, IngestKilled

LEMMA TodoStep ==
  ASSUME IngestInv, IngestInv', PlacedInv, [IngestNext]_ingestVars
  PROVE  TodoKept'
<1> SUFFICES ASSUME ingest'.step \in {"move", "rename"} PROVE ingest'.todo \subseteq ingest'.kept
  BY DEF TodoKept
<1>0. ingest' \in Run /\ ingest' # NoRun BY PlacesFacts DEF IngestInv, IngestType
<1>1. CASE UNCHANGED ingest BY <1>1, SMTT(60) DEF PlacedInv, TodoKept
<1>2. CASE PlanMoves
  <2>1. ingest \in Run BY <1>2, PlacesFacts DEF PlanMoves, IngestInv, IngestType
  <2> QED BY <1>0, <1>2, <2>1 DEF PlanMoves, Run
<1>3. CASE LookAgain
  <2>0. PICK f : f = Lowest(ingest.todo) OBVIOUS
  <2>1. ingest \in Run BY <1>3, PlacesFacts DEF LookAgain, IngestInv, IngestType
  <2>2. ingest'.todo \subseteq ingest.todo /\ ingest'.kept = ingest.kept /\ ingest.step = "move"
    <3>1. CASE Taken(f)
      <4>1. ingest' = [ingest EXCEPT !.todo = @ \ {f}, !.fate[f] = "refused"] BY <1>3, <2>0, <3>1 DEF LookAgain
      <4> QED BY <1>3, <2>1, <4>1 DEF LookAgain, Run
    <3>2. CASE ~Taken(f)
      <4>1. ingest' = [ingest EXCEPT !.step = "rename"] BY <1>3, <2>0, <3>2 DEF LookAgain
      <4> QED BY <1>3, <2>1, <4>1 DEF LookAgain, Run
    <3> QED BY <3>1, <3>2
  <2> QED BY <2>2 DEF PlacedInv, TodoKept
<1>4. CASE RenameFile
  <2>0. PICK f : f = Lowest(ingest.todo) OBVIOUS
  <2>1. ingest \in Run /\ ingest.step = "rename"
    BY <1>4, PlacesFacts DEF RenameFile, IngestInv, IngestType
  <2>2. PICK failed \in BOOLEAN :
          ingest' = [ingest EXCEPT !.step = "move", !.todo = @ \ {f}, !.fate[f] = "moved",
                                   !.gitFailed = @ \/ failed]
    BY <1>4, <2>0 DEF RenameFile
  <2>3. ingest'.todo \subseteq ingest.todo /\ ingest'.kept = ingest.kept BY <2>1, <2>2 DEF Run
  <2> QED BY <2>1, <2>3 DEF PlacedInv, TodoKept
<1>5. ~(CollapseHash \/ CollapseRemove \/ CollapseDone \/ ReadFiles \/ CompileFiles)
  <2>1. (CollapseHash \/ CollapseRemove \/ CollapseDone \/ ReadFiles \/ CompileFiles) => ingest \in Run
    BY PlacesFacts DEF CollapseHash, CollapseRemove, CollapseDone, ReadFiles, CompileFiles, IngestInv, IngestType
  <2>2. CollapseHash => ingest'.step \in {"remove", "read"} BY <2>1 DEF CollapseHash, Run
  <2>3. CollapseRemove => ingest'.step = "remove" BY <2>1 DEF CollapseRemove, Run
  <2>4. CollapseDone => ingest'.step = "read" BY <2>1 DEF CollapseDone, Run
  <2>5. ReadFiles => ingest'.step = "compile" BY <2>1 DEF ReadFiles, Run
  <2>6. CompileFiles => ingest'.step = "plan"
    <3> SUFFICES ASSUME CompileFiles PROVE ingest'.step = "plan" OBVIOUS
    <3>1. PICK fate : ingest' = [ingest EXCEPT !.step = "plan", !.fate = fate] BY Zenon DEF CompileFiles
    <3> QED BY <2>1, <3>1 DEF Run
  <2> QED BY <2>2, <2>3, <2>4, <2>5, <2>6
<1>6. ~\E collapse, dry \in BOOLEAN : IngestStart(collapse, dry) BY DEF IngestStart
<1> QED BY <1>0, <1>1, <1>2, <1>3, <1>4, <1>5, <1>6
        DEF IngestNext, ingestVars, ServerTakes, OperatorDrops, CollapseFails, RenameFails, IngestDone,
            IngestKilled

(* Two results of one key are in a group, which is big enough to be said.  *)
LEMMA InGroup ==
  ASSUME NEW key, NEW r \in DOMAIN key, NEW s \in DOMAIN key, r # s, key[r] = key[s],
         IsFiniteSet(DOMAIN key)
  PROVE  {t \in DOMAIN key : key[t] = key[r]} \in Groups(key)
<1> DEFINE g == {t \in DOMAIN key : key[t] = key[r]}
<1>1. IsFiniteSet(g) BY FS_Subset
<1>2. {r, s} \subseteq g OBVIOUS
<1>3. Cardinality({r, s}) = 2
  <2>1. IsFiniteSet({r}) /\ Cardinality({r}) = 1 BY FS_Singleton
  <2>2. {r, s} = {r} \cup {s} /\ s \notin {r} OBVIOUS
  <2>3. Cardinality({r} \cup {s}) = Cardinality({r}) + 1 BY <2>1, <2>2, FS_AddElement
  <2> QED BY <2>1, <2>2, <2>3
<1>4. Cardinality(g) \in Nat /\ Cardinality(g) >= 2 BY <1>1, <1>2, <1>3, FS_Subset, FS_CardinalityType
<1>5. g \in {{t \in DOMAIN key : key[t] = key[x]} : x \in DOMAIN key} OBVIOUS
<1> HIDE DEF g
<1> QED BY <1>4, <1>5 DEF Groups, g

(* A parsed file is named when the corpus has its module, and when another *)
(* parsed file is of the same module.                                      *)
LEMMA CorpusNames ==
  ASSUME NEW results, NEW corpus, NEW r \in results, r.outcome = "parsed", r.module \in DOMAIN corpus
  PROVE  \E x \in Findings(results, corpus) : r.src \in x.sources
<1> DEFINE parsed == {s \in results : s.outcome = "parsed"}
           x == Say("corpus-collision",
                    IF CollisionLabel(r.updated, corpus[r.module]) = "same-revision" THEN "info" ELSE "warn", {r})
<1>1. x \in CorpusCollisions(parsed, corpus) BY DEF CorpusCollisions
<1>2. r.src \in x.sources BY DEF Say, Sources
<1> QED BY <1>1, <1>2 DEF Findings

LEMMA ClashNames ==
  ASSUME NEW results, NEW corpus, IsFiniteSet(results), NEW r \in results, NEW s \in results, r # s,
         r.outcome = "parsed", s.outcome = "parsed", r.module = s.module
  PROVE  \E x \in Findings(results, corpus) : r.src \in x.sources
<1> DEFINE parsed == {t \in results : t.outcome = "parsed"}
<1>1. IsFiniteSet(parsed) /\ r \in parsed /\ s \in parsed BY FS_Subset
<1> HIDE DEF parsed
<1>2. CASE \E t \in parsed : t # r /\ t.item = r.item
  <2>1. PICK t \in parsed : t # r /\ t.item = r.item BY <1>2
  <2> DEFINE key == [u \in parsed |-> u.item]
             g == {u \in DOMAIN key : key[u] = key[r]}
  <2>2. g \in Groups(key) BY <1>1, <2>1, InGroup
  <2>3. r \in g BY <1>1
  <2>4. Say("byte-identical", "info", g) \in ByteIdentical(parsed) BY <2>2 DEF ByteIdentical
  <2>5. r.src \in Say("byte-identical", "info", g).sources BY <2>3 DEF Say, Sources
  <2> QED BY <2>4, <2>5 DEF Findings, parsed
<1>3. CASE ~\E t \in parsed : t # r /\ t.item = r.item
  <2> DEFINE key == [u \in parsed |-> u.module]
             g == {u \in DOMAIN key : key[u] = key[r]}
  <2>2. g \in Groups(key) BY <1>1, InGroup
  <2>3. r \in g /\ s \in g BY <1>1
  <2>4. ~ShareOneItem(g) BY <1>1, <1>3, <2>3 DEF ShareOneItem
  <2>5. Say("module-name-collision", "warn", g) \in ModuleNameCollisions(parsed)
    BY <2>2, <2>4 DEF ModuleNameCollisions
  <2>6. r.src \in Say("module-name-collision", "warn", g).sources BY <2>3 DEF Say, Sources
  <2> QED BY <2>5, <2>6 DEF Findings, parsed
<1> QED BY <1>2, <1>3

LEMMA LeftNames ==
  ASSUME NEW results, NEW corpus, NEW r \in results, r.outcome \in {"broken"} \cup Skipped
  PROVE  \E x \in Findings(results, corpus) : r.src \in x.sources
<1> DEFINE left == results \ {s \in results : s.outcome = "parsed"}
<1>1. r \in left BY DEF Skipped
<1> HIDE DEF left
<1>2. CASE r.outcome = "broken"
  <2>1. Say("broken", "warn", {r}) \in BrokenAndNonMIB(left) BY <1>1, <1>2 DEF BrokenAndNonMIB
  <2>2. r.src \in Say("broken", "warn", {r}).sources BY DEF Say, Sources
  <2> QED BY <2>1, <2>2 DEF Findings, left
<1>3. CASE r.outcome \in Skipped
  <2>1. Say("non-mib", "info", {r}) \in BrokenAndNonMIB(left) BY <1>1, <1>3 DEF BrokenAndNonMIB, Skipped
  <2>2. r.src \in Say("non-mib", "info", {r}).sources BY DEF Say, Sources
  <2> QED BY <2>1, <2>2 DEF Findings, left
<1> QED BY <1>2, <1>3

(* A place outside unsorted/ ends in the name of its module. *)
LEMMA PlaceTells ==
  ASSUME NEW m, NEW b, IngestPlace(m, b)[1] # "unsorted"
  PROVE  IngestPlace(m, b)[Len(IngestPlace(m, b))] = m.name
<1>1. Classification(m) \in {Unsorted, Ietf(m.name), VendorDir(m.oid[Len(Vendor) + 1]),
                            [dir |-> <<"iana">>, confidence |-> "high"],
                            [dir |-> <<"experimental">>, confidence |-> "high"]}
  BY Zenon DEF Classification
<1>2. CASE Classification(m) = Unsorted BY <1>2 DEF IngestPlace, Unsorted
<1>3. CASE Classification(m) = Ietf(m.name) BY <1>3 DEF IngestPlace, Ietf
<1>4. CASE Classification(m) = VendorDir(m.oid[Len(Vendor) + 1]) BY <1>4 DEF IngestPlace, VendorDir
<1>5. ASSUME NEW root \in {"iana", "experimental"},
             Classification(m) = [dir |-> <<root>>, confidence |-> "high"]
      PROVE  IngestPlace(m, b)[Len(IngestPlace(m, b))] = m.name
  BY <1>5 DEF IngestPlace
<1> QED BY <1>1, <1>2, <1>3, <1>4, <1>5

LEMMA SamePlaceSameModule ==
  ASSUME NEW f, NEW c, NEW g, NEW d, Dst(f, c) = Dst(g, d), Dst(f, c)[1] # "unsorted"
  PROVE  Makes[c].name = Makes[d].name
BY PlaceTells DEF Dst

LEMMA ReportTells ==
  ASSUME IngestInv, ExitInv, PlacedInv
  PROVE  ReportNames
<1> DEFINE result(f) == [src |-> f, outcome |-> ingest.fate[f], item |-> ingest.item[f],
                         module |-> IF ingest.fate[f] = "parsed" THEN Makes[ingest.item[f]].name ELSE "none",
                         oid |-> IF ingest.fate[f] = "parsed" THEN Makes[ingest.item[f]].oid ELSE <<>>,
                         updated |-> IF ingest.fate[f] = "parsed" THEN Updated(ingest.item[f]) ELSE NoDate]
           results == {result(f) : f \in ingest.kept}
           named(corpus) == UNION {x.sources : x \in Findings(results, corpus)}
           parsed == {f \in ingest.kept : ingest.fate[f] = "parsed"}
           clash(f) == \E g \in parsed : g < f /\ Dst(g, ingest.item[g]) = Dst(f, ingest.item[f])
           indexed(f, corpus) == Taken(f) /\ Makes[tree[Dst(f, ingest.item[f])]].name \in DOMAIN corpus
<1> SUFFICES ASSUME ingest.step = "plan", NEW corpus \in Catalogs
             PROVE  /\ \A f \in ingest.kept \ parsed : f \in named(corpus) \/ Actionable(results, corpus)
                    /\ \A f \in {g \in parsed : Dst(g, ingest.item[g])[1] # "unsorted"} :
                         indexed(f, corpus) \/ clash(f) => f \in named(corpus)
  BY Zenon DEF ReportNames
<1>1. ingest \in Run BY PlacesFacts DEF IngestInv, IngestType
<1>2. \A f \in ingest.kept : ingest.fate[f] \in {"budget", "broken", "parsed"} \cup Skipped
  BY DEF ExitInv, FatesTrue, Judged, Fates
<1>3. \A f \in parsed : f \in Dropped /\ ingest.item[f] \in Mib /\ Parses(ingest.item[f])
  BY <1>1, IngestAssumption DEF Run, IngestInv, ItemsCurrent, Parses
<1>4. IsFiniteSet(results)
  <2>1. IsFiniteSet(ingest.kept) BY <1>1, IngestAssumption, FS_Subset DEF Run
  <2>2. [f \in ingest.kept |-> result(f)] \in Surjection(ingest.kept, results)
    BY Zenon DEF Surjection
  <2> QED BY <2>1, <2>2, FS_Surjection
<1>5. /\ \A f : result(f).src = f /\ result(f).outcome = ingest.fate[f]
      /\ \A f \in parsed : result(f).module = Makes[ingest.item[f]].name
      /\ \A f \in ingest.kept : result(f) \in results
  OBVIOUS
<1>7. \A f : f \in named(corpus) <=> \E x \in Findings(results, corpus) : f \in x.sources OBVIOUS
<1> HIDE DEF result, results, named
<1>8. ASSUME NEW f \in ingest.kept \ parsed PROVE f \in named(corpus) \/ Actionable(results, corpus)
  <2>1. CASE ingest.fate[f] = "budget"
    BY <2>1, <1>5 DEF Actionable
  <2>2. CASE ingest.fate[f] \in {"broken"} \cup Skipped
    <3>1. result(f) \in results /\ result(f).outcome \in {"broken"} \cup Skipped BY <2>2, <1>5
    <3>2. \E x \in Findings(results, corpus) : result(f).src \in x.sources BY <3>1, LeftNames
    <3> QED BY <3>2, <1>5, <1>7
  <2> QED BY <1>2, <2>1, <2>2
<1>9. ASSUME NEW f \in parsed, Dst(f, ingest.item[f])[1] # "unsorted", indexed(f, corpus)
      PROVE  f \in named(corpus)
  <2>0. PICK p : p = Dst(f, ingest.item[f]) OBVIOUS
  <2>1. p \in Curated /\ tree[p] # Gone /\ Makes[tree[p]].name \in DOMAIN corpus
    BY <1>3, <1>9, <2>0, DstCurated DEF Taken
  <2>2. PICK g \in Dropped : p = Dst(g, tree[p]) BY <2>1 DEF PlacedInv, CuratedPlaced
  <2>3. Makes[tree[p]].name = Makes[ingest.item[f]].name BY <1>9, <2>0, <2>2, SamePlaceSameModule
  <2>4. result(f).module \in DOMAIN corpus BY <1>5, <2>1, <2>3
  <2>5. result(f) \in results /\ result(f).outcome = "parsed" BY <1>5
  <2>6. \E x \in Findings(results, corpus) : result(f).src \in x.sources BY <2>4, <2>5, CorpusNames
  <2> QED BY <2>6, <1>5, <1>7
<1>10. ASSUME NEW f \in parsed, Dst(f, ingest.item[f])[1] # "unsorted", clash(f) PROVE f \in named(corpus)
  <2>1. PICK g \in parsed : g < f /\ Dst(g, ingest.item[g]) = Dst(f, ingest.item[f]) BY <1>10
  <2>2. g # f
    <3>1. f \in Dropped /\ g \in Dropped BY <1>3
    <3>2. f \in Nat /\ g \in Nat BY <3>1, IngestAssumption
    <3> HIDE DEF parsed
    <3> QED BY <2>1, <3>2
  <2>3. result(f) # result(g) BY <2>2, <1>5
  <2>4. result(f).module = result(g).module BY <1>5, <1>10, <2>1, SamePlaceSameModule
  <2>5. /\ result(f) \in results /\ result(f).outcome = "parsed"
        /\ result(g) \in results /\ result(g).outcome = "parsed"
    BY <1>5
  <2>6. \E x \in Findings(results, corpus) : result(f).src \in x.sources
    BY <1>4, <2>3, <2>4, <2>5, ClashNames
  <2> QED BY <2>6, <1>5, <1>7
<1> QED BY <1>8, <1>9, <1>10

(* The report names every file that the run is about to leave behind for a *)
(* reason it can know, for any files, contents, routing rules and index,   *)
(* current or not, with copies collapsed or not and a server that empties  *)
(* the same folder (collectReportFindings, LoadCorpusIndex).               *)
THEOREM ReportsName == IngestSpec => []ReportNames
<1>1. IngestInit => ExitInv
  BY PlacesFacts DEF IngestInit, ExitInv, WalkedKnown, CopiesGone, FatesTrue, NoRun
<1>2. IngestInit => PlacedInv
  BY PlacesFacts DEF IngestInit, PlacedInv, CuratedPlaced, TodoKept
<1>3. IngestInv /\ [IngestNext]_ingestVars => IngestInv'
  BY IngestStep
<1>4. IngestInv /\ IngestInv' /\ ExitInv /\ [IngestNext]_ingestVars => ExitInv'
  BY ExitStep
<1>5. IngestInv /\ IngestInv' /\ PlacedInv /\ [IngestNext]_ingestVars => PlacedInv'
  BY CuratedStep, TodoStep DEF PlacedInv
<1>6. IngestInv /\ ExitInv /\ PlacedInv => ReportNames
  BY ReportTells
<1> QED BY <1>1, <1>2, <1>3, <1>4, <1>5, <1>6, IngestInitInv, PTL DEF IngestSpec

-----------------------------------------------------------------------------
(* mib-index: the days in INDEX.yaml last as long as their files are       *)
(* listed.                                                                 *)

(* The days of the index are the first days. *)
Dated(entries) == \A p \in DOMAIN entries \cap DOMAIN listed : entries[p].day = listed[p]

(* The record of a run, and what it has been writing. *)
IndexShape ==
  listing # NoListing =>
    /\ listing = [step |-> listing.step, todo |-> listing.todo, previous |-> listing.previous,
                  entries |-> listing.entries, today |-> listing.today]
    /\ listing.step \in {"walk", "write"}

(* Until it writes, a run and the index agree with the days on record; what*)
(* it is going to write does so all along.                                 *)
IndexInv ==
  /\ IndexShape
  /\ listing # NoListing => Dated(listing.entries)
  /\ listing = NoListing \/ listing.step = "walk" => Dated(index) /\ DOMAIN listed \subseteq DOMAIN index
  /\ listing # NoListing /\ listing.step = "walk" => listing.previous = index

LEMMA NotARun == \A s \in {"walk", "write"} : \A t, p, e, d :
  [step |-> s, todo |-> t, previous |-> p, entries |-> e, today |-> d] # NoListing
<1> SUFFICES ASSUME NEW s \in {"walk", "write"}, NEW t, NEW p, NEW e, NEW d,
                    [step |-> s, todo |-> t, previous |-> p, entries |-> e, today |-> d] = NoListing
             PROVE  FALSE
  OBVIOUS
<1>1. [step |-> s, todo |-> t, previous |-> p, entries |-> e, today |-> d].step = s OBVIOUS
<1>2. NoListing.step = "none" BY DEF NoListing
<1> QED BY <1>1, <1>2

LEMMA IndexInitInv == IndexInit => IndexInv
BY DEF IndexInit, IndexInv, IndexShape, Dated, Unparsable

(* The index that ends a run has the days on record, and they are recorded.*)
LEMMA Recorded ==
  ASSUME NEW entries, Dated(entries), listed' = FirstListed(entries), index' = entries
  PROVE  Dated(index)' /\ DOMAIN listed' \subseteq DOMAIN index'
<1>1. DOMAIN listed' = DOMAIN entries BY DEF FirstListed
<1>2. ASSUME NEW p \in DOMAIN entries PROVE entries[p].day = listed'[p]
  BY <1>2 DEF FirstListed, Dated
<1> QED BY <1>1, <1>2 DEF Dated

LEMMA IndexOutsideStep ==
  ASSUME IndexInv, UNCHANGED <<index, listing, listed>>
  PROVE  IndexInv'
BY DEF IndexInv, IndexShape, Dated

LEMMA IndexStartStep == ASSUME IndexInv, IndexStart PROVE IndexInv'
<1>1. /\ listing' = [step |-> "walk", todo |-> Shelved, previous |-> index, entries |-> Unparsable,
                     today |-> day]
      /\ UNCHANGED <<index, listed>> /\ listing = NoListing
  BY DEF IndexStart
<1>2. Dated(listing.entries)'
  BY <1>1 DEF Dated, Unparsable
<1>3. IndexShape' /\ listing'.step = "walk" /\ listing' # NoListing /\ listing'.previous = index'
  BY <1>1, NotARun DEF IndexShape
<1> QED BY <1>1, <1>2, <1>3 DEF IndexInv, Dated

LEMMA IndexVisitStep ==
  ASSUME IndexInv, NEW p \in Shelved, IndexVisit(p) \/ IndexVisitFails(p)
  PROVE  IndexInv'
<1>1. /\ listing.step = "walk" /\ listing # NoListing /\ UNCHANGED <<index, listed>>
  BY DEF IndexVisit, IndexVisitFails, NoListing
<1>2. listing = [step |-> "walk", todo |-> listing.todo, previous |-> index,
                 entries |-> listing.entries, today |-> listing.today]
  BY <1>1 DEF IndexInv, IndexShape
<1>3. CASE listing' = [listing EXCEPT !.todo = @ \ {p}]
  <2>1. listing' = [step |-> "walk", todo |-> listing.todo \ {p}, previous |-> index,
                    entries |-> listing.entries, today |-> listing.today]
    BY <1>2, <1>3
  <2> QED BY <1>1, <2>1 DEF IndexInv, IndexShape, Dated
<1>4. ASSUME NEW c,
             listing' = [[listing EXCEPT !.todo = @ \ {p}] EXCEPT !.entries = Entered(p, c)]
      PROVE  IndexInv'
  <2>1. listing' = [step |-> "walk", todo |-> listing.todo \ {p}, previous |-> index,
                    entries |-> Entered(p, c), today |-> listing.today]
    <3>1. [listing EXCEPT !.todo = @ \ {p}] =
            [step |-> "walk", todo |-> listing.todo \ {p}, previous |-> index,
             entries |-> listing.entries, today |-> listing.today]
      BY <1>2
    <3> QED BY <1>4, <3>1
  <2>2. p \in DOMAIN listed => AddedIn(p, c) = listed[p]
    BY <1>1, <1>2 DEF IndexInv, Dated, AddedIn
  <2>3. Dated(Entered(p, c))
    BY <1>1, <2>2 DEF IndexInv, Dated, Entered
  <2> QED BY <1>1, <2>1, <2>3 DEF IndexInv, IndexShape, Dated
<1> QED BY <1>3, <1>4 DEF IndexVisit, IndexVisitFails

LEMMA IndexWriteBeginStep == ASSUME IndexInv, WriteBegin PROVE IndexInv'
<1>1. listing.step = "walk" /\ listing # NoListing BY DEF WriteBegin, NoListing
<1>2. CASE listing.entries = index
  <2>1. listing' = NoListing /\ index' = index /\ listed' = FirstListed(index)
    BY <1>2 DEF WriteBegin
  <2>2. Dated(index)' /\ DOMAIN listed' \subseteq DOMAIN index'
    BY <1>1, <2>1, Recorded DEF IndexInv
  <2> QED BY <2>1, <2>2 DEF IndexInv, IndexShape
<1>3. CASE listing.entries # index
  <2>1. listing' = [listing EXCEPT !.step = "write"] /\ listed' = listed
    BY <1>3 DEF WriteBegin
  <2>2. listing' = [step |-> "write", todo |-> listing.todo, previous |-> listing.previous,
                    entries |-> listing.entries, today |-> listing.today]
    BY <1>1, <2>1 DEF IndexInv, IndexShape
  <2> QED BY <1>1, <2>1, <2>2, NotARun DEF IndexInv, IndexShape, Dated
<1> QED BY <1>2, <1>3

LEMMA IndexWriteEndStep == ASSUME IndexInv, WriteEnd PROVE IndexInv'
<1>1. /\ listing # NoListing /\ listing' = NoListing
      /\ index' = listing.entries /\ listed' = FirstListed(listing.entries)
  BY DEF WriteEnd, NoListing
<1>2. Dated(index)' /\ DOMAIN listed' \subseteq DOMAIN index'
  BY <1>1, Recorded DEF IndexInv
<1> QED BY <1>1, <1>2 DEF IndexInv, IndexShape

LEMMA IndexKilledStep == ASSUME IndexInv, IndexKilled PROVE IndexInv'
<1>1. listing # NoListing /\ listing' = NoListing BY DEF IndexKilled
<1>2. CASE listing.step = "write"
  <2>1. PICK S \in SUBSET DOMAIN listing.entries :
          index' = Keep(listing.entries, S) /\ listed' = FirstListed(Keep(listing.entries, S))
    BY <1>2 DEF IndexKilled
  <2>2. Dated(Keep(listing.entries, S))
    BY <1>1 DEF IndexInv, Dated, Keep
  <2>3. Dated(index)' /\ DOMAIN listed' \subseteq DOMAIN index'
    BY <2>1, <2>2, Recorded
  <2> QED BY <1>1, <2>3 DEF IndexInv, IndexShape
<1>3. CASE listing.step # "write"
  <2>1. listing.step = "walk" /\ UNCHANGED <<index, listed>>
    BY <1>1, <1>3 DEF IndexKilled, IndexInv, IndexShape
  <2> QED BY <1>1, <2>1 DEF IndexInv, IndexShape, Dated
<1> QED BY <1>2, <1>3

(* In every index that a run leaves, whole or cut short, a file that was   *)
(* listed without a gap has the day of its first listing, for any paths,   *)
(* contents and number of runs (buildEntry index.go:224-228).              *)
THEOREM DatesAreKept == IndexSpec => []DatesKept
<1>1. IndexInv /\ [IndexNext]_indexVars => IndexInv'
  <2> SUFFICES ASSUME IndexInv, [IndexNext]_indexVars PROVE IndexInv' OBVIOUS
  <2>1. CASE Tomorrow \/ \E p \in Shelved : RemoveFile(p) \/ \E c \in Texts : AddFile(p, c)
    BY <2>1, IndexOutsideStep DEF Tomorrow, RemoveFile, AddFile
  <2>2. CASE \E p \in Shelved : IndexVisit(p) \/ IndexVisitFails(p)
    BY <2>2, IndexVisitStep
  <2>3. CASE UNCHANGED indexVars
    BY <2>3, IndexOutsideStep DEF indexVars
  <2> QED BY <2>1, <2>2, <2>3, IndexStartStep, IndexWriteBeginStep, IndexWriteEndStep, IndexKilledStep DEF IndexNext
<1>2. IndexInv => DatesKept
  BY DEF IndexInv, Dated, DatesKept
<1> QED BY <1>1, <1>2, IndexInitInv, PTL DEF IndexSpec

-----------------------------------------------------------------------------
(* mib-migrate: an apply that reports nothing skipped and nothing failed   *)
(* did what the plan says.  No place that the maintainer empties may be a  *)
(* destination: a file that another row moved there in the meantime would  *)
(* be taken for the planned one.                                           *)
Destinations ==
  {<<"unsorted", NameAt[p]>> : p \in Source}
    \cup {MigratePlace(Parsed[c], NameAt[p]) : p \in Source, c \in {o \in Opens : Parsed[o] # NoFile}}

Rows == [step : {"rows"}, dry : BOOLEAN, rows : SUBSET DOMAIN plan, skipped : BOOLEAN, failed : BOOLEAN]
Planning == [dst : Destinations \cup {Astray}, item : Blob]
PlanTyped ==
  /\ worktree \in [Place -> Blob \cup {NoFile}]
  /\ DOMAIN plan \subseteq Source
  /\ plan \in [DOMAIN plan -> Planning]
  /\ \A p \in DOMAIN plan : plan[p].dst \in Destinations \cup {Astray} /\ plan[p].item \in Blob
  /\ apply = NoApply \/ (apply \in Rows /\ outcome.step = "none")

(* The rows D whose files have been moved, by this apply or an earlier one.*)
(* A file that was moved to another row's source place stays there: that   *)
(* row has been moved before, so its own destination is occupied.  The     *)
(* other rows' files are in place, or the maintainer removed them.  A row  *)
(* that was spoiled after its file moved leads nowhere, and is skipped.    *)
Honest == apply # NoApply /\ ~apply.dry /\ ~apply.skipped /\ ~apply.failed
Arrived(p) == worktree[plan[p].dst] = plan[p].item
Waiting(p) == worktree[p] = plan[p].item \/ (p \in Removable /\ worktree[p] = NoFile)
Ledger(D) ==
  /\ D \subseteq DOMAIN plan
  /\ \A p \in D : plan[p].dst # Astray => Arrived(p)
  /\ \A p \in D : plan[p].dst \in DOMAIN plan => plan[p].dst \in D
  /\ \A p \in DOMAIN plan \ D : Waiting(p)
  /\ Honest => \A p \in DOMAIN plan \ apply.rows : p \in D /\ plan[p].dst # Astray

MigrateInv == PlanTyped /\ \E D : Ledger(D)

LEMMA InPlace ==
  Destinations \subseteq Place /\ Source \subseteq Place /\ NoFile \notin Blob /\ Astray \notin Place
BY MigrateAssumption DEF Destinations

LEMMA NotApplying == NoApply \notin Rows
<1>1. NoApply.step \notin {"rows"} BY DEF NoApply
<1> QED BY <1>1 DEF Rows

LEMMA MigrateInitInv == MigrateInit => MigrateInv
<1> SUFFICES ASSUME MigrateInit PROVE MigrateInv
  OBVIOUS
<1>1. DOMAIN plan = {} /\ plan \in [DOMAIN plan -> Planning] BY DEF MigrateInit
<1>2. Ledger({}) BY <1>1 DEF MigrateInit, Ledger, Honest
<1> QED BY <1>1, <1>2 DEF MigrateInit, MigrateInv, PlanTyped

LEMMA PlanningStep ==
  ASSUME MigrateInv, PlanMigration
  PROVE  MigrateInv'
<1>1. /\ apply = NoApply /\ UNCHANGED <<worktree, apply, outcome>>
      /\ plan' = [p \in Files |-> [dst |-> Rerouted(p), item |-> worktree[p]]]
  BY DEF PlanMigration
<1>2. \A p \in Files : p \in Source /\ worktree[p] \in Opens /\ worktree[p] \in Blob
  BY MigrateAssumption DEF Files
<1>3. \A p \in Files : Rerouted(p) \in Destinations \cup {Astray}
  <2> SUFFICES ASSUME NEW p \in Files PROVE Rerouted(p) \in Destinations \cup {Astray}
    OBVIOUS
  <2>1. Planned(p) \in Destinations
    BY <1>2 DEF Planned, Destinations
  <2> QED BY <1>2, <2>1 DEF Rerouted, Destinations
<1>4. PlanTyped'
  BY <1>1, <1>2, <1>3 DEF MigrateInv, PlanTyped, Files, Planning
<1>5. Ledger({})'
  BY <1>1 DEF Ledger, Waiting, Honest
<1> QED BY <1>4, <1>5 DEF MigrateInv

LEMMA RemovalStep ==
  ASSUME MigrateInv, Destinations \cap Removable = {}, NEW p \in Place, MaintainerRemoves(p)
  PROVE  MigrateInv'
<1>1. /\ apply = NoApply /\ p \in Removable /\ UNCHANGED <<plan, apply, outcome>>
      /\ worktree' = [worktree EXCEPT ![p] = NoFile]
  BY DEF MaintainerRemoves
<1>2. PlanTyped'
  BY <1>1, InPlace DEF MigrateInv, PlanTyped, Rows
<1>3. PICK D : Ledger(D) BY DEF MigrateInv
<1>4. \A q \in D : plan'[q].dst # Astray => Arrived(q)'
  BY <1>1, <1>3, InPlace DEF Ledger, MigrateInv, PlanTyped, Arrived
<1>5. \A q \in DOMAIN plan \ D : Waiting(q)'
  BY <1>1, <1>3, InPlace DEF Ledger, MigrateInv, PlanTyped, Waiting
<1>6. Ledger(D)'
  BY <1>1, <1>3, <1>4, <1>5 DEF Ledger, Honest
<1> QED BY <1>2, <1>6 DEF MigrateInv

LEMMA SpoilingStep ==
  ASSUME MigrateInv, NEW p \in DOMAIN plan, MaintainerSpoils(p)
  PROVE  MigrateInv'
<1>1. /\ apply = NoApply /\ UNCHANGED <<worktree, apply, outcome>>
      /\ plan' = [plan EXCEPT ![p].dst = Astray]
  BY DEF MaintainerSpoils
<1>2. /\ DOMAIN plan' = DOMAIN plan /\ plan' \in [DOMAIN plan -> Planning]
      /\ \A q \in DOMAIN plan : /\ plan'[q].dst = IF q = p THEN Astray ELSE plan[q].dst
                              /\ plan'[q].item = plan[q].item
  BY <1>1 DEF MigrateInv, PlanTyped, Planning
<1>3. PlanTyped'
  BY <1>1, <1>2 DEF MigrateInv, PlanTyped
<1>4. PICK D : Ledger(D) BY DEF MigrateInv
<1>5. \A q \in D : plan'[q].dst # Astray => Arrived(q)'
  BY <1>1, <1>2, <1>4 DEF Ledger, Arrived
<1>6. \A q \in D : plan'[q].dst \in DOMAIN plan' => plan'[q].dst \in D
  BY <1>2, <1>4, InPlace DEF Ledger, MigrateInv, PlanTyped
<1>7. \A q \in DOMAIN plan' \ D : Waiting(q)'
  BY <1>1, <1>2, <1>4 DEF Ledger, Waiting
<1>8. Ledger(D)'
  BY <1>1, <1>2, <1>4, <1>5, <1>6, <1>7 DEF Ledger, Honest
<1> QED BY <1>3, <1>8 DEF MigrateInv

LEMMA BeginStep ==
  ASSUME MigrateInv, NEW dry \in BOOLEAN, ApplyStart(dry)
  PROVE  MigrateInv'
<1> DEFINE r == [step |-> "rows", dry |-> dry, rows |-> DOMAIN plan, skipped |-> FALSE, failed |-> FALSE]
<1>1. apply' = r /\ outcome'.step = "none" /\ UNCHANGED <<worktree, plan>>
  BY DEF ApplyStart
<1>2. r \in Rows /\ r.rows = DOMAIN plan
  BY DEF Rows
<1> HIDE DEF r
<1>3. PlanTyped'
  BY <1>1, <1>2 DEF MigrateInv, PlanTyped, Rows
<1>4. PICK D : Ledger(D) BY DEF MigrateInv
<1>5. Ledger(D)'
  BY <1>1, <1>2, <1>4 DEF Ledger, Honest, Arrived, Waiting
<1> QED BY <1>3, <1>5 DEF MigrateInv

(* The row that is next is one of the rows. *)
LEMMA RowNext ==
  ASSUME MigrateInv, apply.step = "rows", apply.rows # {}
  PROVE  /\ apply \in Rows /\ NextRow \in apply.rows /\ NextRow \in DOMAIN plan /\ NextRow \in Source
         /\ outcome.step = "none"
<1>1. apply \in Rows /\ outcome.step = "none"
  BY DEF MigrateInv, PlanTyped, NoApply
<1>2. apply.rows \in SUBSET Source
  BY <1>1 DEF MigrateInv, PlanTyped, Rows
<1>3. \E p \in apply.rows : \A q \in apply.rows : FirstRow[p] <= FirstRow[q]
  BY <1>2, MigrateAssumption
<1> QED BY <1>1, <1>2, <1>3 DEF NextRow, Rows

LEMMA UnmovedStep ==
  ASSUME MigrateInv, ApplySkips \/ ApplyFails
  PROVE  MigrateInv'
<1>1. apply.step = "rows" /\ apply.rows # {} /\ UNCHANGED <<worktree, plan, outcome>>
  BY DEF ApplySkips, ApplyFails
<1>2. apply' \in Rows /\ (apply'.skipped \/ apply'.failed)
  <2>1. CASE ApplySkips BY <1>1, <2>1, RowNext DEF ApplySkips, Rows
  <2>2. CASE ApplyFails BY <1>1, <2>2, RowNext DEF ApplyFails, Rows
  <2> QED BY <2>1, <2>2
<1>3. PlanTyped'
  BY <1>1, <1>2, RowNext DEF MigrateInv, PlanTyped, Rows
<1>4. PICK D : Ledger(D) BY DEF MigrateInv
<1>5. Ledger(D)'
  BY <1>1, <1>2, <1>4 DEF Ledger, Honest, Arrived, Waiting
<1> QED BY <1>3, <1>5 DEF MigrateInv

LEMMA MovesStep ==
  ASSUME MigrateInv, Destinations \cap Removable = {}, ApplyMoves
  PROVE  MigrateInv'
<1>0. PICK row : row = NextRow
  OBVIOUS
<1>1. /\ apply.step = "rows" /\ apply.rows # {} /\ UNCHANGED <<plan, outcome>> /\ ~RowSkips(row)
      /\ apply' = [apply EXCEPT !.rows = @ \ {row}]
      /\ apply.dry \/ worktree[row] # NoFile
      /\ worktree' = IF apply.dry THEN worktree
                     ELSE [worktree EXCEPT ![row] = NoFile, ![plan[row].dst] = worktree[row]]
  BY <1>0 DEF ApplyMoves
<1>2. apply \in Rows /\ row \in DOMAIN plan /\ row \in Place /\ row \in apply.rows /\ outcome.step = "none"
  BY <1>0, <1>1, RowNext, InPlace
<1>3. /\ apply' \in Rows /\ apply'.rows = apply.rows \ {row}
      /\ apply'.dry = apply.dry /\ apply'.skipped = apply.skipped /\ apply'.failed = apply.failed
  BY <1>1, <1>2 DEF Rows
<1>4. PICK D : Ledger(D) BY DEF MigrateInv
<1>5. CASE apply.dry
  <2>1. PlanTyped' BY <1>1, <1>2, <1>3, <1>5 DEF MigrateInv, PlanTyped, Rows
  <2>2. Ledger(D)' BY <1>1, <1>3, <1>4, <1>5 DEF Ledger, Honest, Arrived, Waiting
  <2> QED BY <2>1, <2>2 DEF MigrateInv
<1>6. CASE ~apply.dry
  <2>0. PICK dst : dst = plan[row].dst
    OBVIOUS
  <2>1. /\ dst # Astray /\ dst \in Place /\ dst # row /\ worktree[dst] = NoFile /\ worktree[row] # NoFile /\ dst \notin Removable
        /\ worktree' = [worktree EXCEPT ![row] = NoFile, ![dst] = worktree[row]]
    BY <2>0, <1>1, <1>2, <1>6, InPlace DEF MigrateInv, PlanTyped, RowSkips
  <2>2. \A q \in Place : worktree'[q] = IF q = dst THEN worktree[row] ELSE IF q = row THEN NoFile ELSE worktree[q]
    BY <2>1, <1>2 DEF MigrateInv, PlanTyped
  <2>3. worktree' \in [Place -> Blob \cup {NoFile}]
    BY <2>1, <1>2 DEF MigrateInv, PlanTyped
  <2>4. PlanTyped' BY <1>1, <1>2, <1>3, <2>3 DEF MigrateInv, PlanTyped, Rows
  <2>5. \A q \in DOMAIN plan : /\ q \in Place /\ (plan[q].dst # Astray => plan[q].dst \in Place)
                              /\ plan[q].item # NoFile
    BY InPlace DEF MigrateInv, PlanTyped
  <2>6. row \notin D
    BY <2>0, <2>1, <2>5, <1>2, <1>4 DEF Ledger, Arrived
  <2>7. worktree[row] = plan[row].item
    BY <2>1, <2>6, <1>2, <1>4 DEF Ledger, Waiting
  <2>8. dst \in DOMAIN plan => dst \in D
    BY <2>1, <2>5, <1>4 DEF Ledger, Waiting
  <2>9. \A q \in D : plan'[q].dst # Astray => Arrived(q)'
    <3> SUFFICES ASSUME NEW q \in D, plan[q].dst # Astray PROVE Arrived(q)'
      BY <1>1
    <3>1. q \in DOMAIN plan /\ plan[q].dst # row /\ Arrived(q)
      BY <1>2, <1>4, <2>6 DEF Ledger
    <3>2. plan[q].dst # dst
      BY <2>1, <2>5, <3>1 DEF Arrived
    <3> QED BY <1>1, <1>4, <2>2, <2>5, <3>1, <3>2 DEF Ledger, Arrived
  <2>10. Arrived(row)'
    BY <2>0, <1>1, <2>1, <2>2, <2>7 DEF Arrived
  <2>11. \A q \in DOMAIN plan \ (D \cup {row}) : Waiting(q)'
    <3> SUFFICES ASSUME NEW q \in DOMAIN plan \ (D \cup {row}) PROVE Waiting(q)'
      OBVIOUS
    <3>1. Waiting(q) /\ q # dst /\ q # row BY <1>4, <2>8 DEF Ledger
    <3> QED BY <1>1, <2>2, <2>5, <3>1 DEF Waiting
  <2>12. Ledger(D \cup {row})'
    <3>1. D \cup {row} \subseteq DOMAIN plan'
      BY <1>1, <1>2, <1>4 DEF Ledger
    <3>2. \A p \in D \cup {row} : plan'[p].dst \in DOMAIN plan' => plan'[p].dst \in D \cup {row}
      BY <2>0, <1>1, <1>4, <2>8 DEF Ledger
    <3>3. Honest' => \A q \in DOMAIN plan' \ apply'.rows : q \in D \cup {row} /\ plan'[q].dst # Astray
      <4>1. Honest' => Honest BY <1>1, <1>3, NotApplying, <1>2 DEF Honest
      <4> QED BY <2>0, <2>1, <1>1, <1>3, <1>4, <4>1 DEF Ledger
    <3>4. \A q \in DOMAIN plan' \ (D \cup {row}) : Waiting(q)'
      BY <1>1, <2>11
    <3> QED BY <2>9, <2>10, <3>1, <3>2, <3>3, <3>4 DEF Ledger
  <2> QED BY <2>4, <2>12 DEF MigrateInv
<1> QED BY <1>5, <1>6

LEMMA OverStep ==
  ASSUME MigrateInv, ApplyDone \/ ApplyKilled
  PROVE  MigrateInv'
<1>1. apply' = NoApply /\ UNCHANGED <<worktree, plan>>
  BY DEF ApplyDone, ApplyKilled
<1>2. PICK D : Ledger(D) BY DEF MigrateInv
<1>3. Ledger(D)' BY <1>1, <1>2 DEF Ledger, Honest, Arrived, Waiting
<1>4. PlanTyped' BY <1>1 DEF MigrateInv, PlanTyped
<1> QED BY <1>3, <1>4 DEF MigrateInv

(* An apply that reports neither skipped nor failed rows has put every     *)
(* planned file where the plan says, for any tree, plan and sequence of    *)
(* interrupted, dry and repeated applies, as long as the maintainer removes*)
(* no file from a place that is a destination (apply.go:61-125).           *)
THEOREM AppliesAsPlanned ==
  ASSUME Destinations \cap Removable = {}
  PROVE  MigrateSpec => AppliedAsPlanned
<1>1. MigrateInit => MigrateInv
  BY MigrateInitInv
<1>2. MigrateInv /\ [MigrateNext]_migrateVars => MigrateInv'
  <2> SUFFICES ASSUME MigrateInv, [MigrateNext]_migrateVars PROVE MigrateInv'
    OBVIOUS
  <2>1. CASE (\E p \in Place : MaintainerRemoves(p)) \/ \E p \in DOMAIN plan : MaintainerSpoils(p)
    BY <2>1, RemovalStep, SpoilingStep
  <2>2. CASE \E dry \in BOOLEAN : ApplyStart(dry) BY <2>2, BeginStep
  <2>3. CASE UNCHANGED migrateVars
    BY <2>3 DEF migrateVars, MigrateInv, PlanTyped, Rows, Ledger, Honest, Arrived, Waiting
  <2> QED BY <2>1, <2>2, <2>3, PlanningStep, UnmovedStep, MovesStep, OverStep DEF MigrateNext
<1>3. MigrateInv /\ [MigrateNext]_migrateVars =>
        [apply.step = "rows" /\ outcome'.step = "applied" /\ ~outcome'.skipped /\ ~outcome'.failed =>
           \A p \in DOMAIN plan : plan[p].dst # Astray /\ worktree[plan[p].dst] = plan[p].item]_migrateVars
  <2> SUFFICES ASSUME MigrateInv, MigrateNext, apply.step = "rows", outcome'.step = "applied",
                      ~outcome'.skipped, ~outcome'.failed, NEW p \in DOMAIN plan
               PROVE  plan[p].dst # Astray /\ Arrived(p)
    BY DEF Arrived
  <2>1. apply \in Rows /\ apply # NoApply /\ outcome.step = "none"
    BY NotApplying DEF MigrateInv, PlanTyped, NoApply
  <2>2. ApplyDone
    BY <2>1 DEF MigrateNext, PlanMigration, MaintainerRemoves, MaintainerSpoils, ApplyStart, ApplySkips, ApplyMoves,
                ApplyFails, ApplyKilled
  <2>3. apply.rows = {} /\ Honest
    BY <2>1, <2>2 DEF ApplyDone, Honest, Rows
  <2>4. PICK D : Ledger(D) BY DEF MigrateInv
  <2> QED BY <2>3, <2>4 DEF Ledger
<1> QED BY <1>1, <1>2, <1>3, PTL DEF MigrateSpec, AppliedAsPlanned
=============================================================================

-------------------------------- MODULE MibReport --------------------------------
(***************************************************************************)
(* The triage report of mib-ingest --report (cmd/mib-ingest report.go,     *)
(* corpus.go, lastupdated.go): what it says of the classified files.       *)
(*                                                                         *)
(* A result is [src, outcome, item, module, oid, updated]: the path, what  *)
(* classifyFiles made of it ("parsed", "broken", "nonmib", "unread",       *)
(* "budget"), its content, and of a parsed one the module's name, OID and  *)
(* LAST-UPDATED.  A finding is [category, severity, sources].              *)
(***************************************************************************)
EXTENDS Naturals, FiniteSets

NoDate == 0
Sources(rs) == {r.src : r \in rs}
Say(category, severity, rs) == [category |-> category, severity |-> severity, sources |-> Sources(rs)]

(* normalizeLastUpdated: an SMIv1 year below 50 is in this century, else in*)
(* the last one; smidump's date loses its seconds.  Values are counted in  *)
(* minutes; `older` shifts by a century.                                   *)
Normal(raw, century) ==
  CASE raw.form = "v2" -> raw.value
    [] raw.form = "v1" -> IF raw.year < 50 THEN raw.value + century ELSE raw.value
    [] raw.form = "human" -> raw.value \div 60
    [] OTHER -> NoDate

(* Mutant of ShareOneItem: two equal files are enough. *)
ShareTwo(rs) == \E r, s \in rs : r # s /\ r.item = s.item

(* allShareOneSha *)
ShareOneItem(rs) == \A r, s \in rs : r.item = s.item

(* Groups of at least two parsed results with the same key. *)
Groups(key) ==
  {g \in {{s \in DOMAIN key : key[s] = key[r]} : r \in DOMAIN key} : Cardinality(g) > 1}

ByteIdentical(parsed) ==
  {Say("byte-identical", "info", g) : g \in Groups([r \in parsed |-> r.item])}
ModuleNameCollisions(parsed) ==
  {Say("module-name-collision", "warn", g) :
     g \in {h \in Groups([r \in parsed |-> r.module]) : ~ShareOneItem(h)}}
OIDArcSharing(parsed) ==
  LET identified == {r \in parsed : r.oid # <<>>} IN
  {Say("oid-arc-sharing", "warn", g) :
     g \in {h \in Groups([r \in identified |-> r.oid]) : Cardinality({r.module : r \in h}) > 1}}
DivergentIdentity(parsed) ==
  LET dated == {r \in parsed : r.updated # NoDate} IN
  {Say("divergent-identity", "error", g) :
     g \in {h \in Groups([r \in dated |-> <<r.module, r.updated>>]) : ~ShareOneItem(h)}}

(* findCorpusCollisions: `corpus` maps the modules of INDEX.yaml to their  *)
(* LAST-UPDATED; no module if the file cannot be used.                     *)
CollisionLabel(upload, corpus) ==
  CASE upload = NoDate \/ corpus = NoDate -> "unknown"
    [] upload # NoDate /\ upload = corpus -> "same-revision"
    [] OTHER -> IF upload < corpus THEN "corpus-newer" ELSE "corpus-older"
CorpusCollisions(parsed, corpus) ==
  {Say("corpus-collision",
       IF CollisionLabel(r.updated, corpus[r.module]) = "same-revision" THEN "info" ELSE "warn", {r}) :
     r \in {p \in parsed : p.module \in DOMAIN corpus}}

BrokenAndNonMIB(left) ==
  {Say("broken", "warn", {r}) : r \in {x \in left : x.outcome = "broken"}}
  \cup {Say("non-mib", "info", {r}) : r \in {x \in left : x.outcome \in {"nonmib", "unread"}}}

Findings(results, corpus) ==
  LET parsed == {r \in results : r.outcome = "parsed"} IN
  ByteIdentical(parsed) \cup ModuleNameCollisions(parsed) \cup OIDArcSharing(parsed)
    \cup DivergentIdentity(parsed) \cup CorpusCollisions(parsed, corpus)
    \cup BrokenAndNonMIB(results \ parsed)

(* renderReport and the exhausted budget make the exit code. *)
Actionable(results, corpus) ==
  \/ \E f \in Findings(results, corpus) : f.severity # "info"
  \/ \E r \in results : r.outcome = "budget"
=============================================================================

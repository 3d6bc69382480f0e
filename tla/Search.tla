----------------------------------- MODULE Search -----------------------------------
(***************************************************************************)
(* Search requests (internal/server handleSearch, searchWithExactMatch;    *)
(* internal/store search.go): a ranked full-text query, then a second query*)
(* for the symbol that was named exactly, while imports replace modules;   *)
(* and the lookups of the MCP tools (internal/mcptools handlers.go).       *)
(*                                                                         *)
(* A word is a sequence of letters.  A symbol is [id, module, name, oid];  *)
(* its name is the word that is indexed, and a replaced module's symbols   *)
(* get new ids.  A query is [kind, oid], [kind, module, name] or           *)
(* [kind, words], a sequence of words.                                     *)
(***************************************************************************)
EXTENDS Naturals, Sequences, FiniteSets

CONSTANTS
  Shelf,       \* module |-> the sets of [name, oid] it may define
  Queries,
  Separator,   \* the letter that is no word character
  MinToken,    \* minFTSTokenLen
  Listed,      \* the limit of a result list
  Near,        \* pairs of a query and a name at an edit distance of at most 3
  MaxReplaced  \* bound: imports

(* The limits are positive, a module defines finitely many symbols, each   *)
(* name once (the table's UNIQUE), and an OID that was typed has arcs.     *)
ASSUME SearchAssumption ==
  /\ Listed \in Nat \ {0} /\ MaxReplaced \in Nat
  /\ \A m \in DOMAIN Shelf : \A defs \in Shelf[m] :
       IsFiniteSet(defs) /\ \A d, e \in defs : d.name = e.name => d = e
  /\ \A q \in Queries : q.kind \in {"oid", "lookup_oid"} => q.oid \in Seq(Nat) \ {<<>>}

VARIABLES
  symbols,  \* the rows of table symbol
  search,   \* the request in flight
  found,    \* its answer
  replaced

searchVars == <<symbols, search, found, replaced>>
Begins(p, s) == Len(p) <= Len(s) /\ SubSeq(s, 1, Len(p)) = p
NoSearch == [step |-> "none"]
NoHits == [kind |-> "none"]

SearchInit == symbols = {} /\ search = NoSearch /\ found = NoHits /\ replaced = 0

(* Every import gives its symbols fresh row ids. *)
ReplaceSymbols(m, defs) ==
  /\ replaced < MaxReplaced /\ replaced' = replaced + 1
  /\ symbols' = {s \in symbols : s.module # m}
                  \cup {[id |-> <<replaced, d>>, module |-> m, name |-> d.name, oid |-> d.oid] : d \in defs}
  /\ UNCHANGED <<search, found>>

(* sanitizeFTS: separators cut words, words below the floor are dropped;   *)
(* every token is a prefix, and all must match.                            *)
Cuts(w) == {0} \cup {i \in DOMAIN w : w[i] = Separator} \cup {Len(w) + 1}
Pieces(w) ==
  {SubSeq(w, p[1] + 1, p[2] - 1) : p \in {q \in Cuts(w) \X Cuts(w) :
     q[1] < q[2] /\ \A k \in Cuts(w) : ~(q[1] < k /\ k < q[2])}}
Tokens(words) == {t \in UNION {Pieces(words[i]) : i \in DOMAIN words} : Len(t) >= MinToken}
Matching(words) ==
  {s \in symbols : \A t \in Tokens(words) : \E p \in Pieces(s.name) \cup Pieces(s.module) : Begins(t, p)}

(* The text that the full-text query is made of: also of a qualified name. *)
Words(q) == IF q.kind = "qualified" THEN <<q.module, q.name>> ELSE q.words

(* The first rows of a list in any order, at most `Listed`. *)
Ranked(S) ==
  LET n == IF Cardinality(S) < Listed THEN Cardinality(S) ELSE Listed
  IN {r \in [1..n -> S] : \A i, j \in 1..n : r[i] = r[j] => i = j}

Found(kind, hits) == found' = [kind |-> kind, query |-> search.query, hits |-> hits] /\ search' = NoSearch

FirstQuery(q) ==
  CASE q.kind = "oid" -> [step |-> "prefix", query |-> q]
    [] q.kind = "lookup_oid" -> [step |-> "lookup", query |-> q]
    [] q.kind = "lookup_symbol" -> [step |-> "exact", query |-> q, hits |-> <<>>, error |-> "none"]
    [] OTHER -> [step |-> "text", query |-> q]

SearchStart(q) ==
  /\ search.step = "none" /\ found' = NoHits
  /\ search' = FirstQuery(q)
  /\ UNCHANGED <<symbols, replaced>>

(* lookupOID: an owner of the OID, or else what the prefix search lists.   *)
LookupOID ==
  /\ search.step = "lookup"
  /\ LET owners == {s \in symbols : s.oid = search.query.oid} IN
     IF owners # {} THEN \E s \in owners : Found("exact", <<s>>)
     ELSE search' = [search EXCEPT !.step = "prefix"] /\ found' = found
  /\ UNCHANGED <<symbols, replaced>>

(* SearchByOIDPrefix: at or below, in the order of the OIDs as text, so    *)
(* that a symbol is listed before those below it.                          *)
SearchByOIDPrefix ==
  /\ search.step = "prefix"
  /\ LET p == search.query.oid
         below == {s \in symbols : s.oid # <<>> /\ Begins(p, s.oid)}
     IN \E hits \in Ranked(below) :
          /\ \A s \in below, i \in DOMAIN hits :
               s.oid = p /\ hits[i].oid # p => \E j \in 1..(i - 1) : hits[j] = s
          /\ Found("results", hits)
  /\ UNCHANGED <<symbols, replaced>>

(* Search: nothing to look for is an error, and the query may time out. *)
SearchText ==
  /\ search.step = "text"
  /\ LET words == Words(search.query) IN
     \/ /\ Tokens(words) # {}
        /\ \E hits \in Ranked(Matching(words)) :
             search' = [step |-> "exact", query |-> search.query, hits |-> hits, error |-> "none"]
     \/ search' = [step |-> "exact", query |-> search.query, hits |-> <<>>,
                   error |-> IF Tokens(words) = {} THEN "tooshort" ELSE "timeout"]
  /\ UNCHANGED <<symbols, found, replaced>>

(* A mutant of Prepend: the exact match is put in front of all hits. *)
PrependKeeps(hits, s) == <<s>> \o hits

(* The first hit with the id of the exact match is taken out of the hits. *)
SameAs(hits, s) == {i \in DOMAIN hits : hits[i].id = s.id}
Others(hits, s) ==
  IF SameAs(hits, s) = {} THEN hits
  ELSE LET i == CHOOSE j \in SameAs(hits, s) : \A k \in SameAs(hits, s) : j <= k
       IN SubSeq(hits, 1, i - 1) \o SubSeq(hits, i + 1, Len(hits))
Prepend(hits, s) == <<s>> \o Others(hits, s)

(* The tools say what they find, and suggest nothing. *)
Suggests(q) == q.kind \notin {"search_mibs", "lookup_symbol"}

(* searchWithExactMatch: an exact match clears the error of the text query.*)
SearchExact ==
  /\ search.step = "exact"
  /\ LET q == search.query
         exact == IF q.kind \notin {"qualified", "lookup_symbol"} THEN {}
                  ELSE {s \in symbols : s.module = q.module /\ s.name = q.name}
     IN IF exact # {}
        THEN Found("results", Prepend(search.hits, CHOOSE s \in exact : TRUE))
        ELSE IF search.error # "none" THEN Found(search.error, <<>>)
        ELSE IF search.hits # <<>> \/ ~Suggests(q) THEN Found("results", search.hits)
        ELSE /\ search' = [step |-> "suggest", query |-> q]
             /\ found' = found
  /\ UNCHANGED <<symbols, replaced>>

(* DidYouMean *)
DidYouMean ==
  /\ search.step = "suggest"
  /\ LET near == {s \in symbols : <<search.query, s.name>> \in Near}
     IN \E hits \in Ranked(near) : Found("suggestions", hits)
  /\ UNCHANGED <<symbols, replaced>>

SearchNext ==
  \/ \E m \in DOMAIN Shelf : \E defs \in Shelf[m] : ReplaceSymbols(m, defs)
  \/ \E q \in Queries : SearchStart(q)
  \/ LookupOID \/ SearchByOIDPrefix \/ SearchText \/ SearchExact \/ DidYouMean

SearchSpec == SearchInit /\ [][SearchNext]_searchVars

-----------------------------------------------------------------------------
(* What was typed comes first: the symbol that a qualified name names at   *)
(* the time of the lookup is the first hit and is listed once, although    *)
(* the text query may have failed or refused, and an OID's own symbols     *)
(* precede those below it (handlers.go:1945-1962), as long as no import    *)
(* replaced the module between the two queries.                            *)
NamedIn(q) ==
  {s \in symbols : IF q.kind \in {"oid", "lookup_oid"} THEN s.oid = q.oid
                   ELSE q.kind \in {"qualified", "lookup_symbol"} /\ s.module = q.module /\ s.name = q.name}
AnswerLeads ==
  LET q == search.query
      hits == found'.hits
      fresh == q.kind \in {"oid", "lookup_oid"} \/ \A i \in DOMAIN search.hits : search.hits[i] \in symbols
  IN NamedIn(q) # {} =>
       /\ found'.kind \in {"results", "exact"} /\ hits[1] \in NamedIn(q)
       /\ fresh => \A i, j \in DOMAIN hits : hits[i] = hits[j] => i = j
       /\ found'.kind = "results" /\ Cardinality(NamedIn(q)) <= Listed =>
            NamedIn(q) \subseteq {hits[i] : i \in DOMAIN hits}
TypedFirst == [][search.step \in {"lookup", "prefix", "exact"} /\ search' = NoSearch => AnswerLeads]_searchVars
=============================================================================

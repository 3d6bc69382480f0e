---------------------------------- MODULE Convert ----------------------------------
(***************************************************************************)
(* From smidump's XML of one module to the rows of the store               *)
(* (internal/compile smidump.go, convert.go, refs.go, compiler.go; the     *)
(* inserts of internal/store ReplaceModule).                               *)
(*                                                                         *)
(* A module is the sequence of its definitions in the order of the source: *)
(* [ident, tag, oid, objects, text].  `tag` is the element of the dump,    *)
(* `objects` what its INDEX, AUGMENTS, OBJECTS or member clause names,     *)
(* `text` the kinds of bytes in its description.  `lined` is the set of    *)
(* places whose definition has a line number in the dump, `identity` is    *)
(* the name of its MODULE-IDENTITY.                                        *)
(***************************************************************************)
EXTENDS Naturals, Sequences, FiniteSets

CONSTANTS
  Descriptors,    \* names
  Arcs,           \* OIDs as the dump gives them
  Identity,       \* the name of the MODULE-IDENTITY, or of no definition
  Definable       \* Definable[i]: what the i-th definition can be

VARIABLE dump     \* the definitions read so far

(* The sections of the dump, in the order in which ToModel reads them: a   *)
(* table, its row and its columns lie in one.  An "augmentation" is a row  *)
(* with AUGMENTS for an INDEX.                                             *)
Sections ==
  <<{"typedef"}, {"node"}, {"scalar"}, {"table", "row", "augmentation", "column"}, {"notification"}, {"group"},
    {"compliance"}>>
Section(tag) == CHOOSE k \in DOMAIN Sections : tag \in Sections[k]

KindOf(tag, isIdentity) ==
  CASE tag \in {"node", "scalar"} /\ isIdentity -> "module-identity"
    [] tag = "node" /\ ~isIdentity -> "object-identity"
    [] tag \in {"row", "augmentation"} -> "table-entry"
    [] OTHER -> tag

(* The bytes the XML decoder refuses, and what is made of them on retry:   *)
(* a stray byte becomes the Latin-1 character, a control is dropped.       *)
Refused == {"stray", "control"}
Clean(text) == text \cap Refused = {}
SanitizeXMLBytes(text) == (text \ Refused) \cup (IF "stray" \in text THEN {"latin1"} ELSE {})

Tags == UNION {Sections[k] : k \in DOMAIN Sections}
Bytes == Refused \cup {"ascii", "utf8"}
ConvertAssumption ==
  Definable \in Seq(SUBSET [ident : Descriptors, tag : Tags, oid : Arcs, objects : Seq(Descriptors), text : SUBSET Bytes])
ASSUME ConvertAssumption

(* parseSmidumpXMLWithRecovery: one retry, with a warning.  Any refused    *)
(* byte sanitizes the whole output; a malformed document stays an error.   *)
Accepted(defs) == \A i \in DOMAIN defs : Clean(defs[i].text)
Recovered(defs) ==
  IF Accepted(defs) THEN defs
  ELSE [i \in DOMAIN defs |-> [defs[i] EXCEPT !.text = SanitizeXMLBytes(@)]]

(* ToModel's symbols.  The slice holds them section by section, in a       *)
(* section by their place in the source.                                   *)
Symbol(defs, i, identity, lined) ==
  [name |-> defs[i].ident, kind |-> KindOf(defs[i].tag, defs[i].ident = identity), oid |-> defs[i].oid,
   section |-> Section(defs[i].tag), place |-> i, line |-> IF i \in lined THEN i ELSE 0, text |-> defs[i].text,
   indexColumns |-> IF defs[i].tag = "row" THEN defs[i].objects ELSE <<>>]
ToModel(defs, identity, lined) == {Symbol(defs, i, identity, lined) : i \in DOMAIN defs}
InSlice(a, b) == a.section < b.section \/ (a.section = b.section /\ a.place < b.place)

(* findOIDByName looks through nodes, scalars and tables only. *)
Bearers(defs, identity, tag) == {i \in DOMAIN defs : defs[i].ident = identity /\ defs[i].tag = tag}
OIDRoot(defs, identity) ==
  LET bearers(k) == Bearers(defs, identity, k)
      first == CHOOSE k \in {"node", "scalar", "table"} :
                 bearers(k) # {} /\ (k = "scalar" => bearers("node") = {})
                                 /\ (k = "table" => bearers("node") \cup bearers("scalar") = {})
  IN IF \A k \in {"node", "scalar", "table"} : bearers(k) = {} THEN <<>>
     ELSE defs[CHOOSE i \in bearers(first) : \A j \in bearers(first) : i <= j].oid

(* Mutant of Precedes: the order in which ToModel appends decides. *)
PrecedesInSlice(a, b) == InSlice(a, b)

(* The symbol a is kept in favour of b: by its line, if need be by where   *)
(* the slice has it.                                                       *)
LinedBefore(a, b) == a.line > 0 /\ (b.line <= 0 \/ a.line < b.line)
Precedes(a, b) == LinedBefore(a, b) \/ (~LinedBefore(b, a) /\ InSlice(a, b))

(* DedupeSymbols *)
Kept(syms) == {a \in syms : \A b \in syms \ {a} : b.name = a.name => Precedes(a, b)}

(* BuildReferences reads the dump again, with what was dropped; the rows   *)
(* of one kind come in the order of their clauses.                         *)
RefKind(tag) ==
  CASE tag = "row" -> "index" [] tag = "augmentation" -> "augments" [] tag = "notification" -> "notification-object"
    [] tag = "group" -> "group-member" [] OTHER -> "compliance-object"
Referring == {"row", "augmentation", "notification", "group", "compliance"}
Reference(defs, i, j) ==
  [source |-> defs[i].ident, target |-> defs[i].objects[j], kind |-> RefKind(defs[i].tag),
   position |-> IF defs[i].tag = "notification" THEN j - 1 ELSE 0, clause |-> i, nth |-> j]
BuildReferences(defs) ==
  UNION {{Reference(defs, i, j) : j \in DOMAIN defs[i].objects} : i \in {i \in DOMAIN defs : defs[i].tag \in Referring}}
Appended(r, s) == r.clause < s.clause \/ (r.clause = s.clause /\ r.nth < s.nth)

(* The inserts: a reference whose primary key exists is ignored. *)
SameReference(r, s) == r.source = s.source /\ r.target = s.target /\ r.kind = s.kind
Inserted(refs) == {r \in refs : \A s \in refs : SameReference(r, s) => ~Appended(s, r)}

(* compileOne: what is stored.  Duplicates and a recovered encoding are    *)
(* warnings, and parseStatusFor is taken after them.                       *)
CompileOne(defs, identity, lined, severities) ==
  LET read == Recovered(defs)
      syms == ToModel(read, identity, lined)
      found == severities \cup (IF Accepted(defs) /\ Kept(syms) = syms THEN {} ELSE {"warning"})
  IN [symbols |-> Kept(syms), oidRoot |-> OIDRoot(read, identity), rows |-> Inserted(BuildReferences(read)),
      status |-> IF "error" \in found THEN "errors" ELSE IF "warning" \in found THEN "warnings" ELSE "clean"]

(* The references of a name, and their order: by position, then by row.    *)
References(stored, name, kind) == {r \in stored.rows : r.source = name /\ r.kind = kind}
ListedBefore(r, s) == r.position < s.position \/ (r.position = s.position /\ Appended(r, s))

-----------------------------------------------------------------------------
(* The definitions of a name, and the one its source wrote first as far as *)
(* the dump tells: those with a line in their order, then the others by    *)
(* the section that is read first.                                         *)
Of(defs, n) == {i \in DOMAIN defs : defs[i].ident = n}
ToldAs(defs, lined, i) == IF i \in lined THEN 0 ELSE Section(defs[i].tag)
WrittenBefore(defs, lined, i, j) ==
  \/ ToldAs(defs, lined, i) < ToldAs(defs, lined, j)
  \/ ToldAs(defs, lined, i) = ToldAs(defs, lined, j) /\ i < j
IsWritten(defs, lined, n, i) == i \in Of(defs, n) /\ \A j \in Of(defs, n) \ {i} : WrittenBefore(defs, lined, i, j)

(* A descriptor is stored once, as it was first written, in clean text.    *)
SymbolsAsWritten(defs, identity, lined, stored) ==
  /\ \A s, t \in stored.symbols : s.name = t.name => s = t
  /\ {s.name : s \in stored.symbols} = {defs[i].ident : i \in DOMAIN defs}
  /\ \A s \in stored.symbols :
       /\ Clean(s.text)
       /\ \E i \in DOMAIN defs :
            /\ IsWritten(defs, lined, s.name, i)
            /\ s.oid = defs[i].oid /\ s.kind = KindOf(defs[i].tag, s.name = identity)

(* The references are what the clause names, each once. *)
Names(refs, clause) ==
  /\ {r.target : r \in refs} = {clause[j] : j \in DOMAIN clause}
  /\ \A r, s \in refs : r.target = s.target => r = s

(* They are listed in the order of the clause, a repeated name at its      *)
(* first place.                                                            *)
InOrderOf(refs, clause) ==
  \A r, s \in refs : ListedBefore(r, s) <=>
    \E j \in DOMAIN clause : clause[j] = r.target /\ \A k \in DOMAIN clause : clause[k] = s.target => j < k

(* A name that is defined once keeps its clause: a row's index columns are *)
(* the index references of its name, a notification's objects are listed   *)
(* in the order of its OBJECTS clause.                                     *)
ClausesKept(defs, stored) ==
  \A i \in DOMAIN defs : Of(defs, defs[i].ident) = {i} =>
    LET refs == References(stored, defs[i].ident, RefKind(defs[i].tag)) IN
    /\ defs[i].tag \in Referring => Names(refs, defs[i].objects)
    /\ defs[i].tag = "notification" => InOrderOf(refs, defs[i].objects)
    /\ defs[i].tag = "row" =>
         \A s \in stored.symbols : s.name = defs[i].ident => Names(refs, s.indexColumns)

(* A module that lost a definition or a byte is not reported clean.        *)
LossReported(defs, stored) ==
  (\E i, j \in DOMAIN defs : i # j /\ defs[i].ident = defs[j].ident) \/ ~Accepted(defs) => stored.status # "clean"

(* An identity that is defined once, where findOIDByName looks, is found.  *)
RootFound(defs, identity, stored) ==
  \A i \in DOMAIN defs :
    Of(defs, identity) = {i} /\ defs[i].tag \in {"node", "scalar", "table"} => stored.oidRoot = defs[i].oid

StoredAsWritten(defs, identity, lined, severities) ==
  LET stored == CompileOne(defs, identity, lined, severities)
  IN /\ SymbolsAsWritten(defs, identity, lined, stored)
     /\ ClausesKept(defs, stored)
     /\ LossReported(defs, stored)
     /\ RootFound(defs, identity, stored)

-----------------------------------------------------------------------------
ConvertInit == dump = <<>>
ReadDefinition(d) == dump' = Append(dump, d)
ConvertNext == Len(dump) < Len(Definable) /\ \E d \in Definable[Len(dump) + 1] : ReadDefinition(d)
ConvertSpec == ConvertInit /\ [][ConvertNext]_dump

(* What a module's dump defines is stored as its source wrote it, whatever *)
(* definitions have line numbers: each descriptor once, the clauses in     *)
(* their order, no loss unreported, the root of the identity               *)
(* (convert.go:179-199, refs.go:5-13, schema.sql:84-88).                   *)
DefinitionsStored ==
  \A lined \in SUBSET DOMAIN dump : StoredAsWritten(dump, Identity, lined, {})
=============================================================================

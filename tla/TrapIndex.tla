--------------------------------- MODULE TrapIndex ---------------------------------
(***************************************************************************)
(* The row identity of a simulated trap: the server classifies the INDEX   *)
(* clause of the table that all of a notification's OBJECTS belong to      *)
(* (buildNotifyVarbinds, classifyIndexColumn, index_decode.go), and the    *)
(* page composes the instance suffix from what the user types for each     *)
(* column (assets/trap-simulator.js).  The walk decoder reads the same     *)
(* clause back (internal/walk resolver.go).                                *)
(*                                                                         *)
(* A syntax is [token, refined, size, bits]: the base token, whether an    *)
(* inline enumeration follows, the SIZE constraint, the numbers of the     *)
(* named bits.  A typed value is the sequence of its bytes or arcs.        *)
(***************************************************************************)
EXTENDS Naturals, Integers, Sequences, FiniteSets

CONSTANTS
  FixedSize,   \* textual conventions of a fixed length |-> that length
  Quad,        \* octets of an IPv4 address
  BitsCap,     \* bitsMaxBit
  ByteBits,    \* bits of a byte
  Octets,      \* the values of a byte
  MaxTyped,    \* bound: bytes or arcs of a typed value of variable length
  Tables       \* the notifications: their OBJECTS, and the table entries they lie in

VARIABLE simulated   \* the notification whose trap a page composes, {} before

(* The conventions of tcFixedSize, and the octets that an address has. *)
ASSUME IndexAssumption ==
  /\ FixedSize \in [{"MacAddress", "InetAddressIPv4", "InetAddressIPv6"} -> Nat \ {0}]
  /\ FixedSize["InetAddressIPv4"] = Quad
  /\ BitsCap \in Nat /\ ByteBits \in Nat \ {0} /\ MaxTyped \in Nat
  /\ \A x \in Tables : \A p \in DOMAIN x.entries :
       x.entries[p].index \in Seq([token : STRING, refined : BOOLEAN, size : [lo : Nat, hi : Nat], bits : SUBSET Int])
         /\ \A i \in DOMAIN x.entries[p].index : IsFiniteSet(x.entries[p].index[i].bits)

Unsized == [lo |-> 0, hi |-> 0]
Alternation == [lo |-> 1, hi |-> 0]   \* SIZE(a..b | c..d), or bounds that are inverted

(* web.TrapTypeLetter, for the base tokens *)
TrapTypeLetter(token) ==
  CASE token \in {"INTEGER", "Integer32", "Enumeration", "InterfaceIndex", "InterfaceIndexOrZero",
                  "InetPortNumber", "InetVersion", "IANAifType", "TruthValue", "RowStatus"} -> "i"
    [] token \in {"Unsigned32", "Gauge32"} -> "u"
    [] token = "Counter32" -> "c"
    [] token = "Counter64" -> "C"
    [] token \in {"TimeTicks", "TimeStamp"} -> "t"
    [] token = "OBJECT IDENTIFIER" -> "o"
    [] token = "IpAddress" -> "a"
    [] token = "BITS" -> "b"
    [] token \in {"MacAddress", "PhysAddress"} -> "x"
    [] OTHER -> "s"

IsInetAddressType(s) == s.token = "InetAddressType" /\ ~s.refined
IsInteger(s) == TrapTypeLetter(s.token) = "i" \/ s.token = "Unsigned32"
IsOctetString(s) ==
  s.token \in DOMAIN FixedSize
    \cup {"OCTET STRING", "OctetString", "PhysAddress", "DateAndTime", "InetAddress", "InetAddressDNS"}

(* extractSizeConstraint: an explicit SIZE wins over the convention's, and *)
(* one that is no plain range leaves the column unbounded.                 *)
SizeOf(s) ==
  CASE s.size = Unsized /\ s.token \in DOMAIN FixedSize -> [lo |-> FixedSize[s.token], hi |-> FixedSize[s.token]]
    [] s.size.lo > s.size.hi -> Unsized
    [] OTHER -> s.size

(* bitsBytes *)
BitsBytes(bits) ==
  LET legal == {b \in bits : b >= 0}
      highest == CHOOSE b \in legal : \A c \in legal : c <= b
  IN IF legal = {} THEN 0 ELSE IF highest >= BitsCap THEN 0 ELSE highest \div ByteBits + 1

Descriptor(syntax, size, implied) ==
  [syntax |-> syntax, min |-> size.lo, max |-> size.hi, implied |-> implied]
NoDescriptor == [syntax |-> "none"]

(* classifyIndexColumn *)
ClassifyColumn(s, implied) ==
  LET size == SizeOf(s)
      bytes == BitsBytes(s.bits)
  IN CASE IsInetAddressType(s) -> Descriptor("InetAddressType", Unsized, FALSE)
       [] ~IsInetAddressType(s) /\ IsInteger(s) -> Descriptor("INTEGER", Unsized, FALSE)
       [] s.token = "IpAddress" \/ (s.token = "InetAddressIPv4" /\ s.size = Unsized) ->
            Descriptor("IpAddress", Unsized, FALSE)
       [] IsOctetString(s) /\ ~(s.token = "InetAddressIPv4" /\ s.size = Unsized) ->
            Descriptor("OCTET STRING", size, implied /\ ~(size.lo = size.hi /\ size.lo > 0))
       [] s.token = "OBJECT IDENTIFIER" -> Descriptor("OBJECT IDENTIFIER", Unsized, implied)
       [] s.token = "BITS" /\ bytes > 0 -> Descriptor("BITS", [lo |-> bytes, hi |-> bytes], FALSE)
       [] OTHER -> NoDescriptor

(* Mutant of ImpliedFor: every column of the clause is implied. *)
ImpliedForAll(entry, i) == entry.implied

(* IMPLIED is about the last column of the clause. *)
ImpliedFor(entry, i) == i = Len(entry.index) /\ entry.implied

(* buildNotifyVarbinds: `objects` are [kind, parent] or unloaded ones, and *)
(* `entries` maps the OIDs of table entries to [index, implied], where an  *)
(* index column that cannot be loaded has no token.                        *)
Strategy(objects, entries) ==
  LET columns == {o \in objects : o.kind = "column"}
      parents == {o.parent : o \in columns}
      raw == [mode |-> "raw-suffix", columns |-> <<>>]
  IN IF \A o \in objects : o.kind \notin {"column", "unloaded"} THEN [raw EXCEPT !.mode = "scalar-only"]
     ELSE IF columns # objects \/ Cardinality(parents) # 1 \/ ~(parents \subseteq DOMAIN entries) THEN raw
     ELSE LET entry == entries[CHOOSE p \in parents : TRUE]
              described == [i \in DOMAIN entry.index |-> ClassifyColumn(entry.index[i], ImpliedFor(entry, i))]
          IN IF entry.index = <<>> \/ \E i \in DOMAIN described : described[i] = NoDescriptor THEN raw
             ELSE [mode |-> "indexed", columns |-> described]

-----------------------------------------------------------------------------
(* What validateColumn accepts: an empty string or OID is an error. *)
Sized(lo, hi) == UNION {[1..n -> Octets] : n \in lo..hi}
Typed(c) ==
  CASE c.syntax = "IpAddress" -> Sized(Quad, Quad)
    [] c.syntax \in {"OCTET STRING", "BITS"} ->
         Sized(IF c.min > 1 THEN c.min ELSE 1, IF c.max > 0 THEN c.max ELSE MaxTyped)
    [] c.syntax = "OBJECT IDENTIFIER" -> Sized(1, MaxTyped)
    [] OTHER -> Sized(1, 1)

(* composeColumn *)
ComposeColumn(c, value) ==
  IF /\ c.syntax \in {"OCTET STRING", "OBJECT IDENTIFIER"}
     /\ ~(c.min > 0 /\ c.min = c.max) /\ ~c.implied
  THEN <<Len(value)>> \o value ELSE value

ComposeAllColumns(columns, values) ==
  LET suffix[i \in 0..Len(columns)] ==
        IF i = 0 THEN <<>> ELSE suffix[i - 1] \o ComposeColumn(columns[i], values[i])
  IN suffix[Len(columns)]

(* isIntegerSyntax of the walk decoder, for a lone index column. *)
WalkReadsInteger(s) == s.token \in {"INTEGER", "Integer32"}

-----------------------------------------------------------------------------
(* RFC 2578 7.7, which the comments of handlers.go:1227-1238 cite: reads a *)
(* suffix by the table's INDEX clause, {} if it does not fit.              *)
Width(s) ==
  CASE s.token = "IpAddress" -> Quad
    [] s.token = "BITS" -> BitsBytes(s.bits)
    [] s.token # "BITS" /\ IsOctetString(s) -> IF SizeOf(s).lo = SizeOf(s).hi THEN SizeOf(s).lo ELSE 0
    [] s.token = "OBJECT IDENTIFIER" -> 0
    [] OTHER -> 1

Decode(entry, suffix) ==
  LET last == Len(entry.index)
      read[i \in 0..last] ==   \* the readings of the first i columns, with what is left
        IF i = 0 THEN {[values |-> <<>>, rest |-> suffix]}
        ELSE LET w == Width(entry.index[i]) IN
             UNION {LET from == IF w = 0 /\ ~(i = last /\ entry.implied) THEN 1 ELSE 0
                        n == IF w > 0 THEN w
                             ELSE IF from = 0 THEN Len(r.rest)
                             ELSE IF r.rest = <<>> THEN 0 ELSE r.rest[1]
                    IN IF from + n > Len(r.rest) THEN {}
                       ELSE {[values |-> Append(r.values, SubSeq(r.rest, from + 1, from + n)),
                              rest |-> SubSeq(r.rest, from + n + 1, Len(r.rest))]} :
                    r \in read[i - 1]}
  IN {r.values : r \in {x \in read[last] : x.rest = <<>>}}

(* The suffix composed from any row that the page accepts reads back as    *)
(* that row by the table's INDEX clause, and a lone index that the walk    *)
(* page decodes is an integer to the simulator too.                        *)
SuffixDecodes(objects, entries) ==
  LET strategy == Strategy(objects, entries)
      entry == entries[CHOOSE p \in {o.parent : o \in {x \in objects : x.kind = "column"}} : TRUE]
      columns == strategy.columns
  IN strategy.mode = "indexed" =>
       /\ \A values \in {v \in [DOMAIN columns -> Sized(1, MaxTyped)] : \A i \in DOMAIN columns : v[i] \in Typed(columns[i])} :
            Decode(entry, ComposeAllColumns(columns, values)) = {values}
       /\ Len(columns) = 1 /\ WalkReadsInteger(entry.index[1]) => columns[1].syntax = "INTEGER"

SimulatorInit == simulated = {}

(* A notification's page renders the simulator (handlers.go:900).          *)
OpenSimulator(x) == simulated = {} /\ simulated' = {x}
SimulatorNext == \E x \in Tables : OpenSimulator(x)
SimulatorSpec == SimulatorInit /\ [][SimulatorNext]_simulated

(* Whatever row the page accepts decodes by the table's INDEX clause as    *)
(* that row (SuffixDecodes).                                               *)
SuffixesDecode == \A x \in simulated : SuffixDecodes(x.objects, x.entries)
=============================================================================

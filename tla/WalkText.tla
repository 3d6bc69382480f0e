---------------------------------- MODULE WalkText ----------------------------------
(***************************************************************************)
(* Reading the text of an snmpwalk capture (internal/walk parser.go).  A   *)
(* line is [kind, ident, type, value]: "record" lines hold an identifier,  *)
(* a type and a value, "gap" lines one of the agent's not-present markers, *)
(* "hex" lines nothing but hex bytes, "prose" lines anything else without  *)
(* a valid identifier, "cruft" lines are blank, comments or the end marker.*)
(***************************************************************************)
EXTENDS Naturals, Sequences, FiniteSets

CONSTANTS
  Answers,    \* the variables that an agent may answer a walk with
  Junk,       \* what else may follow a line of the text
  MaxWalked   \* bound: variables of a walk

VARIABLE printed   \* the variables of a walk, as snmpwalk prints them

HexString == "Hex-STRING"

(* Mutant of Continues: any record can be continued. *)
ContinuesAny(entries, l) == l.kind = "hex" /\ entries # <<>>

(* The wrapped rest of a Hex-STRING: its last entry is one. *)
Continues(entries, l) == l.kind = "hex" /\ entries # <<>> /\ entries[Len(entries)].type = HexString

(* parseLine *)
Entry(l) ==
  IF l.kind = "gap" THEN [ident |-> l.ident, type |-> "", value |-> <<>>, present |-> FALSE]
  ELSE [ident |-> l.ident, type |-> l.type, value |-> l.value, present |-> TRUE]

(* Parse: one line after another. *)
ParseLine(w, l) ==
  CASE l.kind = "cruft" -> w
    [] l.kind \in {"record", "gap"} -> [w EXCEPT !.entries = Append(@, Entry(l))]
    [] Continues(w.entries, l) -> [w EXCEPT !.entries[Len(w.entries)].value = @ \o l.value]
    [] OTHER -> [w EXCEPT !.skipped = @ + 1]

Parse(lines) ==
  LET walk[n \in 0..Len(lines)] ==
        IF n = 0 THEN [entries |-> <<>>, skipped |-> 0] ELSE ParseLine(walk[n - 1], lines[n])
  IN walk[Len(lines)]

-----------------------------------------------------------------------------
(* snmpwalk prints a variable [ident, type, lines]: the value's first line *)
(* after the identifier, the others on lines of their own.                 *)
TextLine(kind, ident, type, value) == [kind |-> kind, ident |-> ident, type |-> type, value |-> value]

(* A value has a first line, and what a user pastes around it is blank, a  *)
(* comment or prose.                                                       *)
ASSUME WalkAssumption ==
  /\ MaxWalked \in Nat
  /\ \A v \in Answers : v.lines \in Seq(Seq(Nat)) \ {<<>>}
  /\ Junk \subseteq Seq({TextLine(k, "", "", <<>>) : k \in {"cruft", "prose"}})

Printed(v) ==
  IF v.type = "none" THEN <<TextLine("gap", v.ident, "", <<>>)>>
  ELSE [i \in 1..Len(v.lines) |->
          IF i = 1 THEN TextLine("record", v.ident, v.type, v.lines[1])
          ELSE IF v.type = HexString \/ v.hexlike THEN TextLine("hex", "", "", v.lines[i])
          ELSE TextLine("prose", "", "", v.lines[i])]

Joined(parts) ==
  LET join[n \in 0..Len(parts)] == IF n = 0 THEN <<>> ELSE join[n - 1] \o parts[n] IN join[Len(parts)]

(* Whatever variables a walk prints, with cruft or prose after any of their*)
(* lines, each of them is one entry, the bytes of a Hex-STRING are complete*)
(* and nothing is added to another value; every line that is lost counts.  *)
WalkReadBack(vars, junk) ==
  LET noisy(v) == Joined([i \in DOMAIN Printed(v) |-> <<Printed(v)[i]>> \o junk])
      walk == Parse(Joined([i \in DOMAIN vars |-> noisy(vars[i])]))
      lost(v) == IF v.type \in {HexString, "none"} THEN {} ELSE 2..Len(v.lines)
      noise(v) == Len(Printed(v)) * Cardinality({i \in DOMAIN junk : junk[i].kind # "cruft"})
      count[n \in 0..Len(vars)] ==
        IF n = 0 THEN 0 ELSE count[n - 1] + Cardinality(lost(vars[n])) + noise(vars[n])
  IN /\ Len(walk.entries) = Len(vars) /\ walk.skipped = count[Len(vars)]
     /\ \A i \in DOMAIN vars :
          /\ walk.entries[i].ident = vars[i].ident
          /\ walk.entries[i].value = IF vars[i].type = HexString THEN Joined(vars[i].lines)
                                     ELSE IF vars[i].type = "none" THEN <<>> ELSE vars[i].lines[1]

WalkInit == printed = <<>>
PrintVariable(v) == Len(printed) < MaxWalked /\ printed' = Append(printed, v)
WalkNext == \E v \in Answers : PrintVariable(v)
WalkSpec == WalkInit /\ [][WalkNext]_printed

(* A walk's text reads back as the variables it was printed from, with     *)
(* cruft or prose between the lines (WalkReadBack).                        *)
WalksParse == \A junk \in Junk : WalkReadBack(printed, junk)
=============================================================================

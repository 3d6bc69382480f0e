------------------------------- MODULE EventExport -------------------------------
(***************************************************************************)
(* The eventconf export of a module's notifications (handleModuleEvents    *)
(* and internal/eventconf): which events carry alarm-data, and the keys by *)
(* which a clear trap resolves the alarm of a raise trap.  An object is    *)
(* [key, oid, fixed]; fixed objects (scalars and accessible-for-notify)    *)
(* are referenced by OID, the others by their position in OBJECTS, and an  *)
(* object whose module is not loaded keeps its position without an OID.    *)
(* The notifications, their relationships and the pairs come from queries  *)
(* of their own, and may differ: `rel` attaches them by name.              *)
(***************************************************************************)
EXTENDS Correlate

Unresolved == <<>>   \* the OID of an object whose module is not loaded
NoToken == <<"node">>
NoKey == <<>>

(* The rows of the tables notification_relationship and notification_pair. *)
RelationshipRows(N) ==
  LET rel == Relationships(N)
      row(n) == [class |-> rel[n].class, confidence |-> rel[n].confidence]
  IN [m \in {n.name : n \in N} |-> row(CHOOSE n \in N : n.name = m)]
PairRows(N) ==
  LET rel == Relationships(N)
  IN {<<p[2].name, p[1].name>> : p \in {p \in N \X N : rel[p[2]].class = "clear" /\ p[1] \in rel[p[2]].partners}}

(* A row of a notification that was not listed gives it no event. *)
Attached(listed, rows, pairs) ==
  LET unlisted == {[name |-> m, objects |-> <<>>] : m \in DOMAIN rows \ {n.name : n \in listed}}
      all == listed \cup unlisted
      row(n) == IF n.name \in DOMAIN rows THEN rows[n.name] ELSE [class |-> "none", confidence |-> "none"]
  IN [n \in all |-> [listed |-> n \in listed, class |-> row(n).class, confidence |-> row(n).confidence,
                     partners |-> {r \in all : <<n.name, r.name>> \in pairs}]]

(* Only High inferences are exported, and of a clear only raises that are  *)
(* High themselves.                                                        *)
HighClears(rel, n) ==
  IF rel[n].class = "clear" /\ rel[n].confidence = "high"
    THEN {r \in rel[n].partners : rel[r].confidence = "high"} ELSE {}

AlarmType(rel, n) ==
  CASE rel[n].confidence # "high" -> "plain"
    [] rel[n].class = "clear" /\ HighClears(rel, n) = {} -> "plain"
    [] OTHER -> rel[n].class

(* FromModule pairs each event with its partner: the first listed clear    *)
(* that has one names both (names are numbered in the order of the list).  *)
FirstByName(S) == {n \in S : \A m \in S : n.name <= m.name}
Partner(rel, n) ==
  LET names(c) == n \in HighClears(rel, c) \/ (c = n /\ HighClears(rel, c) # {})
      named == FirstByName({c \in DOMAIN rel : rel[c].listed /\ names(c)})
  IN IF n \in named THEN FirstByName(HighClears(rel, n)) ELSE named

(* Mutant of Parm: columns are referenced by OID too. *)
ParmByName(o, i, positional) == IF ~positional THEN <<"oid", o.oid>> ELSE <<"position", i>>

(* parmName: the OID of a column lacks the instance, so it takes its place.*)
Parm(o, i, positional) ==
  IF o.fixed /\ ~positional THEN <<"oid", o.oid>> ELSE <<"position", i>>

(* instanceToken: the first object that both members bind, by OID. *)
Correlating(n, partner) ==
  LET both == {i \in DOMAIN n.objects :
                 /\ n.objects[i].oid # Unresolved
                 /\ \E j \in DOMAIN partner.objects : partner.objects[j].oid = n.objects[i].oid}
  IN {i \in both : \A j \in both : i <= j}

InstanceToken(rel, n, positional) ==
  LET at == UNION {Correlating(n, p) : p \in Partner(rel, n)}
  IN IF AlarmType(rel, n) = "plain" \/ at = {} THEN NoToken
     ELSE LET i == CHOOSE i \in at : TRUE IN Parm(n.objects[i], i, positional)

(* buildAlarmData; an event's UEI is its notification's.  The clear-key is *)
(* the reduction-key of the first raise that has one.                      *)
ReductionKey(rel, n, positional) ==
  IF ~rel[n].listed \/ AlarmType(rel, n) = "plain" THEN NoKey
  ELSE <<n.name, InstanceToken(rel, n, positional)>>
ClearKey(rel, n, positional) ==
  LET keyed == FirstByName({r \in HighClears(rel, n) : ReductionKey(rel, r, positional) # NoKey})
  IN IF AlarmType(rel, n) # "clear" \/ keyed = {} THEN NoKey
     ELSE ReductionKey(rel, CHOOSE r \in keyed : TRUE, positional)

-----------------------------------------------------------------------------
(* What OpenNMS makes of a key when a trap of notification n arrives for   *)
(* an entity: a token expands to the value of the object, which depends on *)
(* the entity, or to nothing when the trap has no such parameter.          *)
Expand(key, n, entity) ==
  LET value(o) == [object |-> o.key, of |-> entity]
      named == {i \in DOMAIN n.objects :
                  \/ key[2] = <<"position", i>>
                  \/ n.objects[i].fixed /\ key[2] = <<"oid", n.objects[i].oid>>}
  IN [uei |-> key[1], instance |-> {value(n.objects[i]) : i \in named}]

Exported(rel, type) == {n \in DOMAIN rel : rel[n].listed /\ AlarmType(rel, n) = type}
ExportedClears(rel) == Exported(rel, "clear")

(* A clear-key is the reduction-key of an alarm that is exported beside it.*)
KeysResolve(rel, positional) ==
  \A c \in ExportedClears(rel) :
    \/ ClearKey(rel, c, positional) = NoKey
    \/ \E r \in HighClears(rel, c) :
         /\ rel[r].listed /\ AlarmType(rel, r) # "plain"
         /\ ClearKey(rel, c, positional) = ReductionKey(rel, r, positional)

(* Every clear that is exported resolves exactly one raise and is the only *)
(* one that does, by name and by key; a raise that is not listed has none  *)
(* (handlers.go:436-447, convert.go:53-56; TestModuleEventsAsymmetricPair- *)
(* Guard).                                                                 *)
ClearsResolve(rel, positional) ==
  \A c \in ExportedClears(rel) :
    \E r \in DOMAIN rel :
      /\ HighClears(rel, c) = {r} /\ AlarmType(rel, r) = "raise"
      /\ ClearKey(rel, c, positional) = ReductionKey(rel, r, positional)
      /\ \A d \in ExportedClears(rel) \ {c} : r \notin HighClears(rel, d)

(* When both members of a pair list the same objects, the clear trap of an *)
(* entity carries the key of that entity's alarm, and of no other entity's *)
(* if they share any loaded object (convert.go:56, 134-137).               *)
SameObjectsRoundTrip(rel, positional, entities) ==
  \A c \in ExportedClears(rel), r \in DOMAIN rel :
    r \in HighClears(rel, c) /\ r.objects = c.objects =>
      \A e, f \in entities :
        LET cleared == Expand(ClearKey(rel, c, positional), c, e)
            alarm == Expand(ReductionKey(rel, r, positional), r, f)
            loaded == {o \in {c.objects[i] : i \in DOMAIN c.objects} : o.oid # Unresolved}
        IN (cleared = alarm) <=> (e = f \/ loaded = {})
=============================================================================

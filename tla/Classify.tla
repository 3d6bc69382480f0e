--------------------------------- MODULE Classify ---------------------------------
(***************************************************************************)
(* The routing rules of the corpus (internal/mibcorpus) and the places to  *)
(* which the two command-line tools take a file by them.  A module is      *)
(* [name, valid, oid]: whether its name may be a file name, and its        *)
(* MODULE-IDENTITY's OID, <<>> for SMIv1 and TC-only modules.              *)
(***************************************************************************)
EXTENDS Naturals, Sequences

CONSTANTS
  GroupOf,   \* module name |-> the IETF group _groups.yaml lists it in
  SlugOf,    \* PEN |-> the slug of its registered name
  Vendor,    \* 1.3.6.1.4.1
  Mib2,      \* 1.3.6.1.2.1
  Snmpv2,    \* 1.3.6.1.6
  Experiment,\* 1.3.6.1.3
  MaxPEN     \* 2^32 - 1, scaled down

LOCAL Below(prefix, oid) == Len(prefix) <= Len(oid) /\ SubSeq(oid, 1, Len(prefix)) = prefix

Unsorted == [dir |-> <<"unsorted">>, confidence |-> "low"]
Ietf(name) ==
  [dir |-> <<"ietf", IF name \in DOMAIN GroupOf THEN GroupOf[name] ELSE "other">>, confidence |-> "high"]

(* slugFor *)
VendorDir(pen) ==
  IF pen \in DOMAIN SlugOf THEN [dir |-> <<"vendors", pen, SlugOf[pen]>>, confidence |-> "high"]
  ELSE [dir |-> <<"vendors", pen, "unknown">>, confidence |-> "medium"]

Classification(m) ==
  LET arc == Len(Vendor) + 1 IN
  CASE m.oid = <<>> /\ m.valid -> Ietf(m.name)
    [] Below(Vendor, m.oid) /\ Len(m.oid) >= arc /\ m.oid[arc] \in 1..MaxPEN -> VendorDir(m.oid[arc])
    [] Below(Mib2, m.oid) -> Ietf(m.name)
    [] Below(Snmpv2, m.oid) -> [dir |-> <<"iana">>, confidence |-> "high"]
    [] Below(Experiment, m.oid) -> [dir |-> <<"experimental">>, confidence |-> "high"]
    [] OTHER -> Unsorted

(* mib-ingest: a module whose name may not be a file name is a parse error;*)
(* classificationToDst keeps the file's name in unsorted/.                 *)
Acceptable(m) == m.valid
IngestPlace(m, basename) ==
  LET c == Classification(m) IN
  IF c.confidence = "low" THEN <<"unsorted", basename>> ELSE Append(c.dir, m.name)

(* mib-migrate: a module without a usable name or without an OID is bad. *)
Bad(m) == ~m.valid \/ m.oid = <<>>
MigratePlace(m, basename) ==
  IF Bad(m) THEN <<"unsorted", basename>> ELSE Append(Classification(m).dir, m.name)
=============================================================================

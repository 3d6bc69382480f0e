---------------------------- MODULE MCMibImport ----------------------------
(* Small instances of MibImport for TLC. *)
EXTENDS MibImport, TLC

CONSTANTS A, B, a1, a2, b1, b2, bad, junk, d1, d2, s1, s2, s3, s4, x, y, z

(* a1 and a2 are two revisions of module A; the second one's OID root      *)
(* moved it to another directory.  b1 and b2 are revisions of a module     *)
(* Classify cannot place.  bad has the MIB marker but does not compile,    *)
(* junk has no marker.                                                     *)
MCOpener == Content \ {junk}
MCModuleOf ==
  [c \in Content |->
     IF c \in {a1, a2} THEN A ELSE IF c \in {b1, b2} THEN B ELSE None]
MCDirOf ==
  [c \in Content |-> IF c = a1 THEN d1 ELSE IF c = a2 THEN d2 ELSE Unsorted]
Symmetry == Permutations(Stamp) \cup Permutations(Name \ Plain)
=============================================================================

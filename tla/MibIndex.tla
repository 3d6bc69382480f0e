---------------------------------- MODULE MibIndex ----------------------------------
(***************************************************************************)
(* mib-index (cmd/mib-index): every run walks the corpus and writes        *)
(* INDEX.yaml, in which a file keeps the day of its first listing.  The    *)
(* corpus changes between and during runs; a file may be unreadable for a  *)
(* while, and a run may be killed.                                         *)
(***************************************************************************)
EXTENDS Naturals, FiniteSets

CONSTANTS
  Shelved,    \* the paths of the corpus
  Texts,      \* contents of files
  ModuleOf,   \* content |-> the module it opens, or NoModule
  NoModule,
  Pending,    \* paths below import/
  Indexable,  \* paths with an extension of MIB files
  Printable,  \* contents of which every field is a valid token
  LastDay     \* bound

VARIABLES
  shelf,   \* path |-> content, for the files there are
  index,   \* INDEX.yaml: path |-> [module, day], or Unparsable
  listing, \* the run of the tool
  day,
  listed   \* ghost: path |-> day of the first of the indexes that list it without a gap

indexVars == <<shelf, index, listing, day, listed>>
Unparsable == [x \in {} |-> 0]     \* readPrevAddedIn takes it for an empty index
NoListing == [step |-> "none"]
Keep(f, S) == [x \in DOMAIN f \cap S |-> f[x]]

IndexInit ==
  /\ shelf = Unparsable /\ index = Unparsable /\ listing = NoListing /\ day = 1 /\ listed = Unparsable

Tomorrow == day < LastDay /\ day' = day + 1 /\ UNCHANGED <<shelf, index, listing, listed>>

(* The maintainer adds or removes a file. *)
AddFile(p, c) ==
  /\ p \notin DOMAIN shelf
  /\ shelf' = [x \in DOMAIN shelf \cup {p} |-> IF x = p THEN c ELSE shelf[x]]
  /\ UNCHANGED <<index, listing, day, listed>>
RemoveFile(p) ==
  /\ p \in DOMAIN shelf /\ shelf' = Keep(shelf, DOMAIN shelf \ {p})
  /\ UNCHANGED <<index, listing, day, listed>>

(* readPrevAddedIn, before the walk *)
IndexStart ==
  /\ listing = NoListing
  /\ listing' = [step |-> "walk", todo |-> Shelved, previous |-> index, entries |-> Unparsable,
             today |-> day]
  /\ UNCHANGED <<shelf, index, day, listed>>

(* Mutant of AddedIn: the day is looked up by module. *)
AddedInByModule(p, c) ==
  LET same == {q \in DOMAIN listing.previous : listing.previous[q].module = ModuleOf[c]} IN
  IF same = {} THEN listing.today
  ELSE listing.previous[CHOOSE q \in same : \A r \in same : listing.previous[q].day >= listing.previous[r].day].day

AddedIn(p, c) == IF p \in DOMAIN listing.previous THEN listing.previous[p].day ELSE listing.today

Entered(p, c) ==
  [x \in DOMAIN listing.entries \cup {p} |->
     IF x = p THEN [module |-> ModuleOf[c], day |-> AddedIn(p, c)] ELSE listing.entries[x]]

(* buildEntries and buildEntry: import/, other files and files that open no*)
(* module or have a field that cannot be written are passed over.          *)
IndexVisit(p) ==
  /\ listing.step = "walk" /\ p \in listing.todo
  /\ LET gone == p \notin DOMAIN shelf \/ p \in Pending \/ p \notin Indexable
         c == shelf[p]
         visited == [listing EXCEPT !.todo = @ \ {p}]
     IN listing' = IF gone \/ ModuleOf[c] = NoModule \/ c \notin Printable THEN visited
                   ELSE [visited EXCEPT !.entries = Entered(p, c)]
  /\ UNCHANGED <<shelf, index, day, listed>>

(* A directory or a file that cannot be read is skipped. *)
IndexVisitFails(p) ==
  /\ listing.step = "walk" /\ p \in listing.todo \cap DOMAIN shelf
  /\ listing' = [listing EXCEPT !.todo = @ \ {p}]
  /\ UNCHANGED <<shelf, index, day, listed>>

(* A file that the index listed before this run keeps its first day. *)
FirstListed(entries) ==
  [p \in DOMAIN entries |-> IF p \in DOMAIN listed THEN listed[p] ELSE entries[p].day]

(* The file is written unless its bytes would stay the same; it is emptied *)
(* first.                                                                  *)
WriteBegin ==
  /\ listing.step = "walk" /\ listing.todo = {}
  /\ IF listing.entries = index
     THEN listing' = NoListing /\ index' = index /\ listed' = FirstListed(index)
     ELSE listing' = [listing EXCEPT !.step = "write"] /\ index' = Unparsable /\ listed' = listed
  /\ UNCHANGED <<shelf, day>>

(* A run that skipped files exits with an error after it wrote. *)
WriteEnd ==
  /\ listing.step = "write" /\ index' = listing.entries /\ listed' = FirstListed(listing.entries)
  /\ listing' = NoListing /\ UNCHANGED <<shelf, day>>

(* A run killed while it writes leaves some of its entries, or a file that *)
(* does not parse.                                                         *)
IndexKilled ==
  /\ listing # NoListing /\ listing' = NoListing
  /\ IF listing.step = "write"
     THEN \E S \in SUBSET DOMAIN listing.entries :
            /\ index' = Keep(listing.entries, S)
            /\ listed' = FirstListed(Keep(listing.entries, S))
     ELSE UNCHANGED <<index, listed>>
  /\ UNCHANGED <<shelf, day>>

IndexNext ==
  \/ Tomorrow \/ IndexStart \/ WriteBegin \/ WriteEnd \/ IndexKilled
  \/ \E p \in Shelved : RemoveFile(p) \/ IndexVisit(p) \/ IndexVisitFails(p) \/ \E c \in Texts : AddFile(p, c)

IndexSpec == IndexInit /\ [][IndexNext]_indexVars

-----------------------------------------------------------------------------
(* A file that every index since its first one lists keeps the day of that *)
(* first one, whatever happens to its content, its module's name and other *)
(* files of that module, and although a run may be killed (readPrevAddedIn,*)
(* buildEntry index.go:224-228).                                           *)
DatesKept ==
  listing = NoListing => \A p \in DOMAIN listed : p \in DOMAIN index /\ index[p].day = listed[p]
=============================================================================

-------------------------------- MODULE MibIngest --------------------------------
(***************************************************************************)
(* mib-ingest (cmd/mib-ingest): one run classifies the files of the drop   *)
(* folder and moves them into the corpus, perhaps after it deleted byte-   *)
(* identical copies, while a server may import the same folder.  Runs      *)
(* follow each other, and each may be killed at any step.  An operator     *)
(* drops files between two runs only.                                      *)
(***************************************************************************)
EXTENDS MibReport, Classify

CONSTANTS
  Dropped,    \* the paths in the drop folder, as numbers in their order
  Basename,   \* Dropped |-> file name
  Mib,        \* contents
  Gone,
  Marker,     \* contents with the MIB marker
  Makes,      \* Mib |-> the module smidump makes of it, or Gone if it fails
  Stamped,    \* Mib |-> its LAST-UPDATED as it is written
  Century,    \* minutes
  Catalogs,   \* what INDEX.yaml may hold: functions from modules to dates
  ListMax,    \* files that the summary names
  MaxRuns     \* bound: runs of the tool

ASSUME IngestAssumption ==
  /\ Gone \notin Mib /\ Marker \subseteq Mib /\ MaxRuns \in Nat /\ ListMax \in Nat
  /\ Dropped \subseteq Nat /\ IsFiniteSet(Dropped)

Parses(c) == c \in Marker /\ Makes[c] # Gone /\ Acceptable(Makes[c])
Updated(c) == Normal(Stamped[c], Century)
Dst(f, c) == IngestPlace(Makes[c], Basename[f])
Curated == {Dst(f, c) : f \in Dropped, c \in {m \in Mib : Parses(m)}}
In(f) == <<"import", f>>
Places == {In(f) : f \in Dropped} \cup Curated

VARIABLES
  tree,    \* Places |-> the content of the file there
  ingest,  \* the run
  verdict, \* of the last run: its exit code, the files it says it left behind
           \* and the number of those that it only counts
  unseen,  \* places that the server filled since the run looked at them
  runs

ingestVars == <<tree, ingest, verdict, unseen, runs>>

NoRun == [step |-> "none"]
IngestInit ==
  /\ tree \in {d \in [Places -> Mib \cup {Gone}] : \A p \in Curated : d[p] = Gone}
  /\ ingest = NoRun /\ verdict = [code |-> "none"] /\ unseen = {} /\ runs = 0

Lowest(S) == CHOOSE f \in S : \A g \in S : f <= g
There(S) == {f \in S : tree[In(f)] # Gone}

-----------------------------------------------------------------------------
(* The rest of the world: the operator drops a file between two runs, the  *)
(* server's import engine takes one away.                                  *)
OperatorDrops(f, c) ==
  /\ ingest = NoRun /\ runs < MaxRuns /\ tree[In(f)] = Gone
  /\ tree' = [tree EXCEPT ![In(f)] = c] /\ UNCHANGED <<ingest, verdict, unseen, runs>>

(* Also between the tool's last look at a destination and its rename.      *)
ServerTakes(f) ==
  /\ tree[In(f)] # Gone /\ Parses(tree[In(f)])
  /\ LET p == Dst(f, tree[In(f)]) IN
     /\ tree[p] \in {Gone, tree[In(f)]}
     /\ tree' = [tree EXCEPT ![In(f)] = Gone, ![p] = tree[In(f)]]
     /\ unseen' = IF ingest.step = "rename" /\ tree[p] = Gone THEN unseen \cup {p} ELSE unseen
  /\ UNCHANGED <<ingest, verdict, runs>>

-----------------------------------------------------------------------------
(* ingestCmd: walkUpload, then autoCollapseIdentical if asked for.         *)
IngestStart(collapse, dry) ==
  /\ ingest = NoRun /\ runs < MaxRuns /\ runs' = runs + 1 /\ There(Dropped) # {}
  /\ ingest' = [step |-> IF collapse THEN "hash" ELSE "read", collapse |-> collapse, dry |-> dry,
                walked |-> There(Dropped), kept |-> There(Dropped), dups |-> {},
                item |-> [f \in Dropped |-> Gone], fate |-> [f \in Dropped |-> "none"],
                todo |-> {}, gitFailed |-> FALSE]
  /\ verdict' = [code |-> "none"] /\ UNCHANGED <<tree, unseen>>

(* Mutant of Duplicates: every copy goes. *)
DuplicatesAll(files) == {f \in files : \E g \in files : g # f /\ tree[In(g)] = tree[In(f)]}

(* All but the first path of each content. *)
Duplicates(files) == {f \in files : \E g \in files : g < f /\ tree[In(g)] = tree[In(f)]}

(* A file that cannot be read is kept, and is no copy. *)
CollapseHash ==
  /\ ingest.step = "hash"
  /\ \E unreadable \in SUBSET There(ingest.kept) :
       LET dups == Duplicates(There(ingest.kept) \ unreadable) IN
       ingest' = [ingest EXCEPT !.step = IF ingest.dry THEN "read" ELSE "remove",
                                !.dups = IF ingest.dry THEN {} ELSE dups, !.kept = @ \ dups]
  /\ UNCHANGED <<tree, verdict, unseen, runs>>

(* A copy that is gone by now is fine. *)
CollapseRemove ==
  /\ ingest.step = "remove" /\ ingest.dups # {}
  /\ LET f == Lowest(ingest.dups) IN
     /\ tree' = [tree EXCEPT ![In(f)] = Gone] /\ ingest' = [ingest EXCEPT !.dups = @ \ {f}]
  /\ UNCHANGED <<verdict, unseen, runs>>
CollapseFails ==
  /\ ingest.step = "remove" /\ ingest.dups # {}
  /\ ingest' = NoRun /\ verdict' = [code |-> "fatal", left |-> {}, more |-> 0]
  /\ UNCHANGED <<tree, unseen, runs>>
CollapseDone ==
  /\ ingest.step = "remove" /\ ingest.dups = {} /\ ingest' = [ingest EXCEPT !.step = "read"]
  /\ UNCHANGED <<tree, verdict, unseen, runs>>

(* classifyFiles: hash and marker first.  A file that is gone or cannot be *)
(* read is skipped, as one without the marker is.                          *)
ReadFiles ==
  /\ ingest.step = "read"
  /\ \E unreadable \in SUBSET There(ingest.kept) :
       LET read == There(ingest.kept) \ unreadable IN
       ingest' = [ingest EXCEPT !.step = "compile",
                    !.item = [f \in Dropped |-> IF f \in read THEN tree[In(f)] ELSE Gone],
                    !.fate = [f \in Dropped |->
                                CASE f \notin ingest.kept -> "none"
                                  [] f \in ingest.kept \ read -> "unread"
                                  [] OTHER -> IF tree[In(f)] \in Marker THEN "marked" ELSE "nonmib"]]
  /\ UNCHANGED <<tree, verdict, unseen, runs>>

(* The compile pass; its bound may cut off any of the marked files. *)
CompileFiles ==
  /\ ingest.step = "compile"
  /\ LET marked == {f \in ingest.kept : ingest.fate[f] = "marked"} IN
     \E cut \in SUBSET marked :
       ingest' = [ingest EXCEPT !.step = "plan",
                    !.fate = [f \in Dropped |->
                       CASE f \in cut -> "budget"
                         [] f \in marked \ cut ->
                              IF tree[In(f)] # Gone /\ Parses(tree[In(f)]) THEN "parsed" ELSE "broken"
                         [] OTHER -> @[f]]]
  /\ UNCHANGED <<tree, verdict, unseen, runs>>

Taken(f) == tree[Dst(f, ingest.item[f])] # Gone

(* planMoves; a dry run ends here. *)
PlanMoves ==
  /\ ingest.step = "plan"
  /\ LET parsed == {f \in ingest.kept : ingest.fate[f] = "parsed"} IN
     ingest' = IF ingest.dry THEN NoRun
               ELSE [ingest EXCEPT !.step = "move", !.todo = {f \in parsed : ~Taken(f)},
                       !.fate = [f \in Dropped |-> IF f \in parsed /\ Taken(f) THEN "refused" ELSE @[f]]]
  /\ UNCHANGED <<tree, verdict, unseen, runs>>

(* applyMoves, in the order of the paths: the destination is looked at     *)
(* again, then the file is renamed.                                        *)
LookAgain ==
  /\ ingest.step = "move" /\ ingest.todo # {}
  /\ LET f == Lowest(ingest.todo) IN
     ingest' = IF Taken(f) THEN [ingest EXCEPT !.todo = @ \ {f}, !.fate[f] = "refused"]
               ELSE [ingest EXCEPT !.step = "rename"]
  /\ unseen' = {} /\ UNCHANGED <<tree, verdict, runs>>

(* os.Rename replaces what has come to the destination since. *)
RenameFile ==
  /\ ingest.step = "rename"
  /\ LET f == Lowest(ingest.todo) IN
     /\ tree[In(f)] # Gone
     /\ tree' = [tree EXCEPT ![In(f)] = Gone, ![Dst(f, ingest.item[f])] = tree[In(f)]]
     /\ \E failed \in BOOLEAN :
          ingest' = [ingest EXCEPT !.step = "move", !.todo = @ \ {f}, !.fate[f] = "moved",
                                   !.gitFailed = @ \/ failed]
  /\ unseen' = {} /\ UNCHANGED <<verdict, runs>>

(* The list of the summary: what parsed comes first, then what was skipped,*)
(* then what did not compile; it is cut off.                               *)
LeftBehind(r) == {f \in r.kept : r.fate[f] \in {"unread", "nonmib", "broken", "refused", "budget"}}
Turn(fate) == CASE fate = "refused" -> 1 [] fate \in {"unread", "nonmib"} -> 2 [] OTHER -> 3
Ahead(r, f, g) ==
  Turn(r.fate[f]) < Turn(r.fate[g]) \/ (Turn(r.fate[f]) = Turn(r.fate[g]) /\ f < g)
Listing(r) ==
  {f \in LeftBehind(r) : Cardinality({g \in LeftBehind(r) : Ahead(r, g, f)}) < ListMax}
Summary(code, r) ==
  [code |-> code, left |-> Listing(r), more |-> Cardinality(LeftBehind(r) \ Listing(r))]

(* mkdir or rename fails, for one because the file is gone: the other moves*)
(* and `make index` are not tried.                                         *)
RenameFails ==
  /\ ingest.step = "rename"
  /\ verdict' = Summary("fatal", ingest) /\ ingest' = NoRun /\ unseen' = {}
  /\ UNCHANGED <<tree, runs>>

(* Mutant of Failures: files the compile bound cut off do not count. *)
FailuresUncut(r) == {f \in r.kept : r.fate[f] \in {"broken", "refused"}}

Failures(r) == {f \in r.kept : r.fate[f] \in {"broken", "refused", "budget"}}

(* printSummary and the exit code.  `make index` may fail, with a warning. *)
IngestDone ==
  /\ ingest.step = "move" /\ ingest.todo = {}
  /\ verdict' = Summary(IF Failures(ingest) = {} /\ ~ingest.gitFailed THEN "ok" ELSE "failed", ingest)
  /\ ingest' = NoRun /\ UNCHANGED <<tree, unseen, runs>>

IngestKilled ==
  /\ ingest # NoRun /\ ingest' = NoRun /\ verdict' = [code |-> "killed"] /\ unseen' = {}
  /\ UNCHANGED <<tree, runs>>

IngestNext ==
  \/ \E f \in Dropped : ServerTakes(f) \/ \E c \in Mib : OperatorDrops(f, c)
  \/ \E collapse, dry \in BOOLEAN : IngestStart(collapse, dry)
  \/ CollapseHash \/ CollapseRemove \/ CollapseFails \/ CollapseDone \/ ReadFiles \/ CompileFiles \/ PlanMoves
  \/ LookAgain \/ RenameFile \/ RenameFails \/ IngestDone \/ IngestKilled

IngestSpec == IngestInit /\ [][IngestNext]_ingestVars

-----------------------------------------------------------------------------
F == INSTANCE Filing WITH Place <- Places, Item <- Mib, Nothing <- Gone, at <- tree

(* Whatever the tool, the server and an operator between the runs do, kills*)
(* included, it is filing: only copies are deleted, and a file is over-    *)
(* written only where the server put it between the tool's last look at    *)
(* the place and its rename (applyMoves, autoCollapseIdentical;            *)
(* ingest.go:677-687).                                                     *)
IngestFiles == F!FilingSpec

Told == Cardinality(There(ingest.walked) \ (verdict'.left \cup ingest.todo)) <= verdict'.more
LeavesNoMIB ==
  verdict'.code = "ok" =>
    \A f \in There(ingest.walked) : ingest.fate[f] = "unread" \/ tree[In(f)] \notin Marker

(* How a run ends tells what lies in the drop folder: the files it walked  *)
(* that are still there are named, or counted as `more`, or, when a move   *)
(* failed, among the moves that were not tried.  After exit 0 they are     *)
(* files without the MIB marker or files that could not be read            *)
(* (ingest.go:216-218, 228-233, 431-459, 783-801).                         *)
ExitTruthful ==
  [][ingest.step \in {"move", "rename"} /\ ingest' = NoRun /\ verdict'.code \in {"ok", "failed", "fatal"} =>
       Told /\ LeavesNoMIB]_ingestVars

(* The report in its JSON form names every file that a run without         *)
(* collapsing would leave behind for the sake of another file, or of one   *)
(* of the corpus if INDEX.yaml lists that one's module, and does not pass  *)
(* when the budget hid one (collectReportFindings, LoadCorpusIndex).  The  *)
(* index may be stale, and empty stands for absent or malformed.           *)
(* classify.go routes by name: files in unsorted/ are out of its sight.    *)
ReportNames ==
  ingest.step = "plan" => \A corpus \in Catalogs :
    LET result(f) == [src |-> f, outcome |-> ingest.fate[f], item |-> ingest.item[f],
                      module |-> IF ingest.fate[f] = "parsed" THEN Makes[ingest.item[f]].name ELSE "none",
                      oid |-> IF ingest.fate[f] = "parsed" THEN Makes[ingest.item[f]].oid ELSE <<>>,
                      updated |-> IF ingest.fate[f] = "parsed" THEN Updated(ingest.item[f]) ELSE NoDate]
        results == {result(f) : f \in ingest.kept}
        named == UNION {x.sources : x \in Findings(results, corpus)}
        parsed == {f \in ingest.kept : ingest.fate[f] = "parsed"}
        clash(f) == \E g \in parsed : g < f /\ Dst(g, ingest.item[g]) = Dst(f, ingest.item[f])
        indexed(f) == Taken(f) /\ Makes[tree[Dst(f, ingest.item[f])]].name \in DOMAIN corpus
    IN /\ \A f \in ingest.kept \ parsed : f \in named \/ Actionable(results, corpus)
       /\ \A f \in {g \in parsed : Dst(g, ingest.item[g])[1] # "unsorted"} :
            indexed(f) \/ clash(f) => f \in named
=============================================================================

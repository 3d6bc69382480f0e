------------------------------ MODULE MCService ------------------------------
(* What is read from the store and the command-line tools, one part at a   *)
(* time: the variables of the other parts keep one initial value.          *)
EXTENDS TreeBrowser, Workspace, Serving, Search, TrapIndex, WalkText, Convert, AlarmExport, TreeView,
  MibIngest, MibMigrate, MibIndex, TLC

CONSTANTS a1, a2, u1, n1, b1

VARIABLE part

Sym(m, n, o, k) == [module |-> m, name |-> n, oid |-> o, kind |-> k]
All == [branches |-> FALSE, family |-> NoFamily]
Map == [branches |-> TRUE, family |-> NoFamily]
MCVersions ==
  << {{}, {Sym(1, 1, <<1>>, "node"), Sym(1, 2, <<1, 0>>, "scalar"), Sym(1, 3, <<1, 2, 1>>, "table"),
           Sym(1, 4, <<1, 3>>, "notification-type")},
      {Sym(1, 2, <<1, 4, 5>>, "scalar"), Sym(1, 3, <<1, 3, 7, 1>>, "notification-type")}},
     {{}, {Sym(2, 1, <<1, 4, 5>>, "notification-type"), Sym(2, 2, <<1, 5>>, "scalar"),
           Sym(2, 3, NullIdentifier, "scalar"), Sym(2, 4, <<1, 7, 1>>, "scalar")}} >>
MCUrl == {[kind |-> "spine", oid |-> <<1, 4, 5>>, mode |-> All], [kind |-> "level", oid |-> <<1>>, mode |-> Map]}
MCLevels == {[parent |-> <<1>>, mode |-> All]}

(* Two editions of the workspace's module: a leaf beside a table, a symbol *)
(* that shares its OID, one without OID; and an edition without the table. *)
Def(n, o, up, k) == [name |-> n, oid |-> o, parent |-> up, kind |-> k]
MCContents ==
  {{Def("tc", NoOid, NoOid, "textual-convention"), Def("tab", <<1, 1>>, <<1>>, "table"),
    Def("col", <<1, 1, 1>>, <<1, 1>>, "column"), Def("dup", <<1, 2>>, <<1>>, "scalar")},
   {Def("dup", <<1, 3>>, <<1>>, "scalar")}}
MCForeign == {Def("other", <<1, 2>>, <<1>>, "scalar")}
MCScopes == {NoOid, <<1, 2>>}

(* A module with a table below the enterprises node, one that claims a     *)
(* column of it, and one that is never loaded; their imports form a cycle. *)
Obj(n, o, k, up, ix, int) ==
  [name |-> n, oid |-> o, kind |-> k, parent |-> up, index |-> ix, integer |-> int]
Column == Obj("c", <<1, 4, 7, 1, 2>>, "column", <<1, 4, 7, 1>>, <<>>, FALSE)
MCEditions ==
  "A" :> {[symbols |-> {Obj("e", <<1, 4, 7, 1>>, "entry", <<1, 4, 7>>, <<"i">>, FALSE),
                        Obj("i", <<1, 4, 7, 1, 1>>, "column", <<1, 4, 7, 1>>, <<>>, TRUE), Column},
           imports |-> <<"B", "C">>],
          [symbols |-> {Column}, imports |-> <<"C">>]}
  @@ "B" :> {[symbols |-> {Obj("x", <<1, 4>>, "node", <<1>>, <<>>, FALSE), [Column EXCEPT !.name = "d"]},
              imports |-> <<"C", "A">>]}
  @@ "C" :> {}
MCRoots == {{"A"}, {"A", "B"}}
MCEnterprises == <<1, 4>>
WalkLine(m, n, o) == [module |-> m, name |-> n, oid |-> o]
MCWalks ==
  {<<WalkLine("", Unnamed, <<1, 4, 7, 1, 2, 1>>), WalkLine("A", "c", <<2>>)>>,
   <<WalkLine("", Unnamed, <<1, 4, 7, 1, 2, 1>>), WalkLine("", Unnamed, <<1, 4, 7, 1, 2, 2>>)>>}

(* Symbols of a trie: a wide level, a chain, two families, two owners. *)
MCSymbols ==
  {Sym(1, 1, <<1>>, "node"), Sym(1, 2, <<1, 0>>, "scalar"), Sym(1, 3, <<1, 2, 1, 3>>, "table"),
   Sym(1, 4, <<1, 2, 1>>, "node"), Sym(2, 1, <<1, 2, 1>>, "notification-type"),
   Sym(2, 2, <<1, 5, 0, 1>>, "notification-type"), Sym(2, 3, <<1, 7, 2, 2>>, "scalar")}
MCModes == [branches : BOOLEAN, family : {NoFamily, "scalar", "notif"}]

(* Notifications: name and prose for either direction or none, objects     *)
(* that two may share in another order, a stub, a group.                   *)
Word(t, d) == [text |-> t, dir |-> d]
Bind(k, fixed) == [key |-> k, oid |-> <<k>>, fixed |-> fixed]
Stub == [key |-> 4, oid |-> Unresolved, fixed |-> FALSE]
Trap(n, words, prose, objects, groups, old) ==
  [name |-> n, words |-> words, prose |-> prose, objects |-> objects, groups |-> groups, legacy |-> old]
Down == <<Word("link", NoDir), Word("down", "raise")>>
Up == <<Word("link", NoDir), Word("up", "clear")>>
Plain == <<Word("fan", NoDir)>>
Named1 ==
  {Trap(1, Down, {}, os, gs, FALSE) : os \in {<<>>, <<Bind(1, FALSE)>>, <<Stub, Bind(1, FALSE)>>}, gs \in {{}, {1}}}
  \cup {Trap(1, Down, {"clear"}, <<Bind(1, FALSE)>>, {}, FALSE)}
  \cup {Trap(1, Plain, {"raise"}, os, {1}, FALSE) : os \in {<<Bind(1, FALSE)>>, <<Bind(2, TRUE), Bind(1, FALSE)>>}}
Named2 ==
  {Trap(2, Up, prose, os, gs, FALSE) :
     prose \in {{}, {"raise"}}, os \in {<<Bind(1, FALSE)>>, <<Stub, Bind(1, FALSE)>>, <<Bind(2, TRUE), Bind(1, FALSE)>>},
     gs \in {{}, {1}}}
  \cup {Trap(2, Plain, {"clear", "raise"}, <<Bind(1, FALSE)>>, {1}, FALSE)}
Named3 ==
  {Trap(3, ws, {"raise"}, <<Bind(1, FALSE)>>, gs, old) : ws \in {Down, Plain}, gs \in {{}, {1}}, old \in BOOLEAN}
Perhaps(S) == {{}} \cup {{n} : n \in S}
(* Editions between which an import changes the module under an export: a  *)
(* pair, the pair without its raise, with the raise under another name,    *)
(* with the roles exchanged; none.                                         *)
Fault(n, words) == Trap(n, words, {}, <<Bind(1, FALSE), Bind(2, TRUE)>>, {}, FALSE)
MCEdited ==
  {{Fault(1, Down), Fault(2, Up)}, {Fault(1, Down), Fault(2, Up), Fault(3, Plain)}, {Fault(2, Up)},
   {Fault(2, Up), Fault(3, Down)}, {Fault(1, Up), Fault(2, Down)}, {}}
MCModules == {x \cup y \cup z : x \in Perhaps(Named1), y \in Perhaps(Named2), z \in Perhaps(Named3)} \cup MCEdited

(* MIB files: two revisions of one module, one of a vendor, one that does  *)
(* not compile, one that is no MIB.                                        *)
Mod(name, valid, oid) == [name |-> name, valid |-> valid, oid |-> oid]
MCMakes ==
  a1 :> Mod("A", TRUE, <<1, 2, 5>>) @@ a2 :> Mod("A", TRUE, <<1, 2, 5>>) @@ u1 :> Mod("U", TRUE, <<2, 1>>)
    @@ b1 :> Gone @@ n1 :> Gone
MCParsed == [MCMakes EXCEPT ![u1] = Mod("U", TRUE, <<1, 4, 9, 2>>)]
MCGroupOf == "A" :> "core"
MCSlugOf == 9 :> "cisco"
MCVendor == <<1, 4>>
MCMib2 == <<1, 2>>
MCSnmpv2 == <<1, 6>>
MCExperiment == <<1, 3>>
MCStamped == [c \in {a1, a2, u1, n1, b1} |-> IF c = a1 THEN [form |-> "v2", value |-> 7] ELSE [form |-> "none"]]
(* No index, a current one, one that is older than a file of the folder. *)
MCCatalogs == {<<>>, "A" :> 7, "A" :> NoDate @@ "U" :> 9}
MCBasename == <<"x", "y", "x">>
(* The source directory of the migration overlaps the tree it files into. *)
MCSource == {<<"import", "x">>, <<"import", "z", "x">>, <<"unsorted", "x">>, <<"import", "y">>}
MCPlace == MCSource \cup {<<"unsorted", "y">>, <<"ietf", "core", "A">>, <<"vendors", 9, "cisco", "U">>}
MCFirstRow ==
  [x \in MCPlace |-> CASE x = <<"import", "x">> -> 1 [] x = <<"import", "y">> -> 2
                       [] x = <<"import", "z", "x">> -> 3 [] OTHER -> 4]
MCNameAt == [x \in MCPlace |-> IF x = <<"import", "y">> THEN "y" ELSE "x"]
MCRemovable == MCSource \ {<<"unsorted", "x">>}
MCEditable == {<<"unsorted", "x">>}
(* Files lie in the source directory, and perhaps at one destination. *)
MCTrees ==
  {<<"import", "x">> :> x @@ <<"import", "y">> :> y @@ <<"import", "z", "x">> :> z @@ <<"unsorted", "x">> :> w
     @@ <<"ietf", "core", "A">> :> c @@ [d \in MCPlace |-> NoFile] :
     x \in {a1, u1, b1}, y \in {a2, b1, NoFile}, z \in {a1, u1, NoFile}, w \in {a1, u1, b1, NoFile}, c \in {b1, NoFile}}
(* Index columns of every class and some that none covers; tables of one   *)
(* to three columns, a scalar, an unloaded object, two tables.             *)
Syntax(t, lo, hi) == [token |-> t, refined |-> FALSE, size |-> [lo |-> lo, hi |-> hi], bits |-> {}]
MCFixedSize == "MacAddress" :> 3 @@ "InetAddressIPv4" :> 2 @@ "InetAddressIPv6" :> 3
MCSyntaxes ==
  {Syntax("INTEGER", 0, 0), Syntax("IpAddress", 0, 0), Syntax("MacAddress", 0, 0), Syntax("InetAddressIPv4", 0, 0),
   Syntax("InetAddressIPv4", 1, 1), Syntax("OCTET STRING", 0, 0), Syntax("OCTET STRING", 2, 2),
   Syntax("OCTET STRING", 1, 2), Syntax("OCTET STRING", 1, 0), Syntax("InetAddress", 0, 0),
   Syntax("OBJECT IDENTIFIER", 0, 0), Syntax("Counter32", 0, 0),
   [Syntax("InetAddressType", 0, 0) EXCEPT !.refined = TRUE], Syntax("InetAddressType", 0, 0),
   [Syntax("BITS", 0, 0) EXCEPT !.bits = {0, 3}], [Syntax("BITS", 0, 0) EXCEPT !.bits = {-1, 9}]}
Entry1(columns, implied) == 1 :> [index |-> columns, implied |-> implied]
MCBound == {{[kind |-> "column", parent |-> 1]}, {[kind |-> "column", parent |-> 1], [kind |-> "column", parent |-> 2]},
            {[kind |-> "column", parent |-> 1], [kind |-> "unloaded", parent |-> 0]}, {[kind |-> "scalar", parent |-> 9]}}
MCTables ==
  {[objects |-> os, entries |-> Entry1(<<s, r>>, i)] : os \in MCBound, s \in MCSyntaxes, r \in MCSyntaxes, i \in BOOLEAN}
    \cup {[objects |-> {[kind |-> "column", parent |-> 1]}, entries |-> Entry1(ix, i)] :
             ix \in {<<>>} \cup {<<s>> : s \in MCSyntaxes}, i \in BOOLEAN}

(* Variables of a walk: one or two lines of hex, of text or of text that   *)
(* looks like hex; an absent one.                                          *)
MCAnswers ==
  {[ident |-> n, type |-> t, lines |-> ls, hexlike |-> FALSE] :
     n \in {1, 2}, t \in {HexString, "STRING", "none"}, ls \in {<<<<3>>>>, <<<<3>>, <<7>>>>}}
  \cup {[ident |-> n, type |-> "STRING", lines |-> <<<<4>>, <<7>>>>, hexlike |-> TRUE] : n \in {1, 2}}
MCJunk == {<<>>, <<TextLine("cruft", "", "", <<>>)>>, <<TextLine("prose", "", "", <<>>)>>}

(* Definitions: names that collide across sections, clauses that repeat.   *)
MCDescriptors == {1, 2, 3, 7, 8, 9}
MCArcs == {<<1>>, <<2>>, <<3>>}
MCDefinable ==
  [n \in 1..3 |->
    {[ident |-> id, tag |-> d[1], oid |-> <<n>>, objects |-> d[2], text |-> d[3]] :
       id \in {1, 2, 3},
       d \in {<<"scalar", <<>>, {"ascii"}>>, <<"node", <<>>, {"utf8", "stray"}>>, <<"column", <<>>, {}>>,
              <<"row", <<8, 9, 8>>, {}>>, <<"augmentation", <<7>>, {}>>,
              <<"notification", <<9, 8, 9, 7>>, {"control"}>>, <<"group", <<7, 8>>, {}>>, <<"typedef", <<>>, {}>>}}]

(* Two words of a module name, prefixes, a short word; a qualified name.   *)
IfMib == <<1, 0, 2>>
MCShelf == IfMib :> {{}, {[name |-> <<1, 3>>, oid |-> <<1>>], [name |-> <<1, 4>>, oid |-> <<1, 1>>]}}
             @@ <<2, 2>> :> {{[name |-> <<1, 3>>, oid |-> <<1>>], [name |-> <<2>>, oid |-> <<>>]}}
Named(m, n) == [kind |-> "qualified", module |-> m, name |-> n]
MCQueries ==
  {[kind |-> k, oid |-> <<1>>] : k \in {"oid", "lookup_oid"}}
  \cup {[kind |-> "lookup_symbol", module |-> IfMib, name |-> <<1, 4>>], [kind |-> "search_mibs", words |-> <<<<1, 3>>>>], Named(IfMib, <<1, 3>>), Named(<<2, 2>>, <<2>>), [kind |-> "words", words |-> <<<<1, 3>>>>],
   [kind |-> "words", words |-> <<<<2>>>>], [kind |-> "words", words |-> <<<<1, 5>>>>]}
MCNear == {<<[kind |-> "words", words |-> <<<<1, 5>>>>], <<1, 3>>>>}

(* Paths of the corpus index: two files of one module, a pending one, a    *)
(* file whose fields cannot be written.                                    *)
MCModuleOf == "m" :> "M" @@ "m2" :> "M2" @@ "bad" :> "B"

Init ==
  /\ part \in {"caching", "paging", "workspace", "serving", "trie", "traps",
               "ingest", "migrate", "search", "index", "suffixes", "walks", "definitions"}
  /\ BrowserInit /\ ServingInit /\ ExportInit /\ ViewInit /\ SimulatorInit /\ WalkInit /\ ConvertInit
  /\ (part # "traps" => traps = {})
  /\ WorkspaceInit /\ (part # "workspace" => \E s \in defined : s.name = "tc")
  /\ SearchInit
  /\ IF part = "index" THEN IndexInit
     ELSE shelf = Unparsable /\ index = Unparsable /\ listing = NoListing /\ day = 1 /\ listed = Unparsable
  /\ tree = [x \in Places |-> Gone] /\ IngestInit
  /\ IF part = "migrate" THEN worktree \in MCTrees /\ MigrateInit
     ELSE /\ worktree = [x \in Place |-> NoFile] /\ plan = <<>> /\ apply = NoApply
          /\ outcome = [step |-> "none"] /\ applies = 0

toolVars == <<ingestVars, migrateVars, indexVars>>
shownVars == <<exportVars, rows, simulated, printed>>
storeVars == <<servingVars, searchVars, shownVars>>
pageVars == <<treeVars, workspaceVars>>

Next ==
  /\ UNCHANGED part
  /\ \/ part = "caching" /\ CachingNext /\ UNCHANGED <<workspaceVars, storeVars, toolVars, dump>>
     \/ part = "paging" /\ PagingNext /\ UNCHANGED <<workspaceVars, storeVars, toolVars, dump>>
     \/ part = "workspace" /\ WorkspaceNext /\ UNCHANGED <<treeVars, storeVars, toolVars, dump>>
     \/ part = "serving" /\ ServingNext /\ UNCHANGED <<pageVars, searchVars, shownVars, toolVars, dump>>
     \/ part = "search" /\ SearchNext /\ UNCHANGED <<pageVars, servingVars, shownVars, toolVars, dump>>
     \/ /\ UNCHANGED <<pageVars, servingVars, searchVars, toolVars, dump>>
        /\ \/ part = "trie" /\ ViewNext /\ UNCHANGED <<exportVars, simulated, printed>>
           \/ part = "traps" /\ (Answering \/ (traps \in MCEdited /\ \E N \in MCEdited : ReplaceTraps(N))) /\ UNCHANGED <<rows, simulated, printed>>
           \/ part = "suffixes" /\ SimulatorNext /\ UNCHANGED <<exportVars, rows, printed>>
           \/ part = "walks" /\ WalkNext /\ UNCHANGED <<exportVars, rows, simulated>>
     \/ part = "ingest" /\ IngestNext /\ tree'[In(2)] # n1 /\ tree'[In(3)] \in {Gone, a1}
        /\ UNCHANGED <<pageVars, storeVars, migrateVars, indexVars, dump>>
     \/ part = "migrate" /\ MigrateNext /\ UNCHANGED <<pageVars, storeVars, ingestVars, indexVars, dump>>
     \/ part = "index" /\ IndexNext /\ UNCHANGED <<pageVars, storeVars, ingestVars, migrateVars, dump>>
     \/ part = "definitions" /\ ConvertNext /\ UNCHANGED <<pageVars, storeVars, toolVars>>

serviceVars == <<part, dump, pageVars, storeVars, toolVars>>
Spec == Init /\ [][Next]_serviceVars

=============================================================================

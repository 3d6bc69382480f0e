CONSTANTS
  Gone = Gone
  a1 = a1  a2 = a2  u1 = u1  n1 = n1  b1 = b1
  Versions <- MCVersions
  Url <- MCUrl
  Levels <- MCLevels
  Limit = 2
  MaxRebuilds = 2
  MaxWipes = 1
  Contents <- MCContents
  Foreign <- MCForeign
  Scopes <- MCScopes
  MaxImports = 1
  MaxClicks = 2
  Editions <- MCEditions
  Walks <- MCWalks
  Roots <- MCRoots
  Enterprises <- MCEnterprises
  Symbols <- MCSymbols
  Modes <- MCModes
  PageSizes = {1, 2}
  Modules <- MCModules
  Entities = {1, 2}
  StructuralArcMax = 2
  MaxChanges = 3
  Mib = {a1, a2, u1, n1, b1}
  Marker = {a1, a2, u1, b1}
  Makes <- MCMakes
  Stamped <- MCStamped
  Century = 100
  Catalogs <- MCCatalogs
  ListMax = 2
  Dropped = {1, 2, 3}
  Basename <- MCBasename
  MaxRuns = 1
  GroupOf <- MCGroupOf
  SlugOf <- MCSlugOf
  Vendor <- MCVendor
  Mib2 <- MCMib2
  Snmpv2 <- MCSnmpv2
  Experiment <- MCExperiment
  MaxPEN = 9
  Place <- MCPlace
  FirstRow <- MCFirstRow
  Source <- MCSource
  NameAt <- MCNameAt
  Blob = {a1, a2, u1, n1, b1}
  NoFile = Gone
  Opens = {a1, a2, u1, b1}
  Parsed <- MCParsed
  Removable <- MCRemovable
  Editable <- MCEditable
  MaxApplies = 2
  Shelf <- MCShelf
  Queries <- MCQueries
  Separator = 0
  MinToken = 2
  Listed = 3
  Near <- MCNear
  MaxReplaced = 3
  FixedSize <- MCFixedSize
  Quad = 2
  BitsCap = 8
  ByteBits = 3
  Octets = {1, 2}
  MaxTyped = 3
  Tables <- MCTables
  Answers <- MCAnswers
  Junk <- MCJunk
  MaxWalked = 3
  Descriptors <- MCDescriptors
  Arcs <- MCArcs
  Identity = 1
  Definable <- MCDefinable
  Shelved = {"ietf/a", "vendors/b", "import/a"}
  Texts = {"m", "m2", "bad"}
  ModuleOf <- MCModuleOf
  NoModule = "none"
  Pending = {"import/a"}
  Indexable = {"ietf/a", "vendors/b"}
  Printable = {"m", "m2"}
  LastDay = 2
SPECIFICATION Spec
INVARIANTS CachedBodiesCurrent PagingDelivers PanesAgree
  BundleAccounts OneOwnerPerColumn SpinesShowFocus TreesExpand ExportedAlarmsClear ReportNames
  SuffixesDecode WalksParse DefinitionsStored DatesKept
PROPERTIES ClickSelects IngestFiles ExitTruthful AppliedAsPlanned TypedFirst
CHECK_DEADLOCK FALSE

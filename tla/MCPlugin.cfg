SPECIFICATION Spec
CONSTANTS
  r1 = r1
  r2 = r2
  lifecycle = lifecycle
  mcp_x = mcp_x
  cc_mcp_x = cc_mcp_x
  read = read
  Requests <- TwoRequests
  Lifecycle <- lifecycle
  ClientFormats <- MCClientFormats
  Providers <- TwoFormats
  Capacity = 2
  Threshold = 1
  Names <- MCNames
  ToolLists <- MCToolLists
  StaticAlias <- MCStaticAlias
  StaticPrefixed <- MCStaticPrefixed
  StaticWithin <- MCStaticPrefixed
  DynamicAlias <- MCDynamicAlias
  NoKey = NoKey
  NoRewrite <- MCNoRewrite
SYMMETRY Symmetry
INVARIANTS
  AnswersOwned
  RenamedOnce
  WayBackKept
  CoveredNeverSent
  NamesComeBack

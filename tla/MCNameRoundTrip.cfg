SPECIFICATION Spec
CONSTANTS
  mcp_x = mcp_x
  cc_mcp_x = cc_mcp_x
  read = read
  web_search = web_search
  word = word
  NoName = NoName
  Names <- MCNames
  ToolLists <- MCToolLists
  StaticAlias <- MCStaticAlias
  DynamicAlias <- MCDynamicAlias
  Threshold <- MCThreshold
  Types <- MCTypes
  Requests <- MCRequests
  Words <- MCWords
INVARIANTS
  TypeOK
  ToolUseRestored
  OrderIrrelevant
  WireBodyFits
  CoveredNamesRenamed
\* One request and its response: the machine stops when the client has it.
CHECK_DEADLOCK FALSE

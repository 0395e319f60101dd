SPECIFICATION Spec
CONSTANTS
  c1 = c1
  c2 = c2
  mcp_x = mcp_x
  mcp_y = mcp_y
  cc_mcp_x = cc_mcp_x
  cc_mcp_y = cc_mcp_y
  read = read
  react = react
  cc_mcp__x = cc_mcp__x
  mcp__x = mcp__x
  Clients <- TwoClients
  Quotable <- OneQuotable
  Capacity = 1
  Threshold = 2
  Names <- MCNames
  ToolLists <- MCToolLists
  StaticAlias <- MCStaticAlias
  StaticPrefixed <- MCStaticPrefixed
  StaticWithin <- MCStaticPrefixed
  DynamicAlias <- MCDynamicAlias
  NoKey = NoKey
  NoRewrite <- MCNoRewrite
INVARIANTS
  NeverWrongTool
  NoLeakWithoutLoss
  StaticNeverLeaks
SYMMETRY Symmetry

SPECIFICATION Spec
CONSTANTS
  my_cc_mcp_x = my_cc_mcp_x
  my_mcp_x = my_mcp_x
  cc_mcp__x = cc_mcp__x
  mcp__x = mcp__x
  mcp_cc_mcp_x = mcp_cc_mcp_x
  cc_mcp_cc_mcp_x = cc_mcp_cc_mcp_x
  mcp_mcp_x = mcp_mcp_x
  r1 = r1
  r2 = r2
  r3 = r3
  mcp_x = mcp_x
  cc_mcp_x = cc_mcp_x
  read = read
  react = react
  here = here
  Requests <- ThreeRequests
  Contexts <- OneContext
  ChunkCarriesBody = FALSE
  Capacity = 2
  Threshold = 1
  Names <- MCNames
  ToolLists <- MCToolLists
  StaticAlias <- MCStaticAlias
  StaticPrefixed <- MCStaticPrefixed
  StaticWithin <- MCStaticWithin
  DynamicAlias <- MCDynamicAlias
  NoKey = NoKey
  NoBody = NoBody
  NoRewrite <- MCNoRewrite
SYMMETRY Symmetry
INVARIANTS
  NeverWrongTool
  LeakMeansEvicted
  OnlyLookalikesConfused
PROPERTIES
  ReconfigureInvisible
  KeepsPromise

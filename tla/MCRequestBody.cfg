SPECIFICATION Spec
CONSTANTS
  mcp_x = mcp_x
  cc_mcp_x = cc_mcp_x
  read = read
  server = server
  Missing = Missing
  Names <- MCNames
  ToolLists <- MCToolLists
  StaticAlias <- MCStaticAlias
  DynamicAlias <- MCDynamicAlias
  Threshold <- MCThreshold
  Bodies <- MCBodies
  Texts <- MCTexts
  Betas <- MCBetas
  Headers <- MCHeaders
  Configs <- MCConfigs
  MaxHops <- MCMaxHops
INVARIANTS
  TypeOK
  ConversationKept
  ContextGated
  TogglesRule
PROPERTIES
  SecondPassIdle
\* A request ends at its last gateway.
CHECK_DEADLOCK FALSE

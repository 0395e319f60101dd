SPECIFICATION StreamSpec
CONSTANTS
  Bytes <- MCBytes
  NameBytes <- MCNameBytes
  RequestReverse <- MCRequestReverse
  StaticReverse <- MCStaticReverse
  Texts <- MCTexts
  StaticTexts <- MCStaticTexts
  MaxChunks <- MCMaxChunks
INVARIANTS
  StreamTyped
  RestoredBetweenNames
  FramingKept
  StaticOrderIrrelevant
\* The response ends.
CHECK_DEADLOCK FALSE

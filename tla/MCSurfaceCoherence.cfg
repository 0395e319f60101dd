SPECIFICATION SurfaceSpec
CONSTANTS
  r1 = r1
  r2 = r2
  Mistyped = Mistyped
  RequestIds <- MCRequests
  Payloads <- MCPayloads
SYMMETRY Symmetry
INVARIANTS
  ConfigAsLoaded
  OneConfigPerBody
  DivergenceNeedsSwitch

SPECIFICATION Spec
CONSTANTS
  None = None
  Scale <- ShippedScale
  Choice <- ShippedChoice
  Option <- ShippedOption
  Binary <- ShippedBinary
  TypeName <- ShippedTypeName
  Reverse <- MCReverse
  Style <- MCStyle
  Baseline <- ShippedBaseline
  Dimension <- MCDimension
  DimOf <- ShippedDimOf
  High <- MCHigh
  Mid <- MCMid
  Sittings <- MCSittings
  Topics <- MCTopics
  MaxAttempts = 2
  Picks <- MCPicks
  Templates <- MCTemplates
  Shipped <- ShippedTemplates
INVARIANTS
  NothingFromSilence
  EnginesAreExact
  LayersHold
  ShippedTemplatesFit
CHECK_DEADLOCK FALSE

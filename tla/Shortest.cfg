SPECIFICATION Spec
CHECK_DEADLOCK FALSE
CONSTANTS
  s1 = s1
  s2 = s2
  s3 = s3
  NumLayers = 4
  Servers = {s1, s2, s3}
  Offers <- AnyOffer
  Scale = 24
SYMMETRY AnyOrder
INVARIANTS
  TypeOK
  FindsRoute
  FindsCheapest
  GivesUpRightly
  JoinFillsGap
PROPERTIES
  PoppedIsFinal

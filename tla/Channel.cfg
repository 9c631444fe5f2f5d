SPECIFICATION Spec
CONSTANTS
  e1 = e1  e2 = e2  e3 = e3
  Ends = {e1, e2, e3}
  FirstEnd = e1
  Consumers = {c1, c2}
  Shapes <- AllShapes
  MaxSends = 3
INVARIANTS
  TypeOK
  FreedIffNoEnds
  ClosedMeansNoSender
  NoLostWakeup
  PayloadConservation
  WithinCapacity
PROPERTIES
  BlockedRecvReturns

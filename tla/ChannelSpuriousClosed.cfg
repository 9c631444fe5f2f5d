SPECIFICATION Spec
CONSTANTS
  e1 = e1  e2 = e2  e3 = e3
  Ends = {e1, e2, e3}
  FirstEnd = e1
  Consumers = {c1}
  Shapes <- OneShape
  MaxSends = 3
PROPERTIES
  GivesUpOnlyWithoutReceiver

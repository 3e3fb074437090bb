SPECIFICATION LiveSpec
CONSTANTS
  Callers = {p1, p2}
  Keys = {k1}
  Runs = {r1}
  None = None
  MaxVersion = 2
  Pipelined = FALSE
  Cleaners = 1
  MaxFaults = 2
PROPERTIES
  ValidatingResolves

SPECIFICATION Spec
CONSTANTS
  a = a
  b = b
  c = c
  Source = {a, b, c}
  Due <- InTurn
  Broken = {c}
  Slots = 2
  MaxMinute = 1
  MaxCopies = 1
  MaxFaults = 1
INVARIANTS
  NoTwinsInTurn
  TickServesSoundJobs
CHECK_DEADLOCK FALSE

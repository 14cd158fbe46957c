\* One byte is enough to show what the delay of calibrate_timer reads.
SPECIFICATION Spec
CONSTANTS
  MaxTicks = 1
  MaxBytes = 1
  MaxSpurious = 0
  IntMax = 2
  MinuteLength = 2
INVARIANTS DelayTakesNoKey
CHECK_DEADLOCK FALSE

\* Bytes of two bits, a reload value with two different ones, two machines, and
\* the output of an 8254.
SPECIFICATION Spec
CONSTANTS
  Base = 4
  Reload = 11
  MaxCount = 40
  Rates = {1, 3}
  CountingHigh = FALSE
INVARIANTS SleepsTenMs
CHECK_DEADLOCK FALSE

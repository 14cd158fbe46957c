\* Four ticks, three bytes and a spurious interrupt, a minute of two
\* milliseconds and an int that overflows at the third: nested handlers, merged
\* ticks, a minute line and a wrap all happen.  The machine stops when the
\* devices have nothing left to do.
SPECIFICATION Spec
CONSTANTS
  MaxTicks = 4
  MaxBytes = 3
  MaxSpurious = 1
  IntMax = 2
  MinuteLength = 2
INVARIANTS OneBodyAtATime EoiIsOwn TicksCounted KeysInOrder ByteMeansInterrupt
PROPERTIES KeyServed ComesToRest
CHECK_DEADLOCK FALSE

\* Every state Init lets the firmware leave the controllers in, with two pins of
\* the I/O APIC: the keyboard's and one the code leaves alone; a timer count that
\* is rounded down by the division and one that is not.  The kernel ends in the
\* idle loop or in a panic.  Bytes of two bits; for the tables every
\* address at which the kernel could lie, for the calibration a reload value
\* with two different bytes, two machines, and the output of QEMU's PIT.
SPECIFICATION MCSpec
CONSTANTS
  Pins = {1, 2}
  FullCount = 1000
  TimerCounts = {100, 109}
  Nibble = 2
  TssSize = 11
  Base = 4
  Reload = 11
  MaxCount = 40
  Rates = {1, 3}
  CountingHigh = TRUE
INVARIANTS SourcesHaveHandlers NothingBlind IdleServes LoadsSucceed
           EntriesReach MillisecondTimer
PROPERTIES WaitEnds
CHECK_DEADLOCK FALSE

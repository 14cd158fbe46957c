\* An extended modifier, a letter it changes and up to three bytes typed from
\* the middle of boot on, with two ticks of a minute each and a spurious interrupt.
SPECIFICATION KernelSpec
CONSTANTS
  MaxTicks = 2
  MaxBytes = 3
  MaxSpurious = 1
  IntMax = 7
  MinuteLength = 1
  Keys = {"A", "RCtl"}
  MaxQueue = 2
PROPERTIES ImplementsConsole EventsHandled
CHECK_DEADLOCK FALSE

\* A char of three bits, a short of four, an int of five, and a buffer of five
\* characters: as at 32 bits and 32 characters, the longest binary numeral fills
\* it.  Values include the least int and -1; widths and precisions are below, at
\* and above the size of the buffer.  Formats have every order of two flags and
\* each way to give a width, a precision and a size; texts put out are shorter,
\* as long as and longer than the count.
SPECIFICATION MCSpec
CONSTANTS
  BufferSize = 5
  Bits <- MCBits
  Calls <- MCCalls
  Texts <- MCTexts
  Formats <- MCFormats
  IntValues = 256
  MaxLen = 5
  Char = {a, b, NUL}
  NUL = NUL
  Old = Old
  Counts = {0, 1, 2, 4, 5}
  Space = 7
  SizeMax = 255
INVARIANTS BufferHolds PrintsAsC FindsWhatIsWritten BufferKeepsCount
           ReturnTellsCut DeviceGetsText
CHECK_DEADLOCK FALSE

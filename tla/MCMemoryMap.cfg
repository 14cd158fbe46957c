\* A size field of one byte and a struct of three; entries of three bytes, of
\* four and of six, in lists of up to three, which is all there is room for.
\* The walk stops at the end of the list.
SPECIFICATION Spec
CONSTANTS
  ENTRY_SIZE = 3
  SizeField = 1
  EntryBytes = 3
  Labels <- MCLabels
  Maps <- MCMaps
INVARIANTS TypeOK ReadsEntries RecordsMap
CHECK_DEADLOCK FALSE

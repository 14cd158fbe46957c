\* Every call on every memory of six bytes of three values: all overlaps of
\* memmove, strings that end early, late and at once; for strtok two fields and
\* their separator, separators at either end, doubled, alone, or none.
SPECIFICATION MCSpec
CONSTANTS
  Size = 6
  Base = 3
INVARIANTS MemmoveMoves OthersWrite ScansFind TokensAreFields CutsSeparators

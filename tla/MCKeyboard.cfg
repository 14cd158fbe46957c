\* Two keys of one modifier, an extended modifier, a lock, a letter and an arrow
\* key, with two events outstanding: twin modifiers overlap, extended codes meet
\* plain ones, and the arrow key sends its false shift codes.
SPECIFICATION Spec
CONSTANTS
  Keys = {"A", "LShift", "RShift", "RCtl", "Caps", "Up"}
  MaxQueue = 2
INVARIANTS NoStuckModifier
PROPERTIES ImplementsKeyEvents

\* A screen of three rows of two cells over a ring of five rows: every row is
\* recycled, text wraps at the right edge, and the window wraps round the end of
\* the ring.  A cell is the blank in one of two colors: the cleared cell, or the
\* mark of a print.
SPECIFICATION Spec
CONSTANTS
  VGA_WIDTH = 2
  VGA_HEIGHT = 3
  SCROLL_BUFFER_SIZE = 5
  Space = Space
  Newline = Newline
  LightGrey = LightGrey
  White = White
  Glyphs = {Space}
  Colors = {LightGrey, White}
INVARIANTS TypeOK TailBlank ScreenIsWindow
PROPERTIES ScrollKeepsPlace ImplementsScrollback

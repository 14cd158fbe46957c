----------------------------- MODULE Scrollback -----------------------------
(***************************************************************************)
(* What the terminal of terminal.c promises its callers, said without the  *)
(* ring buffer: the last Capacity lines of everything printed are kept,    *)
(* oldest first; text goes to the end of the last line; a full line or a   *)
(* newline opens a fresh blank line and forgets the oldest one; printing   *)
(* always brings the last Height lines back on the screen; the arrow keys  *)
(* move the screen over the kept lines and change no text.                 *)
(***************************************************************************)
EXTENDS Integers

CONSTANTS
  Width,     \* cells in a line
  Height,    \* lines on the screen
  Capacity,  \* lines kept
  Newline,   \* the character that ends a line
  Blank,     \* the cell a fresh line is made of
  Glyphs,    \* the characters that occupy a cell
  Colors     \* the attributes a character can be printed with

VARIABLES
  lines,   \* the kept lines, 0 the oldest, Capacity - 1 the one being written
  column,  \* the next free cell of the last line
  ink,     \* the attribute characters are printed with
  screen   \* the lines on display, top to bottom

svars == <<lines, column, ink, screen>>

BlankLine == [x \in 0 .. Width - 1 |-> Blank]

(* The Height lines from line top on; past the newest line comes the oldest. *)
Window(ls, top) == [i \in 0 .. Height - 1 |-> ls[(top + i) % Capacity]]

(* The oldest line is dropped and a blank one is opened at the end. *)
Feed(ls) ==
  [k \in 0 .. Capacity - 1 |-> IF k = Capacity - 1 THEN BlankLine ELSE ls[k + 1]]

SInit ==
  /\ lines = [k \in 0 .. Capacity - 1 |-> BlankLine]
  /\ column = 0
  /\ ink \in Colors
  /\ screen = Window(lines, Capacity - Height)

ShowTail == screen' = Window(lines', Capacity - Height)

EndLine ==
  /\ lines' = Feed(lines)
  /\ column' = 0
  /\ ShowTail
  /\ UNCHANGED ink

Type(c) ==
  LET typed == [lines EXCEPT ![Capacity - 1][column] = <<c, ink>>] IN
  /\ IF column = Width - 1
       THEN lines' = Feed(typed) /\ column' = 0
       ELSE lines' = typed /\ column' = column + 1
  /\ ShowTail
  /\ UNCHANGED ink

ChangeInk(c) ==
  /\ ink' = c
  /\ UNCHANGED <<lines, column, screen>>

Scroll ==
  /\ \E top \in 0 .. Capacity - 1 : screen' = Window(lines, top)
  /\ UNCHANGED <<lines, column, ink>>

SNext ==
  \/ EndLine
  \/ \E c \in Glyphs : Type(c)
  \/ \E c \in Colors : ChangeInk(c)
  \/ Scroll

SSpec == SInit /\ [][SNext]_svars
=============================================================================

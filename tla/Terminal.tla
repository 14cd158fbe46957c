------------------------------ MODULE Terminal ------------------------------
(***************************************************************************)
(* terminal.c: text output through a ring of SCROLL_BUFFER_SIZE rows, of   *)
(* which VGA_HEIGHT are copied to the screen after every operation.        *)
(*                                                                         *)
(* One action per entry point.  An entry point runs to its end before the  *)
(* next one starts: every caller holds interrupts off (module Interrupts). *)
(***************************************************************************)
EXTENDS Integers

CONSTANTS
  VGA_WIDTH, VGA_HEIGHT, SCROLL_BUFFER_SIZE,
  Glyphs,                \* every character but '\n'
  Newline,               \* '\n'
  Space,                 \* ' '
  Colors,                \* attribute bytes
  LightGrey, White       \* the two attributes the code names by itself

ASSUME SizeAssumption ==
  /\ VGA_WIDTH \in Nat \ {0}
  /\ VGA_HEIGHT \in Nat \ {0}
  /\ SCROLL_BUFFER_SIZE \in Nat
  /\ VGA_HEIGHT < SCROLL_BUFFER_SIZE

ASSUME CharAssumption ==
  /\ Newline \notin Glyphs
  /\ Space \in Glyphs
  /\ {LightGrey, White} \subseteq Colors

VARIABLES
  terminal_column,
  scroll_buffer,
  scroll_buffer_row,     \* first row of the window, see the note at Follow
  scroll_buffer_cursor,  \* the row being written
  default_color,
  screen                 \* the memory at terminal_buffer, row by row

vars == <<terminal_column, scroll_buffer, scroll_buffer_row,
          scroll_buffer_cursor, default_color, screen>>

BufferRows == 0 .. SCROLL_BUFFER_SIZE - 1
ScreenRows == 0 .. VGA_HEIGHT - 1
Columns    == 0 .. VGA_WIDTH - 1

-----------------------------------------------------------------------------
(* A cell holds a character and its attribute. *)
vga_entry(uc, color) == <<uc, color>>

Cell == Glyphs \X Colors

BlankRow == [x \in Columns |-> vga_entry(Space, LightGrey)]

minus_vga_height(row) ==
  IF row - VGA_HEIGHT < 0
    THEN row - VGA_HEIGHT + SCROLL_BUFFER_SIZE
    ELSE row - VGA_HEIGHT

(* What the screen holds once VGA_HEIGHT rows from row on are copied to it. *)
sync_with_scroll_buffer(buffer, row) ==
  [i \in ScreenRows |-> buffer[(row + i) % SCROLL_BUFFER_SIZE]]

terminal_putentryat(c, color, x, y) ==
  [scroll_buffer EXCEPT ![y % SCROLL_BUFFER_SIZE][x] = vga_entry(c, color)]

(* Mutant of next_row: the row entered is not cleared. *)
next_row_uncleared(buffer) ==
  /\ terminal_column' = 0
  /\ scroll_buffer_cursor' = (scroll_buffer_cursor + 1) % SCROLL_BUFFER_SIZE
  /\ scroll_buffer' = buffer

(* next_row, clear_current_row included, on the buffer as written so far. *)
next_row(buffer) ==
  /\ terminal_column' = 0
  /\ scroll_buffer_cursor' = (scroll_buffer_cursor + 1) % SCROLL_BUFFER_SIZE
  /\ scroll_buffer' = [buffer EXCEPT ![scroll_buffer_cursor'] = BlankRow]

(* Mutant of Follow: the window is copied from scroll_buffer_row itself. *)
Follow_one_row_short ==
  /\ scroll_buffer_row' = minus_vga_height(scroll_buffer_cursor')
  /\ screen' = sync_with_scroll_buffer(scroll_buffer', scroll_buffer_row')

(* After output the window starts one row below scroll_buffer_row; after a *)
(* scroll key (and at start-up) it starts at scroll_buffer_row itself.     *)
Follow ==
  /\ scroll_buffer_row' = minus_vga_height(scroll_buffer_cursor')
  /\ screen' = sync_with_scroll_buffer(scroll_buffer', scroll_buffer_row' + 1)

(* Mutant of FillsRow: the column is compared before it is incremented. *)
FillsRow_late == terminal_column = VGA_WIDTH

(* The character about to be written takes the last cell of its row. *)
FillsRow == terminal_column + 1 = VGA_WIDTH

-----------------------------------------------------------------------------
(* The statics as loaded, with terminal_initialize run over them: it is    *)
(* called once, before the first output (kernel.c).                        *)
Init ==
  /\ terminal_column = 0
  /\ scroll_buffer = [y \in BufferRows |-> BlankRow]
  /\ scroll_buffer_cursor = 0
  /\ scroll_buffer_row = minus_vga_height(scroll_buffer_cursor)
  /\ default_color = White
  /\ screen = sync_with_scroll_buffer(scroll_buffer, scroll_buffer_row)

terminal_putchar_color(c, color) ==
  LET written == terminal_putentryat(c, color, terminal_column, scroll_buffer_cursor) IN
  /\ \/ /\ c = Newline
        /\ next_row(scroll_buffer)
     \/ /\ c # Newline
        /\ FillsRow
        /\ next_row(written)
     \/ /\ c # Newline
        /\ ~ FillsRow
        /\ terminal_column' = terminal_column + 1
        /\ scroll_buffer' = written
        /\ UNCHANGED scroll_buffer_cursor
  /\ Follow
  /\ UNCHANGED default_color

(* _putchar, the routine printf_ sends every character to. *)
putchar(c) == terminal_putchar_color(c, default_color)

set_color(color) ==
  /\ default_color' = color
  /\ UNCHANGED <<terminal_column, scroll_buffer, scroll_buffer_row,
                 scroll_buffer_cursor, screen>>

(* Mutant of ScrollTo: the copy uses the row of before the key. *)
ScrollTo_stale_row(row) ==
  /\ scroll_buffer_row' = row
  /\ screen' = sync_with_scroll_buffer(scroll_buffer, scroll_buffer_row)
  /\ UNCHANGED <<terminal_column, scroll_buffer, scroll_buffer_cursor, default_color>>

(* Show the window that starts at row. *)
ScrollTo(row) ==
  /\ scroll_buffer_row' = row
  /\ screen' = sync_with_scroll_buffer(scroll_buffer, row)
  /\ UNCHANGED <<terminal_column, scroll_buffer, scroll_buffer_cursor, default_color>>

(* Mutant of terminal_cursor_up: wraps to the last row of the screen, not  *)
(* of the ring.                                                            *)
terminal_cursor_up_wraps_early ==
  ScrollTo(IF scroll_buffer_row # 0 THEN scroll_buffer_row - 1
                                    ELSE VGA_HEIGHT - 1)

terminal_cursor_up ==
  ScrollTo(IF scroll_buffer_row # 0 THEN scroll_buffer_row - 1
                                    ELSE SCROLL_BUFFER_SIZE - 1)

terminal_cursor_down ==
  ScrollTo((scroll_buffer_row + 1) % SCROLL_BUFFER_SIZE)

Next ==
  \/ \E c \in Glyphs \cup {Newline} : putchar(c)
  \/ \E color \in Colors : set_color(color)
  \/ terminal_cursor_up
  \/ terminal_cursor_down

Spec == Init /\ [][Next]_vars

-----------------------------------------------------------------------------
(* The column and the row indices stay inside scroll_buffer: the arrays of *)
(* terminal.c are indexed with them and nothing else checks the bound.     *)
TypeOK ==
  /\ terminal_column \in Columns
  /\ scroll_buffer \in [BufferRows -> [Columns -> Cell]]
  /\ scroll_buffer_row \in BufferRows
  /\ scroll_buffer_cursor \in BufferRows
  /\ default_color \in Colors
  /\ screen \in [ScreenRows -> [Columns -> Cell]]

(* Nothing of what the ring held a turn ago shows to the right of the text *)
(* on the row being written: next_row clears the row it enters.            *)
TailBlank ==
  \A x \in Columns :
    x >= terminal_column => scroll_buffer[scroll_buffer_cursor][x] = BlankRow[x]

(* The screen is a window of the ring in its current contents, starting at *)
(* scroll_buffer_row or at the row after it, and in the second case (text  *)
(* was printed last) its bottom row is the row being written.              *)
ScreenIsWindow ==
  \/ screen = sync_with_scroll_buffer(scroll_buffer, scroll_buffer_row)
  \/ /\ screen = sync_with_scroll_buffer(scroll_buffer, scroll_buffer_row + 1)
     /\ screen[VGA_HEIGHT - 1] = scroll_buffer[scroll_buffer_cursor]

(* A scroll key never loses the reader: whatever was on screen moves down  *)
(* by one row on Up and up by one row on Down, except that the first key   *)
(* after output is one row off (Up moves two rows, Down none), because     *)
(* output shows the window from scroll_buffer_row + 1 (terminal.c:92-93).  *)
ShiftedBy(old, new, k) ==
  \A i \in ScreenRows : i + k \in ScreenRows => new[i + k] = old[i]

ScrollKeepsPlace ==
  [][ /\ terminal_cursor_up   => \E k \in 1 .. 2 : ShiftedBy(screen, screen', k)
      /\ terminal_cursor_down => \E k \in 0 .. 1 : ShiftedBy(screen', screen, k) ]_vars

-----------------------------------------------------------------------------
(* The ring read from the row after the cursor round to the cursor is the  *)
(* list of kept lines, oldest first.                                       *)
LinesOf(buffer, cursor) ==
  [k \in BufferRows |-> buffer[(cursor + 1 + k) % SCROLL_BUFFER_SIZE]]

Abstract == INSTANCE Scrollback WITH
  Width    <- VGA_WIDTH,
  Height   <- VGA_HEIGHT,
  Capacity <- SCROLL_BUFFER_SIZE,
  Blank    <- vga_entry(Space, LightGrey),
  lines    <- LinesOf(scroll_buffer, scroll_buffer_cursor),
  column   <- terminal_column,
  ink      <- default_color

(* The ring buffer, its cursor arithmetic and the copies to the screen     *)
(* together behave as the plain list of lines of module Scrollback.        *)
ImplementsScrollback == Abstract!SSpec
=============================================================================

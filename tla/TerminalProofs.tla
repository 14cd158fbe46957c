--------------------------- MODULE TerminalProofs ---------------------------
(***************************************************************************)
(* Theorems about the terminal, for every screen and ring size.            *)
(***************************************************************************)
EXTENDS Terminal, TLAPS

USE SizeAssumption DEF SizeAssumption

-----------------------------------------------------------------------------
(* Arithmetic of the ring. *)

LEMMA ModRange ==
  ASSUME NEW a \in Nat
  PROVE  a % SCROLL_BUFFER_SIZE \in BufferRows
  BY DEF BufferRows

LEMMA ModSmall ==
  ASSUME NEW a \in BufferRows
  PROVE  a % SCROLL_BUFFER_SIZE = a
  BY DEF BufferRows

LEMMA ModOnce ==
  ASSUME NEW a \in SCROLL_BUFFER_SIZE .. 2 * SCROLL_BUFFER_SIZE - 1
  PROVE  a % SCROLL_BUFFER_SIZE = a - SCROLL_BUFFER_SIZE
  OBVIOUS

(* minus_vga_height answers a row of the ring. *)
LEMMA MinusRange ==
  ASSUME NEW row \in BufferRows
  PROVE  minus_vga_height(row) \in BufferRows
  BY DEF minus_vga_height, BufferRows

LEMMA BlankRowType == BlankRow \in [Columns -> Cell]
  BY CharAssumption DEF BlankRow, Cell, vga_entry

(* Copying rows of a well-formed buffer makes a well-formed screen. *)
LEMMA SyncType ==
  ASSUME NEW buffer \in [BufferRows -> [Columns -> Cell]], NEW row \in Nat
  PROVE  sync_with_scroll_buffer(buffer, row) \in [ScreenRows -> [Columns -> Cell]]
<1>1. ASSUME NEW i \in ScreenRows
      PROVE  buffer[(row + i) % SCROLL_BUFFER_SIZE] \in [Columns -> Cell]
  <2>1. row + i \in Nat
    BY DEF ScreenRows
  <2>2. (row + i) % SCROLL_BUFFER_SIZE \in BufferRows
    BY <2>1, ModRange
  <2>3. QED
    BY <2>2
<1>2. QED
  BY <1>1 DEF sync_with_scroll_buffer

(* The row after a row, as next_row and terminal_cursor_down compute it. *)
LEMMA NextRowRange ==
  ASSUME NEW row \in BufferRows
  PROVE  (row + 1) % SCROLL_BUFFER_SIZE \in BufferRows
<1>1. row + 1 \in Nat
  BY DEF BufferRows
<1>2. QED
  BY <1>1, ModRange

-----------------------------------------------------------------------------
(* What writing one character does to the ring and the indices. *)

LEMMA PutTypes ==
  ASSUME TypeOK, NEW c \in Glyphs \cup {Newline}, putchar(c)
  PROVE  /\ terminal_column' \in Columns
         /\ scroll_buffer' \in [BufferRows -> [Columns -> Cell]]
         /\ scroll_buffer_cursor' \in BufferRows
<1> DEFINE written == terminal_putentryat(c, default_color, terminal_column,
                                          scroll_buffer_cursor)
<1>1. (scroll_buffer_cursor + 1) % SCROLL_BUFFER_SIZE \in BufferRows
  BY NextRowRange DEF TypeOK
<1>2. c # Newline => written \in [BufferRows -> [Columns -> Cell]]
  BY DEF TypeOK, terminal_putentryat, vga_entry, Cell
<1>3. ASSUME NEW b \in [BufferRows -> [Columns -> Cell]], next_row(b)
      PROVE  /\ terminal_column' \in Columns
             /\ scroll_buffer' \in [BufferRows -> [Columns -> Cell]]
             /\ scroll_buffer_cursor' \in BufferRows
  BY <1>1, <1>3, BlankRowType DEF next_row, Columns
<1>4. CASE c = Newline
  BY <1>3, <1>4 DEF putchar, terminal_putchar_color, TypeOK
<1>5. CASE c # Newline /\ FillsRow
  BY <1>2, <1>3, <1>5 DEF putchar, terminal_putchar_color
<1>6. CASE c # Newline /\ ~ FillsRow
  BY <1>2, <1>6 DEF putchar, terminal_putchar_color, TypeOK, FillsRow, Columns
<1>7. QED
  BY <1>4, <1>5, <1>6

(* The indices terminal.c keeps never leave the arrays they index. *)
THEOREM TypeCorrect == Spec => []TypeOK
<1>1. Init => TypeOK
  <2>1. 0 \in BufferRows /\ 0 \in Columns
    BY DEF BufferRows, Columns
  <2>2. ASSUME Init PROVE TypeOK
    <3>1. /\ scroll_buffer \in [BufferRows -> [Columns -> Cell]]
          /\ scroll_buffer_row \in BufferRows
      BY <2>1, <2>2, BlankRowType, MinusRange DEF Init
    <3>2. screen \in [ScreenRows -> [Columns -> Cell]]
      BY <2>2, <3>1, SyncType DEF Init, BufferRows
    <3>3. QED
      BY <2>1, <2>2, <3>1, <3>2, CharAssumption DEF Init, TypeOK
  <2>3. QED
    BY <2>2
<1>2. TypeOK /\ [Next]_vars => TypeOK'
  <2> SUFFICES ASSUME TypeOK, [Next]_vars PROVE TypeOK'
    OBVIOUS
  <2>1. ASSUME NEW c \in Glyphs \cup {Newline}, putchar(c) PROVE TypeOK'
    <3>1. /\ terminal_column' \in Columns
          /\ scroll_buffer' \in [BufferRows -> [Columns -> Cell]]
          /\ scroll_buffer_cursor' \in BufferRows
      BY <2>1, PutTypes
    <3>2. scroll_buffer_row' \in BufferRows
      BY <2>1, <3>1, MinusRange DEF putchar, terminal_putchar_color, Follow
    <3>3. screen' \in [ScreenRows -> [Columns -> Cell]]
      BY <2>1, <3>1, <3>2, SyncType
      DEF putchar, terminal_putchar_color, Follow, BufferRows
    <3>4. QED
      BY <2>1, <3>1, <3>2, <3>3 DEF TypeOK, putchar, terminal_putchar_color
  <2>2. ASSUME NEW color \in Colors, set_color(color) PROVE TypeOK'
    BY <2>2 DEF TypeOK, set_color
  <2>3. ASSUME NEW row \in BufferRows, ScrollTo(row) PROVE TypeOK'
    BY <2>3, SyncType DEF TypeOK, ScrollTo, BufferRows
  <2>4. CASE terminal_cursor_up
    <3>1. (IF scroll_buffer_row # 0 THEN scroll_buffer_row - 1
           ELSE SCROLL_BUFFER_SIZE - 1) \in BufferRows
      BY DEF TypeOK, BufferRows
    <3>2. QED
      BY <2>3, <2>4, <3>1 DEF terminal_cursor_up
  <2>5. CASE terminal_cursor_down
    <3>1. (scroll_buffer_row + 1) % SCROLL_BUFFER_SIZE \in BufferRows
      BY NextRowRange DEF TypeOK
    <3>2. QED
      BY <2>3, <2>5, <3>1 DEF terminal_cursor_down
  <2>6. CASE UNCHANGED vars
    BY <2>6 DEF TypeOK, vars
  <2>7. QED
    BY <2>1, <2>2, <2>4, <2>5, <2>6 DEF Next
<1>3. QED
  BY <1>1, <1>2, PTL DEF Spec

-----------------------------------------------------------------------------
(* Every row after the text on the row being written is blank, so the ring *)
(* never shows what it held a turn ago.  Inductive together with TypeOK.   *)
THEOREM TailStaysBlank == Spec => []TailBlank
<1>1. Init => TailBlank
  BY DEF Init, TailBlank, BufferRows
<1>2. TypeOK /\ TailBlank /\ [Next]_vars => TailBlank'
  <2> SUFFICES ASSUME TypeOK, TailBlank, [Next]_vars PROVE TailBlank'
    OBVIOUS
  <2>1. ASSUME NEW c \in Glyphs \cup {Newline}, putchar(c) PROVE TailBlank'
    <3> DEFINE written == terminal_putentryat(c, default_color, terminal_column,
                                              scroll_buffer_cursor)
    <3>1. (scroll_buffer_cursor + 1) % SCROLL_BUFFER_SIZE \in BufferRows
      BY NextRowRange DEF TypeOK
    <3>2. ASSUME NEW b \in [BufferRows -> [Columns -> Cell]], next_row(b)
          PROVE  TailBlank'
      BY <3>1, <3>2 DEF next_row, TailBlank
    <3>3. c # Newline => written \in [BufferRows -> [Columns -> Cell]]
      BY DEF TypeOK, terminal_putentryat, vga_entry, Cell
    <3>4. CASE c = Newline
      BY <2>1, <3>2, <3>4 DEF putchar, terminal_putchar_color, TypeOK
    <3>5. CASE c # Newline /\ FillsRow
      BY <2>1, <3>2, <3>3, <3>5 DEF putchar, terminal_putchar_color
    <3>6. CASE c # Newline /\ ~ FillsRow
      <4>1. /\ terminal_column' = terminal_column + 1
            /\ scroll_buffer' = written
            /\ scroll_buffer_cursor' = scroll_buffer_cursor
        BY <2>1, <3>6 DEF putchar, terminal_putchar_color
      <4>2. scroll_buffer_cursor % SCROLL_BUFFER_SIZE = scroll_buffer_cursor
        BY ModSmall DEF TypeOK
      <4>3. ASSUME NEW x \in Columns, x >= terminal_column + 1
            PROVE  written[scroll_buffer_cursor][x] = BlankRow[x]
        <5>1. x # terminal_column /\ x >= terminal_column
          BY <4>3 DEF TypeOK, Columns
        <5>2. written[scroll_buffer_cursor][x] = scroll_buffer[scroll_buffer_cursor][x]
          BY <4>2, <5>1 DEF terminal_putentryat, TypeOK
        <5>3. QED
          BY <5>1, <5>2 DEF TailBlank
      <4>4. QED
        BY <4>1, <4>3 DEF TailBlank
    <3>7. QED
      BY <3>4, <3>5, <3>6
  <2>2. ASSUME NEW color \in Colors, set_color(color) PROVE TailBlank'
    BY <2>2 DEF TailBlank, set_color
  <2>3. ASSUME NEW row, ScrollTo(row) PROVE TailBlank'
    BY <2>3 DEF TailBlank, ScrollTo
  <2>4. CASE UNCHANGED vars
    BY <2>4 DEF TailBlank, vars
  <2>5. QED
    BY <2>1, <2>2, <2>3, <2>4 DEF Next, terminal_cursor_up, terminal_cursor_down
<1>3. QED
  BY <1>1, <1>2, TypeCorrect, PTL DEF Spec

-----------------------------------------------------------------------------
(* The window: minus_vga_height leads from the cursor to the row before    *)
(* the window that ends at the cursor.                                     *)
LEMMA WindowEndsAtCursor ==
  ASSUME NEW cursor \in BufferRows
  PROVE  (minus_vga_height(cursor) + 1 + (VGA_HEIGHT - 1)) % SCROLL_BUFFER_SIZE = cursor
<1>1. CASE cursor < VGA_HEIGHT
  <2>1. minus_vga_height(cursor) + 1 + (VGA_HEIGHT - 1) = cursor + SCROLL_BUFFER_SIZE
    BY <1>1 DEF minus_vga_height, BufferRows
  <2>2. (cursor + SCROLL_BUFFER_SIZE) % SCROLL_BUFFER_SIZE = cursor
    BY ModOnce DEF BufferRows
  <2>3. QED
    BY <2>1, <2>2
<1>2. CASE ~ (cursor < VGA_HEIGHT)
  <2>1. minus_vga_height(cursor) + 1 + (VGA_HEIGHT - 1) = cursor
    BY <1>2 DEF minus_vga_height, BufferRows
  <2>2. QED
    BY <2>1, ModSmall
<1>3. QED
  BY <1>1, <1>2

(* The screen always is a window of the ring as it is now. *)
THEOREM ScreenStaysWindow == Spec => []ScreenIsWindow
<1>1. Init => ScreenIsWindow
  BY DEF Init, ScreenIsWindow
<1>2. TypeOK /\ ScreenIsWindow /\ [Next]_vars => ScreenIsWindow'
  <2> SUFFICES ASSUME TypeOK, ScreenIsWindow, [Next]_vars PROVE ScreenIsWindow'
    OBVIOUS
  <2>1. ASSUME NEW c \in Glyphs \cup {Newline}, putchar(c) PROVE ScreenIsWindow'
    <3>1. /\ scroll_buffer_row' = minus_vga_height(scroll_buffer_cursor')
          /\ screen' = sync_with_scroll_buffer(scroll_buffer', scroll_buffer_row' + 1)
      BY <2>1 DEF putchar, terminal_putchar_color, Follow
    <3>2. scroll_buffer_cursor' \in BufferRows
      BY <2>1, PutTypes
    <3>3. VGA_HEIGHT - 1 \in ScreenRows
      BY DEF ScreenRows
    <3>4. screen'[VGA_HEIGHT - 1] = scroll_buffer'[scroll_buffer_cursor']
      BY <3>1, <3>2, <3>3, WindowEndsAtCursor DEF sync_with_scroll_buffer
    <3>5. QED
      BY <3>1, <3>4 DEF ScreenIsWindow
  <2>2. ASSUME NEW color \in Colors, set_color(color) PROVE ScreenIsWindow'
    BY <2>2 DEF ScreenIsWindow, set_color
  <2>3. ASSUME NEW row, ScrollTo(row) PROVE ScreenIsWindow'
    BY <2>3 DEF ScreenIsWindow, ScrollTo
  <2>4. CASE UNCHANGED vars
    BY <2>4 DEF ScreenIsWindow, vars
  <2>5. QED
    BY <2>1, <2>2, <2>3, <2>4 DEF Next, terminal_cursor_up, terminal_cursor_down
<1>3. QED
  BY <1>1, <1>2, TypeCorrect, PTL DEF Spec

(* A turn of the ring leads back to the same row. *)
LEMMA ModTurn ==
  ASSUME NEW a \in BufferRows
  PROVE  (SCROLL_BUFFER_SIZE + a) % SCROLL_BUFFER_SIZE = a % SCROLL_BUFFER_SIZE
<1>1. SCROLL_BUFFER_SIZE + a \in SCROLL_BUFFER_SIZE .. 2 * SCROLL_BUFFER_SIZE - 1
  BY DEF BufferRows
<1>2. QED
  BY <1>1, ModOnce, ModSmall DEF BufferRows

LEMMA ModAddTurn ==
  ASSUME NEW m \in 0 .. 2 * SCROLL_BUFFER_SIZE - 1,
         NEW n \in 0 .. 2 * SCROLL_BUFFER_SIZE - 1,
         m = n \/ m = n + SCROLL_BUFFER_SIZE \/ m = n - SCROLL_BUFFER_SIZE
  PROVE  m % SCROLL_BUFFER_SIZE = n % SCROLL_BUFFER_SIZE
<1>1. CASE m = n + SCROLL_BUFFER_SIZE
  <2>1. n \in BufferRows /\ m = SCROLL_BUFFER_SIZE + n
    BY <1>1 DEF BufferRows
  <2>2. QED
    BY <2>1, ModTurn
<1>2. CASE m = n - SCROLL_BUFFER_SIZE
  <2>1. m \in BufferRows /\ n = SCROLL_BUFFER_SIZE + m
    BY <1>2 DEF BufferRows
  <2>2. QED
    BY <2>1, ModTurn
<1>3. QED
  BY <1>1, <1>2

(* The window one row up shows at i + 1 + d what the window at row + d     *)
(* showed at i.                                                            *)
LEMMA UpShifts ==
  ASSUME NEW row \in BufferRows, NEW d \in 0 .. 1, NEW buffer,
         NEW old, old = sync_with_scroll_buffer(buffer, row + d),
         NEW up, up = IF row # 0 THEN row - 1 ELSE SCROLL_BUFFER_SIZE - 1
  PROVE  ShiftedBy(old, sync_with_scroll_buffer(buffer, up), 1 + d)
<1> SUFFICES ASSUME NEW i \in ScreenRows, i + (1 + d) \in ScreenRows
             PROVE  buffer[(up + (i + (1 + d))) % SCROLL_BUFFER_SIZE]
                      = buffer[((row + d) + i) % SCROLL_BUFFER_SIZE]
  BY DEF ShiftedBy, sync_with_scroll_buffer
<1>1. CASE row # 0
  <2>1. up + (i + (1 + d)) = (row + d) + i
    BY <1>1 DEF BufferRows, ScreenRows
  <2>2. QED
    BY <2>1
<1>2. CASE row = 0
  <2>1. up + (i + (1 + d)) = SCROLL_BUFFER_SIZE + (i + d)
    BY <1>2 DEF ScreenRows
  <2>2. (row + d) + i = i + d /\ i + d \in BufferRows
    BY <1>2 DEF BufferRows, ScreenRows
  <2>3. QED
    BY <2>1, <2>2, ModTurn
<1>3. QED
  BY <1>1, <1>2

(* The window one row down shows at i what the window at row + d showed at *)
(* i + 1 - d.                                                              *)
LEMMA DownShifts ==
  ASSUME NEW row \in BufferRows, NEW d \in 0 .. 1, NEW buffer,
         NEW old, old = sync_with_scroll_buffer(buffer, row + d),
         NEW down, down = (row + 1) % SCROLL_BUFFER_SIZE
  PROVE  ShiftedBy(sync_with_scroll_buffer(buffer, down), old, 1 - d)
<1> SUFFICES ASSUME NEW i \in ScreenRows, i + (1 - d) \in ScreenRows
             PROVE  buffer[((row + d) + (i + (1 - d))) % SCROLL_BUFFER_SIZE]
                      = buffer[(down + i) % SCROLL_BUFFER_SIZE]
  BY DEF ShiftedBy, sync_with_scroll_buffer
<1>1. (row + d) + (i + (1 - d)) = (row + 1) + i
  BY DEF BufferRows, ScreenRows
<1>2. CASE row + 1 \in BufferRows
  BY <1>1, <1>2, ModSmall
<1>3. CASE row + 1 = SCROLL_BUFFER_SIZE
  <2>1. down = 0
    BY <1>3, ModOnce
  <2>2. i \in BufferRows /\ down + i = i
    BY <2>1 DEF ScreenRows, BufferRows
  <2>3. QED
    BY <1>1, <1>3, <2>2, ModTurn
<1>4. QED
  BY <1>2, <1>3 DEF BufferRows

(* A scroll key moves what is on screen by at most two rows, in the key's  *)
(* direction.                                                              *)
THEOREM ScrollingKeepsPlace == Spec => ScrollKeepsPlace
<1>1. TypeOK /\ ScreenIsWindow /\ [Next]_vars =>
        [ /\ terminal_cursor_up   => \E k \in 1 .. 2 : ShiftedBy(screen, screen', k)
          /\ terminal_cursor_down => \E k \in 0 .. 1 : ShiftedBy(screen', screen, k) ]_vars
  <2> SUFFICES ASSUME TypeOK, ScreenIsWindow
               PROVE  /\ terminal_cursor_up =>
                           \E k \in 1 .. 2 : ShiftedBy(screen, screen', k)
                      /\ terminal_cursor_down =>
                           \E k \in 0 .. 1 : ShiftedBy(screen', screen, k)
    OBVIOUS
  <2>1. PICK d \in 0 .. 1 :
          screen = sync_with_scroll_buffer(scroll_buffer, scroll_buffer_row + d)
    <3>1. scroll_buffer_row + 0 = scroll_buffer_row
      BY DEF TypeOK, BufferRows
    <3>2. QED
      BY <3>1 DEF ScreenIsWindow
  <2>2. ASSUME terminal_cursor_up PROVE ShiftedBy(screen, screen', 1 + d)
    BY <2>1, <2>2, UpShifts DEF terminal_cursor_up, ScrollTo, TypeOK
  <2>3. ASSUME terminal_cursor_down PROVE ShiftedBy(screen', screen, 1 - d)
    BY <2>1, <2>3, DownShifts DEF terminal_cursor_down, ScrollTo, TypeOK
  <2>4. 1 + d \in 1 .. 2 /\ 1 - d \in 0 .. 1
    OBVIOUS
  <2>5. QED
    BY <2>2, <2>3, <2>4
<1>2. QED
  BY <1>1, TypeCorrect, ScreenStaysWindow, PTL DEF Spec, ScrollKeepsPlace

-----------------------------------------------------------------------------
(* The refinement: what next_row, terminal_putentryat and the copies to    *)
(* the screen mean for the list of kept lines.                             *)

(* Entering the row after the cursor and clearing it drops the oldest line *)
(* and opens a blank one.                                                  *)
LEMMA RingFeed ==
  ASSUME NEW b \in [BufferRows -> [Columns -> Cell]], NEW cursor \in BufferRows,
         NEW next, next = (cursor + 1) % SCROLL_BUFFER_SIZE
  PROVE  LinesOf([b EXCEPT ![next] = BlankRow], next) = Abstract!Feed(LinesOf(b, cursor))
<1> DEFINE b2 == [b EXCEPT ![next] = BlankRow]
<1>0. next \in BufferRows
  BY NextRowRange
<1>1. ASSUME NEW k \in BufferRows, k = SCROLL_BUFFER_SIZE - 1
      PROVE  b2[(next + 1 + k) % SCROLL_BUFFER_SIZE] = BlankRow
  <2>1. next + 1 + k = SCROLL_BUFFER_SIZE + next
    BY <1>0, <1>1 DEF BufferRows
  <2>2. (next + 1 + k) % SCROLL_BUFFER_SIZE = next
    BY <1>0, <2>1, ModTurn, ModSmall
  <2>3. QED
    BY <1>0, <2>2
<1>2. ASSUME NEW k \in BufferRows, k # SCROLL_BUFFER_SIZE - 1
      PROVE  b2[(next + 1 + k) % SCROLL_BUFFER_SIZE]
               = b[(cursor + 1 + (k + 1)) % SCROLL_BUFFER_SIZE]
  <2> DEFINE j == (next + 1 + k) % SCROLL_BUFFER_SIZE
  <2>1. j = (cursor + 1 + (k + 1)) % SCROLL_BUFFER_SIZE
    <3>1. CASE cursor + 1 \in BufferRows
      <4>1. next = cursor + 1
        BY <3>1, ModSmall
      <4>2. next + 1 + k = cursor + 1 + (k + 1)
        BY <4>1 DEF BufferRows
      <4>3. QED
        BY <4>2
    <3>2. CASE cursor + 1 = SCROLL_BUFFER_SIZE
      <4>1. next = 0
        BY <3>2, ModOnce DEF BufferRows
      <4>2. k + 1 \in BufferRows
        BY <1>2 DEF BufferRows
      <4>3. next + 1 + k = k + 1 /\ cursor + 1 + (k + 1) = SCROLL_BUFFER_SIZE + (k + 1)
        BY <3>2, <4>1 DEF BufferRows
      <4>4. QED
        BY <4>2, <4>3, ModTurn
    <3>3. QED
      BY <3>1, <3>2 DEF BufferRows
  <2>2. j \in BufferRows
    <3>1. next + 1 + k \in Nat
      BY <1>0 DEF BufferRows
    <3>2. QED
      BY <3>1, ModRange
  <2>3. j # next
    <3>1. CASE next + 1 + k \in BufferRows
      BY <3>1, ModSmall DEF BufferRows
    <3>2. CASE next + 1 + k \in SCROLL_BUFFER_SIZE .. 2 * SCROLL_BUFFER_SIZE - 1
      <4>1. j = next + 1 + k - SCROLL_BUFFER_SIZE
        BY <3>2, ModOnce DEF BufferRows
      <4>2. QED
        BY <1>0, <1>2, <4>1 DEF BufferRows
    <3>3. QED
      BY <1>0, <3>1, <3>2 DEF BufferRows
  <2>4. QED
    BY <2>1, <2>2, <2>3
<1>3. LinesOf(b2, next)
        = [k \in BufferRows |-> IF k = SCROLL_BUFFER_SIZE - 1 THEN BlankRow
                                ELSE b[(cursor + 1 + (k + 1)) % SCROLL_BUFFER_SIZE]]
  BY <1>1, <1>2 DEF LinesOf
<1>4. ASSUME NEW k \in BufferRows, k # SCROLL_BUFFER_SIZE - 1
      PROVE  LinesOf(b, cursor)[k + 1] = b[(cursor + 1 + (k + 1)) % SCROLL_BUFFER_SIZE]
  BY <1>4 DEF LinesOf, BufferRows
<1>5. Abstract!Feed(LinesOf(b, cursor))
        = [k \in BufferRows |-> IF k = SCROLL_BUFFER_SIZE - 1 THEN BlankRow
                                ELSE b[(cursor + 1 + (k + 1)) % SCROLL_BUFFER_SIZE]]
  BY <1>4 DEF Abstract!Feed, Abstract!BlankLine, BlankRow, BufferRows, Columns
<1>6. QED
  BY <1>3, <1>5

(* The lines from the row after the cursor on reach the cursor's row last. *)
LEMMA RingIndex ==
  ASSUME NEW cursor \in BufferRows, NEW k \in BufferRows
  PROVE  /\ (cursor + 1 + k) % SCROLL_BUFFER_SIZE \in BufferRows
         /\ (cursor + 1 + k) % SCROLL_BUFFER_SIZE = cursor <=> k = SCROLL_BUFFER_SIZE - 1
<1> DEFINE m == cursor + 1 + k
<1>0. m \in Nat /\ m = cursor + 1 + k
  BY DEF BufferRows
<1> HIDE DEF m
<1>1. CASE m \in BufferRows
  BY <1>0, <1>1, ModSmall DEF BufferRows
<1>2. CASE m \in SCROLL_BUFFER_SIZE .. 2 * SCROLL_BUFFER_SIZE - 1
  <2>1. m % SCROLL_BUFFER_SIZE = m - SCROLL_BUFFER_SIZE
    BY <1>2, ModOnce
  <2>2. QED
    BY <1>0, <1>2, <2>1 DEF BufferRows
<1>3. QED
  BY <1>0, <1>1, <1>2 DEF BufferRows

(* Writing a cell of the row at the cursor writes it in the newest line.   *)
LEMMA WrittenLine ==
  ASSUME TypeOK, NEW e
  PROVE  LinesOf([scroll_buffer EXCEPT ![scroll_buffer_cursor][terminal_column] = e],
                 scroll_buffer_cursor)
           = [LinesOf(scroll_buffer, scroll_buffer_cursor)
                EXCEPT ![SCROLL_BUFFER_SIZE - 1][terminal_column] = e]
<1> DEFINE b == scroll_buffer
           cursor == scroll_buffer_cursor
           x == terminal_column
<1>0. b \in [BufferRows -> [Columns -> Cell]] /\ cursor \in BufferRows /\ x \in Columns
  BY DEF TypeOK
<1>1. ASSUME NEW k \in BufferRows
      PROVE  /\ (cursor + 1 + k) % SCROLL_BUFFER_SIZE \in BufferRows
             /\ (cursor + 1 + k) % SCROLL_BUFFER_SIZE = cursor
                  <=> k = SCROLL_BUFFER_SIZE - 1
  BY <1>0, RingIndex
<1>2. ASSUME NEW k \in BufferRows, k = SCROLL_BUFFER_SIZE - 1
      PROVE  [b EXCEPT ![cursor][x] = e][(cursor + 1 + k) % SCROLL_BUFFER_SIZE]
               = [b[(cursor + 1 + k) % SCROLL_BUFFER_SIZE] EXCEPT ![x] = e]
  BY <1>0, <1>1, <1>2
<1>3. ASSUME NEW k \in BufferRows, k # SCROLL_BUFFER_SIZE - 1
      PROVE  [b EXCEPT ![cursor][x] = e][(cursor + 1 + k) % SCROLL_BUFFER_SIZE]
               = b[(cursor + 1 + k) % SCROLL_BUFFER_SIZE]
  BY <1>0, <1>1, <1>3
<1>4. QED
  BY <1>2, <1>3 DEF LinesOf

(* After output the copy is of the last VGA_HEIGHT kept lines. *)
LEMMA WindowAtTail ==
  ASSUME NEW b, NEW cursor \in BufferRows
  PROVE  sync_with_scroll_buffer(b, minus_vga_height(cursor) + 1)
           = Abstract!Window(LinesOf(b, cursor), SCROLL_BUFFER_SIZE - VGA_HEIGHT)
<1>1. ASSUME NEW i \in ScreenRows
      PROVE  LinesOf(b, cursor)[(SCROLL_BUFFER_SIZE - VGA_HEIGHT + i) % SCROLL_BUFFER_SIZE]
               = b[(minus_vga_height(cursor) + 1 + i) % SCROLL_BUFFER_SIZE]
  <2> DEFINE k == SCROLL_BUFFER_SIZE - VGA_HEIGHT + i
             r == cursor - VGA_HEIGHT + 1 + i
  <2>1. k \in BufferRows /\ k % SCROLL_BUFFER_SIZE = k
    <3>1. k \in BufferRows
      BY DEF BufferRows, ScreenRows
    <3>2. QED
      BY <3>1, ModSmall
  <2>2. (cursor + 1 + k) % SCROLL_BUFFER_SIZE
          = (minus_vga_height(cursor) + 1 + i) % SCROLL_BUFFER_SIZE
    <3>1. CASE cursor < VGA_HEIGHT
      <4>1. minus_vga_height(cursor) + 1 + i = cursor + 1 + k
        BY <3>1 DEF minus_vga_height, BufferRows, ScreenRows
      <4>2. QED
        BY <4>1
    <3>2. CASE ~ (cursor < VGA_HEIGHT)
      <4>1. minus_vga_height(cursor) + 1 + i = r /\ r \in BufferRows
        BY <3>2 DEF minus_vga_height, BufferRows, ScreenRows
      <4>2. cursor + 1 + k = SCROLL_BUFFER_SIZE + r
        BY DEF BufferRows, ScreenRows
      <4>3. QED
        BY <4>1, <4>2, ModTurn
    <3>3. QED
      BY <3>1, <3>2
  <2>3. QED
    BY <2>1, <2>2 DEF LinesOf
<1>2. QED
  BY <1>1 DEF sync_with_scroll_buffer, Abstract!Window, ScreenRows

(* The line a window of the kept lines shows at i, and the row it is kept  *)
(* in.                                                                     *)
LEMMA WindowIndex ==
  ASSUME NEW cursor \in BufferRows, NEW row \in BufferRows, NEW i \in ScreenRows,
         NEW top, top = IF row > cursor THEN row - cursor - 1
                        ELSE row - cursor - 1 + SCROLL_BUFFER_SIZE,
         NEW k, k = (top + i) % SCROLL_BUFFER_SIZE
  PROVE  /\ k \in BufferRows
         /\ (cursor + 1 + k) % SCROLL_BUFFER_SIZE = (row + i) % SCROLL_BUFFER_SIZE
<1>1. PICK s \in 0 .. 2 * SCROLL_BUFFER_SIZE - 1 : s = top + i
  BY DEF BufferRows, ScreenRows
<1>2. k \in BufferRows /\ (k = s \/ k = s - SCROLL_BUFFER_SIZE)
  <2>1. CASE s \in BufferRows
    BY <1>1, <2>1, ModSmall
  <2>2. CASE s \in SCROLL_BUFFER_SIZE .. 2 * SCROLL_BUFFER_SIZE - 1
    <3>1. k = s - SCROLL_BUFFER_SIZE
      BY <1>1, <2>2, ModOnce
    <3>2. QED
      BY <2>2, <3>1 DEF BufferRows
  <2>3. QED
    BY <2>1, <2>2 DEF BufferRows
<1>3. PICK m \in 0 .. 2 * SCROLL_BUFFER_SIZE - 1 : m = cursor + 1 + k
  BY <1>2 DEF BufferRows
<1>4. PICK n \in 0 .. 2 * SCROLL_BUFFER_SIZE - 1 : n = row + i
  BY DEF BufferRows, ScreenRows
<1>5. m = n \/ m = n + SCROLL_BUFFER_SIZE \/ m = n - SCROLL_BUFFER_SIZE
  BY <1>1, <1>2, <1>3, <1>4 DEF BufferRows, ScreenRows
<1>6. m % SCROLL_BUFFER_SIZE = n % SCROLL_BUFFER_SIZE
  BY <1>5, ModAddTurn
<1>7. QED
  BY <1>2, <1>3, <1>4, <1>6

(* Any copy of rows of the ring is a window of the kept lines. *)
LEMMA WindowAnywhere ==
  ASSUME NEW b, NEW cursor \in BufferRows, NEW row \in BufferRows
  PROVE  \E top \in BufferRows :
           sync_with_scroll_buffer(b, row) = Abstract!Window(LinesOf(b, cursor), top)
<1> DEFINE top == IF row > cursor THEN row - cursor - 1
                  ELSE row - cursor - 1 + SCROLL_BUFFER_SIZE
<1>1. top \in BufferRows
  BY DEF BufferRows
<1>2. ASSUME NEW i \in ScreenRows
      PROVE  LinesOf(b, cursor)[(top + i) % SCROLL_BUFFER_SIZE]
               = b[(row + i) % SCROLL_BUFFER_SIZE]
  BY WindowIndex DEF LinesOf
<1>3. sync_with_scroll_buffer(b, row) = Abstract!Window(LinesOf(b, cursor), top)
  BY <1>2 DEF sync_with_scroll_buffer, Abstract!Window, ScreenRows
<1>4. QED
  BY <1>1, <1>3

(* terminal.c implements the plain list of lines of module Scrollback:     *)
(* recycling rows, wrapping indices and copying windows lose, repeat or    *)
(* reorder no line, whatever the sizes.                                    *)
THEOREM TerminalImplementsScrollback == Spec => ImplementsScrollback
<1> USE DEF BufferRows
<1>1. Init => Abstract!SInit
  <2> SUFFICES ASSUME Init PROVE Abstract!SInit
    OBVIOUS
  <2>1. 0 \in BufferRows
    OBVIOUS
  <2>2. LinesOf(scroll_buffer, scroll_buffer_cursor) = [k \in BufferRows |-> BlankRow]
    <3>1. ASSUME NEW k \in BufferRows
          PROVE  scroll_buffer[(scroll_buffer_cursor + 1 + k) % SCROLL_BUFFER_SIZE] = BlankRow
      <4>1. (scroll_buffer_cursor + 1 + k) % SCROLL_BUFFER_SIZE \in BufferRows
        BY <2>1, RingIndex DEF Init
      <4>2. QED
        BY <4>1 DEF Init
    <3>2. QED
      BY <3>1 DEF LinesOf
  <2>3. screen = Abstract!Window(LinesOf(scroll_buffer, scroll_buffer_cursor),
                                 SCROLL_BUFFER_SIZE - VGA_HEIGHT)
    <3>1. ASSUME NEW i \in ScreenRows
          PROVE  /\ (scroll_buffer_row + i) % SCROLL_BUFFER_SIZE \in BufferRows
                 /\ (SCROLL_BUFFER_SIZE - VGA_HEIGHT + i) % SCROLL_BUFFER_SIZE \in BufferRows
      <4>1. scroll_buffer_row + i \in Nat /\ SCROLL_BUFFER_SIZE - VGA_HEIGHT + i \in Nat
        BY <2>1, MinusRange DEF Init, ScreenRows
      <4>2. QED
        BY <4>1, ModRange
    <3>2. screen = [i \in ScreenRows |-> BlankRow]
      BY <3>1 DEF Init, sync_with_scroll_buffer
    <3>3. QED
      BY <2>2, <3>1, <3>2 DEF Abstract!Window, ScreenRows
  <2>4. QED
    BY <2>2, <2>3, CharAssumption
    DEF Init, Abstract!SInit, Abstract!BlankLine, BlankRow, Columns
<1>2. ASSUME TypeOK, NEW c \in Glyphs \cup {Newline}, putchar(c)
      PROVE  Abstract!SNext
  <2> DEFINE old == LinesOf(scroll_buffer, scroll_buffer_cursor)
             new == LinesOf(scroll_buffer', scroll_buffer_cursor')
             written == terminal_putentryat(c, default_color, terminal_column,
                                            scroll_buffer_cursor)
             typed == [old EXCEPT ![SCROLL_BUFFER_SIZE - 1][terminal_column]
                                    = <<c, default_color>>]
  <2>1. Abstract!ShowTail /\ UNCHANGED default_color
    <3>1. scroll_buffer_cursor' \in BufferRows
      BY <1>2, PutTypes
    <3>2. QED
      BY <1>2, <3>1, WindowAtTail
      DEF putchar, terminal_putchar_color, Follow, Abstract!ShowTail
  <2>2. ASSUME NEW b \in [BufferRows -> [Columns -> Cell]], next_row(b)
        PROVE  /\ new = Abstract!Feed(LinesOf(b, scroll_buffer_cursor))
               /\ terminal_column' = 0
    BY <1>2, <2>2, RingFeed DEF next_row, TypeOK
  <2>3. c # Newline =>
          /\ written \in [BufferRows -> [Columns -> Cell]]
          /\ LinesOf(written, scroll_buffer_cursor) = typed
    <3> SUFFICES ASSUME c # Newline
                 PROVE  /\ written \in [BufferRows -> [Columns -> Cell]]
                        /\ LinesOf(written, scroll_buffer_cursor) = typed
      OBVIOUS
    <3>1. written = [scroll_buffer EXCEPT ![scroll_buffer_cursor][terminal_column]
                                            = <<c, default_color>>]
      BY <1>2, ModSmall DEF TypeOK, terminal_putentryat, vga_entry
    <3>2. LinesOf(written, scroll_buffer_cursor) = typed
      <4>1. LinesOf([scroll_buffer EXCEPT ![scroll_buffer_cursor][terminal_column]
                                            = <<c, default_color>>],
                    scroll_buffer_cursor) = typed
        <5>1. PICK e : e = <<c, default_color>>
          OBVIOUS
        <5>2. LinesOf([scroll_buffer EXCEPT ![scroll_buffer_cursor][terminal_column] = e],
                      scroll_buffer_cursor)
                = [old EXCEPT ![SCROLL_BUFFER_SIZE - 1][terminal_column] = e]
          BY <1>2, WrittenLine
        <5>3. QED
          BY <5>1, <5>2
      <4> HIDE DEF written, typed
      <4>2. QED
        BY <3>1, <4>1
    <3>3. <<c, default_color>> \in Cell
      BY <1>2 DEF TypeOK, Cell
    <3>4. written \in [BufferRows -> [Columns -> Cell]]
      BY <1>2, <3>1, <3>3 DEF TypeOK
    <3>5. QED
      BY <3>2, <3>4
  <2>4. CASE c = Newline
    <3>1. next_row(scroll_buffer)
      BY <1>2, <2>4 DEF putchar, terminal_putchar_color
    <3>2. Abstract!EndLine
      BY <1>2, <2>1, <2>2, <3>1 DEF Abstract!EndLine, TypeOK
    <3>3. QED
      BY <3>2 DEF Abstract!SNext
  <2>5. CASE c # Newline /\ FillsRow
    <3>1. next_row(written) /\ terminal_column = VGA_WIDTH - 1
      BY <1>2, <2>5 DEF putchar, terminal_putchar_color, FillsRow, TypeOK, Columns
    <3>2. new = Abstract!Feed(typed) /\ terminal_column' = 0
      BY <2>2, <2>3, <2>5, <3>1
    <3>3. Abstract!Type(c)
      BY <2>1, <3>1, <3>2 DEF Abstract!Type
    <3>4. QED
      BY <2>5, <3>3 DEF Abstract!SNext
  <2>6. CASE c # Newline /\ ~ FillsRow
    <3>1. /\ terminal_column # VGA_WIDTH - 1
          /\ terminal_column' = terminal_column + 1
          /\ new = typed
      BY <1>2, <2>3, <2>6
      DEF putchar, terminal_putchar_color, FillsRow, TypeOK, Columns
    <3>2. Abstract!Type(c)
      BY <2>1, <3>1 DEF Abstract!Type
    <3>3. QED
      BY <2>6, <3>2 DEF Abstract!SNext
  <2>7. QED
    BY <2>4, <2>5, <2>6
<1>3. ASSUME NEW color \in Colors, set_color(color) PROVE Abstract!SNext
  BY <1>3 DEF set_color, Abstract!SNext, Abstract!ChangeInk
<1>4. ASSUME TypeOK, NEW row \in BufferRows, ScrollTo(row) PROVE Abstract!SNext
  <2>1. \E top \in BufferRows :
          screen' = Abstract!Window(LinesOf(scroll_buffer, scroll_buffer_cursor), top)
    BY <1>4, WindowAnywhere DEF TypeOK, ScrollTo
  <2>2. Abstract!Scroll
    BY <1>4, <2>1 DEF ScrollTo, Abstract!Scroll
  <2>3. QED
    BY <2>2 DEF Abstract!SNext
<1>5. ASSUME TypeOK, [Next]_vars
      PROVE  Abstract!SNext \/ UNCHANGED Abstract!svars
  <2>1. CASE terminal_cursor_up
    <3>1. (IF scroll_buffer_row # 0 THEN scroll_buffer_row - 1
           ELSE SCROLL_BUFFER_SIZE - 1) \in BufferRows
      BY <1>5 DEF TypeOK
    <3>2. QED
      BY <1>4, <1>5, <2>1, <3>1 DEF terminal_cursor_up
  <2>2. CASE terminal_cursor_down
    BY <1>4, <1>5, <2>2, NextRowRange DEF terminal_cursor_down, TypeOK
  <2>3. CASE UNCHANGED vars
    BY <2>3 DEF vars, Abstract!svars
  <2>4. QED
    BY <1>2, <1>3, <1>5, <2>1, <2>2, <2>3 DEF Next
<1>6. QED
  BY <1>1, <1>5, TypeCorrect, PTL DEF Spec, ImplementsScrollback, Abstract!SSpec
=============================================================================

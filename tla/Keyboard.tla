------------------------------ MODULE Keyboard ------------------------------
(***************************************************************************)
(* The decoder of isr.c (getchar_from_keyboard, with the tables of kbd.h)  *)
(* and what keyboard_isr does with its result, byte by byte.               *)
(*                                                                         *)
(* The tables are those of kbd.h cut down to the codes of the keys below,  *)
(* with and without the 0xE0 before them.                                  *)
(* A character is named by a string; NO is the table's 0.                  *)
(***************************************************************************)
EXTENDS Integers, Sequences

CONSTANTS
  Keys,      \* the keys in use, a subset of AllKeys
  MaxQueue   \* bound: events the keyboard and its controller store

VARIABLES
  shift,     \* the static of getchar_from_keyboard, a set of flags
  effect,    \* what the last key did: print a character, scroll, nothing
  queue,     \* events whose bytes are not all read, oldest first
  read,      \* how many bytes of the oldest have been read
  held,      \* the keys that are down
  last,      \* the key that repeats: the last to go down, if it is still held
  boot       \* "delay" until calibrate_timer has read port 0x60 as a delay,
             \* "garbled" while an event lacks the byte it took, then "over"

vars == <<shift, effect, queue, read, held, last, boot>>

-----------------------------------------------------------------------------
(* The keyboard: scan code set 1, as the controller passes it on. *)
NoKey == "NoKey"
Byte  == 0 .. 255

Make ==
  [A    |-> <<\h1E>>, Enter |-> <<\h1C>>, Pad8 |-> <<\h48>>, Esc |-> <<\h01>>,
   LShift |-> <<\h2A>>, RShift |-> <<\h36>>,
   LCtl |-> <<\h1D>>, RCtl |-> <<\hE0, \h1D>>,
   LAlt |-> <<\h38>>, RAlt |-> <<\hE0, \h38>>,
   Caps |-> <<\h3A>>, Num |-> <<\h45>>, Scroll |-> <<\h46>>,
   Up   |-> <<\hE0, \h48>>, Down |-> <<\hE0, \h50>>, PadEnter |-> <<\hE0, \h1C>>,
   Home |-> <<\hE0, \h47>>]

AllKeys == DOMAIN Make

ASSUME KeysAssumption == Keys \subseteq AllKeys /\ MaxQueue \in Nat \ {0}

Break(k) == [Make[k] EXCEPT ![Len(Make[k])] = @ + 128]

(* A key of the arrow block that moves with the shift key held pretends    *)
(* that the shift key is up: extended codes around its own say so.         *)
ArrowBlock == {"Up", "Down", "Home"}
FakeUp     == <<\hE0, \hAA>>
FakeDown   == <<\hE0, \h2A>>

BytesOf(k, down) ==
  LET faked == k \in ArrowBlock /\ "LShift" \in held
  IN  IF down THEN (IF faked THEN FakeUp ELSE <<>>) \o Make[k]
              ELSE Break(k) \o (IF faked THEN FakeDown ELSE <<>>)

Send(k, down) ==
  /\ Len(queue) < MaxQueue
  /\ queue' = Append(queue, [key |-> k, down |-> down, bytes |-> BytesOf(k, down)])
  /\ UNCHANGED <<shift, effect, read, boot>>

Press(k) ==
  /\ k \notin held
  /\ held' = held \cup {k} /\ last' = k
  /\ Send(k, TRUE)

Repeat(k) ==
  /\ k = last
  /\ Send(k, TRUE)
  /\ UNCHANGED <<held, last>>

Release(k) ==
  /\ k \in held
  /\ held' = held \ {k}
  /\ last' = IF last = k THEN NoKey ELSE last
  /\ Send(k, FALSE)

-----------------------------------------------------------------------------
(* The tables of kbd.h. *)
NO == "NO"

shiftcode ==
  [d \in Byte |-> CASE d \in {\h1D, \h9D} -> {"CTL"}
                    [] d \in {\h2A, \h36} -> {"SHIFT"}
                    [] d \in {\h38, \hB8} -> {"ALT"}
                    [] OTHER              -> {}]

togglecode ==
  [d \in Byte |-> CASE d = \h3A -> {"CAPSLOCK"}
                    [] d = \h45 -> {"NUMLOCK"}
                    [] d = \h46 -> {"SCROLLLOCK"}
                    [] OTHER    -> {}]

(* The extended codes that have a character whatever the modifiers.        *)
Extended(d) ==
  CASE d = \hC8 -> "KEY_UP" [] d = \hD0 -> "KEY_DN" [] d = \h97 -> "KEY_HOME" [] OTHER -> NO

normalmap ==
  [d \in Byte |-> CASE d = \h01 -> "ESC" [] d \in {\h1C, \h9C} -> "LF"
                    [] d = \h1E -> "a"   [] d = \h47 -> "7" [] d = \h48 -> "8"
                    [] d = \h50 -> "2"   [] OTHER -> Extended(d)]

shiftmap ==
  [d \in Byte |-> CASE d = \h01 -> "ESC" [] d \in {\h1C, \h9C} -> "LF"
                    [] d = \h1E -> "A"   [] d = \h47 -> "7" [] d = \h48 -> "8"
                    [] d = \h50 -> "2"   [] OTHER -> Extended(d)]

ctlmap ==
  [d \in Byte |-> CASE d \in {\h1C, \h9C} -> "CR" [] d = \h1E -> "^A" [] OTHER -> Extended(d)]

(* charcode[shift & (CTL | SHIFT)] *)
charcode(flags) ==
  IF "CTL" \in flags THEN ctlmap ELSE IF "SHIFT" \in flags THEN shiftmap ELSE normalmap

SwapCase(c) == IF c = "a" THEN "A" ELSE IF c = "A" THEN "a" ELSE c

-----------------------------------------------------------------------------
(* keyboard_isr on the character it is given; printf_ drops a NUL, and     *)
(* NoChar is the (uint8_t)-1 of a byte that completes no character.        *)
NoChar  == "NoChar"
Nothing == <<"nothing">>

Show(c) ==
  IF c \in {NoChar, NO} THEN Nothing
  ELSE IF c = "KEY_UP" THEN <<"scroll up">> ELSE IF c = "KEY_DN" THEN <<"scroll down">>
  ELSE <<"print", c>>

data     == Head(queue).bytes[read + 1]
LastByte == read + 1 = Len(Head(queue).bytes)

RemoveByte ==
  IF LastByte THEN queue' = Tail(queue) /\ read' = 0
              ELSE read' = read + 1 /\ UNCHANGED queue

(* inb(KBDATAP) and keyboard_isr: a byte is taken and c is the result.  An *)
(* event's effect is what any of its bytes did.                            *)
Take(c) ==
  /\ boot # "delay" /\ queue # <<>>
  /\ RemoveByte
  /\ effect' = IF Show(c) = Nothing /\ ~ LastByte THEN effect ELSE Show(c)
  /\ boot' = IF LastByte THEN "over" ELSE boot
  /\ UNCHANGED <<held, last>>

(* calibrate_timer reads port 0x60 once, before any byte is decoded: it    *)
(* finds no byte, or takes one nobody looks at.                            *)
DelayFindsNothing ==
  /\ boot = "delay"
  /\ boot' = "over"
  /\ UNCHANGED <<shift, effect, queue, read, held, last>>

DelayTakesByte ==
  /\ boot = "delay" /\ queue # <<>>
  /\ boot' = IF LastByte THEN "over" ELSE "garbled"
  /\ RemoveByte
  /\ UNCHANGED <<shift, effect, held, last>>

EscapeByte ==
  /\ queue # <<>> /\ data = \hE0
  /\ shift' = shift \cup {"E0ESC"}
  /\ Take(NoChar)

(* Mutants of ReleaseByte: the 0x80 of a plain release stays in the index; *)
(* the escape is forgotten.                                                *)
ReleaseByte_unmasked ==
  /\ queue # <<>> /\ data >= 128 /\ data # \hE0
  /\ shift' = shift \ (shiftcode[data] \cup {"E0ESC"})
  /\ Take(NoChar)

ReleaseByte_no_escape ==
  /\ queue # <<>> /\ data >= 128 /\ data # \hE0
  /\ shift' = shift \ (shiftcode[data - 128] \cup {"E0ESC"})
  /\ Take(NoChar)

ReleaseByte ==
  /\ queue # <<>> /\ data >= 128 /\ data # \hE0
  /\ shift' = shift \ (shiftcode[IF "E0ESC" \in shift THEN data ELSE data - 128]
                         \cup {"E0ESC"})
  /\ Take(NoChar)

PressByte ==
  /\ queue # <<>> /\ data < 128
  /\ LET code == IF "E0ESC" \in shift THEN data + 128 ELSE data
         on   == (shift \ {"E0ESC"}) \cup shiftcode[code]
         now  == (on \ togglecode[code]) \cup (togglecode[code] \ on)
         c    == charcode(now)[code]
     IN  /\ shift' = now
         /\ Take(IF "CAPSLOCK" \in now THEN SwapCase(c) ELSE c)

-----------------------------------------------------------------------------
(* Keys may be down when the kernel starts: it never saw their make codes. *)
Init ==
  /\ shift = {} /\ effect = Nothing
  /\ queue = <<>> /\ read = 0
  /\ held \in SUBSET Keys /\ last = NoKey
  /\ boot = "delay"

Next ==
  \/ \E k \in Keys : Press(k) \/ Repeat(k) \/ Release(k)
  \/ DelayFindsNothing \/ DelayTakesByte
  \/ EscapeByte \/ ReleaseByte \/ PressByte

Spec == Init /\ [][Next]_vars

-----------------------------------------------------------------------------
Characters == {"ESC", "a", "A", "^A", "LF", "CR", "2", "7", "8", "KEY_HOME"}

Effects ==
  {Nothing, <<"scroll up">>, <<"scroll down">>} \cup {<<"print", c>> : c \in Characters}

(* What each key is for, as printed on it.                                 *)
KeysOf ==
  [SHIFT |-> {"LShift", "RShift"}, CTL |-> {"LCtl", "RCtl"}, ALT |-> {"LAlt", "RAlt"},
   CAPSLOCK |-> {"Caps"}, NUMLOCK |-> {"Num"}, SCROLLLOCK |-> {"Scroll"}]

FlagsOf(k, flags) == {f \in flags : k \in KeysOf[f]}

Modifier == [k \in Keys |-> FlagsOf(k, {"SHIFT", "CTL", "ALT"})]
Lock     == [k \in Keys |-> FlagsOf(k, {"CAPSLOCK", "NUMLOCK", "SCROLLLOCK"})]

Printed(plain, shifted, control) ==
  [plain |-> plain, shifted |-> shifted, control |-> control]

Legend ==
  [k \in Keys |->
     CASE k = "A"                    -> Printed("a", "A", "^A")
       [] k = "Esc"                  -> Printed("ESC", "ESC", NO)
       [] k \in {"Enter", "PadEnter"} -> Printed("LF", "LF", "CR")
       [] k = "Pad8"                 -> Printed("8", "8", NO)
       [] k = "Up"                   -> Printed("KEY_UP", "KEY_UP", "KEY_UP")
       [] k = "Down"                 -> Printed("KEY_DN", "KEY_DN", "KEY_DN")
       [] k = "Home"                 -> Printed("KEY_HOME", "KEY_HOME", "KEY_HOME")
       [] OTHER                      -> Printed(NO, NO, NO)]

(* A modifier never sticks: whatever the order in which its keys go down   *)
(* and up and repeat, and however many bytes are still unread, it is in    *)
(* force only while a key of it is down or the code of its going up is yet *)
(* to be read.                                                             *)
NoStuckModifier ==
  \A f \in shift \cap {"SHIFT", "CTL", "ALT"} :
    \/ held \cap KeysOf[f] # {}
    \/ \E i \in 1 .. Len(queue) : queue[i].key \in KeysOf[f] /\ ~ queue[i].down

Events == [i \in 1 .. Len(queue) |-> [key |-> queue[i].key, down |-> queue[i].down]]

Abstract == INSTANCE KeyEvents WITH
  pending <- Events, modifiers <- shift \ {"E0ESC"}, listening <- boot = "over"

(* Decoding scan codes byte by byte does what module KeyEvents says of     *)
(* keys, event by event; a byte lost at boot spoils the event it belongs   *)
(* to and no other.                                                        *)
ImplementsKeyEvents == Abstract!KSpec

(* kbd.h:23 lists KEY_HOME among the special keycodes and kbd.h:72 gives   *)
(* it a place in the tables: pressing Home produces it (with no byte of    *)
(* the event lost at boot).                                                *)
HomeIsDecoded ==
  [][ PressByte /\ LastByte /\ boot = "over" /\ Head(queue).key = "Home"
        => effect' = <<"print", "KEY_HOME">> ]_vars
=============================================================================

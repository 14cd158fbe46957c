------------------------------- MODULE Kernel -------------------------------
(***************************************************************************)
(* The running kernel as a whole: the interrupts of module Interrupts      *)
(* carry the scan codes of module Keyboard, and the bodies of the handlers *)
(* print character by character.  Bytes are numbered in Interrupts and     *)
(* have values in Keyboard; as keyboard_isr acts on them in the order sent *)
(* (Interrupts!KeysInOrder), the byte it acts on is the next one unread.   *)
(***************************************************************************)
EXTENDS Interrupts

CONSTANTS Keys, MaxQueue  \* of module Keyboard

VARIABLES
  shift, effect, queue, read, held, last, boot,  \* of module Keyboard
  todo,    \* parallel to frames: what the printf_ running in each still prints
  screen   \* the calls the terminal got: what was printed, and scrolling

decoder    == <<shift, effect, queue, read, held, last, boot>>
kernelvars == <<vars, decoder, todo, screen>>

D == INSTANCE Keyboard

ASSUME KeyboardAssumption == Keys \subseteq D!AllKeys /\ MaxQueue \in Nat \ {0}

(* "%d minutes elapsed\n", its text and its end.                           *)
MinuteLine(n) == <<<<"minutes elapsed", n>>, <<"end of line">>>>

KernelInit ==
  /\ Init /\ D!Init
  /\ todo = <<>> /\ screen = <<>>

-----------------------------------------------------------------------------
(* The keyboard: keys make bytes, and the controller sends those there are. *)
BytesLeft(events, n) ==
  LET bytes[i \in 0 .. Len(events)] ==
        IF i = 0 THEN 0 ELSE bytes[i - 1] + Len(events[i].bytes)
  IN  bytes[Len(events)] - n

BytesTaken == discarded + Len(keys_shown)

UseKeyboard(k) ==
  /\ D!Press(k) \/ D!Repeat(k) \/ D!Release(k)
  /\ BytesTaken + BytesLeft(queue', read') <= MaxBytes
  /\ UNCHANGED <<vars, todo, screen>>

Send ==
  /\ BytesTaken + BytesLeft(queue, read) > sent
  /\ KeyboardSends
  /\ UNCHANGED <<decoder, todo, screen>>

-----------------------------------------------------------------------------
(* The CPU goes on when nothing is left to print in the running handler.   *)
Printed == frames # <<>> => todo[Len(todo)] = <<>>

PutChar ==
  /\ ~ Printed
  /\ screen' = Append(screen, Head(todo[Len(todo)]))
  /\ todo' = [todo EXCEPT ![Len(todo)] = Tail(@)]
  /\ UNCHANGED <<vars, decoder>>

BootStep ==
  /\ MainStep
  /\ IF ~ DelayRead THEN UNCHANGED decoder
     ELSE IF buffer = Empty THEN D!DelayFindsNothing ELSE D!DelayTakesByte
  /\ UNCHANGED <<todo, screen>>

CountAndPrint ==
  /\ Printed /\ Count
  /\ todo' = IF minutes_shown' = minutes_shown THEN todo
             ELSE [todo EXCEPT ![Len(todo)] = MinuteLine(minutes_shown'[Len(minutes_shown')])]
  /\ UNCHANGED <<decoder, screen>>

(* An event prints one character or scrolls once, by its last byte.        *)
UseByte ==
  /\ Printed /\ UseKey
  /\ IF Top.c = Empty THEN UNCHANGED <<decoder, screen>>
     ELSE /\ D!EscapeByte \/ D!ReleaseByte \/ D!PressByte
          /\ screen' = IF D!LastByte /\ effect' # D!Nothing THEN Append(screen, effect')
                       ELSE screen
  /\ UNCHANGED todo

OtherStep ==
  /\ Printed
  /\ Cli \/ Sti \/ ReadStatus \/ ReadData \/ Eoi
  /\ UNCHANGED <<decoder, todo, screen>>

Return ==
  /\ Printed /\ Iret
  /\ todo' = SubSeq(todo, 1, Len(todo) - 1)
  /\ UNCHANGED <<decoder, screen>>

Interrupt ==
  /\ Deliver
  /\ todo' = Append(todo, <<>>)
  /\ UNCHANGED <<decoder, screen>>

SpuriousInterrupt ==
  /\ DeliverSpurious
  /\ todo' = Append(todo, <<>>)
  /\ UNCHANGED <<decoder, screen>>

TimerTick == Tick /\ UNCHANGED <<decoder, todo, screen>>

-----------------------------------------------------------------------------
KernelCpu ==
  BootStep \/ PutChar \/ CountAndPrint \/ UseByte \/ OtherStep \/ Return

KernelNext ==
  \/ KernelCpu \/ Interrupt \/ SpuriousInterrupt \/ TimerTick \/ Send
  \/ \E k \in Keys : UseKeyboard(k)

(* Besides the CPU and the local APIC, the keyboard controller is live: it *)
(* sends what it has as soon as its buffer is free.  Nobody has to type.   *)
KernelSpec ==
  /\ KernelInit /\ [][KernelNext]_kernelvars
  /\ WF_kernelvars(KernelCpu) /\ WF_kernelvars(Interrupt) /\ WF_kernelvars(Send)

-----------------------------------------------------------------------------
(* What is on the screen without a line that is still being printed.       *)
IsText(call) == call[1] = "minutes elapsed"

Complete ==
  IF screen # <<>> /\ IsText(screen[Len(screen)])
    THEN SubSeq(screen, 1, Len(screen) - 1) ELSE screen

Announced == Cardinality({i \in 1 .. Len(Complete) : IsText(Complete[i])})

Abstract == INSTANCE Console WITH
  pending <- D!Events, modifiers <- shift \ {"E0ESC"}, listening <- boot = "over",
  screen <- Complete, minute <- Announced,
  Modifier <- D!Modifier, Lock <- D!Lock, Legend <- D!Legend, NO <- D!NO,
  SwapCase <- D!SwapCase, Show <- D!Show, Nothing <- D!Nothing, Effects <- D!Effects

(* With handlers nesting and printing one character at a time, the kernel  *)
(* still does what Console says: each event handled once, in order, with   *)
(* its effect in one place, each minute's line whole and in its turn.      *)
ImplementsConsole == Abstract!CSpec

(* The keyboard has fallen silent: a byte whose interrupt was lost in boot *)
(* still fills the controller's buffer.                                    *)
Silent == main = "idle" /\ buffer # Empty /\ buffer = unheard

(* Whatever is typed is handled to the last event, unless the keyboard has *)
(* fallen silent: keys, controller, interrupt, decoder work together and   *)
(* none of them waits for another for ever.                                *)
EventsHandled == []<>(queue = <<>> \/ Silent)
=============================================================================

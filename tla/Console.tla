------------------------------ MODULE Console ------------------------------
(***************************************************************************)
(* What pika-os is for, once it has booted: every key event is handled     *)
(* once and in order, what it prints appears on the screen, and every      *)
(* minute a line says so.  Each of these is a single step: nothing of one  *)
(* ever appears inside another.                                            *)
(***************************************************************************)
EXTENDS KeyEvents

CONSTANT MinuteLine(_)  \* what is printed when minute n is over

VARIABLES
  screen,   \* everything printed, and scrolling, in order
  minute    \* how many minutes were announced

cvars == <<kvars, screen, minute>>

CInit == KInit /\ screen = <<>> /\ minute = 0

KeyTyped == \E k \in Keys, down \in BOOLEAN : Event(k, down) /\ UNCHANGED <<screen, minute>>

KeyHandled ==
  /\ HandleDown \/ HandleUp \/ Spoil
  /\ screen' = IF effect' = Nothing THEN screen ELSE Append(screen, effect')
  /\ UNCHANGED minute

MinuteOver ==
  /\ minute' = minute + 1
  /\ screen' = screen \o MinuteLine(minute')
  /\ UNCHANGED kvars

CNext == KeyTyped \/ KeyHandled \/ MinuteOver \/ (Listen /\ UNCHANGED <<screen, minute>>)

CSpec == CInit /\ [][CNext]_cvars
=============================================================================

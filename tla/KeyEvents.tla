------------------------------ MODULE KeyEvents ------------------------------
(***************************************************************************)
(* What typing on the keyboard means to the kernel, said in keys instead   *)
(* of scan codes: keys go down and up; each event is handled whole and in  *)
(* order; it changes the modifiers and may print a character or scroll.    *)
(***************************************************************************)
EXTENDS Integers, Sequences

CONSTANTS
  Keys,         \* the keys of the keyboard
  Modifier,     \* [Keys -> sets of flags]: in force while the key is down
  Lock,         \* [Keys -> sets of flags]: flipped each time it goes down
  Legend,       \* [Keys -> [plain, shifted, control -> characters]]
  NO,           \* the character of a key that has none
  SwapCase(_),  \* what CAPSLOCK does to a character
  Show(_),      \* what the kernel does with a character
  Nothing,      \* what it does when there is nothing to do
  Effects       \* and all it can do

VARIABLES
  pending,   \* events not yet handled
  modifiers, \* the flags in force
  effect,    \* what handling the last event did
  listening  \* FALSE in boot, when an event may still be spoilt

kvars == <<pending, modifiers, effect, listening>>

(* k goes down or up; a held key goes down again and again. *)
Event(k, down) ==
  /\ pending' = Append(pending, [key |-> k, down |-> down])
  /\ UNCHANGED <<modifiers, effect, listening>>

CharOf(k, mods) ==
  LET column == IF "CTL" \in mods THEN Legend[k].control
                ELSE IF "SHIFT" \in mods THEN Legend[k].shifted ELSE Legend[k].plain
  IN  IF "CAPSLOCK" \in mods THEN SwapCase(column) ELSE column

HandleDown ==
  /\ listening
  /\ pending # <<>> /\ Head(pending).down
  /\ LET k  == Head(pending).key
         on == modifiers \cup Modifier[k]
     IN  /\ modifiers' = (on \ Lock[k]) \cup (Lock[k] \ on)
         /\ effect' = Show(CharOf(k, modifiers'))
  /\ pending' = Tail(pending)
  /\ UNCHANGED listening

(* One key of a modifier going up ends it, even with its twin still down.  *)
HandleUp ==
  /\ listening
  /\ pending # <<>> /\ ~ Head(pending).down
  /\ modifiers' = modifiers \ Modifier[Head(pending).key]
  /\ effect' = Nothing
  /\ pending' = Tail(pending)
  /\ UNCHANGED listening

(* Boot ends.  One event, the first of all, may be spoilt by it: it leaves *)
(* the modifiers as they were or, if its key goes down, sets those that    *)
(* are its own, and it may do what some other key would do.                *)
Listen ==
  /\ ~ listening /\ listening'
  /\ UNCHANGED <<pending, modifiers, effect>>

Spoil ==
  /\ ~ listening /\ listening'
  /\ pending # <<>>
  /\ \/ modifiers' = modifiers
     \/ Head(pending).down /\ modifiers' = modifiers \cup Modifier[Head(pending).key]
  /\ effect' \in Effects
  /\ pending' = Tail(pending)

KInit ==
  /\ pending = <<>>
  /\ modifiers = {}
  /\ effect = Nothing
  /\ ~ listening

KNext ==
  \/ \E k \in Keys, down \in BOOLEAN : Event(k, down)
  \/ HandleDown
  \/ HandleUp
  \/ Listen
  \/ Spoil

KSpec == KInit /\ [][KNext]_kvars
=============================================================================

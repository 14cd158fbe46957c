--------------------------- MODULE KeyboardProofs ---------------------------
(***************************************************************************)
(* The decoder does what KeyEvents says, and no modifier sticks, for every *)
(* set of keys and however many events the keyboard stores.                *)
(***************************************************************************)
EXTENDS Keyboard, SequenceTheorems, TLAPS

Modifiers == {"SHIFT", "CTL", "ALT"}

-----------------------------------------------------------------------------
(* The codes and the tables, key by key. *)
Code(k)  == Make[k][Len(Make[k])]
Index(k) == IF Len(Make[k]) = 1 THEN Code(k) ELSE Code(k) + 128

LEMMA KeyNames ==
  AllKeys = {"A", "Enter", "Pad8", "Esc", "LShift", "RShift", "LCtl", "RCtl", "LAlt",
             "RAlt", "Caps", "Num", "Scroll", "Up", "Down", "PadEnter", "Home"}
BY DEF AllKeys, Make

LEMMA PlainCodes ==
  /\ Make["A"] = <<30>> /\ Make["Enter"] = <<28>> /\ Make["Pad8"] = <<72>>
  /\ Make["Esc"] = <<1>> /\ Make["LShift"] = <<42>> /\ Make["RShift"] = <<54>>
  /\ Make["LCtl"] = <<29>> /\ Make["LAlt"] = <<56>> /\ Make["Caps"] = <<58>>
  /\ Make["Num"] = <<69>> /\ Make["Scroll"] = <<70>>
BY DEF Make

LEMMA ExtendedCodes ==
  /\ Make["RCtl"] = <<224, 29>> /\ Make["RAlt"] = <<224, 56>> /\ Make["Up"] = <<224, 72>>
  /\ Make["Down"] = <<224, 80>> /\ Make["PadEnter"] = <<224, 28>>
  /\ Make["Home"] = <<224, 71>>
BY DEF Make

LEMMA One == ASSUME NEW a PROVE Len(<<a>>) = 1 /\ <<a>>[1] = a
OBVIOUS
LEMMA Two == ASSUME NEW a, NEW b PROVE Len(<<a, b>>) = 2 /\ <<a, b>>[1] = a /\ <<a, b>>[2] = b
OBVIOUS
LEMMA Four ==
  ASSUME NEW a, NEW b, NEW c, NEW d
  PROVE  /\ Len(<<a, b, c, d>>) = 4 /\ <<a, b, c, d>>[1] = a /\ <<a, b, c, d>>[2] = b
         /\ <<a, b, c, d>>[3] = c /\ <<a, b, c, d>>[4] = d
OBVIOUS

LEMMA TwoTwo ==
  ASSUME NEW a \in Byte, NEW b \in Byte, NEW c \in Byte, NEW d \in Byte
  PROVE  <<a, b>> \o <<c, d>> = <<a, b, c, d>>
<1> DEFINE s == <<a, b>> \o <<c, d>>  t == <<a, b, c, d>>
<1>1. <<a, b>> \in Seq(Byte) /\ <<c, d>> \in Seq(Byte) /\ t \in Seq(Byte)
  OBVIOUS
<1>2. /\ s \in Seq(Byte) /\ Len(s) = 4
      /\ \A i \in 1 .. 4 : s[i] = IF i <= 2 THEN <<a, b>>[i] ELSE <<c, d>>[i - 2]
  <2> HIDE DEF s
  <2>1. /\ s \in Seq(Byte) /\ Len(s) = Len(<<a, b>>) + Len(<<c, d>>)
        /\ \A i \in 1 .. Len(<<a, b>>) + Len(<<c, d>>) :
             s[i] = IF i <= Len(<<a, b>>) THEN <<a, b>>[i] ELSE <<c, d>>[i - Len(<<a, b>>)]
    BY <1>1, ConcatProperties DEF s
  <2>2. QED
    BY <2>1, Two
<1>3. s[1] = t[1] /\ s[2] = t[2] /\ s[3] = t[3] /\ s[4] = t[4]
  <2> HIDE DEF s, t
  <2>1. s[1] = a /\ s[2] = b /\ s[3] = c /\ s[4] = d
    BY <1>2, Two
  <2>2. QED
    BY <2>1, Four DEF t
<1>4. Len(t) = 4
  BY Four
<1>5. QED
  <2> HIDE DEF s, t
  <2>1. \A i \in 1 .. Len(s) : s[i] = t[i]
    BY <1>2, <1>3
  <2>2. QED
    BY <1>1, <1>2, <1>4, <2>1, SeqEqual DEF s, t

(* The tables have each key's characters where its code looks; those of   *)
(* Home are elsewhere (kbd.h:72), so that it finds none.                   *)
Found(k) == IF k = "Home" THEN Printed(NO, NO, NO) ELSE Legend[k]

Decodes(k, d) ==
  /\ d \in Byte
  /\ shiftcode[d] = Modifier[k] /\ togglecode[d] = Lock[k]
  /\ normalmap[d] = Found(k).plain /\ shiftmap[d] = Found(k).shifted
  /\ ctlmap[d] = Found(k).control

LEMMA KeyA == "A" \in Keys => Decodes("A", 30)
BY DEF Decodes, Byte, shiftcode, togglecode, normalmap, shiftmap, ctlmap, Extended, Legend, Found,
       Printed, Modifier, Lock, FlagsOf, KeysOf, NO

LEMMA KeyEnter == "Enter" \in Keys => Decodes("Enter", 28)
BY DEF Decodes, Byte, shiftcode, togglecode, normalmap, shiftmap, ctlmap, Extended, Legend, Found,
       Printed, Modifier, Lock, FlagsOf, KeysOf, NO

LEMMA KeyPad8 == "Pad8" \in Keys => Decodes("Pad8", 72)
BY DEF Decodes, Byte, shiftcode, togglecode, normalmap, shiftmap, ctlmap, Extended, Legend, Found,
       Printed, Modifier, Lock, FlagsOf, KeysOf, NO

LEMMA KeyEsc == "Esc" \in Keys => Decodes("Esc", 1)
BY DEF Decodes, Byte, shiftcode, togglecode, normalmap, shiftmap, ctlmap, Extended, Legend, Found,
       Printed, Modifier, Lock, FlagsOf, KeysOf, NO

LEMMA KeyLShift == "LShift" \in Keys => Decodes("LShift", 42)
BY DEF Decodes, Byte, shiftcode, togglecode, normalmap, shiftmap, ctlmap, Extended, Legend, Found,
       Printed, Modifier, Lock, FlagsOf, KeysOf, NO

LEMMA KeyRShift == "RShift" \in Keys => Decodes("RShift", 54)
BY DEF Decodes, Byte, shiftcode, togglecode, normalmap, shiftmap, ctlmap, Extended, Legend, Found,
       Printed, Modifier, Lock, FlagsOf, KeysOf, NO

LEMMA KeyLCtl == "LCtl" \in Keys => Decodes("LCtl", 29)
BY DEF Decodes, Byte, shiftcode, togglecode, normalmap, shiftmap, ctlmap, Extended, Legend, Found,
       Printed, Modifier, Lock, FlagsOf, KeysOf, NO

LEMMA KeyLAlt == "LAlt" \in Keys => Decodes("LAlt", 56)
BY DEF Decodes, Byte, shiftcode, togglecode, normalmap, shiftmap, ctlmap, Extended, Legend, Found,
       Printed, Modifier, Lock, FlagsOf, KeysOf, NO

LEMMA KeyCaps == "Caps" \in Keys => Decodes("Caps", 58)
BY DEF Decodes, Byte, shiftcode, togglecode, normalmap, shiftmap, ctlmap, Extended, Legend, Found,
       Printed, Modifier, Lock, FlagsOf, KeysOf, NO

LEMMA KeyNum == "Num" \in Keys => Decodes("Num", 69)
BY DEF Decodes, Byte, shiftcode, togglecode, normalmap, shiftmap, ctlmap, Extended, Legend, Found,
       Printed, Modifier, Lock, FlagsOf, KeysOf, NO

LEMMA KeyScroll == "Scroll" \in Keys => Decodes("Scroll", 70)
BY DEF Decodes, Byte, shiftcode, togglecode, normalmap, shiftmap, ctlmap, Extended, Legend, Found,
       Printed, Modifier, Lock, FlagsOf, KeysOf, NO

LEMMA KeyRCtl == "RCtl" \in Keys => Decodes("RCtl", 157)
BY DEF Decodes, Byte, shiftcode, togglecode, normalmap, shiftmap, ctlmap, Extended, Legend, Found,
       Printed, Modifier, Lock, FlagsOf, KeysOf, NO

LEMMA KeyRAlt == "RAlt" \in Keys => Decodes("RAlt", 184)
BY DEF Decodes, Byte, shiftcode, togglecode, normalmap, shiftmap, ctlmap, Extended, Legend, Found,
       Printed, Modifier, Lock, FlagsOf, KeysOf, NO

LEMMA KeyUp == "Up" \in Keys => Decodes("Up", 200)
BY DEF Decodes, Byte, shiftcode, togglecode, normalmap, shiftmap, ctlmap, Extended, Legend, Found,
       Printed, Modifier, Lock, FlagsOf, KeysOf, NO

LEMMA KeyDown == "Down" \in Keys => Decodes("Down", 208)
BY DEF Decodes, Byte, shiftcode, togglecode, normalmap, shiftmap, ctlmap, Extended, Legend, Found,
       Printed, Modifier, Lock, FlagsOf, KeysOf, NO

LEMMA KeyPadEnter == "PadEnter" \in Keys => Decodes("PadEnter", 156)
BY DEF Decodes, Byte, shiftcode, togglecode, normalmap, shiftmap, ctlmap, Extended, Legend, Found,
       Printed, Modifier, Lock, FlagsOf, KeysOf, NO

LEMMA KeyHome == "Home" \in Keys => Decodes("Home", 199)
BY DEF Decodes, Byte, shiftcode, togglecode, normalmap, shiftmap, ctlmap, Extended, Legend, Found,
       Printed, Modifier, Lock, FlagsOf, KeysOf, NO

(* A key's code is plain, or comes after an escape; then the tables have it *)
(* 128 further on, and its modifier at both places.                        *)
Plain(k)   == Make[k] = <<Code(k)>> /\ Index(k) = Code(k)
Escaped(k) ==
  /\ Make[k] = <<224, Code(k)>> /\ Index(k) = Code(k) + 128
  /\ shiftcode[Code(k)] = Modifier[k] /\ togglecode[Code(k)] = {} /\ Lock[k] = {}

LEMMA PlainKey ==
  ASSUME NEW k, NEW c, Make[k] = <<c>>
  PROVE  Plain(k) /\ Code(k) = c
BY One DEF Plain, Code, Index

LEMMA EscapedKey ==
  ASSUME NEW k, NEW c, Make[k] = <<224, c>>
  PROVE  Make[k] = <<224, Code(k)>> /\ Index(k) = c + 128 /\ Code(k) = c
BY Two DEF Code, Index

LEMMA LowCodes ==
  /\ shiftcode[29] = {"CTL"} /\ shiftcode[56] = {"ALT"}
  /\ \A c \in {71, 72, 80, 28} : shiftcode[c] = {}
  /\ \A c \in {29, 56, 71, 72, 80, 28} : togglecode[c] = {}
BY DEF shiftcode, togglecode, Byte

LEMMA Codes ==
  ASSUME NEW k \in Keys
  PROVE  /\ Decodes(k, Index(k)) /\ Code(k) \in 1 .. 95
         /\ (Plain(k) /\ k \notin ArrowBlock) \/ Escaped(k)
         /\ k \in ArrowBlock => Modifier[k] = {} /\ Lock[k] = {}
<1>1. CASE k = "A"
  BY <1>1, KeyA, PlainCodes, PlainKey DEF Plain, ArrowBlock
<1>2. CASE k = "Enter"
  BY <1>2, KeyEnter, PlainCodes, PlainKey DEF Plain, ArrowBlock
<1>3. CASE k = "Pad8"
  BY <1>3, KeyPad8, PlainCodes, PlainKey DEF Plain, ArrowBlock
<1>4. CASE k = "Esc"
  BY <1>4, KeyEsc, PlainCodes, PlainKey DEF Plain, ArrowBlock
<1>5. CASE k = "LShift"
  BY <1>5, KeyLShift, PlainCodes, PlainKey DEF Plain, ArrowBlock
<1>6. CASE k = "RShift"
  BY <1>6, KeyRShift, PlainCodes, PlainKey DEF Plain, ArrowBlock
<1>7. CASE k = "LCtl"
  BY <1>7, KeyLCtl, PlainCodes, PlainKey DEF Plain, ArrowBlock
<1>8. CASE k = "LAlt"
  BY <1>8, KeyLAlt, PlainCodes, PlainKey DEF Plain, ArrowBlock
<1>9. CASE k = "Caps"
  BY <1>9, KeyCaps, PlainCodes, PlainKey DEF Plain, ArrowBlock
<1>10. CASE k = "Num"
  BY <1>10, KeyNum, PlainCodes, PlainKey DEF Plain, ArrowBlock
<1>11. CASE k = "Scroll"
  BY <1>11, KeyScroll, PlainCodes, PlainKey DEF Plain, ArrowBlock
<1>12. CASE k = "RCtl"
  BY <1>12, KeyRCtl, ExtendedCodes, EscapedKey, LowCodes DEF Decodes, Escaped, ArrowBlock, Modifier, Lock, FlagsOf, KeysOf
<1>13. CASE k = "RAlt"
  BY <1>13, KeyRAlt, ExtendedCodes, EscapedKey, LowCodes DEF Decodes, Escaped, ArrowBlock, Modifier, Lock, FlagsOf, KeysOf
<1>14. CASE k = "Up"
  BY <1>14, KeyUp, ExtendedCodes, EscapedKey, LowCodes DEF Decodes, Escaped, ArrowBlock, Modifier, Lock, FlagsOf, KeysOf
<1>15. CASE k = "Down"
  BY <1>15, KeyDown, ExtendedCodes, EscapedKey, LowCodes DEF Decodes, Escaped, ArrowBlock, Modifier, Lock, FlagsOf, KeysOf
<1>16. CASE k = "PadEnter"
  BY <1>16, KeyPadEnter, ExtendedCodes, EscapedKey, LowCodes DEF Decodes, Escaped, ArrowBlock, Modifier, Lock, FlagsOf, KeysOf
<1>17. CASE k = "Home"
  BY <1>17, KeyHome, ExtendedCodes, EscapedKey, LowCodes DEF Decodes, Escaped, ArrowBlock, Modifier, Lock, FlagsOf, KeysOf
<1>18. QED
  BY KeyNames, KeysAssumption, <1>1, <1>2, <1>3, <1>4, <1>5, <1>6, <1>7, <1>8, <1>9, <1>10, <1>11, <1>12, <1>13, <1>14, <1>15, <1>16, <1>17

(* What the tables give is something the kernel can do. *)
LEMMA Effective ==
  ASSUME NEW flags, NEW code \in Byte, NEW now
  PROVE  LET c == charcode(flags)[code]
         IN  Show(IF "CAPSLOCK" \in now THEN SwapCase(c) ELSE c) \in Effects
<1> DEFINE c == charcode(flags)[code]
           All == Characters \cup {NO, "KEY_UP", "KEY_DN"}
<1>1. Extended(code) \in All
  BY DEF Extended, Characters
<1>2. normalmap[code] \in All /\ shiftmap[code] \in All /\ ctlmap[code] \in All
  BY <1>1 DEF normalmap, shiftmap, ctlmap, Characters
<1>3. c \in All
  BY <1>2 DEF charcode
<1>4. SwapCase(c) \in All
  BY <1>3 DEF SwapCase, Characters
<1>5. ASSUME NEW x \in All PROVE Show(x) \in Effects
  <2>1. CASE x \in {NO, "KEY_UP", "KEY_DN"}
    BY <2>1 DEF Show, Effects, NO
  <2>2. CASE x \in Characters
    BY <2>2 DEF Show, Effects
  <2>3. QED
    BY <2>1, <2>2
<1>6. QED
  BY <1>3, <1>4, <1>5

(* No table knows of the escape; the codes of false shifts mean nothing    *)
(* after one.                                                              *)
LEMMA NoEscapes ==
  ASSUME NEW d \in Byte
  PROVE  "E0ESC" \notin shiftcode[d] /\ "E0ESC" \notin togglecode[d]
BY DEF shiftcode, togglecode

LEMMA FalseCodes ==
  /\ shiftcode[170] = {} /\ togglecode[170] = {}
  /\ \A flags : charcode(flags)[170] = NO
BY DEF shiftcode, togglecode, charcode, normalmap, shiftmap, ctlmap, Extended, Byte, NO

-----------------------------------------------------------------------------
(* Events.                                                                 *)
Formed(e) ==
  \/ e.bytes = IF e.down THEN Make[e.key] ELSE Break(e.key)
  \/ /\ e.key \in ArrowBlock
     /\ e.bytes = IF e.down THEN FakeUp \o Make[e.key] ELSE Break(e.key) \o FakeDown

KeyEvent == {e \in [key : Keys, down : BOOLEAN, bytes : Seq(Byte)] : Formed(e)}

KeyCode(e) == IF e.down THEN Code(e.key) ELSE Code(e.key) + 128

Single(e)    == e.bytes = <<KeyCode(e)>> /\ Plain(e.key)
Double(e)    == e.bytes = <<224, KeyCode(e)>> /\ Escaped(e.key)
FalseUp(e)   == e.down /\ e.bytes = <<224, 170, 224, KeyCode(e)>> /\ Escaped(e.key)
FalseDown(e) == ~ e.down /\ e.bytes = <<224, KeyCode(e), 224, 42>> /\ Escaped(e.key)

LEMMA Breaks ==
  ASSUME NEW k \in Keys
  PROVE  /\ Plain(k) => Break(k) = <<Code(k) + 128>>
         /\ Escaped(k) => Break(k) = <<224, Code(k) + 128>>
<1>1. Code(k) \in Int
  BY Codes
<1>2. CASE Plain(k)
  BY <1>1, <1>2, One, Codes DEF Break, Plain, Escaped
<1>3. CASE Escaped(k)
  BY <1>1, <1>3, Two, Codes DEF Break, Plain, Escaped
<1>4. QED
  BY <1>2, <1>3

LEMMA EventForms ==
  ASSUME NEW e \in KeyEvent
  PROVE  /\ e.key \in Keys /\ e.down \in BOOLEAN
         /\ \/ Single(e) \/ Double(e)
            \/ e.key \in ArrowBlock /\ (FalseUp(e) \/ FalseDown(e))
<1> DEFINE k == e.key  c == Code(e.key)
<1>1. k \in Keys /\ e.down \in BOOLEAN /\ Formed(e)
  BY DEF KeyEvent
<1>2. c \in 1 .. 95 /\ ((Plain(k) /\ k \notin ArrowBlock) \/ Escaped(k))
  BY <1>1, Codes
<1>3. /\ Plain(k) => Make[k] = <<c>> /\ Break(k) = <<c + 128>>
      /\ Escaped(k) => Make[k] = <<224, c>> /\ Break(k) = <<224, c + 128>>
  BY <1>1, Breaks DEF Plain, Escaped
<1>4. /\ <<224, 170>> \o <<224, c>> = <<224, 170, 224, c>>
      /\ <<224, c + 128>> \o <<224, 42>> = <<224, c + 128, 224, 42>>
  <2>1. c \in Byte /\ c + 128 \in Byte /\ {224, 170, 42} \subseteq Byte
    BY <1>2 DEF Byte
  <2>2. QED
    BY <2>1, TwoTwo
<1>5. /\ e.down => KeyCode(e) = c
      /\ ~ e.down => KeyCode(e) = c + 128
  BY Zenon DEF KeyCode
<1>6. CASE e.bytes = IF e.down THEN Make[k] ELSE Break(k)
  <2>1. CASE Plain(k)
    BY <1>1, <1>3, <1>5, <1>6, <2>1 DEF Single
  <2>2. CASE Escaped(k)
    BY <1>1, <1>3, <1>5, <1>6, <2>2 DEF Double
  <2>3. QED
    BY <1>1, <1>2, <2>1, <2>2
<1>7. CASE /\ k \in ArrowBlock
           /\ e.bytes = IF e.down THEN FakeUp \o Make[k] ELSE Break(k) \o FakeDown
  <2>1. Escaped(k)
    BY <1>2, <1>7
  <2>2. CASE e.down
    <3>1. e.bytes = <<224, 170, 224, c>>
      <4>1. Make[k] = <<224, c>> /\ e.bytes = FakeUp \o Make[k]
        BY <1>3, <1>7, <2>1, <2>2, Zenon
      <4>2. QED
        BY <1>4, <4>1, Zenon DEF FakeUp
    <3>2. KeyCode(e) = c
      BY <1>5, <2>2, Zenon
    <3>3. FalseUp(e)
      BY <2>1, <2>2, <3>1, <3>2, Zenon DEF FalseUp
    <3>4. QED
      BY <1>1, <1>7, <3>3
  <2>3. CASE ~ e.down
    <3>1. e.bytes = <<224, c + 128, 224, 42>>
      BY <1>3, <1>4, <1>7, <2>1, <2>3 DEF FakeDown
    <3>2. QED
      BY <1>1, <1>5, <1>7, <2>1, <2>3, <3>1 DEF FalseDown
  <2>4. QED
    BY <1>1, <2>2, <2>3
<1>8. QED
  BY <1>1, <1>6, <1>7 DEF Formed

LEMMA EventMade ==
  ASSUME NEW k \in Keys, NEW down \in BOOLEAN
  PROVE  [key |-> k, down |-> down, bytes |-> BytesOf(k, down)] \in KeyEvent
<1> DEFINE b == BytesOf(k, down)  c == Code(k)  e == [key |-> k, down |-> down, bytes |-> b]
<1>1. c \in 1 .. 95 /\ ((Plain(k) /\ k \notin ArrowBlock) \/ Escaped(k))
  BY Codes
<1>2. /\ Plain(k) => Make[k] = <<c>> /\ Break(k) = <<c + 128>>
      /\ Escaped(k) => Make[k] = <<224, c>> /\ Break(k) = <<224, c + 128>>
  BY Breaks DEF Plain, Escaped
<1>3. Make[k] \in Seq(Byte) /\ Break(k) \in Seq(Byte)
  <2>1. c \in Byte /\ c + 128 \in Byte /\ 224 \in Byte
    BY <1>1 DEF Byte
  <2>2. /\ <<c>> \in Seq(Byte) /\ <<c + 128>> \in Seq(Byte)
        /\ <<224, c>> \in Seq(Byte) /\ <<224, c + 128>> \in Seq(Byte)
    BY <2>1
  <2>3. QED
    BY <1>1, <1>2, <2>2
<1>4. FakeUp \in Seq(Byte) /\ FakeDown \in Seq(Byte)
  BY DEF FakeUp, FakeDown, Byte
<1>5. /\ <<>> \o Make[k] = Make[k] /\ Break(k) \o <<>> = Break(k)
      /\ FakeUp \o Make[k] \in Seq(Byte) /\ Break(k) \o FakeDown \in Seq(Byte)
  BY <1>3, <1>4, ConcatEmptySeq, ConcatProperties
<1>6. \/ b = IF down THEN Make[k] ELSE Break(k)
      \/ k \in ArrowBlock /\ b = IF down THEN FakeUp \o Make[k] ELSE Break(k) \o FakeDown
  BY <1>5 DEF BytesOf
<1>7. b \in Seq(Byte)
  BY <1>3, <1>5, <1>6
<1>8. e.key = k /\ e.down = down /\ e.bytes = b
  OBVIOUS
<1>9. Formed(e)
  <2> HIDE DEF e, b
  <2> QED BY <1>6, <1>8 DEF Formed
<1>10. e \in [key : Keys, down : BOOLEAN, bytes : Seq(Byte)]
  <2> HIDE DEF b
  <2> QED BY <1>7
<1>11. QED
  BY <1>9, <1>10 DEF KeyEvent

-----------------------------------------------------------------------------
(* The decoder in the middle of an event: nothing was decoded before the   *)
(* delay; an event that lost its first byte to it finds no modifier; and   *)
(* E0ESC is set exactly if the byte decoded last was the escape.           *)
Typed ==
  /\ queue \in Seq(KeyEvent)
  /\ held \subseteq Keys /\ last \in held \cup {NoKey}

Progress ==
  /\ read \in Nat
  /\ queue = <<>> => read = 0
  /\ queue # <<>> => read < Len(Head(queue).bytes)

Booting ==
  /\ boot \in {"delay", "garbled", "over"}
  /\ boot = "delay"   => shift = {} /\ read = 0 /\ effect = Nothing
  /\ boot = "garbled" => queue # <<>> /\ read > 0 /\ shift \subseteq {"E0ESC"}

EscapeSeen ==
  "E0ESC" \in shift <=>
    /\ queue # <<>> /\ read > (IF boot = "garbled" THEN 1 ELSE 0)
    /\ Head(queue).bytes[read] = 224

Decoding == Typed /\ Progress /\ Booting /\ EscapeSeen

(* What the next byte can be. *)
IsEscape(e) == data = 224 /\ ~ LastByte /\ "E0ESC" \notin shift
IsFalse(e)  ==
  /\ data = 170 \/ data = Code(e.key) + 128
  /\ ~ LastByte /\ e.key \in ArrowBlock /\ ("E0ESC" \in shift \/ boot = "garbled")
IsEnd(e)    == data = 42 /\ LastByte /\ ~ e.down /\ e.key \in ArrowBlock /\ "E0ESC" \in shift
IsPlain(e)  == data = KeyCode(e) /\ LastByte /\ Plain(e.key) /\ "E0ESC" \notin shift /\ boot # "garbled"
IsExtended(e) ==
  /\ data = KeyCode(e) /\ LastByte /\ Escaped(e.key) /\ ("E0ESC" \in shift \/ boot = "garbled")

LEMMA FormBytes ==
  ASSUME NEW e
  PROVE  /\ Single(e) => Len(e.bytes) = 1 /\ e.bytes[1] = KeyCode(e)
         /\ Double(e) => Len(e.bytes) = 2 /\ e.bytes[1] = 224 /\ e.bytes[2] = KeyCode(e)
         /\ FalseUp(e) => /\ Len(e.bytes) = 4 /\ e.bytes[1] = 224 /\ e.bytes[2] = 170
                          /\ e.bytes[3] = 224 /\ e.bytes[4] = KeyCode(e)
         /\ FalseDown(e) => /\ Len(e.bytes) = 4 /\ e.bytes[1] = 224 /\ e.bytes[2] = KeyCode(e)
                            /\ e.bytes[3] = 224 /\ e.bytes[4] = 42
<1> DEFINE c == KeyCode(e)
<1> HIDE DEF c
<1>1. e.bytes = <<c>> => Len(e.bytes) = 1 /\ e.bytes[1] = c
  BY One
<1>2. e.bytes = <<224, c>> => Len(e.bytes) = 2 /\ e.bytes[1] = 224 /\ e.bytes[2] = c
  BY Two
<1>3. e.bytes = <<224, 170, 224, c>> =>
        /\ Len(e.bytes) = 4 /\ e.bytes[1] = 224 /\ e.bytes[2] = 170
        /\ e.bytes[3] = 224 /\ e.bytes[4] = c
  BY Four
<1>4. e.bytes = <<224, c, 224, 42>> =>
        /\ Len(e.bytes) = 4 /\ e.bytes[1] = 224 /\ e.bytes[2] = c
        /\ e.bytes[3] = 224 /\ e.bytes[4] = 42
  BY Four
<1>5. QED
  BY <1>1, <1>2, <1>3, <1>4 DEF c, Single, Double, FalseUp, FalseDown

LEMMA KeyCodes ==
  ASSUME NEW e, Code(e.key) \in 1 .. 95
  PROVE  KeyCode(e) # 224
<1> DEFINE c == Code(e.key)  x == KeyCode(e)
<1>1. x = c \/ x = c + 128
  BY Zenon DEF KeyCode
<1>2. c \in Int /\ c < 96
  OBVIOUS
<1> HIDE DEF c, x
<1>3. x # 224
  BY <1>1, <1>2
<1>4. QED
  BY <1>3 DEF x

LEMMA NextByteOf ==
  ASSUME NEW e \in KeyEvent,
         read \in Nat, read < Len(e.bytes),
         data = e.bytes[read + 1], LastByte <=> read + 1 = Len(e.bytes),
         boot = "garbled" => read > 0,
         "E0ESC" \in shift <=> read > (IF boot = "garbled" THEN 1 ELSE 0) /\ e.bytes[read] = 224
  PROVE  IsEscape(e) \/ IsFalse(e) \/ IsEnd(e) \/ IsPlain(e) \/ IsExtended(e)
<1>1. /\ e.down \in BOOLEAN /\ e.key \in Keys
      /\ \/ Single(e) \/ Double(e)
         \/ e.key \in ArrowBlock /\ (FalseUp(e) \/ FalseDown(e))
  BY EventForms
<1>2. Code(e.key) \in 1 .. 95
  BY <1>1, Codes
<1>3. KeyCode(e) # 224
  BY <1>2, KeyCodes
<1>4. CASE Single(e)
  <2>1. read = 0
    BY <1>4, FormBytes
  <2>2. QED
    BY <1>4, <2>1, FormBytes DEF IsPlain, Single
<1>5. CASE Double(e)
  <2>1. CASE read = 0
    BY <1>5, <2>1, FormBytes DEF IsEscape
  <2>2. CASE read = 1
    BY <1>5, <2>2, FormBytes DEF IsExtended, Double
  <2>3. QED
    BY <1>5, <2>1, <2>2, FormBytes
<1>6. CASE e.key \in ArrowBlock /\ FalseUp(e)
  <2>1. CASE read \in {0, 2}
    BY <1>6, <2>1, FormBytes DEF IsEscape
  <2>2. CASE read = 1
    BY <1>6, <2>2, FormBytes DEF IsFalse
  <2>3. CASE read = 3
    BY <1>6, <2>3, FormBytes DEF IsExtended, FalseUp
  <2>4. QED
    BY <1>6, <2>1, <2>2, <2>3, FormBytes
<1>7. CASE e.key \in ArrowBlock /\ FalseDown(e)
  <2>1. ~ e.down /\ KeyCode(e) = Code(e.key) + 128
    BY <1>7, Zenon DEF FalseDown, KeyCode
  <2>2. CASE read \in {0, 2}
    BY <1>3, <1>7, <2>2, FormBytes DEF IsEscape
  <2>3. CASE read = 1
    BY <1>7, <2>1, <2>3, FormBytes DEF IsFalse
  <2>4. CASE read = 3
    BY <1>7, <2>1, <2>4, FormBytes DEF IsEnd
  <2>5. QED
    BY <1>7, <2>2, <2>3, <2>4, FormBytes
<1>8. QED
  BY <1>1, <1>4, <1>5, <1>6, <1>7

LEMMA NextByte ==
  ASSUME Decoding, boot # "delay", queue # <<>>,
         NEW e, e = Head(queue)
  PROVE  /\ e \in KeyEvent /\ e.key \in Keys /\ e.down \in BOOLEAN
         /\ IsEscape(e) \/ IsFalse(e) \/ IsEnd(e) \/ IsPlain(e) \/ IsExtended(e)
<1>1. e \in KeyEvent
  BY HeadTailProperties DEF Decoding, Typed
<1>2. e.key \in Keys /\ e.down \in BOOLEAN
  BY <1>1 DEF KeyEvent
<1>3. /\ read \in Nat /\ read < Len(e.bytes)
      /\ data = e.bytes[read + 1] /\ (LastByte <=> read + 1 = Len(e.bytes))
      /\ boot = "garbled" => read > 0
      /\ "E0ESC" \in shift <=> read > (IF boot = "garbled" THEN 1 ELSE 0) /\ e.bytes[read] = 224
  BY DEF Decoding, Progress, Booting, EscapeSeen, data, LastByte
<1>4. QED
  BY <1>1, <1>2, <1>3, NextByteOf

-----------------------------------------------------------------------------
(* What each of these bytes does. *)
Mods == shift \ {"E0ESC"}

ByteRead == EscapeByte \/ ReleaseByte \/ PressByte

Flipped(k) ==
  LET on == Mods \cup Modifier[k] IN (on \ Lock[k]) \cup (Lock[k] \ on)

GoesOn ==
  /\ queue' = queue /\ read' = read + 1 /\ effect' = effect /\ boot' = boot
  /\ Mods' = Mods
  /\ "E0ESC" \in shift' <=> data = 224

Ends == queue' = Tail(queue) /\ read' = 0 /\ boot' = "over" /\ "E0ESC" \notin shift'

LEMMA Taken ==
  ASSUME NEW c, Take(c)
  PROVE  /\ boot # "delay" /\ queue # <<>> /\ held' = held /\ last' = last
         /\ LastByte => /\ queue' = Tail(queue) /\ read' = 0 /\ boot' = "over"
                        /\ effect' = Show(c)
         /\ ~ LastByte /\ Show(c) = Nothing =>
              queue' = queue /\ read' = read + 1 /\ boot' = boot /\ effect' = effect
BY DEF Take, RemoveByte

LEMMA NoEffect == Show(NoChar) = Nothing /\ Show(NO) = Nothing /\ SwapCase(NO) = NO
BY DEF Show, NO, SwapCase

LEMMA AllTake == ByteRead => \E c : Take(c)
BY DEF ByteRead, EscapeByte, ReleaseByte, PressByte

LEMMA WhichAction ==
  ASSUME ByteRead
  PROVE  /\ data = 224 => EscapeByte
         /\ data \in 129 .. 223 => ReleaseByte
         /\ data \in 0 .. 127 => PressByte
<1>1. /\ EscapeByte => data = 224
      /\ ReleaseByte => data >= 128 /\ data # 224
      /\ PressByte => data < 128
  BY Zenon DEF EscapeByte, ReleaseByte, PressByte
<1>2. /\ data = 224 => data >= 128 /\ ~ (data < 128)
      /\ data \in 129 .. 223 => ~ (data < 128) /\ data # 224
      /\ data \in 0 .. 127 => ~ (data >= 128) /\ data # 224
  OBVIOUS
<1>3. QED
  BY <1>1, <1>2, Zenon DEF ByteRead

LEMMA EscapeStep ==
  ASSUME ByteRead, data = 224, ~ LastByte
  PROVE  GoesOn
<1>1. EscapeByte
  BY WhichAction
<1>2. shift' = shift \cup {"E0ESC"} /\ Take(NoChar)
  BY <1>1 DEF EscapeByte
<1>3. QED
  BY <1>2, Taken, NoEffect DEF GoesOn, Mods

LEMMA FalseStep ==
  ASSUME ByteRead, ~ LastByte, data \in 129 .. 223,
         NEW from \in Byte, from = IF "E0ESC" \in shift THEN data ELSE data - 128,
         shiftcode[from] = {} \/ shift = {}
  PROVE  GoesOn
<1>1. ReleaseByte /\ data # 224
  BY WhichAction
<1>2. shift' = shift \ (shiftcode[from] \cup {"E0ESC"}) /\ Take(NoChar)
  BY <1>1 DEF ReleaseByte
<1>3. shift' = Mods
  BY <1>2 DEF Mods
<1>4. QED
  BY <1>1, <1>2, <1>3, Taken, NoEffect DEF GoesOn, Mods

LEMMA Pressing ==
  ASSUME ByteRead, LastByte, data \in 0 .. 127,
         NEW code \in Byte, code = IF "E0ESC" \in shift THEN data + 128 ELSE data
  PROVE  LET on  == Mods \cup shiftcode[code]
             now == (on \ togglecode[code]) \cup (togglecode[code] \ on)
             c   == charcode(now)[code]
         IN  /\ Ends
             /\ shift' = now
             /\ effect' = Show(IF "CAPSLOCK" \in now THEN SwapCase(c) ELSE c)
<1> DEFINE on  == Mods \cup shiftcode[code]
           now == (on \ togglecode[code]) \cup (togglecode[code] \ on)
           c   == charcode(now)[code]
<1>1. PressByte
  BY WhichAction
<1>2. shift' = now /\ Take(IF "CAPSLOCK" \in now THEN SwapCase(c) ELSE c)
  <2> DEFINE Now(x) == ((Mods \cup shiftcode[x]) \ togglecode[x])
                         \cup (togglecode[x] \ (Mods \cup shiftcode[x]))
             Char(x) == IF "CAPSLOCK" \in Now(x) THEN SwapCase(charcode(Now(x))[x])
                        ELSE charcode(Now(x))[x]
             x0 == IF "E0ESC" \in shift THEN data + 128 ELSE data
  <2>1. shift' = Now(x0) /\ Take(Char(x0))
    BY <1>1, Zenon DEF PressByte, Mods
  <2>2. x0 = code
    OBVIOUS
  <2>3. shift' = Now(code) /\ Take(Char(code))
    <3> HIDE DEF Now, Char, x0
    <3> QED BY <2>1, <2>2, Zenon
  <2>4. QED
    BY <2>3
<1>3. "E0ESC" \notin now
  BY NoEscapes DEF Mods
<1>4. QED
  <2> HIDE DEF now, c
  <2> QED BY <1>2, <1>3, Taken DEF Ends, now, c

LEMMA Releasing ==
  ASSUME ByteRead, LastByte, data \in 129 .. 223,
         NEW from \in Byte, from = IF "E0ESC" \in shift THEN data ELSE data - 128
  PROVE  Ends /\ shift' = Mods \ shiftcode[from] /\ effect' = Nothing
<1>1. ReleaseByte
  BY WhichAction
<1>2. shift' = shift \ (shiftcode[from] \cup {"E0ESC"}) /\ Take(NoChar)
  BY <1>1 DEF ReleaseByte
<1>3. shift' = Mods \ shiftcode[from]
  BY <1>2 DEF Mods
<1>4. QED
  BY <1>2, <1>3, Taken, NoEffect DEF Ends, Mods

(* One byte of the oldest event: on the way it changes nothing but E0ESC;  *)
(* the last does what the event means, or, if the first was lost, no more  *)
(* than set the modifier of the key that goes down.                        *)
HandledDown(e) ==
  /\ e.down /\ shift' = Flipped(e.key)
  /\ effect' = IF e.key = "Home" THEN Nothing ELSE Show(Abstract!CharOf(e.key, shift'))

HandledUp(e) == ~ e.down /\ shift' = Mods \ Modifier[e.key] /\ effect' = Nothing

Spoilt(e) ==
  /\ \/ shift' = Mods
     \/ e.down /\ shift' = Mods \cup Modifier[e.key]
  /\ effect' \in Effects

LEMMA EndStep ==
  ASSUME NEW e, e.key \in Keys, ByteRead, IsEnd(e)
  PROVE  Ends /\ HandledUp(e)
<1>1. 170 \in Byte
  BY DEF Byte
<1>2. /\ LastByte /\ data \in 0 .. 127 /\ 170 = IF "E0ESC" \in shift THEN data + 128 ELSE data
      /\ ~ e.down /\ Modifier[e.key] = {}
  BY Codes DEF IsEnd
<1>3. Ends /\ shift' = Mods /\ effect' = Nothing
  <2> DEFINE on  == Mods \cup shiftcode[170]
             now == (on \ togglecode[170]) \cup (togglecode[170] \ on)
             c   == charcode(now)[170]
  <2>1. Ends /\ shift' = now /\ effect' = Show(IF "CAPSLOCK" \in now THEN SwapCase(c) ELSE c)
    BY <1>1, <1>2, Pressing
  <2>2. now = Mods
    BY FalseCodes
  <2>3. c = NO
    BY FalseCodes
  <2>4. QED
    <3> HIDE DEF now, c
    <3> QED BY <2>1, <2>2, <2>3, NoEffect
<1>4. QED
  BY <1>2, <1>3 DEF HandledUp

LEMMA DownStep ==
  ASSUME NEW e, e.key \in Keys, e.down = TRUE, ByteRead, LastByte,
         NEW code \in Byte, data \in 0 .. 127, code = IF "E0ESC" \in shift THEN data + 128 ELSE data,
         Decodes(e.key, code)
  PROVE  Ends /\ HandledDown(e)
<1> DEFINE k == e.key
           now == Flipped(k)
           c == charcode(now)[code]
<1>1. shiftcode[code] = Modifier[k] /\ togglecode[code] = Lock[k]
  BY DEF Decodes
<1>2. /\ Ends /\ shift' = now
      /\ effect' = Show(IF "CAPSLOCK" \in now THEN SwapCase(c) ELSE c)
  BY <1>1, Pressing DEF Flipped
<1>3. charcode(now)[code] = IF "CTL" \in now THEN Found(k).control
                            ELSE IF "SHIFT" \in now THEN Found(k).shifted ELSE Found(k).plain
  <2> HIDE DEF now
  <2> QED BY DEF charcode, Decodes
<1>4. CASE k # "Home"
  <2>1. Abstract!CharOf(k, now) = IF "CAPSLOCK" \in now THEN SwapCase(c) ELSE c
    <3> HIDE DEF now
    <3> QED BY <1>3, <1>4 DEF Abstract!CharOf, Found
  <2> HIDE DEF now, c
  <2>2. QED
    BY <1>2, <1>4, <2>1 DEF HandledDown, now
<1>5. CASE k = "Home"
  <2>1. c = NO
    <3> HIDE DEF now
    <3> QED BY <1>3, <1>5 DEF Found, Printed
  <2> HIDE DEF now, c
  <2>2. QED
    BY <1>2, <1>5, <2>1, NoEffect DEF HandledDown, now
<1>6. QED
  BY <1>4, <1>5

LEMMA UpStep ==
  ASSUME NEW e, e.key \in Keys, e.down = FALSE, ByteRead, LastByte,
         data = Code(e.key) + 128,
         \/ Plain(e.key) /\ "E0ESC" \notin shift
         \/ Escaped(e.key)
  PROVE  Ends /\ HandledUp(e)
<1> DEFINE k == e.key  from == IF "E0ESC" \in shift THEN data ELSE data - 128
<1>1. Code(k) \in 1 .. 95 /\ Decodes(k, Index(k))
  BY Codes
<1>2. data \in 129 .. 223 /\ data - 128 = Code(k)
  BY <1>1
<1>3. from \in Byte
  BY <1>2 DEF Byte
<1>4. shiftcode[from] = Modifier[k]
  BY <1>1, <1>2 DEF Plain, Escaped, Decodes
<1>5. QED
  <2>1. Ends /\ shift' = Mods \ shiftcode[from] /\ effect' = Nothing
    BY <1>2, <1>3, Releasing
  <2>2. QED
    BY <1>4, <2>1 DEF HandledUp

LEMMA OverStep ==
  ASSUME NEW e, e.key \in Keys, e.down \in BOOLEAN, ByteRead, boot = "over",
         IsEnd(e) \/ IsPlain(e) \/ IsExtended(e)
  PROVE  LastByte /\ Ends /\ (HandledDown(e) \/ HandledUp(e))
<1> DEFINE k == e.key
<1>1. CASE IsEnd(e)
  BY <1>1, EndStep DEF IsEnd
<1>2. CASE IsPlain(e) \/ IsExtended(e)
  <2>1. /\ data = KeyCode(e) /\ LastByte
        /\ \/ Plain(k) /\ "E0ESC" \notin shift
           \/ Escaped(k) /\ "E0ESC" \in shift
    BY <1>2 DEF IsPlain, IsExtended
  <2>2. Code(k) \in 1 .. 95 /\ Decodes(k, Index(k))
    BY Codes
  <2>3. CASE e.down = TRUE
    <3>1. data = Code(k)
      BY <2>1, <2>3, Zenon DEF KeyCode
    <3>2. data \in 0 .. 127 /\ Index(k) \in Byte
      BY <2>2, <3>1 DEF Decodes
    <3>3. Index(k) = IF "E0ESC" \in shift THEN data + 128 ELSE data
      BY <2>1, <3>1 DEF Plain, Escaped
    <3>4. QED
      BY <2>1, <2>2, <2>3, <3>2, <3>3, DownStep
  <2>4. CASE e.down = FALSE
    <3>1. data = Code(k) + 128
      BY <2>1, <2>4, Zenon DEF KeyCode
    <3>2. QED
      BY <2>1, <2>4, <3>1, UpStep
  <2>5. QED
    BY <2>3, <2>4
<1>3. QED
  BY <1>1, <1>2

LEMMA GarbledStep ==
  ASSUME NEW e, e.key \in Keys, e.down \in BOOLEAN, ByteRead,
         boot = "garbled", Mods = {}, IsEnd(e) \/ IsPlain(e) \/ IsExtended(e)
  PROVE  LastByte /\ Ends /\ Spoilt(e)
<1> DEFINE k == e.key
<1>1. Nothing \in Effects
  BY DEF Effects
<1>2. CASE IsEnd(e)
  <2>1. LastByte /\ Ends /\ HandledUp(e)
    BY <1>2, EndStep DEF IsEnd
  <2>2. QED
    BY <1>1, <2>1 DEF Spoilt, HandledUp
<1>3. CASE IsExtended(e)
  <2>1. data = KeyCode(e) /\ LastByte /\ Escaped(k)
    BY <1>3 DEF IsExtended
  <2>2. Code(k) \in 1 .. 95 /\ Decodes(k, Index(k))
    BY Codes
  <2>3. CASE e.down = TRUE
    <3> DEFINE code == IF "E0ESC" \in shift THEN data + 128 ELSE data
               on  == Mods \cup shiftcode[code]
               now == (on \ togglecode[code]) \cup (togglecode[code] \ on)
               c   == charcode(now)[code]
    <3>1. data = Code(k)
      BY <2>1, <2>3, Zenon DEF KeyCode
    <3>2. data \in 0 .. 127 /\ code \in Byte
      BY <2>2, <3>1 DEF Byte
    <3>3. shiftcode[code] = Modifier[k] /\ togglecode[code] = {}
      BY <2>1, <2>2, <3>1 DEF Escaped, Decodes
    <3>4. /\ Ends /\ shift' = now
          /\ effect' = Show(IF "CAPSLOCK" \in now THEN SwapCase(c) ELSE c)
      <4> HIDE DEF code
      <4> QED BY <2>1, <3>2, Pressing DEF code
    <3>5. effect' \in Effects
      <4> HIDE DEF code, now
      <4> QED BY <3>2, <3>4, Effective
    <3>6. now = Mods \cup Modifier[k]
      <4> HIDE DEF code
      <4> QED BY <3>3
    <3>7. QED
      <4> HIDE DEF code, now, c
      <4> QED BY <2>1, <2>3, <3>4, <3>5, <3>6 DEF Spoilt
  <2>4. CASE e.down = FALSE
    <3>1. data = Code(k) + 128
      BY <2>1, <2>4, Zenon DEF KeyCode
    <3>2. Ends /\ HandledUp(e)
      BY <2>1, <2>4, <3>1, UpStep
    <3>3. QED
      BY <1>1, <2>1, <3>2 DEF Spoilt, HandledUp
  <2>5. QED
    BY <2>3, <2>4
<1>4. QED
  BY <1>2, <1>3 DEF IsPlain

LEMMA ByteStep ==
  ASSUME Decoding, ByteRead, NEW e, e = Head(queue)
  PROVE  /\ boot # "delay" /\ queue # <<>> /\ held' = held /\ last' = last
         /\ e \in KeyEvent /\ e.key \in Keys /\ e.down \in BOOLEAN
         /\ \/ ~ LastByte /\ GoesOn
            \/ LastByte /\ Ends /\ boot = "over" /\ (HandledDown(e) \/ HandledUp(e))
            \/ LastByte /\ Ends /\ boot = "garbled" /\ Spoilt(e)
<1>1. boot # "delay" /\ queue # <<>> /\ held' = held /\ last' = last
  BY AllTake, Taken
<1>2. /\ e \in KeyEvent /\ e.key \in Keys /\ e.down \in BOOLEAN
      /\ IsEscape(e) \/ IsFalse(e) \/ IsEnd(e) \/ IsPlain(e) \/ IsExtended(e)
  BY <1>1, NextByte
<1>3. CASE IsEscape(e)
  BY <1>1, <1>2, <1>3, EscapeStep DEF IsEscape
<1>4. CASE IsFalse(e)
  <2> DEFINE k == e.key  from == IF "E0ESC" \in shift THEN data ELSE data - 128
  <2>1. /\ data = 170 \/ data = Code(k) + 128
        /\ ~ LastByte /\ k \in ArrowBlock /\ ("E0ESC" \in shift \/ boot = "garbled")
    BY <1>4 DEF IsFalse
  <2>2. /\ Code(k) \in 1 .. 95 /\ Decodes(k, Index(k))
        /\ Escaped(k) /\ Modifier[k] = {}
    BY <1>2, <2>1, Codes
  <2>3. data \in 129 .. 223 /\ from \in Byte
    BY <2>1, <2>2 DEF Byte
  <2>4. shiftcode[from] = {} \/ shift = {}
    <3>1. CASE "E0ESC" \in shift
      BY <2>1, <2>2, <3>1, FalseCodes DEF Decodes, Escaped
    <3>2. CASE "E0ESC" \notin shift
      BY <2>1, <3>2 DEF Decoding, Booting
    <3>3. QED
      BY <3>1, <3>2
  <2>5. GoesOn
    <3> HIDE DEF from
    <3> QED BY <2>1, <2>3, <2>4, FalseStep DEF from
  <2>6. QED
    BY <1>1, <1>2, <2>1, <2>5
<1>5. CASE IsEnd(e) \/ IsPlain(e) \/ IsExtended(e)
  <2>1. CASE boot = "over"
    BY <1>1, <1>2, <1>5, <2>1, OverStep
  <2>2. CASE boot = "garbled"
    <3>1. Mods = {}
      BY <2>2 DEF Decoding, Booting, Mods
    <3>2. QED
      BY <1>1, <1>2, <1>5, <2>2, <3>1, GarbledStep
  <2>3. QED
    BY <1>1, <2>1, <2>2 DEF Decoding, Booting
<1>6. QED
  BY <1>2, <1>3, <1>4, <1>5

-----------------------------------------------------------------------------
(* The queue, seen as events. *)
Pair(e)     == [key |-> e.key, down |-> e.down]
EventsOf(q) == [i \in 1 .. Len(q) |-> [key |-> q[i].key, down |-> q[i].down]]

LEMMA BytesLeft == ASSUME NEW e \in KeyEvent PROVE Len(e.bytes) > 0
BY EventForms, FormBytes

LEMMA EventsType ==
  ASSUME NEW q \in Seq(KeyEvent)
  PROVE  /\ EventsOf(q) \in Seq([key : Keys, down : BOOLEAN])
         /\ Len(EventsOf(q)) = Len(q)
         /\ \A i \in 1 .. Len(q) : EventsOf(q)[i] = Pair(q[i])
<1>1. Len(q) \in Nat /\ \A i \in 1 .. Len(q) : q[i] \in KeyEvent
  BY ElementOfSeq
<1>2. \A i \in 1 .. Len(q) : Pair(q[i]) \in [key : Keys, down : BOOLEAN]
  BY <1>1 DEF KeyEvent, Pair
<1>3. QED
  BY <1>1, <1>2, IsASeq DEF EventsOf, Pair

LEMMA EventsAppend ==
  ASSUME NEW q \in Seq(KeyEvent), NEW e \in KeyEvent
  PROVE  EventsOf(Append(q, e)) = Append(EventsOf(q), Pair(e))
<1> DEFINE S == [key : Keys, down : BOOLEAN]
           s == EventsOf(Append(q, e))
           t == Append(EventsOf(q), Pair(e))
<1>1. /\ Append(q, e) \in Seq(KeyEvent) /\ Len(Append(q, e)) = Len(q) + 1
      /\ \A i \in 1 .. Len(q) : Append(q, e)[i] = q[i]
      /\ Append(q, e)[Len(q) + 1] = e
  BY AppendProperties
<1>2. Pair(e) \in S
  BY DEF KeyEvent, Pair
<1>3. /\ s \in Seq(S) /\ Len(s) = Len(q) + 1
      /\ \A i \in 1 .. Len(q) + 1 : s[i] = Pair(Append(q, e)[i])
  BY <1>1, EventsType
<1>4. /\ t \in Seq(S) /\ Len(t) = Len(q) + 1
      /\ \A i \in 1 .. Len(q) : t[i] = Pair(q[i])
      /\ t[Len(q) + 1] = Pair(e)
  <2> DEFINE o == EventsOf(q)
  <2>1. /\ o \in Seq(S) /\ Len(o) = Len(q)
        /\ \A i \in 1 .. Len(q) : o[i] = Pair(q[i])
    BY EventsType
  <2> HIDE DEF o, S
  <2>2. /\ Append(o, Pair(e)) \in Seq(S) /\ Len(Append(o, Pair(e))) = Len(q) + 1
        /\ \A i \in 1 .. Len(q) : Append(o, Pair(e))[i] = o[i]
        /\ Append(o, Pair(e))[Len(q) + 1] = Pair(e)
    BY <1>2, <2>1, AppendProperties
  <2>3. QED
    BY <2>1, <2>2 DEF o
<1>5. \A i \in 1 .. Len(s) : s[i] = t[i]
  <2> HIDE DEF s, t
  <2> QED BY <1>1, <1>3, <1>4, LenProperties
<1>6. QED
  <2> HIDE DEF s, t
  <2>1. s = t
    BY <1>3, <1>4, <1>5, SeqEqual
  <2>2. QED
    BY <2>1 DEF s, t

LEMMA EventsTail ==
  ASSUME NEW q \in Seq(KeyEvent), q # <<>>
  PROVE  /\ EventsOf(q) # <<>> /\ Head(EventsOf(q)) = Pair(Head(q))
         /\ EventsOf(Tail(q)) = Tail(EventsOf(q))
<1> DEFINE S == [key : Keys, down : BOOLEAN]
           s == EventsOf(Tail(q))
           t == Tail(EventsOf(q))
<1>1. /\ Head(q) = q[1] /\ Tail(q) \in Seq(KeyEvent) /\ Len(Tail(q)) = Len(q) - 1
      /\ \A i \in 1 .. Len(Tail(q)) : Tail(q)[i] = q[i + 1]
      /\ Len(q) \in Nat \ {0}
  BY HeadTailProperties, EmptySeq, LenProperties
<1>2. /\ EventsOf(q) \in Seq(S) /\ Len(EventsOf(q)) = Len(q)
      /\ \A i \in 1 .. Len(q) : EventsOf(q)[i] = Pair(q[i])
  BY EventsType
<1>3. EventsOf(q) # <<>>
  BY <1>1, <1>2, EmptySeq
<1>4. /\ Head(EventsOf(q)) = EventsOf(q)[1]
      /\ t \in Seq(S) /\ Len(t) = Len(q) - 1
      /\ \A i \in 1 .. Len(q) - 1 : t[i] = EventsOf(q)[i + 1]
  BY <1>2, <1>3, HeadTailProperties
<1>5. /\ s \in Seq(S) /\ Len(s) = Len(q) - 1
      /\ \A i \in 1 .. Len(q) - 1 : s[i] = Pair(Tail(q)[i])
  BY <1>1, EventsType
<1>6. \A i \in 1 .. Len(s) : s[i] = t[i]
  <2> HIDE DEF s, t
  <2> QED BY <1>1, <1>2, <1>4, <1>5
<1>7. s = t
  <2> HIDE DEF s, t
  <2> QED BY <1>4, <1>5, <1>6, SeqEqual
<1>8. QED
  BY <1>1, <1>2, <1>3, <1>4, <1>7

-----------------------------------------------------------------------------
(* Decoding is an invariant. *)
LEMMA InitDecoding == Init => Decoding
<1> SUFFICES ASSUME Init PROVE Decoding
  OBVIOUS
<1>1. Typed
  BY EmptySeq DEF Init, Typed
<1>2. Progress /\ Booting /\ EscapeSeen
  BY DEF Init, Progress, Booting, EscapeSeen
<1>3. QED
  BY <1>1, <1>2 DEF Decoding

LEMMA SendStep ==
  ASSUME Decoding, NEW k \in Keys, NEW down \in BOOLEAN, Send(k, down),
         held' \subseteq Keys, last' \in held' \cup {NoKey}
  PROVE  /\ Decoding'
         /\ EventsOf(queue') = Append(EventsOf(queue), [key |-> k, down |-> down])
<1> DEFINE e == [key |-> k, down |-> down, bytes |-> BytesOf(k, down)]
<1>1. e \in KeyEvent
  BY EventMade
<1>2. queue \in Seq(KeyEvent) /\ queue' = Append(queue, e) /\ UNCHANGED <<shift, effect, read, boot>>
  BY DEF Decoding, Typed, Send
<1>3. /\ queue' \in Seq(KeyEvent) /\ queue' # <<>>
      /\ Head(queue') = IF queue = <<>> THEN e ELSE Head(queue)
  <2> HIDE DEF e
  <2>1. /\ queue' \in Seq(KeyEvent) /\ queue' # <<>> /\ Len(queue') = Len(queue) + 1
        /\ \A i \in 1 .. Len(queue) : queue'[i] = queue[i]
        /\ queue'[Len(queue) + 1] = e
    BY <1>1, <1>2, AppendProperties
  <2>2. Head(queue') = queue'[1] /\ (queue # <<>> => Head(queue) = queue[1])
    BY <1>2, <2>1, HeadTailProperties
  <2>3. queue = <<>> => Len(queue) = 0
    BY EmptySeq
  <2>4. queue # <<>> => 1 \in 1 .. Len(queue)
    BY <1>2, EmptySeq, LenProperties
  <2>5. QED
    BY <2>1, <2>2, <2>3, <2>4
<1>4. Len(e.bytes) > 0
  BY <1>1, BytesLeft
<1>5. Typed'
  BY <1>3 DEF Typed
<1>6. Progress'
  <2> HIDE DEF e
  <2> QED BY <1>2, <1>3, <1>4 DEF Decoding, Progress
<1>7. Booting'
  BY <1>2, <1>3 DEF Decoding, Booting
<1>8. EscapeSeen'
  <2> HIDE DEF e
  <2>1. queue = <<>> => read = 0 /\ "E0ESC" \notin shift
    BY DEF Decoding, Progress, EscapeSeen
  <2>2. CASE queue = <<>>
    BY <1>2, <2>1, <2>2 DEF EscapeSeen
  <2>3. CASE queue # <<>>
    BY <1>2, <1>3, <2>3 DEF Decoding, EscapeSeen
  <2>4. QED
    BY <2>2, <2>3
<1>9. EventsOf(queue') = Append(EventsOf(queue), [key |-> k, down |-> down])
  <2>1. Pair(e) = [key |-> k, down |-> down]
    BY DEF Pair
  <2>2. QED
    BY <1>1, <1>2, <2>1, EventsAppend
<1>10. QED
  BY <1>5, <1>6, <1>7, <1>8, <1>9 DEF Decoding

LEMMA FirstRemoved ==
  ASSUME Decoding, queue # <<>>, queue' = Tail(queue), read' = 0
  PROVE  /\ queue' \in Seq(KeyEvent)
         /\ Progress'
<1>1. queue' \in Seq(KeyEvent)
  BY HeadTailProperties DEF Decoding, Typed
<1>2. ASSUME queue' # <<>> PROVE Len(Head(queue').bytes) > 0
  <2>1. Head(queue') \in KeyEvent
    BY <1>1, <1>2, HeadTailProperties
  <2>2. QED
    BY <2>1, BytesLeft
<1>3. QED
  BY <1>1, <1>2 DEF Progress

LEMMA ByteDecoding ==
  ASSUME Decoding, ByteRead
  PROVE  Decoding'
<1> DEFINE e == Head(queue)
<1>1. /\ boot # "delay" /\ queue # <<>> /\ held' = held /\ last' = last
      /\ e \in KeyEvent /\ e.key \in Keys /\ e.down \in BOOLEAN
      /\ \/ ~ LastByte /\ GoesOn
         \/ LastByte /\ Ends
  BY ByteStep
<1>2. CASE ~ LastByte /\ GoesOn
  <2>1. /\ queue' = queue /\ read' = read + 1 /\ boot' = boot /\ Mods' = Mods
        /\ "E0ESC" \in shift' <=> data = 224
    BY <1>2 DEF GoesOn
  <2>2. read \in Nat /\ read < Len(e.bytes) /\ read + 1 # Len(e.bytes) /\ Len(e.bytes) \in Nat
    <3>1. e.bytes \in Seq(Byte)
      BY <1>1 DEF KeyEvent
    <3>2. QED
      BY <1>1, <1>2, <3>1, LenProperties DEF Decoding, Progress, LastByte
  <2>3. Typed'
    BY <1>1, <2>1 DEF Decoding, Typed
  <2>4. Progress'
    BY <1>1, <2>1, <2>2 DEF Progress
  <2>5. Booting'
    <3>1. boot = "garbled" => shift' \subseteq {"E0ESC"}
      BY <2>1 DEF Decoding, Booting, Mods
    <3>2. QED
      BY <1>1, <2>1, <2>2, <3>1 DEF Decoding, Booting
  <2>6. EscapeSeen'
    <3>1. data = Head(queue').bytes[read']
      BY <2>1 DEF data
    <3>2. read' > (IF boot' = "garbled" THEN 1 ELSE 0)
      BY <2>1, <2>2 DEF Decoding, Booting
    <3>3. QED
      BY <1>1, <2>1, <3>1, <3>2 DEF EscapeSeen
  <2>7. QED
    BY <2>3, <2>4, <2>5, <2>6 DEF Decoding
<1>3. CASE LastByte /\ Ends
  <2>1. queue' = Tail(queue) /\ read' = 0 /\ boot' = "over" /\ "E0ESC" \notin shift'
    BY <1>3 DEF Ends
  <2>2. queue' \in Seq(KeyEvent) /\ Progress'
    BY <1>1, <2>1, FirstRemoved
  <2>3. Typed'
    BY <1>1, <2>2 DEF Decoding, Typed
  <2>4. Booting' /\ EscapeSeen'
    BY <2>1 DEF Booting, EscapeSeen
  <2>5. QED
    BY <2>2, <2>3, <2>4 DEF Decoding
<1>4. QED
  BY <1>1, <1>2, <1>3

(* What the delay read takes: the first byte of the first event. *)
LEMMA DelayStep ==
  ASSUME Decoding, DelayTakesByte
  PROVE  /\ Decoding' /\ queue # <<>> /\ boot = "delay"
         /\ shift' = shift /\ effect' = effect /\ effect = Nothing /\ held' = held /\ last' = last
         /\ \/ queue' = queue /\ boot' = "garbled"
            \/ queue' = Tail(queue) /\ boot' = "over"
<1> DEFINE e == Head(queue)
<1>1. /\ boot = "delay" /\ queue # <<>> /\ UNCHANGED <<shift, effect, held, last>>
      /\ shift = {} /\ read = 0 /\ effect = Nothing
  BY DEF DelayTakesByte, Decoding, Booting
<1>2. /\ e \in KeyEvent /\ Len(e.bytes) > 0 /\ Len(e.bytes) \in Nat
  <2>1. e \in KeyEvent
    BY <1>1, HeadTailProperties DEF Decoding, Typed
  <2>2. e.bytes \in Seq(Byte)
    BY <2>1 DEF KeyEvent
  <2>3. QED
    BY <2>1, <2>2, BytesLeft, LenProperties
<1>3. CASE LastByte
  <2>1. queue' = Tail(queue) /\ read' = 0 /\ boot' = "over"
    BY <1>3 DEF DelayTakesByte, RemoveByte
  <2>2. queue' \in Seq(KeyEvent) /\ Progress'
    BY <1>1, <2>1, FirstRemoved
  <2>3. Typed' /\ Booting' /\ EscapeSeen'
    BY <1>1, <2>1, <2>2 DEF Decoding, Typed, Booting, EscapeSeen
  <2>4. QED
    BY <1>1, <2>1, <2>2, <2>3 DEF Decoding
<1>4. CASE ~ LastByte
  <2>1. queue' = queue /\ read' = 1 /\ boot' = "garbled"
    BY <1>1, <1>4 DEF DelayTakesByte, RemoveByte
  <2>2. 1 < Len(e.bytes)
    <3>1. read + 1 # Len(e.bytes)
      BY <1>4 DEF LastByte
    <3>2. 1 # Len(e.bytes)
      BY <1>1, <3>1
    <3>3. \A n \in Nat : n > 0 /\ n # 1 => 1 < n
      OBVIOUS
    <3>4. QED
      <4> HIDE DEF e
      <4> QED BY <1>2, <3>2, <3>3
  <2>3. Typed' /\ Booting'
    BY <1>1, <2>1 DEF Decoding, Typed, Booting
  <2>4. Progress' /\ EscapeSeen'
    BY <1>1, <2>1, <2>2 DEF Progress, EscapeSeen
  <2>5. QED
    BY <1>1, <2>1, <2>3, <2>4 DEF Decoding
<1>5. QED
  BY <1>3, <1>4

(* A key goes down, repeats or goes up. *)
LEMMA TypingStep ==
  ASSUME Decoding, NEW k \in Keys, Press(k) \/ Repeat(k) \/ Release(k)
  PROVE  \E down \in BOOLEAN :
           /\ Decoding'
           /\ UNCHANGED <<shift, effect, boot>>
           /\ queue' = Append(queue, [key |-> k, down |-> down, bytes |-> BytesOf(k, down)])
           /\ EventsOf(queue') = Append(EventsOf(queue), [key |-> k, down |-> down])
           /\ \/ /\ down = TRUE /\ k \in held' /\ held \subseteq held'
              \/ /\ down = FALSE /\ held' = held \ {k}
<1>1. held \subseteq Keys /\ last \in held \cup {NoKey} /\ NoKey \notin Keys
  BY KeyNames, KeysAssumption DEF Decoding, Typed, NoKey
<1>2. CASE Press(k)
  <2>1. held' = held \cup {k} /\ last' = k /\ Send(k, TRUE)
    BY <1>2 DEF Press
  <2>2. QED
    BY <1>1, <2>1, SendStep DEF Send
<1>3. CASE Repeat(k)
  <2>1. held' = held /\ last' = last /\ k = last /\ Send(k, TRUE)
    BY <1>3 DEF Repeat
  <2>2. QED
    BY <1>1, <2>1, SendStep DEF Send
<1>4. CASE Release(k)
  <2>1. held' = held \ {k} /\ Send(k, FALSE) /\ last' = IF last = k THEN NoKey ELSE last
    BY <1>4 DEF Release
  <2>2. QED
    BY <1>1, <2>1, SendStep DEF Send
<1>5. QED
  BY <1>2, <1>3, <1>4

LEMMA NothingStep ==
  ASSUME Decoding, DelayFindsNothing
  PROVE  Decoding'
<1>1. /\ boot = "delay" /\ boot' = "over" /\ UNCHANGED <<shift, effect, queue, read, held, last>>
      /\ shift = {} /\ read = 0
  BY DEF DelayFindsNothing, Decoding, Booting
<1>2. QED
  BY <1>1 DEF Decoding, Typed, Progress, Booting, EscapeSeen

LEMMA NextDecoding ==
  ASSUME Decoding, [Next]_vars
  PROVE  Decoding'
<1>1. CASE Next
  <2>1. ASSUME NEW k \in Keys, Press(k) \/ Repeat(k) \/ Release(k)
        PROVE  Decoding'
    BY <2>1, TypingStep
  <2>2. CASE DelayFindsNothing
    BY <2>2, NothingStep
  <2>3. CASE DelayTakesByte
    BY <2>3, DelayStep
  <2>4. CASE ByteRead
    BY <2>4, ByteDecoding
  <2>5. QED
    BY <1>1, <2>1, <2>2, <2>3, <2>4 DEF Next, ByteRead
<1>2. CASE UNCHANGED vars
  BY <1>2 DEF vars, Decoding, Typed, Progress, Booting, EscapeSeen, data
<1>3. QED
  BY <1>1, <1>2

(* Whatever is typed, the decoder is where it should be in the oldest      *)
(* event: its bytes are those of a key of scan code set 1, as many are     *)
(* read as it has escape bytes behind it, and E0ESC is set exactly then.   *)
THEOREM DecoderInStep == Spec => []Decoding
<1>1. Init => Decoding
  BY InitDecoding
<1>2. Decoding /\ [Next]_vars => Decoding'
  BY NextDecoding
<1>3. QED
  BY <1>1, <1>2, PTL DEF Spec

-----------------------------------------------------------------------------
(* Each byte is nothing, or all, of handling an event. *)
LEMMA EventsIs == Events = EventsOf(queue) /\ Events' = EventsOf(queue')
BY DEF Events, EventsOf

LEMMA ByteHandles ==
  ASSUME "Home" \notin Keys, Decoding, ByteRead
  PROVE  \/ LastByte /\ (Abstract!HandleDown \/ Abstract!HandleUp \/ Abstract!Spoil)
         \/ ~ LastByte /\ UNCHANGED Abstract!kvars
<1> DEFINE e == Head(queue)
<1>1. /\ boot # "delay" /\ queue # <<>> /\ e \in KeyEvent /\ e.down \in BOOLEAN
      /\ \/ ~ LastByte /\ GoesOn
         \/ LastByte /\ Ends /\ boot = "over" /\ (HandledDown(e) \/ HandledUp(e))
         \/ LastByte /\ Ends /\ boot = "garbled" /\ Spoilt(e)
  BY ByteStep
<1>2. queue \in Seq(KeyEvent)
  BY DEF Decoding, Typed
<1>3. /\ Events # <<>> /\ Head(Events) = Pair(e)
      /\ EventsOf(Tail(queue)) = Tail(Events)
  BY <1>1, <1>2, EventsTail, EventsIs
<1>4. Head(Events).key = e.key /\ Head(Events).down = e.down
  BY <1>3 DEF Pair
<1>5. GoesOn => UNCHANGED Abstract!kvars
  BY EventsIs DEF GoesOn, Mods, Abstract!kvars
<1>6. ASSUME Ends
      PROVE  Events' = Tail(Events) /\ boot' = "over" /\ shift' \ {"E0ESC"} = shift'
  BY <1>3, <1>6, EventsIs DEF Ends
<1>7. Ends /\ boot = "over" /\ HandledDown(e) => Abstract!HandleDown
  BY <1>1, <1>3, <1>4, <1>6 DEF KeyEvent, HandledDown, Flipped, Mods, Abstract!HandleDown
<1>8. Ends /\ boot = "over" /\ HandledUp(e) => Abstract!HandleUp
  BY <1>3, <1>4, <1>6 DEF HandledUp, Mods, Abstract!HandleUp
<1>9. Ends /\ boot = "garbled" /\ Spoilt(e) => Abstract!Spoil
  BY <1>3, <1>4, <1>6 DEF Spoilt, Mods, Abstract!Spoil
<1>10. QED
  BY <1>1, <1>5, <1>7, <1>8, <1>9

LEMMA TypingIsEvent ==
  ASSUME Decoding, NEW k \in Keys, Press(k) \/ Repeat(k) \/ Release(k)
  PROVE  \E down \in BOOLEAN : Abstract!Event(k, down)
<1>1. PICK down \in BOOLEAN :
        /\ UNCHANGED <<shift, effect, boot>>
        /\ EventsOf(queue') = Append(EventsOf(queue), [key |-> k, down |-> down])
  BY TypingStep
<1>2. Abstract!Event(k, down)
  BY <1>1, EventsIs DEF Abstract!Event
<1>3. QED
  BY <1>2

LEMMA DelaySpoils ==
  ASSUME Decoding, DelayTakesByte
  PROVE  Abstract!Spoil \/ UNCHANGED Abstract!kvars
<1>1. /\ queue # <<>> /\ boot = "delay" /\ shift' = shift /\ effect' = effect /\ effect = Nothing
      /\ \/ queue' = queue /\ boot' = "garbled"
         \/ queue' = Tail(queue) /\ boot' = "over"
  BY DelayStep
<1>2. CASE queue' = queue /\ boot' = "garbled"
  BY <1>1, <1>2, EventsIs DEF Abstract!kvars
<1>3. CASE queue' = Tail(queue) /\ boot' = "over"
  <2>1. Events # <<>> /\ Events' = Tail(Events)
    BY <1>1, <1>3, EventsTail, EventsIs DEF Decoding, Typed
  <2>2. effect' \in Effects
    BY <1>1 DEF Effects
  <2>3. QED
    BY <1>1, <1>3, <2>1, <2>2 DEF Abstract!Spoil
<1>4. QED
  BY <1>1, <1>2, <1>3

LEMMA NothingListens == DelayFindsNothing => Abstract!Listen
BY EventsIs DEF DelayFindsNothing, Abstract!Listen

LEMMA StepIsStep ==
  ASSUME "Home" \notin Keys, Decoding, [Next]_vars
  PROVE  [Abstract!KNext]_Abstract!kvars
<1>1. CASE UNCHANGED vars
  BY <1>1, EventsIs DEF vars, Abstract!kvars
<1>2. CASE Next
  BY <1>2, ByteHandles, TypingIsEvent, DelaySpoils, NothingListens
  DEF Next, ByteRead, Abstract!KNext
<1>3. QED
  BY <1>1, <1>2

LEMMA StartsListening == Init => Abstract!KInit
<1>1. ASSUME Init PROVE Events = <<>>
  <2>1. queue = <<>> /\ queue \in Seq(KeyEvent)
    BY <1>1, EmptySeq DEF Init
  <2>2. Events \in Seq([key : Keys, down : BOOLEAN]) /\ Len(Events) = 0
    BY <2>1, EventsIs, EventsType, EmptySeq
  <2>3. QED
    BY <2>2, EmptySeq
<1>2. QED
  BY <1>1 DEF Init, Abstract!KInit

(* Decoding scan codes byte by byte is handling keys event by event, as    *)
(* KeyEvents says: for any set of keys of scan code set 1 but Home, whose  *)
(* place in the tables is not where its code looks (kbd.h:72).             *)
THEOREM KeyboardImplementsKeyEvents == "Home" \notin Keys => (Spec => ImplementsKeyEvents)
<1> SUFFICES ASSUME "Home" \notin Keys PROVE Spec => ImplementsKeyEvents
  OBVIOUS
<1>1. Decoding /\ [Next]_vars => [Abstract!KNext]_Abstract!kvars
  BY StepIsStep
<1>2. QED
  BY <1>1, StartsListening, DecoderInStep, PTL DEF Spec, ImplementsKeyEvents, Abstract!KSpec

-----------------------------------------------------------------------------
(* No modifier sticks.  A key whose press is yet to be read is held, or    *)
(* its going up is queued behind the press.                                *)
StillDown ==
  \A i \in 1 .. Len(queue) :
    queue[i].down = TRUE =>
      \/ queue[i].key \in held
      \/ \E j \in i + 1 .. Len(queue) : queue[j].key = queue[i].key /\ queue[j].down = FALSE

Released(f) ==
  \/ held \cap KeysOf[f] # {}
  \/ \E i \in 1 .. Len(queue) : queue[i].key \in KeysOf[f] /\ queue[i].down = FALSE

Unstuck == \A f \in shift \cap Modifiers : Released(f)

LEMMA InKeysOf ==
  ASSUME NEW k \in Keys, NEW f \in Modifiers
  PROVE  f \in Modifier[k] <=> k \in KeysOf[f]
BY DEF Modifiers, Modifier, FlagsOf

LEMMA NoLocks ==
  ASSUME NEW k \in Keys
  PROVE  Lock[k] \cap Modifiers = {}
BY DEF Lock, FlagsOf, Modifiers

(* Typing. *)
LEMMA TypingStuck ==
  ASSUME Decoding, StillDown, Unstuck,
         NEW k \in Keys, Press(k) \/ Repeat(k) \/ Release(k)
  PROVE  StillDown' /\ Unstuck'
<1> DEFINE n == Len(queue)
<1>1. PICK down \in BOOLEAN :
        /\ UNCHANGED <<shift, effect, boot>>
        /\ queue' = Append(queue, [key |-> k, down |-> down, bytes |-> BytesOf(k, down)])
        /\ \/ /\ down = TRUE /\ k \in held' /\ held \subseteq held'
           \/ /\ down = FALSE /\ held' = held \ {k}
  BY TypingStep
<1>2. /\ n \in Nat /\ Len(queue') = n + 1
      /\ \A i \in 1 .. n : queue'[i] = queue[i]
      /\ queue'[n + 1].key = k /\ queue'[n + 1].down = down
  <2>1. queue \in Seq(KeyEvent)
    BY DEF Decoding, Typed
  <2> DEFINE e == [key |-> k, down |-> down, bytes |-> BytesOf(k, down)]
  <2>2. e \in KeyEvent /\ e.key = k /\ e.down = down
    BY EventMade
  <2> HIDE DEF e
  <2>3. queue' = Append(queue, e)
    BY <1>1 DEF e
  <2>4. QED
    BY <2>1, <2>2, <2>3, AppendProperties, LenProperties
<1>3. ASSUME NEW i \in 1 .. n + 1, queue'[i].down = TRUE
      PROVE  \/ queue'[i].key \in held'
             \/ \E j \in i + 1 .. n + 1 : queue'[j].key = queue'[i].key /\ queue'[j].down = FALSE
  <2>1. CASE i = n + 1
    BY <1>1, <1>2, <1>3, <2>1
  <2>2. CASE i \in 1 .. n /\ queue[i].key \in held
    BY <1>1, <1>2, <1>3, <2>2
  <2>3. CASE i \in 1 .. n /\ queue[i].key \notin held
    <3>1. PICK j \in i + 1 .. n : queue[j].key = queue[i].key /\ queue[j].down = FALSE
      BY <1>2, <1>3, <2>3 DEF StillDown
    <3>2. j \in 1 .. n /\ j \in i + 1 .. n + 1 /\ i \in 1 .. n
      BY <1>2, <2>3
    <3>3. QED
      BY <1>2, <3>1, <3>2
  <2>4. i = n + 1 \/ i \in 1 .. n
    <3> HIDE DEF n
    <3> QED BY <1>2
  <2>5. QED
    BY <2>1, <2>2, <2>3, <2>4, Zenon
<1>4. ASSUME NEW f \in shift \cap Modifiers
      PROVE  Released(f)'
  <2>1. CASE \E i \in 1 .. n : queue[i].key \in KeysOf[f] /\ queue[i].down = FALSE
    <3>1. PICK i \in 1 .. n : queue[i].key \in KeysOf[f] /\ queue[i].down = FALSE
      BY <2>1
    <3>2. QED
      BY <1>2, <3>1 DEF Released
  <2>2. CASE held \cap KeysOf[f] # {}
    <3>1. CASE held \cap KeysOf[f] \subseteq held'
      BY <2>2, <3>1 DEF Released
    <3>2. CASE ~ (held \cap KeysOf[f] \subseteq held')
      <4>1. k \in KeysOf[f] /\ down = FALSE
        BY <1>1, <3>2
      <4>2. QED
        BY <1>2, <4>1 DEF Released
    <3>3. QED
      BY <3>1, <3>2
  <2>3. QED
    BY <1>4, <2>1, <2>2 DEF Unstuck, Released
<1>5. QED
  BY <1>1, <1>2, <1>3, <1>4 DEF StillDown, Unstuck

(* The oldest event is done with: what was queued behind it still is.      *)
LEMMA HandledStuck ==
  ASSUME Decoding, StillDown, Unstuck, queue # <<>>,
         queue' = Tail(queue), held' = held,
         NEW e, e = Head(queue), e.key \in Keys, e.down \in BOOLEAN,
         \/ shift' \cap Modifiers \subseteq shift
         \/ /\ e.down = TRUE
            /\ shift' \cap Modifiers \subseteq shift \cup Modifier[e.key],
         e.down = FALSE => shift' \cap Modifier[e.key] \cap Modifiers = {}
  PROVE  StillDown' /\ Unstuck'
<1> DEFINE n == Len(queue)
<1>1. /\ n \in Nat /\ n > 0 /\ Len(queue') = n - 1 /\ e = queue[1]
      /\ \A i \in 1 .. n - 1 : queue'[i] = queue[i + 1]
  BY HeadTailProperties, EmptySeq, LenProperties DEF Decoding, Typed
<1>2. \A i \in 2 .. n : i - 1 \in 1 .. n - 1 /\ queue'[i - 1] = queue[i]
  BY <1>1
<1>3. ASSUME NEW i \in 1 .. n - 1, queue'[i].down = TRUE
      PROVE  \/ queue'[i].key \in held'
             \/ \E j \in i + 1 .. n - 1 : queue'[j].key = queue'[i].key /\ queue'[j].down = FALSE
  <2>1. i + 1 \in 1 .. n /\ queue[i + 1].down = TRUE /\ queue'[i] = queue[i + 1]
    BY <1>1, <1>3
  <2>2. CASE queue[i + 1].key \in held
    BY <2>1, <2>2
  <2>3. CASE queue[i + 1].key \notin held
    <3>1. PICK j \in i + 2 .. n : queue[j].key = queue[i + 1].key /\ queue[j].down = FALSE
      BY <1>1, <2>1, <2>3 DEF StillDown
    <3>2. j - 1 \in i + 1 .. n - 1 /\ queue'[j - 1] = queue[j]
      BY <1>1, <1>2, <3>1
    <3>3. QED
      BY <2>1, <3>1, <3>2
  <2>4. QED
    BY <2>2, <2>3
<1>4. ASSUME NEW f \in shift' \cap Modifiers
      PROVE  Released(f)'
  <2>1. ASSUME NEW i \in 2 .. n, queue[i].key \in KeysOf[f], queue[i].down = FALSE
        PROVE  Released(f)'
    <3>1. i - 1 \in 1 .. n - 1 /\ queue'[i - 1] = queue[i]
      BY <1>2
    <3>2. QED
      BY <1>1, <2>1, <3>1 DEF Released
  <2>2. ASSUME held \cap KeysOf[f] # {} PROVE Released(f)'
    BY <2>2 DEF Released
  <2>3. CASE f \in shift
    <3>1. CASE held \cap KeysOf[f] # {}
      BY <2>2, <3>1
    <3>2. CASE held \cap KeysOf[f] = {}
      <4>1. PICK i \in 1 .. n : queue[i].key \in KeysOf[f] /\ queue[i].down = FALSE
        BY <1>4, <2>3, <3>2 DEF Unstuck, Released
      <4>2. i # 1
        <5>1. ASSUME i = 1 PROVE FALSE
          <6>1. e.key \in KeysOf[f] /\ e.down = FALSE
            BY <1>1, <4>1, <5>1
          <6>2. f \in Modifier[e.key]
            BY <1>4, <6>1, InKeysOf
          <6>3. QED
            BY <1>4, <6>1, <6>2
        <5>2. QED
          BY <5>1
      <4>3. i \in 2 .. n
        BY <1>1, <4>1, <4>2
      <4>4. QED
        BY <2>1, <4>1, <4>3
    <3>3. QED
      BY <3>1, <3>2
  <2>4. CASE f \notin shift
    <3>1. e.down = TRUE /\ f \in Modifier[e.key]
      BY <1>4, <2>4
    <3>2. e.key \in KeysOf[f]
      BY <1>4, <3>1, InKeysOf
    <3>3. CASE e.key \in held
      BY <2>2, <3>2, <3>3
    <3>4. CASE e.key \notin held
      <4>1. PICK j \in 2 .. n : queue[j].key = e.key /\ queue[j].down = FALSE
        BY <1>1, <3>1, <3>4 DEF StillDown
      <4>2. QED
        BY <2>1, <3>2, <4>1
    <3>5. QED
      BY <3>3, <3>4
  <2>5. QED
    BY <2>3, <2>4
<1>5. QED
  BY <1>1, <1>3, <1>4 DEF StillDown, Unstuck

LEMMA ByteStuck ==
  ASSUME Decoding, StillDown, Unstuck, ByteRead
  PROVE  StillDown' /\ Unstuck'
<1> DEFINE e == Head(queue)
<1>1. /\ queue # <<>> /\ held' = held /\ e.key \in Keys /\ e.down \in BOOLEAN
      /\ \/ ~ LastByte /\ GoesOn
         \/ LastByte /\ Ends /\ boot = "over" /\ (HandledDown(e) \/ HandledUp(e))
         \/ LastByte /\ Ends /\ boot = "garbled" /\ Spoilt(e)
  BY ByteStep
<1>2. CASE GoesOn
  <2>1. queue' = queue /\ shift' \cap Modifiers = shift \cap Modifiers
    BY <1>2 DEF GoesOn, Mods, Modifiers
  <2>2. QED
    BY <1>1, <2>1 DEF StillDown, Unstuck, Released
<1>3. CASE Ends /\ HandledDown(e)
  <2>1. queue' = Tail(queue) /\ e.down = TRUE
    BY <1>1, <1>3 DEF Ends, HandledDown
  <2>2. shift' \cap Modifiers \subseteq shift \cup Modifier[e.key]
    BY <1>1, <1>3, NoLocks DEF HandledDown, Flipped, Mods
  <2>3. QED
    BY <1>1, <2>1, <2>2, HandledStuck
<1>4. CASE Ends /\ HandledUp(e)
  <2>1. queue' = Tail(queue) /\ shift' = Mods \ Modifier[e.key]
    BY <1>4 DEF Ends, HandledUp
  <2>2. shift' \cap Modifiers \subseteq shift /\ shift' \cap Modifier[e.key] \cap Modifiers = {}
    BY <2>1 DEF Mods
  <2>3. QED
    BY <1>1, <2>1, <2>2, HandledStuck
<1>5. CASE Ends /\ boot = "garbled" /\ Spoilt(e)
  <2>1. queue' = Tail(queue) /\ Mods = {}
    BY <1>5 DEF Ends, Decoding, Booting, Mods
  <2>2. CASE e.down = TRUE
    <3>1. shift' \cap Modifiers \subseteq shift \cup Modifier[e.key]
      BY <1>5, <2>1 DEF Spoilt
    <3>2. QED
      BY <1>1, <2>1, <2>2, <3>1, HandledStuck
  <2>3. CASE e.down = FALSE
    <3>1. shift' = {}
      BY <1>5, <2>1, <2>3 DEF Spoilt
    <3>2. QED
      BY <1>1, <2>1, <2>3, <3>1, HandledStuck
  <2>4. QED
    BY <1>1, <2>2, <2>3
<1>6. QED
  BY <1>1, <1>2, <1>3, <1>4, <1>5

LEMMA NextStuck ==
  ASSUME Decoding, StillDown, Unstuck, [Next]_vars
  PROVE  StillDown' /\ Unstuck'
<1>1. CASE Next
  <2>1. ASSUME NEW k \in Keys, Press(k) \/ Repeat(k) \/ Release(k)
        PROVE  StillDown' /\ Unstuck'
    BY <2>1, TypingStuck
  <2>2. CASE DelayFindsNothing
    BY <2>2 DEF DelayFindsNothing, StillDown, Unstuck, Released
  <2>3. CASE DelayTakesByte
    <3>1. /\ queue # <<>> /\ shift' = {} /\ held' = held
          /\ queue' = queue \/ queue' = Tail(queue)
      BY <2>3, DelayStep DEF Decoding, Booting
    <3>2. CASE queue' = queue
      BY <3>1, <3>2 DEF StillDown, Unstuck, Released
    <3>3. CASE queue' = Tail(queue)
      <4>1. Head(queue).key \in Keys /\ Head(queue).down \in BOOLEAN
        <5>1. Head(queue) \in KeyEvent
          BY <3>1, HeadTailProperties DEF Decoding, Typed
        <5>2. QED
          BY <5>1 DEF KeyEvent
      <4>2. QED
        BY <3>1, <3>3, <4>1, HandledStuck
    <3>4. QED
      BY <3>1, <3>2, <3>3
  <2>4. CASE ByteRead
    BY <2>4, ByteStuck
  <2>5. QED
    BY <1>1, <2>1, <2>2, <2>3, <2>4 DEF Next, ByteRead
<1>2. CASE UNCHANGED vars
  BY <1>2 DEF vars, StillDown, Unstuck, Released
<1>3. QED
  BY <1>1, <1>2

(* A modifier is in force only while a key of it is down or its going up   *)
(* is yet to be read: the inductive invariant adds where the decoder is    *)
(* and that presses still queued are of keys held or released behind them. *)
THEOREM ModifiersNeverStick == Spec => []NoStuckModifier
<1>1. Init => StillDown /\ Unstuck
  <2> SUFFICES ASSUME Init PROVE StillDown /\ Unstuck
    OBVIOUS
  <2>1. Len(queue) = 0 /\ shift = {}
    BY EmptySeq DEF Init
  <2>2. QED
    BY <2>1 DEF StillDown, Unstuck
<1>2. Decoding /\ (StillDown /\ Unstuck) /\ [Next]_vars => (StillDown /\ Unstuck)'
  BY NextStuck
<1>3. Decoding /\ Unstuck => NoStuckModifier
  <2> SUFFICES ASSUME Decoding, Unstuck, NEW f \in shift \cap Modifiers,
                      held \cap KeysOf[f] = {}
               PROVE  \E i \in 1 .. Len(queue) : queue[i].key \in KeysOf[f] /\ ~ queue[i].down
    BY DEF NoStuckModifier, Modifiers
  <2>1. PICK i \in 1 .. Len(queue) : queue[i].key \in KeysOf[f] /\ queue[i].down = FALSE
    BY DEF Unstuck, Released
  <2>2. QED
    BY <2>1
<1>4. QED
  BY <1>1, <1>2, <1>3, DecoderInStep, PTL DEF Spec

-----------------------------------------------------------------------------
(* What HomeIsDecoded asks never happens: the last byte of a Home event    *)
(* that is not spoilt at boot does nothing, with any modifiers (kbd.h:72   *)
(* has KEY_HOME at the index no code of Home leads to).                    *)
HomeDoesNothing ==
  [][ ByteRead /\ LastByte /\ boot = "over" /\ Head(queue).key = "Home"
        => effect' = Nothing ]_vars

THEOREM HomeIsNotDecoded == Spec => HomeDoesNothing
<1>1. ASSUME Decoding, ByteRead, LastByte, boot = "over", Head(queue).key = "Home"
      PROVE  effect' = Nothing
  <2>1. HandledDown(Head(queue)) \/ HandledUp(Head(queue))
    BY <1>1, ByteStep
  <2>2. QED
    BY <1>1, <2>1 DEF HandledDown, HandledUp
<1>2. Decoding => [ ByteRead /\ LastByte /\ boot = "over" /\ Head(queue).key = "Home"
                      => effect' = Nothing ]_vars
  BY <1>1
<1>3. QED
  BY <1>2, DecoderInStep, PTL DEF Spec, HomeDoesNothing
=============================================================================

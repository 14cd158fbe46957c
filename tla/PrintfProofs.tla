---------------------------- MODULE PrintfProofs ----------------------------
(***************************************************************************)
(* printf_: the conversion of integers never leaves its buffer, whatever   *)
(* the calls, the flags, the widths, the widths of the types and the size; *)
(* and what _vsnprintf leaves in a buffer, tells of it and sends to a      *)
(* device, whatever the text, the count, the room and the size of a size_t;*)
(* what its scanner finds in a format is what was written; and what is     *)
(* printed of a call is what C prints, for the directives AsC describes.   *)
(***************************************************************************)
EXTENDS Printf, Output, Scanner, SequenceTheorems, FiniteSetTheorems,
        WellFoundedInduction, TLAPS

-----------------------------------------------------------------------------
(* The buffer of a conversion (Printf).                                    *)

(* A sequence, whatever its characters, that fits in the buffer.           *)
Holds(b) == (\E S : b \in Seq(S)) /\ Len(b) <= BufferSize

LEMMA EmptyHolds == Holds(<<>>)
<1>1. <<>> \in Seq({}) /\ Len(<<>>) = 0
  BY EmptySeq
<1>2. QED
  BY <1>1, BufferAssumption DEF Holds

(* One more character needs room for one.                                  *)
LEMMA AppendHolds ==
  ASSUME NEW b, NEW c, Holds(b), Room(b)
  PROVE  Holds(Append(b, c)) /\ Len(Append(b, c)) = Len(b) + 1
<1>1. PICK S : b \in Seq(S)
  BY DEF Holds
<1> DEFINE T == S \cup {c}
<1>2. b \in Seq(T)
  <2>1. Len(b) \in Nat /\ b \in [1 .. Len(b) -> S]
    BY <1>1, LenProperties
  <2>2. b \in [1 .. Len(b) -> T]
    BY <2>1
  <2>3. QED
    BY <2>1, <2>2, SeqDef
<1>3. c \in T
  OBVIOUS
<1> HIDE DEF T
<1>4. Append(b, c) \in Seq(T) /\ Len(Append(b, c)) = Len(b) + 1 /\ Len(b) \in Nat
  BY <1>2, <1>3, AppendProperties, LenProperties
<1>5. QED
  BY <1>4, BufferAssumption DEF Holds, Room

(* Cutting characters off the end keeps the rest.                          *)
LEMMA CutHolds ==
  ASSUME NEW b, Holds(b), NEW n \in Nat, n <= Len(b)
  PROVE  Holds(SubSeq(b, 1, Len(b) - n))
<1>1. PICK S : b \in Seq(S)
  BY DEF Holds
<1>2. Len(b) \in Nat
  BY <1>1, LenProperties
<1> DEFINE m == Len(b) - n
<1>3. m \in 0 .. Len(b)
  BY <1>2
<1> HIDE DEF m
<1>4. SubSeq(b, 1, m) \in Seq(S) /\ Len(SubSeq(b, 1, m)) = IF 1 <= m THEN m ELSE 0
  <2>1. \A i \in 1 .. m : b[i] \in S
    BY <1>1, <1>2, <1>3, ElementOfSeq
  <2>2. SubSeq(b, 1, m) \in Seq(S) /\ Len(SubSeq(b, 1, m)) = IF 1 <= m THEN m - 1 + 1 ELSE 0
    BY <1>1, <1>2, <1>3, <2>1, SubSeqProperties
  <2>3. QED
    BY <2>2, <1>3
<1>5. Len(SubSeq(b, 1, m)) <= BufferSize
  BY <1>2, <1>3, <1>4, BufferAssumption DEF Holds
<1>6. Holds(SubSeq(b, 1, m))
  BY <1>4, <1>5 DEF Holds
<1>7. QED
  BY <1>6 DEF m

LEMMA HashHolds ==
  ASSUME NEW b, Holds(b)
  PROVE  Holds(WithHash(b))
<1> DEFINE eats == /\ "PRECISION" \notin number.flags /\ b # <<>>
                   /\ Len(b) = number.prec \/ Len(b) = number.width
           cut  == IF ~ eats THEN 0
                   ELSE IF number.base = 16 /\ Len(b) > 1 THEN 2 ELSE 1
           kept == SubSeq(b, 1, Len(b) - cut)
           mark == IF number.base \in DOMAIN Letter /\ Room(kept)
                     THEN Append(kept, Letter[number.base]) ELSE kept
<1>1. Len(b) \in Nat /\ (b # <<>> => Len(b) # 0)
  BY LenProperties, EmptySeq DEF Holds
<1>2. cut \in Nat /\ cut <= Len(b)
  <2>1. eats => Len(b) >= 1
    BY <1>1
  <2> HIDE DEF eats
  <2>2. QED
    BY <1>1, <2>1
<1>3. Holds(kept)
  <2> HIDE DEF cut
  <2>1. QED
    BY <1>2, CutHolds
<1> HIDE DEF kept
<1>4. Holds(mark)
  BY <1>3, AppendHolds
<1> HIDE DEF mark
<1>5. WithHash(b) = IF "HASH" \notin number.flags THEN b
                    ELSE IF Room(mark) THEN Append(mark, "0") ELSE mark
  BY DEF WithHash, mark, kept
<1>6. QED
  BY <1>4, <1>5, AppendHolds

LEMMA SignHolds ==
  ASSUME NEW b, Holds(b)
  PROVE  Holds(WithSign(b))
<1>1. Room(b) => \A c : Holds(Append(b, c))
  BY AppendHolds
<1>2. QED
  BY <1>1 DEF WithSign

(* A digit is written only when there is room for it: with that, what the  *)
(* buffer holds is inductive.                                              *)
IInv == Holds(buf) /\ (stage = "digits" => Room(buf))

(* _ntoa_long, _ntoa_format and what they call write only the first        *)
(* PRINTF_NTOA_BUFFER_SIZE characters of buf.                              *)
THEOREM BufferIsEnough == Spec => []BufferHolds
<1>1. Init => IInv
  BY EmptyHolds DEF Init, IInv
<1>2. IInv /\ [Next]_vars => IInv'
  <2> SUFFICES ASSUME IInv, [Next]_vars PROVE IInv'
    OBVIOUS
  <2> SUFFICES Holds(buf') /\ (stage' = "digits" => Room(buf'))
    BY DEF IInv, Holds, Room
  <2>1. CASE Text \/ PrintText \/ SkipLongLong \/ out_rev \/ UNCHANGED vars
    BY <2>1 DEF IInv, Text, PrintText, SkipLongLong, out_rev, vars, More
  <2>2. CASE StartNumber
    <3>1. buf' = <<>> /\ Holds(<<>>)
      BY <2>2, EmptyHolds DEF StartNumber
    <3>2. Room(<<>>)
      BY BufferAssumption, EmptySeq DEF Room
    <3>3. QED
      BY <3>1, <3>2
  <2>3. CASE Digit
    <3> DEFINE c == Numeral(number.rest % number.base, "UPPERCASE" \in number.flags)
               more == number.rest \div number.base # 0 /\ Len(buf) + 1 < BufferSize
    <3>1. Holds(buf) /\ Room(buf)
      BY <2>3 DEF Digit, IInv
    <3>2. buf' = Append(buf, c) /\ stage' = IF more THEN "digits" ELSE "zeros"
      BY <2>3 DEF Digit
    <3> HIDE DEF c
    <3>3. Holds(buf') /\ Len(buf') = Len(buf) + 1
      BY <3>1, <3>2, AppendHolds
    <3>4. more => Room(buf')
      BY <3>3 DEF Room
    <3> HIDE DEF more
    <3>5. QED
      BY <3>2, <3>3, <3>4
  <2>4. CASE PadZero
    <3>1. Holds(buf) /\ Room(buf) /\ buf' = Append(buf, "0") /\ stage' = "zeros"
      BY <2>4 DEF PadZero, WantsZero, IInv, Room
    <3>2. QED
      BY <3>1, AppendHolds
  <2>5. CASE Prefix
    <3>1. Holds(WithSign(WithHash(buf)))
      BY HashHolds, SignHolds DEF IInv
    <3>2. QED
      BY <2>5, <3>1 DEF Prefix
  <2>6. QED
    BY <2>1, <2>2, <2>3, <2>4, <2>5 DEF Next
<1>3. IInv => BufferHolds
  BY DEF IInv, Holds, Room, BufferHolds
<1>4. QED
  BY <1>1, <1>2, <1>3, PTL DEF Spec

-----------------------------------------------------------------------------
(* The caller's buffer and the device (Output).                            *)
Given ==
  /\ request.maxlen \in Nat /\ request.maxlen <= SizeMax
  /\ request.text \in Seq(Char)
  /\ request.maxlen <= Space \/ request.maxlen = SizeMax
  /\ request.out = "buffer" /\ request.maxlen = SizeMax => Len(request.text) < Space

Reached == idx \in 0 .. Len(request.text) /\ over \in BOOLEAN /\ (over => idx = Len(request.text))

(* Every byte of the buffer, during the call and after.                       *)
Byte(i) ==
  IF request.out # "buffer" THEN Old
  ELSE IF over /\ request.maxlen > 0 /\ i = Cut THEN NUL
  ELSE IF i < idx /\ i < request.maxlen THEN request.text[i + 1] ELSE Old

Bytes == buffer = [i \in 0 .. Space - 1 |-> Byte(i)]

Inv == Given /\ Reached /\ Bytes

-----------------------------------------------------------------------------
LEMMA InitInv == OutInit => Inv
<1> SUFFICES ASSUME OutInit PROVE Inv OBVIOUS
<1> USE OutputAssumption
<1>1. PICK to \in snprintf \cup sprintf \cup printf \cup fctprintf, text \in Texts :
        /\ to \in sprintf => Len(text) < Space
        /\ request = [out |-> to[1], maxlen |-> to[2], text |-> text]
  BY DEF OutInit
<1>2. request.out = to[1] /\ request.maxlen = to[2] /\ request.text = text BY <1>1
<1>3. text \in Seq(Char) /\ Len(text) \in Nat BY LenProperties
<1>4. \/ to[2] \in Counts
      \/ to[2] = SizeMax /\ (to[1] = "buffer" => to \in sprintf)
  BY DEF snprintf, sprintf, printf, fctprintf
<1>5. Given
  <2>1. CASE to[2] \in Counts
    <3>1. request.maxlen \in 0 .. Space BY <1>2, <2>1
    <3>2. request.maxlen # SizeMax /\ request.text \in Seq(Char) BY <1>2, <1>3, <3>1
    <3> QED BY <3>1, <3>2 DEF Given
  <2>2. CASE to[2] = SizeMax /\ (to[1] = "buffer" => to \in sprintf)
    BY <1>1, <1>2, <1>3, <2>2 DEF Given
  <2> QED BY <1>4, <2>1, <2>2
<1>6. Reached
  <2>1. idx = 0 /\ over = FALSE /\ Len(request.text) \in Nat BY <1>2, <1>3 DEF OutInit
  <2>2. idx \in 0 .. Len(request.text) BY <2>1
  <2> QED BY <2>1, <2>2, Zenon DEF Reached
<1>7. Bytes BY DEF Bytes, Byte, OutInit
<1> QED BY <1>5, <1>6, <1>7 DEF Inv

(* A character goes into the byte it is the character of, or nowhere.      *)
LEMMA CharacterInv == Inv /\ Character => Inv'
<1> SUFFICES ASSUME Inv, Character PROVE Inv' OBVIOUS
<1> USE OutputAssumption
<1>1. request' = request /\ over' = FALSE /\ over = FALSE /\ idx' = idx + 1 /\ idx \in Nat
  BY DEF Character, Inv, Reached
<1>2. Len(request.text) \in Nat BY LenProperties DEF Inv, Given
<1>3. Given' /\ Reached' BY <1>1, <1>2 DEF Inv, Given, Reached, Character
<1>4. CASE request.out = "buffer"
  <2>1. buffer' = IF idx < request.maxlen THEN [buffer EXCEPT ![idx] = request.text[idx + 1]] ELSE buffer
    BY <1>4 DEF Character, put, out_buffer, Below
  <2>2. buffer = [i \in 0 .. Space - 1 |->
                   IF i < idx /\ i < request.maxlen THEN request.text[i + 1] ELSE Old]
    BY <1>1, <1>4 DEF Inv, Bytes, Byte
  <2>3. buffer' = [i \in 0 .. Space - 1 |->
                    IF i < idx + 1 /\ i < request.maxlen THEN request.text[i + 1] ELSE Old]
    <3>1. request.maxlen \in Nat BY DEF Inv, Given
    <3>2. ASSUME NEW i \in 0 .. Space - 1
          PROVE  buffer'[i] = IF i < idx + 1 /\ i < request.maxlen THEN request.text[i + 1] ELSE Old
      <4>1. CASE i = idx BY <1>1, <2>1, <2>2, <3>1, <4>1
      <4>2. CASE i # idx
        <5>1. i < idx + 1 <=> i < idx BY <1>1, <4>2
        <5> QED BY <2>1, <2>2, <4>2, <5>1
      <4> QED BY <4>1, <4>2
    <3> QED BY <2>1, <2>2, <3>2
  <2> QED BY <1>1, <1>3, <1>4, <2>3 DEF Inv, Bytes, Byte
<1>5. CASE request.out # "buffer"
  <2>1. buffer' = buffer BY <1>5 DEF Character, put, out_null, out_char
  <2> QED BY <1>1, <1>3, <1>5, <2>1 DEF Inv, Bytes, Byte
<1> QED BY <1>4, <1>5

(* The 0 goes to the first byte after what is kept of the text.            *)
LEMMA TerminateInv == Inv /\ Terminate => Inv'
<1> SUFFICES ASSUME Inv, Terminate PROVE Inv' OBVIOUS
<1> USE OutputAssumption
<1>1. request' = request /\ over' = TRUE /\ over = FALSE /\ idx' = idx /\ idx \in Nat
  BY LenProperties DEF Terminate, Inv, Reached, Given
<1>2. Given' /\ Reached' BY <1>1 DEF Inv, Given, Reached, Terminate
<1>3. CASE request.out = "buffer"
  <2>1. buffer' = IF LastPlace < request.maxlen THEN [buffer EXCEPT ![LastPlace] = NUL] ELSE buffer
    BY <1>3 DEF Terminate, put, out_buffer, Below
  <2>2. buffer = [i \in 0 .. Space - 1 |->
                   IF i < idx /\ i < request.maxlen THEN request.text[i + 1] ELSE Old]
    BY <1>1, <1>3 DEF Inv, Bytes, Byte
  <2>3. request.maxlen \in Nat /\ request.maxlen <= SizeMax BY DEF Inv, Given
  <2>4. CASE request.maxlen = 0
    BY <1>1, <1>2, <1>3, <2>1, <2>2, <2>3, <2>4 DEF Inv, LastPlace, Bytes, Byte
  <2>5. CASE request.maxlen > 0
    <3>1. LastPlace = Cut /\ Cut < request.maxlen /\ Cut \in Nat BY <1>1, <2>3, <2>5 DEF LastPlace, Cut
    <3>2. buffer' = [i \in 0 .. Space - 1 |->
                      IF i = Cut THEN NUL
                      ELSE IF i < idx /\ i < request.maxlen THEN request.text[i + 1] ELSE Old]
      BY <2>1, <2>2, <3>1
    <3> QED BY <1>1, <1>2, <1>3, <2>5, <3>2 DEF Inv, Bytes, Byte, Cut
  <2> QED BY <2>3, <2>4, <2>5
<1>4. CASE request.out # "buffer"
  <2>1. buffer' = buffer BY <1>4 DEF Terminate, put, out_null, out_char
  <2> QED BY <1>1, <1>2, <1>4, <2>1 DEF Inv, Bytes, Byte
<1> QED BY <1>3, <1>4

LEMMA StepInv == Inv /\ [OutNext]_outvars => Inv'
<1>1. ASSUME Inv, UNCHANGED outvars PROVE Inv'
  BY <1>1 DEF outvars, Inv, Given, Reached, Bytes, Byte, Cut
<1> QED BY CharacterInv, TerminateInv, <1>1 DEF OutNext

-----------------------------------------------------------------------------
(* What the invariant says of the byte that ends a text.                   *)
LEMMA CutInside ==
  ASSUME Inv, request.out = "buffer", over, request.maxlen > 0
  PROVE  Cut \in 0 .. Space - 1 /\ Cut < request.maxlen /\ Cut <= idx /\ Cut = IF idx < request.maxlen THEN idx ELSE request.maxlen - 1
<1>1. request.maxlen \in Nat /\ idx \in Nat /\ idx = Len(request.text)
  BY LenProperties DEF Inv, Given, Reached
<1> QED BY <1>1, OutputAssumption DEF Inv, Given, Cut

LEMMA InvKeepsCount == Inv => BufferKeepsCount
<1> SUFFICES ASSUME Inv PROVE BufferKeepsCount OBVIOUS
<1> USE OutputAssumption
<1>1. request.maxlen \in Nat /\ idx \in Nat /\ DOMAIN buffer = 0 .. Space - 1
  BY LenProperties DEF Inv, Given, Reached, Bytes
<1>2. ASSUME NEW i \in DOMAIN buffer, i >= request.maxlen \/ i > idx \/ request.out # "buffer"
      PROVE  buffer[i] = Old
  <2>1. buffer[i] = Byte(i) BY <1>1 DEF Inv, Bytes
  <2>2. CASE request.out # "buffer" BY <2>1, <2>2 DEF Byte
  <2>3. CASE request.out = "buffer"
    <3>1. ~ (i < idx /\ i < request.maxlen) BY <1>1, <1>2, <2>3
    <3>2. ~ (over /\ request.maxlen > 0 /\ i = Cut) BY <1>1, <1>2, <2>3, CutInside
    <3> QED BY <2>1, <2>3, <3>1, <3>2 DEF Byte
  <2> QED BY <2>2, <2>3
<1>3. ASSUME over, request.out = "buffer", request.maxlen > 0
      PROVE  /\ Cut < request.maxlen
             /\ \A i \in 0 .. Cut - 1 : buffer[i] = request.text[i + 1]
             /\ buffer[Cut] = NUL
  <2>1. Cut \in 0 .. Space - 1 /\ Cut < request.maxlen /\ Cut <= idx BY <1>3, CutInside
  <2>2. buffer[Cut] = NUL BY <1>3, <2>1 DEF Inv, Bytes, Byte
  <2>3. ASSUME NEW i \in 0 .. Cut - 1 PROVE buffer[i] = request.text[i + 1]
    <3>1. i \in 0 .. Space - 1 /\ i # Cut /\ i < idx /\ i < request.maxlen BY <1>1, <2>1
    <3> QED BY <1>3, <3>1 DEF Inv, Bytes, Byte
  <2> QED BY <2>1, <2>2, <2>3
<1> QED BY <1>2, <1>3 DEF BufferKeepsCount

LEMMA InvTellsCut == Inv => ReturnTellsCut
<1> SUFFICES ASSUME Inv, over, request.out = "buffer"
             PROVE  idx < request.maxlen <=>
                      /\ Len(request.text) < Space /\ buffer[Len(request.text)] = NUL
                      /\ \A i \in 1 .. Len(request.text) : buffer[i - 1] = request.text[i]
  BY DEF ReturnTellsCut
<1> USE OutputAssumption
<1>1. request.maxlen \in Nat /\ idx \in Nat /\ idx = Len(request.text)
  BY LenProperties DEF Inv, Given, Reached
<1>2. ASSUME idx < request.maxlen
      PROVE  /\ Len(request.text) < Space /\ buffer[Len(request.text)] = NUL
             /\ \A i \in 1 .. Len(request.text) : buffer[i - 1] = request.text[i]
  <2>1. Cut = idx /\ Cut \in 0 .. Space - 1 /\ request.maxlen > 0 BY <1>1, <1>2, CutInside
  <2>2. buffer[Cut] = NUL /\ \A i \in 0 .. Cut - 1 : buffer[i] = request.text[i + 1]
    BY <2>1, InvKeepsCount DEF BufferKeepsCount
  <2>3. ASSUME NEW i \in 1 .. Len(request.text) PROVE buffer[i - 1] = request.text[i]
    <3>1. i - 1 \in 0 .. Cut - 1 /\ (i - 1) + 1 = i BY <1>1, <2>1
    <3> QED BY <2>2, <3>1
  <2> QED BY <1>1, <2>1, <2>2, <2>3
<1>3. ASSUME idx >= request.maxlen, Len(request.text) < Space PROVE buffer[Len(request.text)] # NUL
  <2>1. buffer[idx] = Old BY <1>1, <1>3, InvKeepsCount DEF BufferKeepsCount, Inv, Bytes
  <2> QED BY <1>1, <2>1
<1> QED BY <1>1, <1>2, <1>3

(* snprintf_ and its kin never write a byte from the count on, and end     *)
(* what they keep of the text with a 0 (printf.c:133-138 and 853).         *)
THEOREM BufferAlwaysKept == OutSpec => []BufferKeepsCount
BY InitInv, StepInv, InvKeepsCount, PTL DEF OutSpec

(* The number they return is less than the count exactly if the whole text *)
(* is there (printf.h:81-83).                                              *)
THEOREM ReturnAlwaysTells == OutSpec => []ReturnTellsCut
BY InitInv, StepInv, InvTellsCut, PTL DEF OutSpec

-----------------------------------------------------------------------------
(* The device.  How many characters are passed on of the first n. *)
LEMMA PassingSize ==
  ASSUME NEW n \in Nat
  PROVE  /\ IsFiniteSet(Passing(n)) /\ Cardinality(Passing(n)) \in Nat
         /\ n + 1 \in Passing(n + 1) =>
              Cardinality(Passing(n + 1)) = Cardinality(Passing(n)) + 1
         /\ n + 1 \notin Passing(n + 1) => Passing(n + 1) = Passing(n)
<1>1. IsFiniteSet(1 .. n)
  BY FS_Interval
<1>2. IsFiniteSet(Passing(n)) /\ Cardinality(Passing(n)) \in Nat
  BY <1>1, FS_Subset, FS_CardinalityType DEF Passing
<1>3. n + 1 \notin Passing(n)
  BY DEF Passing
<1>4. ASSUME n + 1 \in Passing(n + 1)
      PROVE  Cardinality(Passing(n + 1)) = Cardinality(Passing(n)) + 1
  <2>1. Passing(n + 1) = Passing(n) \cup {n + 1}
    BY <1>4 DEF Passing
  <2>2. QED
    BY <1>2, <1>3, <2>1, FS_AddElement
<1>5. n + 1 \notin Passing(n + 1) => Passing(n + 1) = Passing(n)
  BY DEF Passing
<1>6. QED
  BY <1>2, <1>4, <1>5

LEMMA PassingGrows ==
  ASSUME NEW n \in Nat, NEW i \in Passing(n)
  PROVE  Cardinality(Passing(i)) \in 1 .. Cardinality(Passing(n))
<1>1. i \in Nat \ {0} /\ i <= n
  BY DEF Passing
<1>2. Passing(i) \subseteq Passing(n) /\ i \in Passing(i)
  BY <1>1 DEF Passing
<1>3. Cardinality(Passing(i)) <= Cardinality(Passing(n))
  BY <1>2, PassingSize, FS_Subset
<1>4. Cardinality(Passing(i)) # 0
  BY <1>1, <1>2, PassingSize, FS_EmptySet
<1>5. QED
  BY <1>1, <1>3, <1>4, PassingSize

ToDevice == request.out \in {"char", "fct"}

Sent ==
  /\ request.out \in {"buffer", "null", "char", "fct"}
  /\ sent \in Seq(Char) /\ DeviceGetsText

LEMMA CharacterSent == Inv /\ Sent /\ Character => Sent'
<1> SUFFICES ASSUME Inv, Sent, Character PROVE Sent'
  OBVIOUS
<1> DEFINE c == request.text[idx + 1]
           n == Cardinality(Passing(idx))
<1>1. request' = request /\ idx' = idx + 1 /\ idx \in Nat /\ idx + 1 \in 1 .. Len(request.text)
  BY LenProperties DEF Character, Inv, Given, Reached
<1>2. c \in Char
  BY <1>1, ElementOfSeq DEF Inv, Given
<1>3. CASE ~ ToDevice
  <2>1. sent' = sent
    BY <1>3 DEF Character, put, out_buffer, out_null, ToDevice, Sent
  <2>2. QED
    BY <1>1, <1>3, <2>1 DEF Sent, DeviceGetsText, ToDevice
<1>4. CASE ToDevice
  <2>1. sent' = sent \o (IF c = NUL THEN <<>> ELSE <<c>>)
    BY <1>4 DEF Character, put, out_char, Passed, ToDevice
  <2>2. /\ Passing(idx)' = Passing(idx + 1)
        /\ \A i : Passing(i)' = Passing(i)
    BY <1>1 DEF Passing
  <2>3. CASE c = NUL
    <3>1. sent' = sent
      BY <2>1, <2>3, ConcatEmptySeq DEF Sent
    <3>2. Passing(idx + 1) = Passing(idx)
      BY <1>1, <2>3, PassingSize DEF Passing
    <3>3. QED
      BY <1>1, <1>4, <2>2, <3>1, <3>2 DEF Sent, DeviceGetsText, ToDevice
  <2>4. CASE c # NUL
    <3>1. /\ sent' \in Seq(Char) /\ Len(sent') = Len(sent) + 1 /\ sent'[Len(sent) + 1] = c
          /\ \A i \in 1 .. Len(sent) : sent'[i] = sent[i]
      <4>1. sent' = Append(sent, c)
        BY <1>2, <2>1, <2>4, AppendIsConcat DEF Sent
      <4>2. QED
        BY <1>2, <4>1, AppendProperties DEF Sent
    <3>2. /\ n \in Nat /\ Cardinality(Passing(idx + 1)) = n + 1 /\ Len(sent) = n
      <4>1. idx + 1 \in Passing(idx + 1)
        BY <1>1, <2>4 DEF Passing
      <4>2. Len(sent) = n
        BY <1>4 DEF Sent, DeviceGetsText, ToDevice
      <4>3. QED
        BY <1>1, <4>1, <4>2, PassingSize
    <3>3. ASSUME NEW i \in Passing(idx + 1)
          PROVE  sent'[Cardinality(Passing(i))] = request.text[i]
      <4>1. CASE i = idx + 1
        BY <3>1, <3>2, <4>1
      <4>2. CASE i # idx + 1
        <5>1. i \in Passing(idx)
          BY <1>1, <4>2 DEF Passing
        <5>2. Cardinality(Passing(i)) \in 1 .. n
          BY <1>1, <5>1, PassingGrows
        <5>3. sent[Cardinality(Passing(i))] = request.text[i]
          BY <1>4, <5>1 DEF Sent, DeviceGetsText, ToDevice
        <5>4. QED
          BY <3>1, <3>2, <5>2, <5>3
      <4>3. QED
        BY <4>1, <4>2
    <3>4. QED
      BY <1>1, <1>4, <2>2, <3>1, <3>2, <3>3 DEF Sent, DeviceGetsText, ToDevice
  <2>5. QED
    BY <2>3, <2>4
<1>5. QED
  BY <1>3, <1>4

LEMMA TerminateSent == Inv /\ Sent /\ Terminate => Sent'
<1> SUFFICES ASSUME Inv, Sent, Terminate PROVE Sent'
  OBVIOUS
<1>1. request' = request /\ idx' = idx
  BY DEF Terminate
<1>2. sent' = sent
  <2>1. sent' = sent \/ sent' = sent \o <<>>
    BY DEF Terminate, put, out_buffer, out_null, out_char, Passed
  <2>2. QED
    BY <2>1, ConcatEmptySeq DEF Sent
<1>3. QED
  BY <1>1, <1>2 DEF Sent, DeviceGetsText, Passing

(* What printf_ and fctprintf hand on is the text, in order, without its   *)
(* zeros; the other functions hand on nothing.                             *)
THEOREM DeviceAlwaysGetsText == OutSpec => []DeviceGetsText
<1>1. OutInit => Inv /\ Sent
  <2> SUFFICES ASSUME OutInit PROVE Sent
    BY InitInv
  <2>1. sent = <<>> /\ sent \in Seq(Char) /\ Len(sent) = 0 /\ idx = 0
    BY EmptySeq DEF OutInit
  <2>2. request.out \in {"buffer", "null", "char", "fct"}
    BY DEF OutInit, snprintf, sprintf, printf, fctprintf
  <2>3. Passing(0) = {} /\ Cardinality(Passing(0)) = 0
    <3>1. Passing(0) = {}
      BY DEF Passing
    <3>2. QED
      BY <3>1, FS_EmptySet
  <2>4. QED
    BY <2>1, <2>2, <2>3 DEF Sent, DeviceGetsText
<1>2. (Inv /\ Sent) /\ [OutNext]_outvars => (Inv /\ Sent)'
  <2>1. Sent /\ UNCHANGED outvars => Sent'
    BY DEF outvars, Sent, DeviceGetsText, Passing
  <2>2. QED
    BY <2>1, StepInv, CharacterSent, TerminateSent DEF OutNext
<1>3. Inv /\ Sent => DeviceGetsText
  BY DEF Sent
<1>4. QED
  BY <1>1, <1>2, <1>3, PTL DEF OutSpec

-----------------------------------------------------------------------------
(* Induction, and the function that a step defines from a first value.     *)

(* Every set of numbers that is not empty has a least one.                 *)
LEMMA LeastOf ==
  ASSUME NEW T, T \subseteq Nat, T # {}
  PROVE  \E x \in T : \A y \in T : x <= y
<1> DEFINE Seg(n) == 1 .. n
           Segs   == {Seg(n) : n \in T}
           R      == StrictSubsetOrdering(Nat)
<1>1. Segs \subseteq FiniteSubsetsOf(Nat)
  BY FS_Interval DEF FiniteSubsetsOf
<1>2. Segs # {}
  OBVIOUS
<1>3. \E X \in Segs : \A Y \in Segs : ~ (<<Y, X>> \in R)
  <2> HIDE DEF Segs, R
  <2> QED BY <1>1, <1>2, WFMin, FS_StrictSubsetOrderingWellFounded DEF R
<1>4. PICK x \in T : \A Y \in Segs : ~ (<<Y, Seg(x)>> \in R)
  BY <1>3
<1>5. ASSUME NEW y \in T, y < x PROVE FALSE
  <2>1. Seg(y) \in SUBSET Nat /\ Seg(x) \in SUBSET Nat /\ Seg(y) \subseteq Seg(x)
    BY <1>5
  <2>2. x \in Seg(x) /\ x \notin Seg(y)
    BY <1>5
  <2>3. <<Seg(y), Seg(x)>> \in R
    BY <2>1, <2>2 DEF StrictSubsetOrdering
  <2> QED BY <2>3, <1>4
<1> QED BY <1>5

(* A set that holds 0 and each number after one it holds, of those that    *)
(* matter.                                                                 *)
LEMMA Upwards ==
  ASSUME NEW D, D \subseteq Nat, NEW G,
         \A k \in D : k = 0 \/ (k - 1 \in D /\ (k - 1 \in G => k \in G)),
         0 \in D => 0 \in G
  PROVE  D \subseteq G
<1> SUFFICES ASSUME D \ G # {} PROVE FALSE
  OBVIOUS
<1> DEFINE T == D \ G
<1>1. T \subseteq Nat /\ T # {}
  OBVIOUS
<1>2. PICK x \in T : \A y \in T : x <= y
  <2> HIDE DEF T
  <2>1. QED
    BY <1>1, LeastOf
<1>3. x \in Nat /\ x \in D /\ x \notin G
  OBVIOUS
<1>4. x # 0
  BY <1>3
<1>5. x - 1 \in D /\ x - 1 \notin G
  BY <1>3, <1>4
<1>6. x <= x - 1
  BY <1>2, <1>5
<1>7. QED
  BY <1>3, <1>6

(* The same, up to n.                                                      *)
LEMMA UpTo ==
  ASSUME NEW n \in Nat, NEW G, 0 \in G, \A k \in 0 .. n - 1 : k \in G => k + 1 \in G
  PROVE  \A k \in 0 .. n : k \in G
<1> DEFINE D == 0 .. n
<1>1. ASSUME NEW k \in D, k # 0 PROVE k - 1 \in D /\ (k - 1 \in G => k \in G)
  <2>1. PICK j : j = k - 1
    OBVIOUS
  <2>2. j \in 0 .. n - 1 /\ k = j + 1
    BY <1>1, <2>1
  <2>3. QED
    BY <2>1, <2>2
<1>2. D \subseteq Nat
  OBVIOUS
<1>3. D \subseteq G
  <2> HIDE DEF D
  <2>1. QED
    BY <1>1, <1>2, Upwards
<1>4. QED
  BY <1>3

(* And without an end.                                                     *)
LEMMA EveryNat ==
  ASSUME NEW G, 0 \in G, \A k \in Nat : k \in G => k + 1 \in G
  PROVE  Nat \subseteq G
<1>1. ASSUME NEW n \in Nat PROVE n \in G
  <2>1. \A k \in 0 .. n - 1 : k \in G => k + 1 \in G
    OBVIOUS
  <2>2. \A k \in 0 .. n : k \in G
    BY <2>1, UpTo
  <2>3. QED
    BY <2>2
<1>2. QED
  BY <1>1

(* Value k + 1 is what step k makes of value k, of those up to n.          *)
Steps(S, z, h, n, g) ==
  g \in [0 .. n -> S] /\ g[0] = z /\ \A k \in 0 .. n - 1 : g[k + 1] = h[k][g[k]]

(* Two runs of the same steps agree as far as both go.                     *)
LEMMA StepsUnique ==
  ASSUME NEW S, NEW z, NEW h, NEW m \in Nat, NEW n \in Nat, m <= n,
         NEW f, NEW g, Steps(S, z, h, m, f), Steps(S, z, h, n, g)
  PROVE  f[m] = g[m]
<1> DEFINE G == {k \in 0 .. m : f[k] = g[k]}
<1>1. 0 \in G
  BY DEF Steps
<1>2. ASSUME NEW k \in 0 .. m - 1, k \in G PROVE k + 1 \in G
  <2>1. k \in 0 .. n - 1 /\ f[k] = g[k] /\ k + 1 \in 0 .. m
    BY <1>2
  <2>2. f[k + 1] = h[k][f[k]] /\ g[k + 1] = h[k][g[k]]
    BY <2>1 DEF Steps
  <2>3. QED
    BY <2>1, <2>2
<1>3. \A k \in 0 .. m : k \in G
  <2> HIDE DEF G
  <2>1. QED
    BY <1>1, <1>2, UpTo
<1>4. QED
  BY <1>3

(* Steps that stay in S can be run any number of times.                    *)
LEMMA StepsExist ==
  ASSUME NEW S, NEW z \in S, NEW h, \A k \in Nat : \A v \in S : h[k][v] \in S
  PROVE  \A n \in Nat : \E g : Steps(S, z, h, n, g)
<1> DEFINE G == {n \in Nat : \E g : Steps(S, z, h, n, g)}
<1>1. 0 \in G
  <2> DEFINE g == [k \in 0 .. 0 |-> z]
  <2>1. Steps(S, z, h, 0, g)
    BY DEF Steps
  <2>2. QED
    BY <2>1
<1>2. ASSUME NEW n \in Nat, n \in G PROVE n + 1 \in G
  <2>1. PICK g : Steps(S, z, h, n, g)
    BY <1>2
  <2>2. /\ g \in [0 .. n -> S] /\ g[0] = z
        /\ \A k \in 0 .. n - 1 : g[k + 1] = h[k][g[k]]
    BY <2>1 DEF Steps
  <2>3. PICK last : last = h[n][g[n]]
    OBVIOUS
  <2>4. last \in S
    BY <2>2, <2>3
  <2>5. PICK m : m = n + 1
    OBVIOUS
  <2>6. m \in Nat /\ m - 1 = n /\ m > n
    BY <2>5
  <2> DEFINE f == [k \in 0 .. m |-> IF k = m THEN last ELSE g[k]]
  <2>7. f[m] = last /\ \A k \in 0 .. n : f[k] = g[k]
    BY <2>6
  <2>8. f \in [0 .. m -> S]
    <3>1. ASSUME NEW k \in 0 .. m, k # m PROVE g[k] \in S
      <4>1. k \in 0 .. n
        BY <2>6, <3>1
      <4>2. QED
        BY <2>2, <4>1
    <3>2. QED
      BY <2>4, <3>1
  <2> HIDE DEF f
  <2>9. f[0] = z
    BY <2>2, <2>7
  <2>10. ASSUME NEW k \in 0 .. m - 1 PROVE f[k + 1] = h[k][f[k]]
    <3>1. CASE k = n
      BY <2>3, <2>5, <2>7, <3>1
    <3>2. CASE k # n
      <4>1. k \in 0 .. n - 1 /\ k \in 0 .. n /\ k + 1 \in 0 .. n
        BY <2>6, <3>2
      <4>2. QED
        BY <2>2, <2>7, <4>1
    <3>3. QED
      BY <3>1, <3>2
  <2>11. Steps(S, z, h, m, f)
    BY <2>8, <2>9, <2>10 DEF Steps
  <2>12. QED
    BY <2>5, <2>6, <2>11
<1>3. Nat \subseteq G
  <2> HIDE DEF G
  <2>1. QED
    BY <1>1, <1>2, EveryNat
<1>4. QED
  BY <1>3

Stays(S, h) == \A k \in Nat : \A v \in S : h[k][v] \in S

Iterates(S, z, h, g) ==
  g \in [Nat -> S] /\ g[0] = z /\ \A k \in Nat : g[k + 1] = h[k][g[k]]

(* So there is a function that runs them for ever.                         *)
LEMMA Iterated ==
  ASSUME NEW S, NEW z \in S, NEW h, Stays(S, h)
  PROVE  \E g : Iterates(S, z, h, g)
<1> DEFINE part(n) == CHOOSE g : Steps(S, z, h, n, g)
           g == [n \in Nat |-> part(n)[n]]
<1>1. \A n \in Nat : Steps(S, z, h, n, part(n))
  BY StepsExist DEF Stays
<1> HIDE DEF part
<1>2. \A n \in Nat : g[n] = part(n)[n]
  OBVIOUS
<1>3. g \in [Nat -> S]
  <2>1. \A n \in Nat : part(n)[n] \in S
    BY <1>1 DEF Steps
  <2>2. QED
    BY <2>1
<1> HIDE DEF g
<1>4. g[0] = z
  BY <1>1, <1>2 DEF Steps
<1>5. ASSUME NEW k \in Nat PROVE g[k + 1] = h[k][g[k]]
  <2>1. PICK m : m = k + 1
    OBVIOUS
  <2>2. m \in Nat /\ k <= m /\ k \in 0 .. m - 1
    BY <2>1
  <2>3. Steps(S, z, h, m, part(m)) /\ Steps(S, z, h, k, part(k))
    BY <1>1, <2>2
  <2>4. part(k)[k] = part(m)[k]
    BY <2>2, <2>3, StepsUnique
  <2>5. part(m)[k + 1] = h[k][part(m)[k]]
    BY <2>2, <2>3 DEF Steps
  <2>6. g[k + 1] = part(m)[k + 1] /\ g[k] = part(k)[k]
    BY <1>2, <2>1, <2>2
  <2>7. QED
    BY <2>4, <2>5, <2>6
<1>6. QED
  BY <1>3, <1>4, <1>5 DEF Iterates

(* Powers.                                                                 *)
LEMMA PowerIs ==
  ASSUME NEW b \in Nat \ {0}
  PROVE  /\ Power(b)[0] = 1
         /\ \A n \in Nat : Power(b)[n] \in Nat \ {0} /\ Power(b)[n + 1] = b * Power(b)[n]
<1> DEFINE h == [k \in Nat |-> [v \in Nat \ {0} |-> b * v]]
           IsIt(p) == p = [n \in Nat |-> IF n = 0 THEN 1 ELSE b * p[n - 1]]
<1>1. \A k \in Nat : \A v \in Nat \ {0} : h[k][v] \in Nat \ {0} /\ h[k][v] = b * v
  <2>1. \A v \in Nat \ {0} : b * v \in Nat \ {0}
    OBVIOUS
  <2>2. QED
    BY <2>1
<1> HIDE DEF h
<1>2. PICK g : g \in [Nat -> Nat \ {0}] /\ g[0] = 1 /\ \A k \in Nat : g[k + 1] = h[k][g[k]]
  <2>1. 1 \in Nat \ {0}
    OBVIOUS
  <2>2. PICK S : S = Nat \ {0}
    OBVIOUS
  <2>3. Stays(S, h)
    BY <1>1, <2>2 DEF Stays
  <2>4. \E g : Iterates(S, 1, h, g)
    BY <2>1, <2>2, <2>3, Iterated
  <2>5. QED
    BY <2>2, <2>4 DEF Iterates
<1>3. IsIt(g)
  <2>1. ASSUME NEW n \in Nat PROVE g[n] = IF n = 0 THEN 1 ELSE b * g[n - 1]
    <3>1. CASE n = 0
      BY <1>2, <3>1
    <3>2. CASE n # 0
      <4>1. n - 1 \in Nat /\ (n - 1) + 1 = n
        BY <3>2
      <4>2. QED
        BY <1>1, <1>2, <3>2, <4>1
    <3>3. QED
      BY <3>1, <3>2
  <2>2. g = [n \in Nat |-> g[n]]
    BY <1>2
  <2>3. QED
    BY <2>1, <2>2
<1>4. IsIt(Power(b))
  <2>1. Power(b) = CHOOSE p : IsIt(p)
    BY DEF Power
  <2>2. QED
    BY <1>3, <2>1
<1>5. PICK p : p = Power(b)
  OBVIOUS
<1>6. \A n \in Nat : p[n] = IF n = 0 THEN 1 ELSE b * p[n - 1]
  BY <1>4, <1>5
<1> DEFINE G == {n \in Nat : p[n] \in Nat \ {0}}
<1>7. 0 \in G
  BY <1>6
<1>8. \A n \in Nat : p[n + 1] = b * p[n]
  BY <1>6
<1>9. \A n \in Nat : n \in G => n + 1 \in G
  BY <1>8
<1>10. Nat \subseteq G
  <2> HIDE DEF G
  <2>1. QED
    BY <1>7, <1>9, EveryNat
<1>11. QED
  BY <1>5, <1>6, <1>8, <1>10

LEMMA EmptyBefore ==
  ASSUME NEW S, NEW s \in Seq(S)
  PROVE  <<>> \o s = s
OBVIOUS

(* Pieces put together one after the other.                                *)
SeqsOf(S, N, w) == \A i \in 1 .. N : w[i] \in Seq(S)
IsFlat(N, w, F) == F = [n \in 0 .. N |-> FlattenSeq([i \in 1 .. n |-> w[i]])]
FlatParts(S, N, w, F) ==
  /\ F[0] = <<>>
  /\ \A n \in 0 .. N : F[n] \in Seq(S)
  /\ \A n \in 0 .. N - 1 : F[n + 1] = F[n] \o w[n + 1]

(* What FlattenSeq puts together, one piece at a time.                     *)
LEMMA FlattenIs ==
  ASSUME NEW S, NEW N \in Nat, NEW w, SeqsOf(S, N, w), NEW F, IsFlat(N, w, F)
  PROVE  FlatParts(S, N, w, F)
<1> USE DEF SeqsOf, IsFlat
<1> DEFINE Q == Seq(S)
           h == [k \in Nat |-> [v \in Q |-> IF k < N THEN v \o w[k + 1] ELSE v]]
<1>1. \A k \in Nat : \A v \in Q : h[k][v] \in Q /\ (k < N => h[k][v] = v \o w[k + 1])
  <2>1. ASSUME NEW k \in Nat, NEW v \in Seq(S), k < N PROVE v \o w[k + 1] \in Seq(S)
    <3>1. w[k + 1] \in Seq(S)
      BY <2>1
    <3>2. QED
      BY <3>1
  <2>2. QED
    BY <2>1
<1>2. <<>> \in Q
  OBVIOUS
<1> HIDE DEF Q, h
<1>3. PICK g : g \in [Nat -> Q] /\ g[0] = <<>> /\ \A k \in Nat : g[k + 1] = h[k][g[k]]
  <2>1. Stays(Q, h)
    BY <1>1 DEF Stays
  <2>2. \E g : Iterates(Q, <<>>, h, g)
    BY <1>2, <2>1, Iterated
  <2>3. QED
    BY <2>2 DEF Iterates
<1>4. \A k \in Nat : g[k] \in Q /\ (k < N => g[k + 1] = g[k] \o w[k + 1])
  BY <1>1, <1>3
<1>5. ASSUME NEW n \in 0 .. N PROVE F[n] = g[n]
  <2> DEFINE seqs == [i \in 1 .. n |-> w[i]]
  <2>1. Len(seqs) = n /\ \A i \in 1 .. n : seqs[i] = w[i]
    OBVIOUS
  <2>2. F[n] = FlattenSeq(seqs)
    OBVIOUS
  <2>3. CASE n = 0
    <3>1. FlattenSeq(seqs) = seqs
      BY <2>1, <2>3 DEF FlattenSeq
    <3>2. seqs = <<>>
      BY <2>3
    <3>3. QED
      BY <1>3, <2>2, <2>3, <3>1, <3>2
  <2>4. CASE n # 0
    <3> DEFINE IsIt(f) == f = [i \in 1 .. n |-> IF i = 1 THEN seqs[i] ELSE f[i - 1] \o seqs[i]]
    <3> HIDE DEF seqs
    <3>1. PICK f : f = CHOOSE y : IsIt(y)
      OBVIOUS
    <3>2. F[n] = f[n]
      <4>1. FlattenSeq(seqs) = (CHOOSE y : IsIt(y))[n]
        BY <2>1, <2>4, Zenon DEF FlattenSeq
      <4>2. QED
        BY <2>2, <3>1, <4>1, Zenon
    <3>3. \E x : IsIt(x)
      <4> DEFINE x == [i \in 1 .. n |-> g[i]]
      <4>1. ASSUME NEW i \in 1 .. n PROVE x[i] = IF i = 1 THEN seqs[i] ELSE x[i - 1] \o seqs[i]
        <5>1. PICK j : j = i - 1
          OBVIOUS
        <5>2. j \in Nat /\ i = j + 1 /\ j < N /\ i \in 1 .. N
          BY <5>1
        <5>3. g[i] = g[j] \o w[i]
          BY <1>4, <5>2
        <5>4. CASE i = 1
          <6>1. j = 0
            BY <5>2, <5>4
          <6>2. w[i] \in Seq(S)
            BY <5>2
          <6>3. g[j] = <<>>
            BY <1>3, <6>1
          <6>5. <<>> \o w[i] = w[i]
            BY <6>2, EmptyBefore
          <6>6. g[i] = w[i]
            BY <5>3, <6>3, <6>5, Zenon
          <6>4. QED
            BY <2>1, <5>4, <6>6
        <5>5. CASE i # 1
          <6>1. j \in 1 .. n
            BY <5>2, <5>5
          <6>2. x[i] = g[i] /\ x[j] = g[j]
            BY <6>1
          <6>3. QED
            BY <2>1, <5>1, <5>3, <5>5, <6>2
        <5>6. QED
          BY <5>4, <5>5
      <4>2. x = [i \in 1 .. n |-> x[i]]
        OBVIOUS
      <4> HIDE DEF x
      <4>3. IsIt(x)
        BY <4>1, <4>2
      <4>4. QED
        BY <4>3
    <3>4. IsIt(f)
      BY <3>1, <3>3
    <3>5. \A i \in 1 .. n : f[i] = IF i = 1 THEN seqs[i] ELSE f[i - 1] \o seqs[i]
      BY <3>4
    <3> DEFINE G == {k \in 0 .. n - 1 : f[k + 1] = g[k + 1]}
    <3>6. 0 \in G
      <4>1. 0 \in 0 .. n - 1 /\ 1 \in 1 .. n /\ 0 \in Nat /\ 0 < N
        BY <2>4
      <4>2. f[1] = w[1] /\ w[1] \in Seq(S)
        BY <2>1, <3>5, <4>1
      <4>3. g[0 + 1] = g[0] \o w[0 + 1]
        BY <1>4, <4>1
      <4>6. <<>> \o w[1] = w[1]
        BY <4>2, EmptyBefore
      <4>4. g[1] = w[1]
        BY <1>3, <4>3, <4>6
      <4>5. QED
        BY <4>1, <4>2, <4>4
    <3>7. ASSUME NEW k \in 0 .. (n - 1) - 1, k \in G PROVE k + 1 \in G
      <4>1. PICK j : j = k + 1
        OBVIOUS
      <4>2. PICK i : i = j + 1
        OBVIOUS
      <4>3. j \in Nat /\ j < N /\ i \in 1 .. n /\ i # 1 /\ i - 1 = j /\ j \in 0 .. n - 1
        BY <4>1, <4>2
      <4>4. f[j] = g[j]
        BY <3>7, <4>1
      <4>5. f[i] = f[j] \o w[i]
        BY <2>1, <3>5, <4>3
      <4>6. g[i] = g[j] \o w[i]
        BY <1>4, <4>2, <4>3
      <4>7. f[j + 1] = g[j + 1]
        BY <4>2, <4>4, <4>5, <4>6
      <4>8. QED
        BY <4>1, <4>3, <4>7
    <3>8. \A k \in 0 .. n - 1 : k \in G
      <4>1. n - 1 \in Nat
        BY <2>4
      <4> HIDE DEF G
      <4>2. QED
        BY <3>6, <3>7, <4>1, UpTo
    <3>9. f[n] = g[n]
      <4>1. n - 1 \in 0 .. n - 1 /\ (n - 1) + 1 = n
        BY <2>4
      <4>2. QED
        BY <3>8, <4>1
    <3>10. QED
      BY <3>2, <3>9
  <2>5. QED
    BY <2>3, <2>4
<1>6. \A n \in 0 .. N - 1 : F[n + 1] = F[n] \o w[n + 1]
  <2>1. ASSUME NEW n \in 0 .. N - 1 PROVE F[n + 1] = F[n] \o w[n + 1]
    <3>1. n \in Nat /\ n < N /\ n \in 0 .. N /\ n + 1 \in 0 .. N
      OBVIOUS
    <3>2. QED
      BY <1>4, <1>5, <3>1
  <2>2. QED
    BY <2>1
<1>7. ASSUME NEW n \in 0 .. N PROVE F[n] \in Seq(S)
  <2>4. n \in Nat
    OBVIOUS
  <2>1. g[n] \in Q
    BY <1>3, <2>4
  <2>2. Q = Seq(S)
    BY DEF Q
  <2>3. QED
    BY <1>5, <2>1, <2>2
<1>8. F[0] = <<>>
  <2>1. 0 \in 0 .. N
    OBVIOUS
  <2>2. QED
    BY <1>3, <1>5, <2>1
<1>9. QED
  BY <1>6, <1>7, <1>8 DEF FlatParts

-----------------------------------------------------------------------------
(* The reading of a format (Scanner).                                      *)

(* Where a run of characters ends, and the number that digits write.       *)
Ends(chars, p, q) ==
  /\ p \in Nat /\ q \in p .. Len(format) - 1
  /\ At(q) \notin chars /\ \A i \in p .. q - 1 : At(i) \in chars

(* The run of characters that After looks for has one end.                 *)
LEMMA AfterIs ==
  ASSUME NEW chars, NEW p, NEW q, Len(format) \in Nat, Ends(chars, p, q)
  PROVE  After(p, chars) = q
<1> DEFINE a == After(p, chars)
           last == Len(format) - 1
<1>1. last \in Int
  OBVIOUS
<1>2. p \in Nat /\ q \in p .. last /\ At(q) \notin chars /\ \A i \in p .. q - 1 : At(i) \in chars
  BY DEF Ends
<1>3. a \in p .. last /\ At(a) \notin chars /\ \A i \in p .. a - 1 : At(i) \in chars
  BY <1>2 DEF After
<1> HIDE DEF a, last
<1>4. ~ a < q
  BY <1>1, <1>2, <1>3
<1>5. ~ q < a
  BY <1>1, <1>2, <1>3
<1>6. a = q
  BY <1>1, <1>2, <1>3, <1>4, <1>5
<1>7. QED
  BY <1>6 DEF a

(* One more digit of a number.                                             *)
LEMMA DivTen ==
  ASSUME NEW n \in Nat, NEW b \in Nat \ {0}
  PROVE  ((n \div (10 * b)) * 10) + ((n \div b) % 10) = n \div b
<1>1. PICK q \in Nat, r \in Nat : n = q * b + r /\ r < b /\ q = n \div b
  <2>1. n \div b \in Nat /\ n % b \in Nat /\ n = (n \div b) * b + (n % b) /\ n % b < b
    BY Z3
  <2>2. QED
    BY <2>1
<1>2. PICK s \in Nat, t \in Nat : q = s * 10 + t /\ t < 10 /\ t = q % 10
  <2>1. q \div 10 \in Nat /\ q % 10 \in Nat /\ q = (q \div 10) * 10 + (q % 10) /\ q % 10 < 10
    BY Z3
  <2>2. QED
    BY <2>1
<1>3. PICK c \in Nat : c = 10 * b
  OBVIOUS
<1>4. PICK e \in Nat : e = t * b + r
  OBVIOUS
<1>5. n = s * c + e
  BY <1>1, <1>2, <1>3, <1>4
<1>6. e < c
  <2>1. t * b <= 9 * b
    BY <1>2
  <2>2. QED
    BY <1>1, <1>3, <1>4, <2>1
<1>7. n \div c = s
  BY <1>3, <1>5, <1>6
<1>8. QED
  BY <1>1, <1>2, <1>3, <1>7

Stands(s, p) == \A k \in 1 .. Len(s) : At(p + k - 1) = s[k]

(* atoi reads the number that is written, and no overflow of an int is met *)
(* on the way: each of its rounds has one more digit of it.                *)
LEMMA AtoiIs ==
  ASSUME NEW p, NEW q, NEW chars, NEW n, Len(format) \in Nat, IntValues \in Nat \ {0},
         IsNumeral(chars, n), Stands(chars, p), q = p + Len(chars),
         Ends(DOMAIN DigitValue, p, q)
  PROVE  atoi(p) = [value |-> n, next |-> q]
<1> DEFINE P == Power(10)
           v == [k \in p .. q |-> n \div P[q - k]]
           IsIt(i) == i = [k \in p .. q |->
                           IF k = p THEN 0 ELSE (i[k - 1] * 10 + DigitValue[At(k - 1)]) % IntValues]
<1>1. PICK L \in Nat : L = Len(chars)
  BY DEF IsNumeral
<1>2. p \in Nat /\ q \in Nat /\ q = p + L
  BY <1>1 DEF Ends
<1>3. P[0] = 1 /\ \A m \in Nat : P[m] \in Nat \ {0} /\ P[m + 1] = 10 * P[m]
  <2>1. 10 \in Nat \ {0}
    OBVIOUS
  <2>2. QED
    BY <2>1, PowerIs, Zenon
<1>4. n \in Nat /\ n < IntValues /\ n < P[L]
  BY <1>1 DEF IsNumeral
<1>5. \A k \in 1 .. L : (n \div P[L - k]) % 10 = DigitValue[chars[k]] /\ At(p + k - 1) = chars[k]
  BY <1>1 DEF IsNumeral, Stands
<1> HIDE DEF P
<1>6. \A m \in Nat : n \div P[m] \in Nat /\ n \div P[m] <= n
  <2>1. ASSUME NEW m \in Nat PROVE n \div P[m] \in Nat /\ n \div P[m] <= n
    <3>1. PICK b \in Nat \ {0} : b = P[m]
      BY <1>3
    <3>2. n \div b \in Nat /\ n \div b <= n
      BY <1>4, Z3
    <3>3. QED
      BY <3>1, <3>2
  <2>2. QED
    BY <2>1
<1>7. \A k \in p .. q : v[k] \in Nat /\ v[k] <= n
  <2>1. ASSUME NEW k \in p .. q PROVE q - k \in Nat
    BY <1>2
  <2>2. QED
    BY <1>6, <2>1
<1>8. v[p] = 0
  <2>1. q - p = L /\ p \in p .. q
    BY <1>2
  <2>2. PICK b \in Nat \ {0} : b = P[L]
    BY <1>3
  <2>3. n \div b = 0
    BY <1>4, <2>2
  <2>4. QED
    BY <2>1, <2>2, <2>3
<1>9. v[q] = n
  <2>1. q - q = 0 /\ q \in p .. q
    BY <1>2
  <2>2. n \div 1 = n
    BY <1>4
  <2>3. QED
    BY <1>3, <2>1, <2>2
<1>10. ASSUME NEW k \in p .. q, k # p
       PROVE  k - 1 \in p .. q /\ (v[k - 1] * 10 + DigitValue[At(k - 1)]) % IntValues = v[k]
  <2>1. PICK j : j = k - p
    OBVIOUS
  <2>2. PICK m : m = q - k
    OBVIOUS
  <2>3. PICK h : h = k - 1
    OBVIOUS
  <2>4. /\ j \in 1 .. L /\ m \in Nat /\ L - j = m /\ p + j - 1 = h /\ q - h = m + 1
        /\ h \in p .. q
    BY <1>2, <1>10, <2>1, <2>2, <2>3
  <2>5. PICK b \in Nat \ {0} : b = P[m]
    BY <1>3, <2>4
  <2>6. P[m + 1] = 10 * b
    BY <1>3, <2>4, <2>5
  <2>7. v[h] = n \div (10 * b)
    BY <2>4, <2>6
  <2>8. v[k] = n \div b
    BY <2>2, <2>5
  <2>9. DigitValue[At(h)] = (n \div b) % 10
    BY <1>5, <2>4, <2>5
  <2>10. (n \div (10 * b)) * 10 + ((n \div b) % 10) = n \div b
    BY <1>4, DivTen
  <2>11. v[h] * 10 + DigitValue[At(h)] = v[k]
    BY <2>7, <2>8, <2>9, <2>10, Zenon
  <2>12. v[k] \in Nat /\ v[k] < IntValues
    <3> HIDE DEF v
    <3>1. QED
      BY <1>4, <1>7
  <2>13. v[k] % IntValues = v[k]
    <3>1. PICK a : a = v[k]
      OBVIOUS
    <3>2. a % IntValues = a
      BY <2>12, <3>1
    <3>3. QED
      BY <3>1, <3>2, Zenon
  <2> HIDE DEF v
  <2>14. (v[h] * 10 + DigitValue[At(h)]) % IntValues = v[k]
    BY <2>11, <2>13, Zenon
  <2>15. QED
    BY <2>3, <2>4, <2>14
<1>11. IsIt(v)
  <2>1. v = [k \in p .. q |-> v[k]]
    OBVIOUS
  <2> HIDE DEF v
  <2>2. \A k \in p .. q :
          v[k] = IF k = p THEN 0 ELSE (v[k - 1] * 10 + DigitValue[At(k - 1)]) % IntValues
    BY <1>8, <1>10
  <2>3. QED
    BY <2>1, <2>2, Zenon
<1> HIDE DEF v
<1>12. PICK i : i = CHOOSE y : IsIt(y)
  OBVIOUS
<1>13. IsIt(i)
  BY <1>11, <1>12
<1>14. \A k \in p .. q :
         i[k] = IF k = p THEN 0 ELSE (i[k - 1] * 10 + DigitValue[At(k - 1)]) % IntValues
  BY <1>13
<1>15. i[q] = v[q]
  <2> DEFINE G == {k \in 0 .. L : i[p + k] = v[p + k]}
  <2>1. 0 \in G
    <3>1. i[p] = 0 /\ p + 0 = p
      BY <1>2, <1>14
    <3>2. QED
      BY <1>8, <3>1
  <2>2. ASSUME NEW k \in 0 .. L - 1, k \in G PROVE k + 1 \in G
    <3>1. PICK h : h = p + k
      OBVIOUS
    <3>2. PICK g : g = h + 1
      OBVIOUS
    <3>3. g \in p .. q /\ g # p /\ g - 1 = h /\ g = p + (k + 1) /\ k + 1 \in 0 .. L
      BY <1>2, <3>1, <3>2
    <3>4. i[h] = v[h]
      BY <2>2, <3>1
    <3>5. i[g] = (i[h] * 10 + DigitValue[At(h)]) % IntValues
      BY <1>14, <3>3
    <3>6. (v[h] * 10 + DigitValue[At(h)]) % IntValues = v[g]
      BY <1>10, <3>3
    <3>7. i[g] = v[g]
      BY <3>4, <3>5, <3>6, Zenon
    <3>8. QED
      BY <3>3, <3>7
  <2>3. \A k \in 0 .. L : k \in G
    <3> HIDE DEF G
    <3>1. QED
      BY <2>1, <2>2, UpTo
  <2>4. L \in G
    BY <2>3
  <2>5. QED
    BY <1>2, <2>4
<1>16. After(p, DOMAIN DigitValue) = q
  BY AfterIs
<1>17. atoi(p) = [value |-> (CHOOSE y : IsIt(y))[q], next |-> q]
  BY <1>16, Zenon DEF atoi
<1>18. QED
  BY <1>9, <1>12, <1>15, <1>17, Zenon

LEMMA DigitsAre == DOMAIN DigitValue = {"0", "1", "2", "3", "4", "5", "6", "7", "8", "9"}
BY DEF DigitValue

LEMMA FlagsAre == DOMAIN Flag = {"0", "-", "+", " ", "#"}
BY DEF Flag

(* A width, or a precision after its dot, is read as it was written.       *)
LEMMA FieldIs ==
  ASSUME NEW p \in Nat, NEW q, NEW chars, NEW n, Len(format) \in Nat, IntValues \in Nat \ {0},
         IsField(chars, n), Stands(chars, p), q = p + Len(chars), q <= Len(format) - 1,
         At(q) \notin DOMAIN DigitValue, At(q) # "*"
  PROVE  Field(p) = [value |-> n, next |-> q]
<1>1. CASE chars = <<"*">>
  <2>1. Len(chars) = 1 /\ chars[1] = "*" /\ p + 1 - 1 = p
    BY <1>1
  <2>2. At(p) = "*"
    <3>1. At(p + 1 - 1) = chars[1]
      BY <2>1 DEF Stands
    <3>2. QED
      BY <2>1, <3>1
  <2>3. n = Star /\ q = p + 1
    BY <1>1, <2>1 DEF IsField
  <2>4. QED
    BY <2>2, <2>3, Zenon DEF Field
<1>2. CASE chars # <<"*">>
  <2>1. IsNumeral(chars, n)
    BY <1>2 DEF IsField
  <2>2. PICK L \in Nat : L = Len(chars) /\ q = p + L
    BY <2>1 DEF IsNumeral
  <2>3. \A k \in 1 .. L : chars[k] \in DOMAIN DigitValue /\ At(p + k - 1) = chars[k]
    <3>1. PICK D : D = DOMAIN DigitValue
      OBVIOUS
    <3>2. chars \in Seq(D)
      BY <2>1, <3>1 DEF IsNumeral
    <3>3. \A k \in 1 .. L : chars[k] \in D
      BY <2>2, <3>2
    <3>4. QED
      BY <2>2, <3>1, <3>3 DEF Stands
  <2>4. ASSUME NEW i \in p .. q - 1 PROVE At(i) \in DOMAIN DigitValue
    <3>1. PICK k : k = i - p + 1
      OBVIOUS
    <3>2. k \in 1 .. L /\ p + k - 1 = i
      BY <2>2, <3>1
    <3>3. QED
      BY <2>3, <3>2
  <2>5. Ends(DOMAIN DigitValue, p, q)
    <3>1. q \in p .. Len(format) - 1
      BY <2>2
    <3>2. QED
      BY <2>4, <3>1 DEF Ends
  <2>6. atoi(p) = [value |-> n, next |-> q]
    BY <2>1, <2>5, AtoiIs
  <2>7. At(p) # "*"
    <3>1. CASE L = 0
      <4>1. p = q
        BY <2>2, <3>1
      <4>2. QED
        BY <4>1
    <3>2. CASE L # 0
      <4>1. p \in p .. q - 1
        BY <2>2, <3>2
      <4>2. At(p) \in DOMAIN DigitValue
        BY <2>4, <4>1
      <4>3. QED
        BY <4>2, DigitsAre
    <3>3. QED
      BY <3>1, <3>2
  <2>8. QED
    BY <2>6, <2>7, Zenon DEF Field
<1>3. QED
  BY <1>1, <1>2

IsPrecision(chars, n) ==
  IF chars = <<>> THEN n = None
  ELSE chars = <<".">> \o Tail(chars) /\ IsField(Tail(chars), n)

(* With its dot, or not there at all.                                      *)
LEMMA PrecisionIs ==
  ASSUME NEW p \in Nat, NEW q, NEW chars, NEW n, Len(format) \in Nat, IntValues \in Nat \ {0},
         IsPrecision(chars, n),
         Stands(chars, p), q = p + Len(chars), q <= Len(format) - 1,
         At(q) \notin DOMAIN DigitValue, At(q) # "*", At(q) # "."
  PROVE  Precision(p) = [value |-> n, next |-> q]
<1>1. CASE chars = <<>>
  <2>1. n = None /\ q = p
    BY <1>1 DEF IsPrecision
  <2>2. QED
    BY <2>1, Zenon DEF Precision
<1>2. CASE chars # <<>>
  <2>1. PICK t : t = Tail(chars)
    OBVIOUS
  <2>2. chars = <<".">> \o t /\ IsField(t, n)
    BY <1>2, <2>1 DEF IsPrecision
  <2>3. PICK S : t \in Seq(S)
    <3>1. CASE t = <<"*">>
      <4>1. t \in Seq({"*"})
        BY <3>1
      <4>2. QED
        BY <4>1
    <3>2. CASE t # <<"*">>
      BY <2>2, <3>2 DEF IsField, IsNumeral
    <3>3. QED
      BY <3>1, <3>2
  <2>4. PICK L \in Nat : L = Len(t)
    BY <2>3
  <2>5. Len(chars) = L + 1 /\ chars[1] = "." /\ \A k \in 1 .. L : chars[k + 1] = t[k]
    <3>1. <<".">> \in Seq({"."}) /\ Len(<<".">>) = 1
      OBVIOUS
    <3>2. PICK T : T = S \cup {"."}
      OBVIOUS
    <3>3. t \in Seq(T) /\ <<".">> \in Seq(T)
      BY <2>3, <3>1, <3>2
    <3>4. Len(<<".">> \o t) = 1 + L
      BY <2>4, <3>1, <3>3
    <3>5. (<<".">> \o t)[1] = "."
      BY <2>4, <3>1, <3>3
    <3>6. \A k \in 1 .. L : (<<".">> \o t)[k + 1] = t[k]
      BY <2>4, <3>1, <3>3
    <3>7. QED
      BY <2>2, <2>4, <3>4, <3>5, <3>6
  <2>6. At(p) = "."
    <3>1. 1 \in 1 .. Len(chars) /\ p + 1 - 1 = p
      BY <2>4, <2>5
    <3>2. QED
      BY <2>5, <3>1 DEF Stands
  <2>7. PICK r \in Nat : r = p + 1
    OBVIOUS
  <2>8. Stands(t, r)
    <3>1. ASSUME NEW k \in 1 .. L PROVE At(r + k - 1) = t[k]
      <4>1. PICK j : j = k + 1
        OBVIOUS
      <4>2. j \in 1 .. Len(chars) /\ p + j - 1 = r + k - 1
        BY <2>4, <2>5, <2>7, <4>1
      <4>3. QED
        BY <2>5, <4>1, <4>2 DEF Stands
    <3>2. QED
      BY <2>4, <3>1 DEF Stands
  <2>9. q = r + Len(t)
    BY <2>4, <2>5, <2>7
  <2>10. Field(r) = [value |-> n, next |-> q]
    BY <2>2, <2>8, <2>9, FieldIs
  <2>11. QED
    BY <2>6, <2>7, <2>10, Zenon DEF Precision
<1>3. QED
  BY <1>1, <1>2

(* A size of one letter or of two.                                         *)
LEMMA LengthIs ==
  ASSUME NEW p \in Nat, NEW q, NEW size \in Sizes,
         Stands(size.chars, p), q = p + Len(size.chars), At(q) \notin {"h", "l", "t", "z", "j"}
  PROVE  Length(p) = [size |-> size.value, next |-> q]
<1> DEFINE c == size.chars
<1>1. \A k \in 1 .. Len(c) : At(p + k - 1) = c[k]
  BY DEF Stands
<1>2. CASE size = [chars |-> <<>>, value |-> "int"]
  <2>1. size.value = "int" /\ q = p
    BY <1>2
  <2>2. QED
    BY <2>1 DEF Length
<1>3. ASSUME Len(c) = 1 PROVE q = p + 1 /\ At(p) = c[1]
  <2>1. At(p + 1 - 1) = c[1] /\ p + 1 - 1 = p
    BY <1>1, <1>3
  <2>2. QED
    BY <1>3, <2>1
<1>4. ASSUME Len(c) = 2 PROVE q = p + 2 /\ At(p) = c[1] /\ At(p + 1) = c[2]
  <2>1. At(p + 1 - 1) = c[1] /\ p + 1 - 1 = p /\ At(p + 2 - 1) = c[2] /\ p + 2 - 1 = p + 1
    BY <1>1, <1>4
  <2>2. QED
    BY <1>4, <2>1
<1>5. ASSUME NEW a, NEW b, size = [chars |-> <<a>>, value |-> b]
      PROVE  At(p) = a /\ q = p + 1 /\ size.value = b
  BY <1>3, <1>5
<1>6. ASSUME NEW a, NEW b, size = [chars |-> <<a, a>>, value |-> b]
      PROVE  At(p) = a /\ At(p + 1) = a /\ q = p + 2 /\ size.value = b
  BY <1>4, <1>6
<1>7. CASE size = [chars |-> <<"h">>, value |-> "SHORT"]
  BY <1>5, <1>7 DEF Length
<1>8. CASE size = [chars |-> <<"h", "h">>, value |-> "CHAR"]
  BY <1>6, <1>8 DEF Length
<1>9. CASE size = [chars |-> <<"l">>, value |-> "LONG"]
  BY <1>5, <1>9 DEF Length
<1>10. CASE size = [chars |-> <<"l", "l">>, value |-> "LONG_LONG"]
  BY <1>6, <1>10 DEF Length
<1>11. CASE size = [chars |-> <<"t">>, value |-> "LONG"]
  BY <1>5, <1>11 DEF Length
<1>12. CASE size = [chars |-> <<"z">>, value |-> "LONG"]
  BY <1>5, <1>12 DEF Length
<1>13. CASE size = [chars |-> <<"j">>, value |-> "LONG_LONG"]
  BY <1>5, <1>13 DEF Length
<1>14. QED
  BY <1>2, <1>7, <1>8, <1>9, <1>10, <1>11, <1>12, <1>13 DEF Sizes

(* Two parts, one after the other.                                         *)
LEMMA StandsBoth ==
  ASSUME NEW S, NEW s \in Seq(S), NEW t \in Seq(S), NEW p \in Nat, Stands(s \o t, p)
  PROVE  Stands(s, p) /\ Stands(t, p + Len(s))
<1>1. PICK L \in Nat, M \in Nat : L = Len(s) /\ M = Len(t)
  OBVIOUS
<1>2. /\ Len(s \o t) = L + M
      /\ \A k \in 1 .. L : (s \o t)[k] = s[k]
      /\ \A k \in 1 .. M : (s \o t)[L + k] = t[k]
  BY <1>1
<1>3. \A k \in 1 .. L + M : At(p + k - 1) = (s \o t)[k]
  BY <1>2 DEF Stands
<1>4. ASSUME NEW k \in 1 .. L PROVE At(p + k - 1) = s[k]
  <2>1. k \in 1 .. L + M
    BY <1>1
  <2>2. QED
    BY <1>2, <1>3, <2>1
<1>5. ASSUME NEW k \in 1 .. M PROVE At(p + L + k - 1) = t[k]
  <2>1. PICK j : j = L + k
    OBVIOUS
  <2>2. j \in 1 .. L + M /\ p + j - 1 = p + L + k - 1
    BY <1>1, <2>1
  <2>3. At(p + j - 1) = (s \o t)[j]
    BY <1>3, <2>2
  <2>4. (s \o t)[j] = t[k]
    BY <1>2, <2>1
  <2>5. QED
    BY <2>2, <2>3, <2>4
<1>6. Stands(s, p)
  BY <1>1, <1>4 DEF Stands
<1>7. Stands(t, p + L)
  BY <1>1, <1>5 DEF Stands
<1>8. QED
  BY <1>1, <1>6, <1>7

LEMMA Joined ==
  ASSUME NEW S, NEW s \in Seq(S), NEW t \in Seq(S)
  PROVE  s \o t \in Seq(S) /\ Len(s \o t) = Len(s) + Len(t)
OBVIOUS

Before == DOMAIN Flag \cup DOMAIN DigitValue \cup {"%", "*", ".", "h", "l", "t", "z", "j"}

LEMMA SeqGrows ==
  ASSUME NEW A, NEW B, A \subseteq B, NEW s \in Seq(A)
  PROVE  s \in Seq(B)
OBVIOUS

(* The parts are sequences, of characters that may stand before a          *)
(* conversion, and the conversion.                                         *)
LEMMA FieldIsSeq ==
  ASSUME NEW chars, NEW n, IsField(chars, n), NEW S, Before \subseteq S
  PROVE  chars \in Seq(S)
<1>1. CASE chars = <<"*">>
  <2>1. "*" \in S
    BY DEF Before
  <2>2. QED
    BY <1>1, <2>1
<1>2. CASE chars # <<"*">>
  <2>1. chars \in Seq(DOMAIN DigitValue)
    BY <1>2 DEF IsField, IsNumeral
  <2>2. PICK A : A = DOMAIN DigitValue
    OBVIOUS
  <2>3. A \subseteq S
    BY <2>2 DEF Before
  <2>4. QED
    BY <2>1, <2>2, <2>3, SeqGrows
<1>3. QED
  BY <1>1, <1>2

LEMMA PartsAre ==
  ASSUME NEW d, IsDirective(d), NEW S, Before \subseteq S
  PROVE  /\ d.flags \in Seq(S) /\ d.width.chars \in Seq(S)
         /\ d.precision.chars \in Seq(S) /\ d.size.chars \in Seq(S)
<1>1. d.flags \in Seq(S)
  <2>1. PICK A : A = DOMAIN Flag
    OBVIOUS
  <2>2. A \subseteq S /\ d.flags \in Seq(A)
    BY <2>1 DEF Before, IsDirective
  <2>3. QED
    BY <2>2, SeqGrows
<1>2. d.width.chars \in Seq(S)
  <2>1. IsField(d.width.chars, d.width.value)
    BY DEF IsDirective
  <2>2. QED
    BY <2>1, FieldIsSeq
<1>3. d.precision.chars \in Seq(S)
  <2>1. CASE d.precision.chars = <<>>
    BY <2>1
  <2>2. CASE d.precision.chars # <<>>
    <3>1. PICK t : t = Tail(d.precision.chars)
      OBVIOUS
    <3>2. d.precision.chars = <<".">> \o t /\ IsField(t, d.precision.value)
      BY <2>2, <3>1 DEF IsDirective
    <3>3. t \in Seq(S)
      BY <3>2, FieldIsSeq
    <3>4. <<".">> \in Seq(S)
      BY DEF Before
    <3>5. <<".">> \o t \in Seq(S)
      BY <3>3, <3>4
    <3>6. QED
      BY <3>2, <3>5
  <2>3. QED
    BY <2>1, <2>2
<1>4. d.size.chars \in Seq(S)
  <2>1. {"h", "l", "t", "z", "j"} \subseteq S
    BY DEF Before
  <2>2. d.size \in Sizes
    BY DEF IsDirective
  <2>3. PICK c : c = d.size.chars
    OBVIOUS
  <2>4. c \in {<<>>, <<"h">>, <<"h", "h">>, <<"l">>, <<"l", "l">>, <<"t">>, <<"z">>, <<"j">>}
    BY <2>2, <2>3 DEF Sizes
  <2>5. c = <<>> \/ \E x \in S : c = <<x>> \/ c = <<x, x>>
    BY <2>1, <2>4, Zenon
  <2>7. c \in Seq(S)
    <3>1. CASE c = <<>>
      BY <3>1
    <3>2. CASE \E x \in S : c = <<x>>
      BY <3>2
    <3>3. CASE \E x \in S : c = <<x, x>>
      BY <3>3
    <3>4. QED
      BY <2>5, <3>1, <3>2, <3>3
  <2>6. QED
    BY <2>3, <2>7
<1>5. QED
  BY <1>1, <1>2, <1>3, <1>4

(* Each part of a directive follows the one before it.                     *)
LEMMA Layout ==
  ASSUME NEW d, IsDirective(d), ~ d.plain, NEW p \in Nat, Stands(Written(d), p)
  PROVE  \E q \in Nat, r \in Nat, s \in Nat, t \in Nat :
           /\ q = p + 1 + Len(d.flags) /\ r = q + Len(d.width.chars)
           /\ s = r + Len(d.precision.chars) /\ t = s + Len(d.size.chars)
           /\ t + 1 = p + Len(Written(d))
           /\ Stands(<<"%">>, p) /\ Stands(d.flags, p + 1) /\ Stands(d.width.chars, q)
           /\ Stands(d.precision.chars, r) /\ Stands(d.size.chars, s) /\ Stands(<<d.conv>>, t)
<1>1. PICK S : S = Before \cup {d.conv}
  OBVIOUS
<1>2. PICK a, b, c, e :
        /\ a = d.flags /\ b = d.width.chars /\ c = d.precision.chars
        /\ e = d.size.chars
  OBVIOUS
<1>3. Before \subseteq S /\ d.conv \in S
  BY <1>1
<1>4. a \in Seq(S) /\ b \in Seq(S) /\ c \in Seq(S) /\ e \in Seq(S)
  BY <1>2, <1>3, PartsAre
<1>5. PICK z : z = <<d.conv>>
  OBVIOUS
<1>6. PICK x : x = <<"%">>
  OBVIOUS
<1>7. z \in Seq(S) /\ Len(z) = 1 /\ x \in Seq(S) /\ Len(x) = 1
  <2>1. "%" \in S
    BY <1>3 DEF Before
  <2>2. QED
    BY <1>3, <1>5, <1>6, <2>1
<1>8. PICK s1 : s1 = x \o a
  OBVIOUS
<1>9. PICK s2 : s2 = s1 \o b
  OBVIOUS
<1>10. PICK s3 : s3 = s2 \o c
  OBVIOUS
<1>11. PICK s4 : s4 = s3 \o e
  OBVIOUS
<1>12. PICK s5 : s5 = s4 \o z
  OBVIOUS
<1>13. Written(d) = s5
  BY <1>2, <1>5, <1>6, <1>8, <1>9, <1>10, <1>11, <1>12 DEF Written
<1>14. s1 \in Seq(S) /\ Len(s1) = Len(x) + Len(a)
  BY <1>4, <1>7, <1>8, Joined
<1>15. s2 \in Seq(S) /\ Len(s2) = Len(s1) + Len(b)
  BY <1>4, <1>9, <1>14, Joined
<1>16. s3 \in Seq(S) /\ Len(s3) = Len(s2) + Len(c)
  BY <1>4, <1>10, <1>15, Joined
<1>17. s4 \in Seq(S) /\ Len(s4) = Len(s3) + Len(e)
  BY <1>4, <1>11, <1>16, Joined
<1>18. Len(s5) = Len(s4) + Len(z)
  BY <1>7, <1>12, <1>17, Joined
<1>19. Stands(s5, p)
  BY <1>13
<1>20. Stands(s4, p) /\ Stands(z, p + Len(s4))
  BY <1>7, <1>12, <1>17, <1>19, StandsBoth
<1>21. Stands(s3, p) /\ Stands(e, p + Len(s3))
  BY <1>4, <1>11, <1>16, <1>20, StandsBoth
<1>22. Stands(s2, p) /\ Stands(c, p + Len(s2))
  BY <1>4, <1>10, <1>15, <1>21, StandsBoth
<1>23. Stands(s1, p) /\ Stands(b, p + Len(s1))
  BY <1>4, <1>9, <1>14, <1>22, StandsBoth
<1>24. Stands(x, p) /\ Stands(a, p + Len(x))
  BY <1>4, <1>7, <1>8, <1>23, StandsBoth
<1>25. Len(a) \in Nat /\ Len(b) \in Nat /\ Len(c) \in Nat /\ Len(e) \in Nat
  BY <1>4
<1>26. PICK q \in Nat : q = p + Len(s1)
  BY <1>14
<1>27. PICK r \in Nat : r = p + Len(s2)
  BY <1>15
<1>28. PICK s \in Nat : s = p + Len(s3)
  BY <1>16
<1>29. PICK t \in Nat : t = p + Len(s4)
  BY <1>17
<1>30. /\ q = p + 1 + Len(a) /\ r = q + Len(b) /\ s = r + Len(c) /\ t = s + Len(e)
       /\ t + 1 = p + Len(s5)
  BY <1>7, <1>14, <1>15, <1>16, <1>17, <1>18, <1>25, <1>26, <1>27, <1>28, <1>29
<1>31. /\ Stands(x, p) /\ Stands(a, p + 1) /\ Stands(b, q) /\ Stands(c, r) /\ Stands(e, s)
       /\ Stands(z, t)
  BY <1>7, <1>20, <1>21, <1>22, <1>23, <1>24, <1>26, <1>27, <1>28, <1>29, Zenon
<1>32. QED
  BY <1>2, <1>5, <1>6, <1>13, <1>30, <1>31, Zenon

LEMMA FirstStands ==
  ASSUME NEW s, NEW p, p \in Nat, Stands(s, p), Len(s) \in Nat, s # <<>>, NEW S, s \in Seq(S)
  PROVE  At(p) = s[1]
<1>1. 1 \in 1 .. Len(s) /\ p + 1 - 1 = p
  OBVIOUS
<1>2. QED
  BY <1>1 DEF Stands

(* What ReadDirective finds at p, and where it goes on.                    *)
Found(p) ==
  LET q == After(p + 1, DOMAIN Flag)
      w == Field(q)
      c == Precision(w.next)
      s == Length(c.next)
  IN  [piece |-> [conv |-> At(s.next), flags |-> {Flag[At(i)] : i \in p + 1 .. q - 1},
                  width |-> w.value, precision |-> c.value, size |-> s.size],
       next |-> s.next + 1]

Conversions(c) ==
  c \notin DOMAIN Flag \cup DOMAIN DigitValue \cup {"*", ".", "h", "l", "t", "z", "j", "NUL"}

(* ReadDirective finds each part of a directive, and stops behind it: no   *)
(* part begins with a character that the one before it may have.           *)
LEMMA FindsDirective ==
  ASSUME NEW d, IsDirective(d), ~ d.plain, NEW p \in Nat, Stands(Written(d), p),
         Len(format) \in Nat, IntValues \in Nat \ {0}, p + Len(Written(d)) <= Len(format)
  PROVE  At(p) = "%" /\ Found(p) = [piece |-> Means(d), next |-> p + Len(Written(d))]
<1>1. PICK q \in Nat, r \in Nat, s \in Nat, t \in Nat :
           /\ q = p + 1 + Len(d.flags) /\ r = q + Len(d.width.chars)
           /\ s = r + Len(d.precision.chars) /\ t = s + Len(d.size.chars)
           /\ t + 1 = p + Len(Written(d))
           /\ Stands(<<"%">>, p) /\ Stands(d.flags, p + 1) /\ Stands(d.width.chars, q)
           /\ Stands(d.precision.chars, r) /\ Stands(d.size.chars, s) /\ Stands(<<d.conv>>, t)
  BY Layout
<1>2. /\ d.flags \in Seq(DOMAIN Flag)
      /\ IsField(d.width.chars, d.width.value)
      /\ d.width.chars # <<>> => d.width.chars[1] # "0"
      /\ IF d.precision.chars = <<>> THEN d.precision.value = None
         ELSE /\ d.precision.chars = <<".">> \o Tail(d.precision.chars)
              /\ IsField(Tail(d.precision.chars), d.precision.value)
      /\ d.size \in Sizes
      /\ Conversions(d.conv)
  BY DEF IsDirective, Conversions
<1>3. PICK S : S = Before \cup {d.conv}
  OBVIOUS
<1>4. /\ d.flags \in Seq(S) /\ d.width.chars \in Seq(S)
      /\ d.precision.chars \in Seq(S) /\ d.size.chars \in Seq(S)
  BY <1>3, PartsAre
<1>5. /\ Len(d.flags) \in Nat /\ Len(d.width.chars) \in Nat
      /\ Len(d.precision.chars) \in Nat /\ Len(d.size.chars) \in Nat
  BY <1>4
<1>21. PICK n1 \in Nat, n2 \in Nat, n3 \in Nat, n4 \in Nat :
         /\ n1 = Len(d.flags) /\ n2 = Len(d.width.chars)
         /\ n3 = Len(d.precision.chars) /\ n4 = Len(d.size.chars)
  BY <1>5
<1>22. /\ q = p + 1 + n1 /\ r = q + n2 /\ s = r + n3 /\ t = s + n4
       /\ t + 1 = p + Len(Written(d))
  BY <1>1, <1>21, Zenon
<1>23. /\ Stands(d.flags, p + 1) /\ Stands(d.width.chars, q)
       /\ Stands(d.precision.chars, r) /\ Stands(d.size.chars, s)
  BY <1>1
<1>6. At(p) = "%"
  <2>1. PICK z : z = <<"%">>
    OBVIOUS
  <2>2. z \in Seq({"%"}) /\ Len(z) = 1 /\ z # <<>> /\ z[1] = "%"
    BY <2>1
  <2>3. Stands(z, p)
    BY <1>1, <2>1
  <2>4. At(p) = z[1]
    BY <2>2, <2>3, FirstStands
  <2>5. QED
    BY <2>2, <2>4
<1>7. At(t) = d.conv
  <2>1. PICK z : z = <<d.conv>>
    OBVIOUS
  <2>2. z \in Seq({d.conv}) /\ Len(z) = 1 /\ z # <<>> /\ z[1] = d.conv
    BY <2>1
  <2>3. Stands(z, t)
    BY <1>1, <2>1
  <2>4. At(t) = z[1]
    BY <2>2, <2>3, FirstStands
  <2>5. QED
    BY <2>2, <2>4
<1>8. p + 1 <= q /\ q <= r /\ r <= s /\ s <= t /\ t <= Len(format) - 1
  BY <1>22
<1>9. At(s) \in {"h", "l", "t", "z", "j"} \/ At(s) = d.conv
  <2>1. CASE d.size.chars = <<>>
    <3>3. n4 = 0
      BY <1>21, <2>1
    <3>1. s = t
      BY <1>22, <3>3
    <3>2. QED
      BY <1>7, <3>1
  <2>2. CASE d.size.chars # <<>>
    <3>1. At(s) = d.size.chars[1]
      BY <1>1, <1>4, <1>5, <2>2, FirstStands
    <3>2. d.size.chars[1] \in {"h", "l", "t", "z", "j"}
      BY <1>2, <2>2 DEF Sizes
    <3>3. QED
      BY <3>1, <3>2
  <2>3. QED
    BY <2>1, <2>2
<1>10. At(s) \notin DOMAIN DigitValue /\ At(s) # "*" /\ At(s) # "." /\ At(s) \notin DOMAIN Flag
  BY <1>2, <1>9, DigitsAre, FlagsAre DEF Conversions
<1>11. /\ At(r) \notin DOMAIN DigitValue /\ At(r) # "*" /\ At(r) \notin DOMAIN Flag
  <2>1. CASE d.precision.chars = <<>>
    <3>3. n3 = 0
      BY <1>21, <2>1
    <3>1. r = s
      BY <1>22, <3>3
    <3>2. QED
      BY <1>10, <3>1
  <2>2. CASE d.precision.chars # <<>>
    <3>1. At(r) = d.precision.chars[1]
      BY <1>1, <1>4, <1>5, <2>2, FirstStands
    <3>2. d.precision.chars[1] = "."
      <4>1. PICK u : u = Tail(d.precision.chars)
        OBVIOUS
      <4>2. u \in Seq(S) /\ d.precision.chars = <<".">> \o u
        BY <1>2, <1>4, <2>2, <4>1
      <4>3. QED
        BY <4>2
    <3>3. QED
      BY <3>1, <3>2, DigitsAre, FlagsAre
  <2>3. QED
    BY <2>1, <2>2
<1>12. At(q) \notin DOMAIN Flag
  <2>1. CASE d.width.chars = <<>>
    <3>3. n2 = 0
      BY <1>21, <2>1
    <3>1. q = r
      BY <1>22, <3>3
    <3>2. QED
      BY <1>11, <3>1
  <2>2. CASE d.width.chars # <<>>
    <3>1. At(q) = d.width.chars[1]
      BY <1>1, <1>4, <1>5, <2>2, FirstStands
    <3>2. d.width.chars[1] = "*" \/ d.width.chars[1] \in DOMAIN DigitValue
      <4>1. CASE d.width.chars = <<"*">>
        BY <4>1
      <4>2. CASE d.width.chars # <<"*">>
        <5>1. PICK D : D = DOMAIN DigitValue
          OBVIOUS
        <5>2. d.width.chars \in Seq(D)
          BY <1>2, <4>2, <5>1 DEF IsField, IsNumeral
        <5>3. d.width.chars[1] \in D
          BY <2>2, <5>2
        <5>4. QED
          BY <5>1, <5>3
      <4>3. QED
        BY <4>1, <4>2
    <3>3. QED
      BY <1>2, <2>2, <3>1, <3>2, DigitsAre, FlagsAre
  <2>3. QED
    BY <2>1, <2>2
<1>13. After(p + 1, DOMAIN Flag) = q
  <2>1. PICK D : D = DOMAIN Flag
    OBVIOUS
  <2>2. PICK b \in Nat : b = p + 1
    OBVIOUS
  <2>9. PICK fs \in Seq(D) : fs = d.flags
    BY <1>2, <2>1
  <2>10. n1 = Len(fs) /\ Stands(fs, b)
    BY <1>21, <1>23, <2>2, <2>9
  <2>3. \A k \in 1 .. n1 : fs[k] \in D
    BY <2>9, <2>10
  <2>4. ASSUME NEW i \in b .. q - 1 PROVE At(i) \in D
    <3>1. PICK k : k = i - b + 1
      OBVIOUS
    <3>2. k \in 1 .. n1 /\ b + k - 1 = i
      BY <1>22, <2>2, <3>1
    <3>3. QED
      BY <2>3, <2>10, <3>2 DEF Stands
  <2>5. q \in b .. Len(format) - 1
    BY <1>8, <2>2
  <2>6. Ends(D, b, q)
    BY <1>12, <2>1, <2>4, <2>5 DEF Ends
  <2>7. After(b, D) = q
    BY <2>6, AfterIs
  <2>8. QED
    BY <2>1, <2>2, <2>7
<1>14. Field(q) = [value |-> d.width.value, next |-> r]
  <2>1. PICK c, n : c = d.width.chars /\ n = d.width.value
    OBVIOUS
  <2>2. IsField(c, n) /\ Stands(c, q)
    BY <1>2, <1>23, <2>1
  <2>3. r = q + Len(c)
    BY <1>21, <1>22, <2>1, Zenon
  <2>4. r <= Len(format) - 1
    BY <1>8
  <2>5. Field(q) = [value |-> n, next |-> r]
    BY <1>11, <2>2, <2>3, <2>4, FieldIs
  <2>6. QED
    BY <2>1, <2>5
<1>15. Precision(r) = [value |-> d.precision.value, next |-> s]
  <2>1. PICK c, n : c = d.precision.chars /\ n = d.precision.value
    OBVIOUS
  <2>2. IsPrecision(c, n) /\ Stands(c, r)
    BY <1>2, <1>23, <2>1, Zenon DEF IsPrecision
  <2>3. s = r + Len(c)
    BY <1>21, <1>22, <2>1, Zenon
  <2>4. s <= Len(format) - 1
    BY <1>8
  <2>5. Precision(r) = [value |-> n, next |-> s]
    BY <1>10, <2>2, <2>3, <2>4, PrecisionIs
  <2>6. QED
    BY <2>1, <2>5
<1>16. Length(s) = [size |-> d.size.value, next |-> t]
  <2>1. PICK z : z = d.size
    OBVIOUS
  <2>2. z \in Sizes /\ Stands(z.chars, s) 
    BY <1>2, <1>23, <2>1
  <2>5. t = s + Len(z.chars)
    BY <1>21, <1>22, <2>1, Zenon
  <2>3. At(t) \notin {"h", "l", "t", "z", "j"}
    BY <1>2, <1>7 DEF Conversions
  <2>4. QED
    BY <2>1, <2>2, <2>3, <2>5, LengthIs
<1>17. {Flag[At(i)] : i \in p + 1 .. q - 1} = {Flag[d.flags[i]] : i \in DOMAIN d.flags}
  <2>1. PICK fs \in Seq(S) : fs = d.flags
    BY <1>4
  <2>2. PICK L \in Nat : L = Len(fs) /\ DOMAIN fs = 1 .. L
    OBVIOUS
  <2>7. L = n1 /\ q - 1 = p + L
    <3>1. L = n1
      BY <1>21, <2>1, <2>2
    <3>2. QED
      BY <1>22, <3>1
  <2>8. PICK b \in Nat : b = p + 1
    OBVIOUS
  <2>9. \A k \in 1 .. L : At(b + k - 1) = fs[k]
    BY <1>23, <2>1, <2>2, <2>8 DEF Stands
  <2>3. ASSUME NEW i \in p + 1 .. q - 1 PROVE \E k \in 1 .. L : At(i) = fs[k]
    <3>1. PICK k : k = i - p
      OBVIOUS
    <3>2. k \in 1 .. L /\ b + k - 1 = i
      BY <2>7, <2>8, <3>1
    <3>3. QED
      BY <2>9, <3>2
  <2>4. ASSUME NEW k \in 1 .. L PROVE \E i \in p + 1 .. q - 1 : At(i) = fs[k]
    <3>1. PICK i : i = p + k
      OBVIOUS
    <3>2. i \in p + 1 .. q - 1 /\ b + k - 1 = i
      BY <2>7, <2>8, <3>1
    <3>3. QED
      BY <2>9, <3>2
  <2>5. {Flag[At(i)] : i \in p + 1 .. q - 1} = {Flag[fs[k]] : k \in 1 .. L}
    <3>1. ASSUME NEW x \in {Flag[At(i)] : i \in p + 1 .. q - 1}
          PROVE  x \in {Flag[fs[k]] : k \in 1 .. L}
      <4>1. PICK i \in p + 1 .. q - 1 : x = Flag[At(i)]
        OBVIOUS
      <4>2. PICK k \in 1 .. L : At(i) = fs[k]
        BY <2>3
      <4>3. x = Flag[fs[k]]
        BY <4>1, <4>2, Zenon
      <4>4. QED
        BY <4>3
    <3>2. ASSUME NEW x \in {Flag[fs[k]] : k \in 1 .. L}
          PROVE  x \in {Flag[At(i)] : i \in p + 1 .. q - 1}
      <4>1. PICK k \in 1 .. L : x = Flag[fs[k]]
        OBVIOUS
      <4>2. PICK i \in p + 1 .. q - 1 : At(i) = fs[k]
        BY <2>4
      <4>3. x = Flag[At(i)]
        BY <4>1, <4>2, Zenon
      <4>4. QED
        BY <4>3
    <3>3. QED
      BY <3>1, <3>2
  <2>6. QED
    BY <2>1, <2>2, <2>5
<1>18. Found(p) = [piece |-> [conv |-> At(t), flags |-> {Flag[At(i)] : i \in p + 1 .. q - 1},
                              width |-> d.width.value, precision |-> d.precision.value,
                              size |-> d.size.value],
                   next |-> t + 1]
  <2>1. Field(q).value = d.width.value /\ Field(q).next = r
    BY <1>14
  <2>2. Precision(r).value = d.precision.value /\ Precision(r).next = s
    BY <1>15
  <2>3. Length(s).size = d.size.value /\ Length(s).next = t
    BY <1>16
  <2>4. QED
    BY <1>13, <2>1, <2>2, <2>3, Zenon DEF Found
<1>19. Found(p) = [piece |-> Means(d), next |-> t + 1]
  BY <1>7, <1>17, <1>18, Zenon DEF Means
<1>20. QED
  BY <1>1, <1>6, <1>19

IsGiven(d) == d.plain \in BOOLEAN /\ IF d.plain THEN IsPlain(d) ELSE IsDirective(d)

(* And so is a piece.                                                      *)
LEMMA WrittenIsSeq ==
  ASSUME NEW d, IsGiven(d), NEW S, Before \subseteq S, d.conv \in S
  PROVE  Written(d) \in Seq(S)
<1>1. PICK z : z = <<d.conv>>
  OBVIOUS
<1>2. z \in Seq(S)
  BY <1>1
<1>3. CASE d.plain
  BY <1>1, <1>2, <1>3 DEF Written
<1>4. CASE ~ d.plain
  <2>1. IsDirective(d)
    BY <1>4 DEF IsGiven
  <2>2. PICK a, b, c, e :
        /\ a = d.flags /\ b = d.width.chars /\ c = d.precision.chars
        /\ e = d.size.chars
    OBVIOUS
  <2>3. a \in Seq(S) /\ b \in Seq(S) /\ c \in Seq(S) /\ e \in Seq(S)
    BY <2>1, <2>2, PartsAre
  <2>4. PICK x : x = <<"%">>
    OBVIOUS
  <2>5. x \in Seq(S)
    <3>1. "%" \in S
      BY DEF Before
    <3>2. QED
      BY <2>4, <3>1
  <2>6. PICK s1 \in Seq(S) : s1 = x \o a
    BY <2>3, <2>5, Joined
  <2>7. PICK s2 \in Seq(S) : s2 = s1 \o b
    BY <2>3, Joined
  <2>8. PICK s3 \in Seq(S) : s3 = s2 \o c
    BY <2>3, Joined
  <2>9. PICK s4 \in Seq(S) : s4 = s3 \o e
    BY <2>3, Joined
  <2>10. s4 \o z \in Seq(S)
    BY <1>2, Joined
  <2>11. Written(d) = s4 \o z
    BY <1>1, <1>4, <2>2, <2>4, <2>6, <2>7, <2>8, <2>9, Zenon DEF Written
  <2>12. QED
    BY <2>10, <2>11
<1>5. QED
  BY <1>3, <1>4

LEMMA JoinedAt ==
  ASSUME NEW S, NEW s \in Seq(S), NEW t \in Seq(S), NEW k \in 1 .. Len(t)
  PROVE  (s \o t)[Len(s) + k] = t[k]
<1>1. PICK L \in Nat, M \in Nat : L = Len(s) /\ M = Len(t)
  OBVIOUS
<1>2. \A i \in 1 .. M : (s \o t)[L + i] = t[i]
  BY <1>1
<1>3. QED
  BY <1>1, <1>2

LEMMA LastIs ==
  ASSUME NEW S, NEW s \in Seq(S), NEW t \in Seq(S), Len(t) = 1
  PROVE  (s \o t)[Len(s) + 1] = t[1]
<1>1. PICK k : k = 1
  OBVIOUS
<1>2. k \in 1 .. Len(t)
  BY <1>1
<1>3. (s \o t)[Len(s) + k] = t[k]
  BY <1>2, JoinedAt
<1>4. QED
  BY <1>1, <1>3

Begins(s, t) == Len(s) <= Len(t) /\ \A k \in 1 .. Len(s) : t[k] = s[k]

LEMMA BeginsJoined ==
  ASSUME NEW S, NEW s \in Seq(S), NEW t \in Seq(S), NEW u \in Seq(S), Begins(s, t)
  PROVE  Begins(s, t \o u)
<1>1. PICK r : r = t \o u
  OBVIOUS
<1>2. Len(r) = Len(t) + Len(u) /\ \A k \in 1 .. Len(t) : r[k] = t[k]
  BY <1>1
<1>3. Len(s) \in Nat /\ Len(t) \in Nat /\ Len(u) \in Nat /\ Len(s) <= Len(t)
  BY DEF Begins
<1>4. Len(s) <= Len(r)
  BY <1>2, <1>3
<1>5. \A k \in 1 .. Len(s) : r[k] = s[k]
  BY <1>2, <1>3 DEF Begins
<1>6. Begins(s, r)
  BY <1>4, <1>5 DEF Begins
<1>7. QED
  BY <1>1, <1>6

(* The first pieces stay where they are when more follow.                  *)
LEMMA FlattenBegins ==
  ASSUME NEW S, NEW N \in Nat, NEW w, \A i \in 1 .. N : w[i] \in Seq(S),
         NEW F, \A n \in 0 .. N : F[n] \in Seq(S),
         \A n \in 0 .. N - 1 : F[n + 1] = F[n] \o w[n + 1],
         NEW m \in 0 .. N
  PROVE  Begins(F[m], F[N])
<1> DEFINE G == {k \in 0 .. N - m : Begins(F[m], F[m + k])}
<1>1. 0 \in G
  <2>1. m + 0 = m /\ 0 \in 0 .. N - m /\ F[m] \in Seq(S)
    OBVIOUS
  <2>2. Begins(F[m], F[m])
    BY <2>1 DEF Begins
  <2>3. QED
    BY <2>1, <2>2
<1>2. ASSUME NEW k \in 0 .. (N - m) - 1, k \in G PROVE k + 1 \in G
  <2>1. PICK i : i = m + k
    OBVIOUS
  <2>2. PICK j : j = i + 1
    OBVIOUS
  <2>3. i \in 0 .. N - 1 /\ i \in 0 .. N /\ j \in 1 .. N /\ m + (k + 1) = j /\ k + 1 \in 0 .. N - m
    BY <2>1, <2>2
  <2>4. PICK a, b, c : a = F[m] /\ b = F[i] /\ c = w[j]
    OBVIOUS
  <2>5. a \in Seq(S) /\ b \in Seq(S) /\ c \in Seq(S)
    BY <2>3, <2>4
  <2>6. Begins(a, b)
    BY <1>2, <2>1, <2>4
  <2>7. Begins(a, b \o c)
    BY <2>5, <2>6, BeginsJoined
  <2>8. F[j] = b \o c
    BY <2>2, <2>3, <2>4
  <2>9. Begins(F[m], F[j])
    BY <2>4, <2>7, <2>8
  <2>10. QED
    BY <2>3, <2>9
<1>3. N - m \in Nat
  OBVIOUS
<1>4. \A k \in 0 .. N - m : k \in G
  <2> HIDE DEF G
  <2>1. QED
    BY <1>1, <1>2, <1>3, UpTo
<1>5. PICK k : k = N - m
  OBVIOUS
<1>6. k \in 0 .. N - m /\ m + k = N
  BY <1>3, <1>5
<1>7. k \in G
  BY <1>4, <1>6
<1>8. QED
  BY <1>6, <1>7

(* How many characters the first n pieces of the format are.               *)
Pos(n) == Len(FlattenSeq([i \in 1 .. n |-> Written(given[i])]))

(* Where the pieces of a format are in it, and that it ends with a 0.      *)
LEMMA PiecesStand ==
  ASSUME given \in Formats
  PROVE  /\ Len(given) \in Nat /\ Len(format) \in Nat
         /\ \A i \in 1 .. Len(given) : IsGiven(given[i])
         /\ Pos(0) = 0 /\ At(Pos(Len(given))) = "NUL"
         /\ \A n \in 0 .. Len(given) - 1 :
              /\ Pos(n) \in Nat /\ Len(Written(given[n + 1])) \in Nat
              /\ Pos(n + 1) = Pos(n) + Len(Written(given[n + 1]))
              /\ Pos(n + 1) <= Len(format) - 1
              /\ Stands(Written(given[n + 1]), Pos(n))
<1>1. PICK N \in Nat : N = Len(given) /\ DOMAIN given = 1 .. N
  BY FormatAssumption
<1>2. ASSUME NEW i \in 1 .. N PROVE IsGiven(given[i])
  BY <1>1, FormatAssumption DEF IsGiven
<1>3. PICK w : w = [i \in 1 .. N |-> Written(given[i])]
  OBVIOUS
<1>4. PICK C : C = {given[i].conv : i \in 1 .. N}
  OBVIOUS
<1>5. PICK S : S = Before \cup C \cup {"NUL"}
  OBVIOUS
<1>6. \A i \in 1 .. N : w[i] \in Seq(S)
  <2>1. ASSUME NEW i \in 1 .. N PROVE w[i] \in Seq(S)
    <3>1. PICK d : d = given[i]
      OBVIOUS
    <3>2. IsGiven(d)
      BY <1>2, <3>1
    <3>3. d.conv \in C
      BY <1>4, <3>1
    <3>4. d.conv \in S /\ Before \subseteq S
      BY <1>5, <3>3
    <3>5. Written(d) \in Seq(S)
      BY <3>2, <3>4, WrittenIsSeq
    <3>6. QED
      BY <1>3, <3>1, <3>5
  <2>2. QED
    BY <2>1
<1>7. PICK F : F = [n \in 0 .. N |-> FlattenSeq([i \in 1 .. n |-> w[i]])]
  OBVIOUS
<1>8. /\ F[0] = <<>>
      /\ \A n \in 0 .. N : F[n] \in Seq(S)
      /\ \A n \in 0 .. N - 1 : F[n + 1] = F[n] \o w[n + 1]
  <2>1. SeqsOf(S, N, w) /\ IsFlat(N, w, F)
    BY <1>6, <1>7 DEF SeqsOf, IsFlat
  <2>2. FlatParts(S, N, w, F)
    BY <2>1, FlattenIs
  <2>3. QED
    BY <2>2 DEF FlatParts
<1>9. ASSUME NEW n \in 0 .. N
      PROVE  F[n] = FlattenSeq([i \in 1 .. n |-> Written(given[i])])
  <2>1. [i \in 1 .. n |-> w[i]] = [i \in 1 .. n |-> Written(given[i])]
    <3>1. ASSUME NEW i \in 1 .. n PROVE w[i] = Written(given[i])
      <4>1. i \in 1 .. N
        OBVIOUS
      <4>2. QED
        BY <1>3, <4>1
    <3>2. QED
      BY <3>1
  <2>2. F[n] = FlattenSeq([i \in 1 .. n |-> w[i]])
    BY <1>7
  <2>3. QED
    BY <2>1, <2>2, Zenon
<1>10. \A n \in 0 .. N : Pos(n) = Len(F[n])
  BY <1>9, Zenon DEF Pos
<1>11. PICK z : z = <<"NUL">>
  OBVIOUS
<1>12. z \in Seq(S) /\ Len(z) = 1 /\ z[1] = "NUL"
  <2>1. "NUL" \in S
    BY <1>5
  <2>2. QED
    BY <1>11, <2>1
<1>13. format = F[N] \o z
  <2>1. N \in 0 .. N
    OBVIOUS
  <2>2. F[N] = FlattenSeq([i \in 1 .. N |-> Written(given[i])])
    BY <1>9, <2>1
  <2>3. QED
    BY <1>1, <1>11, <2>2, Zenon DEF format
<1>14. PICK f, g : f = F[N] /\ g = format
  OBVIOUS
<1>15. f \in Seq(S) /\ g = f \o z
  BY <1>8, <1>13, <1>14
<1>16. g \in Seq(S) /\ Len(g) = Len(f) + 1
  BY <1>12, <1>15, Joined
<1>17. Len(f) \in Nat /\ Len(g) \in Nat
  BY <1>15, <1>16
<1>18. g[Len(f) + 1] = "NUL"
  BY <1>12, <1>15, LastIs
<1>19. At(Pos(N)) = "NUL"
  <2>1. Pos(N) = Len(f)
    BY <1>10, <1>14
  <2>2. QED
    BY <1>14, <1>18, <2>1, Zenon DEF At
<1>20. Pos(0) = 0
  BY <1>8, <1>10
<1>21. ASSUME NEW n \in 0 .. N - 1
       PROVE  /\ Pos(n) \in Nat /\ Len(Written(given[n + 1])) \in Nat
              /\ Pos(n + 1) = Pos(n) + Len(Written(given[n + 1]))
              /\ Pos(n + 1) <= Len(format) - 1
              /\ Stands(Written(given[n + 1]), Pos(n))
  <2>1. PICK m : m = n + 1
    OBVIOUS
  <2>2. m \in 1 .. N /\ m \in 0 .. N /\ n \in 0 .. N
    BY <2>1
  <2>3. PICK a, b, c : a = F[n] /\ b = w[m] /\ c = F[m]
    OBVIOUS
  <2>4. a \in Seq(S) /\ b \in Seq(S) /\ c \in Seq(S) /\ c = a \o b
    BY <1>6, <1>8, <2>1, <2>2, <2>3
  <2>5. b = Written(given[m])
    BY <1>3, <2>2, <2>3
  <2>6. Begins(c, f)
    BY <1>6, <1>8, <1>14, <2>2, <2>3, FlattenBegins
  <2>7. Begins(c, g)
    <3>1. Begins(c, f \o z)
      BY <1>12, <1>15, <2>4, <2>6, BeginsJoined
    <3>2. QED
      BY <1>15, <3>1
  <2>8. PICK k1 \in Nat, k2 \in Nat, k3 \in Nat : k1 = Len(a) /\ k2 = Len(b) /\ k3 = Len(c)
    BY <2>4
  <2>9. k3 = k1 + k2
    BY <2>4, <2>8, Joined
  <2>10. k3 <= Len(f)
    BY <2>6, <2>8 DEF Begins
  <2>11. k3 <= Len(g) - 1
    BY <1>16, <1>17, <2>10
  <2>12. ASSUME NEW k \in 1 .. k2 PROVE At(k1 + k - 1) = b[k]
    <3>1. PICK j : j = k1 + k
      OBVIOUS
    <3>2. j \in 1 .. k3 /\ (k1 + k - 1) + 1 = j
      BY <2>9, <3>1
    <3>3. g[j] = c[j]
      BY <2>7, <2>8, <3>2 DEF Begins
    <3>4. c[j] = b[k]
      BY <2>4, <2>8, <3>1
    <3>5. At(k1 + k - 1) = g[j]
      BY <1>14, <3>2, Zenon DEF At
    <3>6. QED
      BY <3>3, <3>4, <3>5
  <2>13. Stands(b, k1)
    BY <2>8, <2>12 DEF Stands
  <2>14. Pos(n) = k1 /\ Pos(m) = k3
    BY <1>10, <2>2, <2>3, <2>8
  <2>15. QED
    BY <1>14, <2>1, <2>5, <2>8, <2>9, <2>11, <2>13, <2>14
<1>22. QED
  BY <1>1, <1>2, <1>14, <1>17, <1>19, <1>20, <1>21, Zenon

Finds == given \in Formats /\ FindsWhatIsWritten

LEMMA FoundSoFar ==
  FindsWhatIsWritten <=> /\ Len(pieces) <= Len(given)
                         /\ pieces = [i \in 1 .. Len(pieces) |-> Means(given[i])]
                         /\ pos = Pos(Len(pieces))
BY Zenon DEF FindsWhatIsWritten, Pos

(* One piece: what each action adds, and where it goes on.                 *)
LEMMA ReadsPiece ==
  ASSUME given \in Formats, NEW n \in 0 .. Len(given) - 1, pos = Pos(n), ScanNext
  PROVE  /\ given' = given
         /\ pieces' = Append(pieces, Means(given[n + 1])) /\ pos' = Pos(n + 1)
<1>1. PICK N \in Nat : N = Len(given)
  BY PiecesStand
<1>2. PICK m : m = n + 1
  OBVIOUS
<1>3. m \in 1 .. N /\ n \in 0 .. N - 1
  BY <1>1, <1>2
<1>4. PICK d : d = given[m]
  OBVIOUS
<1>5. IsGiven(d) /\ Len(format) \in Nat
  BY <1>1, <1>3, <1>4, PiecesStand
<1>6. /\ pos \in Nat /\ Len(Written(d)) \in Nat
      /\ Pos(m) = pos + Len(Written(d)) /\ Pos(m) <= Len(format) - 1
      /\ Stands(Written(d), pos)
  BY <1>1, <1>2, <1>3, <1>4, PiecesStand
<1>7. IntValues \in Nat \ {0}
  BY FormatAssumption
<1>8. CASE d.plain
  <2>1. IsPlain(d)
    BY <1>5, <1>8 DEF IsGiven
  <2>2. PICK z : z = <<d.conv>>
    OBVIOUS
  <2>3. Written(d) = z
    BY <1>8, <2>2 DEF Written
  <2>4. z \in Seq({d.conv}) /\ Len(z) = 1 /\ z # <<>> /\ z[1] = d.conv
    BY <2>2
  <2>5. At(pos) = d.conv
    BY <1>6, <2>3, <2>4, FirstStands
  <2>6. At(pos) # "%"
    BY <2>1, <2>5 DEF IsPlain
  <2>7. ReadCharacter
    BY <2>6 DEF ScanNext, ReadDirective
  <2>8. Means(d) = [conv |-> At(pos), flags |-> {}, width |-> 0,
                   precision |-> None, size |-> "text"]
    <3>1. {Flag[d.flags[i]] : i \in DOMAIN d.flags} = {}
      BY <2>1 DEF IsPlain
    <3>2. d.width.value = 0 /\ d.precision.value = None /\ d.size.value = "text"
      BY <2>1 DEF IsPlain
    <3>3. QED
      BY <2>5, <3>1, <3>2, Zenon DEF Means
  <2>9. Pos(m) = pos + 1
    BY <1>6, <2>3, <2>4
  <2>10. QED
    BY <1>2, <1>4, <2>7, <2>8, <2>9, Zenon DEF ReadCharacter
<1>9. CASE ~ d.plain
  <2>1. IsDirective(d)
    BY <1>5, <1>9 DEF IsGiven
  <2>2. pos + Len(Written(d)) <= Len(format)
    BY <1>5, <1>6
  <2>3. At(pos) = "%" /\ Found(pos) = [piece |-> Means(d), next |-> pos + Len(Written(d))]
    BY <1>5, <1>6, <1>7, <1>9, <2>1, <2>2, FindsDirective
  <2>4. ReadDirective
    BY <2>3 DEF ScanNext, ReadCharacter
  <2>5. pieces' = Append(pieces, Found(pos).piece) /\ pos' = Found(pos).next /\ given' = given
    BY <2>4 DEF ReadDirective, Found
  <2>6. QED
    BY <1>2, <1>4, <1>6, <2>3, <2>5
<1>10. QED
  BY <1>8, <1>9

(* FindsWhatIsWritten is inductive once the format is one of Formats: at   *)
(* its end there is a 0, and neither action can be taken.                  *)
LEMMA FindsNext ==
  ASSUME Finds, [ScanNext]_scanvars
  PROVE  Finds'
<1>1. CASE UNCHANGED scanvars
  BY <1>1 DEF Finds, FindsWhatIsWritten, scanvars, Written
<1>2. CASE ScanNext
  <2>1. given \in Formats /\ Len(pieces) <= Len(given) /\ pos = Pos(Len(pieces))
        /\ pieces = [i \in 1 .. Len(pieces) |-> Means(given[i])]
    BY FoundSoFar DEF Finds
  <2>2. PICK N \in Nat : N = Len(given)
    BY <2>1, PiecesStand
  <2>3. PICK n : n = Len(pieces)
    OBVIOUS
  <2>4. pieces = [i \in 1 .. n |-> Means(given[i])]
    BY <2>1, <2>3
  <2>5. n \in Nat
    BY <2>1, <2>2, <2>3, <2>4
  <2>6. n # N
    <3>1. SUFFICES ASSUME n = N PROVE FALSE
      OBVIOUS
    <3>2. At(pos) = "NUL"
      BY <2>1, <2>2, <2>3, <3>1, PiecesStand
    <3>3. QED
      BY <1>2, <3>2 DEF ScanNext, ReadCharacter, ReadDirective
  <2>7. n \in 0 .. N - 1
    <3>1. n <= N
      BY <2>1, <2>2, <2>3
    <3>2. QED
      BY <2>2, <2>5, <2>6, <3>1
  <2>8. PICK m : m = n + 1
    OBVIOUS
  <2>9. /\ given' = given
        /\ pieces' = Append(pieces, Means(given[m])) /\ pos' = Pos(m)
    BY <1>2, <2>1, <2>2, <2>3, <2>7, <2>8, ReadsPiece
  <2>10. Len(pieces') = m /\ pieces' = [i \in 1 .. m |-> Means(given[i])]
    BY <2>4, <2>5, <2>8, <2>9
  <2>11. m <= Len(given)
    BY <2>2, <2>7, <2>8
  <2>12. FindsWhatIsWritten'
    BY <2>9, <2>10, <2>11, Zenon DEF FindsWhatIsWritten, Pos, Written
  <2>13. QED
    BY <2>1, <2>9, <2>12 DEF Finds
<1>3. QED
  BY <1>1, <1>2

(* Whatever the formats, however long and with any numbers an int can      *)
(* have, _vsnprintf's scanner (its loop, _atoi and the switch on the       *)
(* length) finds in each piece what was written, and nothing across the    *)
(* border of two pieces.                                                   *)
THEOREM ScannerFinds == ScanSpec => []FindsWhatIsWritten
<1>1. ScanInit => Finds
  <2>1. SUFFICES ASSUME ScanInit PROVE Finds
    OBVIOUS
  <2>2. given \in Formats /\ pos = 0 /\ pieces = <<>>
    BY <2>1 DEF ScanInit
  <2>3. Len(given) \in Nat /\ Pos(0) = 0
    BY <2>2, PiecesStand
  <2>4. Len(pieces) = 0 /\ pieces = [i \in 1 .. Len(pieces) |-> Means(given[i])]
    BY <2>2
  <2>5. QED
    BY <2>2, <2>3, <2>4, FoundSoFar DEF Finds
<1>2. Finds /\ [ScanNext]_scanvars => Finds'
  BY FindsNext
<1>3. Finds => FindsWhatIsWritten
  BY DEF Finds
<1>4. QED
  BY <1>1, <1>2, <1>3, PTL DEF ScanSpec

-----------------------------------------------------------------------------
(* Sequences.                                                              *)

(* A sequence, whatever is in it.                                          *)
IsSeq(s) == \E S : s \in Seq(S)

(* Its length, and that it is known by its elements.                       *)
LEMMA LenIs ==
  ASSUME NEW s, IsSeq(s)
  PROVE  Len(s) \in Nat /\ DOMAIN s = 1 .. Len(s) /\ s = [i \in 1 .. Len(s) |-> s[i]]
BY DEF IsSeq

(* A function on 1 .. n is one of n elements.                              *)
LEMMA FunctionIsSeq ==
  ASSUME NEW n \in Nat, NEW s, DOMAIN s = 1 .. n, s = [i \in 1 .. n |-> s[i]]
  PROVE  IsSeq(s) /\ Len(s) = n
<1> DEFINE S == {s[i] : i \in 1 .. n}
<1>1. \A i \in 1 .. n : s[i] \in S
  OBVIOUS
<1> HIDE DEF S
<1>2. s \in [1 .. n -> S]
  BY <1>1
<1>3. s \in Seq(S) /\ Len(s) = n
  BY <1>2
<1>4. QED
  BY <1>3 DEF IsSeq

(* Two sequences are of the elements of both.                              *)
LEMMA InBoth ==
  ASSUME NEW s, NEW t, IsSeq(s), IsSeq(t)
  PROVE  \E S : s \in Seq(S) /\ t \in Seq(S)
<1>1. PICK A : s \in Seq(A)
  BY DEF IsSeq
<1>2. PICK B : t \in Seq(B)
  BY DEF IsSeq
<1>3. PICK S : S = A \cup B
  OBVIOUS
<1>4. A \subseteq S /\ B \subseteq S
  BY <1>3
<1>5. s \in Seq(S)
  BY <1>1, <1>4, SeqGrows
<1>6. t \in Seq(S)
  BY <1>2, <1>4, SeqGrows
<1>7. QED
  BY <1>5, <1>6

(* Two joined.                                                             *)
LEMMA JoinIs ==
  ASSUME NEW s, NEW t, IsSeq(s), IsSeq(t)
  PROVE  /\ IsSeq(s \o t) /\ Len(s \o t) = Len(s) + Len(t)
         /\ \A i \in 1 .. Len(s) : (s \o t)[i] = s[i]
         /\ \A i \in 1 .. Len(t) : (s \o t)[Len(s) + i] = t[i]
<1>1. PICK S : s \in Seq(S) /\ t \in Seq(S)
  BY InBoth
<1>2. s \o t \in Seq(S) /\ Len(s \o t) = Len(s) + Len(t)
  BY <1>1, Joined
<1>3. PICK L \in Nat, M \in Nat : L = Len(s) /\ M = Len(t)
  BY <1>1
<1>4. /\ \A i \in 1 .. L : (s \o t)[i] = s[i]
      /\ \A i \in 1 .. M : (s \o t)[L + i] = t[i]
  BY <1>1, <1>3
<1>5. IsSeq(s \o t)
  BY <1>2 DEF IsSeq
<1>6. QED
  BY <1>2, <1>3, <1>4, <1>5

(* One with an element more.                                               *)
LEMMA AppendIs ==
  ASSUME NEW s, NEW c, IsSeq(s)
  PROVE  /\ IsSeq(Append(s, c)) /\ Len(Append(s, c)) = Len(s) + 1
         /\ \A i \in 1 .. Len(s) : Append(s, c)[i] = s[i]
         /\ Append(s, c)[Len(s) + 1] = c
<1>1. PICK A : s \in Seq(A)
  BY DEF IsSeq
<1>2. PICK S : S = A \cup {c}
  OBVIOUS
<1>3. A \subseteq S /\ c \in S
  BY <1>2
<1>4. s \in Seq(S)
  BY <1>1, <1>3, SeqGrows
<1>5. Append(s, c) \in Seq(S)
  BY <1>3, <1>4
<1>6. /\ Len(Append(s, c)) = Len(s) + 1
      /\ \A i \in 1 .. Len(s) : Append(s, c)[i] = s[i]
      /\ Append(s, c)[Len(s) + 1] = c
  BY <1>3, <1>4
<1>7. QED
  BY <1>5, <1>6 DEF IsSeq

(* Two with the same elements are the same.                                *)
LEMMA SameSeq ==
  ASSUME NEW s, NEW t, IsSeq(s), IsSeq(t), Len(s) = Len(t),
         \A i \in 1 .. Len(s) : s[i] = t[i]
  PROVE  s = t
<1>1. s = [i \in 1 .. Len(s) |-> s[i]] /\ t = [i \in 1 .. Len(t) |-> t[i]]
  BY LenIs
<1>2. QED
  BY <1>1

(* One read backwards.                                                     *)
LEMMA ReverseIs ==
  ASSUME NEW s, IsSeq(s)
  PROVE  /\ IsSeq(Reverse(s)) /\ Len(Reverse(s)) = Len(s)
         /\ \A i \in 1 .. Len(s) : Reverse(s)[i] = s[Len(s) + 1 - i]
<1>1. PICK L \in Nat : L = Len(s)
  BY LenIs
<1>2. PICK r : r = Reverse(s)
  OBVIOUS
<1>3. r = [i \in 1 .. L |-> s[(L - i) + 1]]
  BY <1>1, <1>2 DEF Reverse
<1>4. DOMAIN r = 1 .. L /\ r = [i \in 1 .. L |-> r[i]]
  BY <1>3
<1>5. IsSeq(r) /\ Len(r) = L
  BY <1>4, FunctionIsSeq
<1>6. \A i \in 1 .. L : r[i] = s[L + 1 - i]
  <2>1. ASSUME NEW i \in 1 .. L PROVE r[i] = s[L + 1 - i]
    <3>1. (L - i) + 1 = L + 1 - i
      OBVIOUS
    <3>2. QED
      BY <1>3, <3>1
  <2>2. QED
    BY <2>1
<1>7. QED
  BY <1>1, <1>2, <1>5, <1>6

(* The same element n times.                                               *)
LEMMA RepeatIs ==
  ASSUME NEW c, NEW n \in Int
  PROVE  /\ IsSeq(Repeat(c, n)) /\ Len(Repeat(c, n)) = (IF n > 0 THEN n ELSE 0)
         /\ \A i \in 1 .. n : Repeat(c, n)[i] = c
<1>1. PICK m \in Nat : m = IF n > 0 THEN n ELSE 0
  OBVIOUS
<1>2. 1 .. n = 1 .. m
  BY <1>1
<1>3. PICK r : r = Repeat(c, n)
  OBVIOUS
<1>4. r = [i \in 1 .. m |-> c]
  BY <1>2, <1>3 DEF Repeat
<1>5. DOMAIN r = 1 .. m /\ r = [i \in 1 .. m |-> r[i]] /\ \A i \in 1 .. m : r[i] = c
  BY <1>4
<1>6. IsSeq(r) /\ Len(r) = m
  BY <1>5, FunctionIsSeq
<1>7. QED
  BY <1>1, <1>2, <1>3, <1>5, <1>6

(* Filling is the same space n times.                                      *)
LEMMA SpacesAre == ASSUME NEW n PROVE Spaces(n) = Repeat(" ", n)
BY DEF Spaces, Repeat

(* One element.                                                            *)
LEMMA SingleIs ==
  ASSUME NEW c
  PROVE  IsSeq(<<c>>) /\ Len(<<c>>) = 1 /\ <<c>>[1] = c
<1>1. <<c>> \in Seq({c})
  OBVIOUS
<1>2. QED
  BY <1>1 DEF IsSeq

(* None.                                                                   *)
LEMMA NothingIs == IsSeq(<<>>) /\ Len(<<>>) = 0
<1>1. <<>> \in Seq({})
  OBVIOUS
<1>2. QED
  BY <1>1 DEF IsSeq

(* Nothing joined changes nothing.                                         *)
LEMMA JoinNothing ==
  ASSUME NEW s, IsSeq(s)
  PROVE  <<>> \o s = s /\ s \o <<>> = s
BY ConcatEmptySeq DEF IsSeq

(* Joining is associative.                                                 *)
LEMMA JoinThree ==
  ASSUME NEW s, NEW t, NEW u, IsSeq(s), IsSeq(t), IsSeq(u)
  PROVE  (s \o t) \o u = s \o (t \o u)
<1>1. PICK S : s \in Seq(S) /\ t \in Seq(S)
  BY InBoth
<1>2. PICK C : u \in Seq(C)
  BY DEF IsSeq
<1>3. PICK T : T = S \cup C
  OBVIOUS
<1>4. S \subseteq T /\ C \subseteq T
  BY <1>3
<1>5. s \in Seq(T) /\ t \in Seq(T)
  BY <1>1, <1>4, SeqGrows
<1>6. u \in Seq(T)
  BY <1>2, <1>4, SeqGrows
<1>7. QED
  BY <1>5, <1>6, ConcatAssociative

(* What is appended last is read first.                                    *)
LEMMA ReverseAppend ==
  ASSUME NEW s, NEW c, IsSeq(s)
  PROVE  Reverse(Append(s, c)) = <<c>> \o Reverse(s)
<1>1. PICK L \in Nat : L = Len(s)
  BY LenIs
<1>2. PICK a, b, x, r, z :
        /\ a = Append(s, c) /\ z = <<c>> /\ r = Reverse(s)
        /\ x = Reverse(a) /\ b = z \o r
  OBVIOUS
<1>3. IsSeq(a) /\ Len(a) = L + 1 /\ a[L + 1] = c /\ \A i \in 1 .. L : a[i] = s[i]
  BY <1>1, <1>2, AppendIs
<1>4. IsSeq(z) /\ Len(z) = 1 /\ z[1] = c
  BY <1>2, SingleIs
<1>5. IsSeq(r) /\ Len(r) = L /\ \A i \in 1 .. L : r[i] = s[L + 1 - i]
  BY <1>1, <1>2, ReverseIs
<1>6. IsSeq(x) /\ Len(x) = L + 1 /\ \A i \in 1 .. L + 1 : x[i] = a[L + 1 + 1 - i]
  <2>1. PICK M : M = L + 1
    OBVIOUS
  <2>4. Len(a) = M
    BY <1>3, <2>1
  <2>5. IsSeq(x) /\ Len(x) = Len(a) /\ \A i \in 1 .. Len(a) : x[i] = a[Len(a) + 1 - i]
    BY <1>2, <1>3, ReverseIs, Zenon
  <2>2. IsSeq(x) /\ Len(x) = M /\ \A i \in 1 .. M : x[i] = a[M + 1 - i]
    BY <2>4, <2>5
  <2>3. QED
    BY <2>1, <2>2
<1>7. IsSeq(b) /\ Len(b) = 1 + L /\ b[1] = c /\ \A i \in 1 .. L : b[1 + i] = r[i]
  <2>1. /\ IsSeq(b) /\ Len(b) = Len(z) + Len(r)
        /\ \A i \in 1 .. Len(z) : b[i] = z[i]
        /\ \A i \in 1 .. Len(r) : b[Len(z) + i] = r[i]
    BY <1>2, <1>4, <1>5, JoinIs
  <2>2. QED
    BY <1>4, <1>5, <2>1
<1>8. ASSUME NEW i \in 1 .. L + 1 PROVE x[i] = b[i]
  <2>1. CASE i = 1
    <3>1. x[1] = a[L + 1]
      <4>1. L + 1 + 1 - 1 = L + 1 /\ 1 \in 1 .. L + 1
        OBVIOUS
      <4>2. QED
        BY <1>6, <4>1
    <3>2. QED
      BY <1>3, <1>7, <2>1, <3>1
  <2>2. CASE i # 1
    <3>1. PICK j : j = i - 1
      OBVIOUS
    <3>2. PICK k : k = L + 1 - j
      OBVIOUS
    <3>3. j \in 1 .. L /\ i = 1 + j /\ k \in 1 .. L /\ L + 1 + 1 - i = k
      BY <2>2, <3>1, <3>2
    <3>4. x[i] = a[k] /\ a[k] = s[k]
      BY <1>3, <1>6, <3>3
    <3>5. b[i] = r[j] /\ r[j] = s[k]
      BY <1>5, <1>7, <3>2, <3>3
    <3>6. QED
      BY <3>4, <3>5
  <2>3. QED
    BY <2>1, <2>2
<1>9. x = b
  BY <1>6, <1>7, <1>8, SameSeq
<1>10. QED
  BY <1>2, <1>9

-----------------------------------------------------------------------------
(* The buffer of a number.                                                 *)

(* The buffer with L characters of a numeral g and zeros, the last first.  *)
Filled(g, L) == [i \in 1 .. L |-> IF i <= Len(g) THEN g[Len(g) + 1 - i] ELSE "0"]

(* Its elements.                                                           *)
LEMMA FilledIs ==
  ASSUME NEW g, IsSeq(g), NEW L \in Nat
  PROVE  /\ IsSeq(Filled(g, L)) /\ Len(Filled(g, L)) = L
         /\ \A i \in 1 .. L : Filled(g, L)[i] = IF i <= Len(g) THEN g[Len(g) + 1 - i] ELSE "0"
<1>1. PICK f : f = Filled(g, L)
  OBVIOUS
<1>2. /\ DOMAIN f = 1 .. L /\ f = [i \in 1 .. L |-> f[i]]
      /\ \A i \in 1 .. L : f[i] = IF i <= Len(g) THEN g[Len(g) + 1 - i] ELSE "0"
  BY <1>1 DEF Filled
<1>3. IsSeq(f) /\ Len(f) = L
  BY <1>2, FunctionIsSeq
<1>4. QED
  BY <1>1, <1>2, <1>3

(* Of no characters.                                                       *)
LEMMA FilledNone ==
  ASSUME NEW g
  PROVE  Filled(g, 0) = <<>>
BY DEF Filled

(* The next digit, or a zero behind the digits, fills one place more.      *)
LEMMA FilledAppend ==
  ASSUME NEW g, IsSeq(g), NEW L \in Nat, NEW c,
         c = IF L < Len(g) THEN g[Len(g) - L] ELSE "0"
  PROVE  Append(Filled(g, L), c) = Filled(g, L + 1)
<1>1. PICK D \in Nat : D = Len(g)
  BY LenIs
<1>2. PICK M : M = L + 1
  OBVIOUS
<1>3. M \in Nat
  BY <1>2
<1>4. PICK f, h, a : f = Filled(g, L) /\ h = Filled(g, M) /\ a = Append(f, c)
  OBVIOUS
<1>5. /\ IsSeq(f) /\ Len(f) = L
      /\ \A i \in 1 .. L : f[i] = IF i <= D THEN g[D + 1 - i] ELSE "0"
  BY <1>1, <1>4, FilledIs
<1>6. /\ IsSeq(h) /\ Len(h) = M
      /\ \A i \in 1 .. M : h[i] = IF i <= D THEN g[D + 1 - i] ELSE "0"
  BY <1>1, <1>3, <1>4, FilledIs
<1>7. IsSeq(a) /\ Len(a) = M /\ a[M] = c /\ \A i \in 1 .. L : a[i] = f[i]
  <2>1. /\ IsSeq(a) /\ Len(a) = Len(f) + 1 /\ a[Len(f) + 1] = c
        /\ \A i \in 1 .. Len(f) : a[i] = f[i]
    <3>1. /\ IsSeq(Append(f, c)) /\ Len(Append(f, c)) = Len(f) + 1
          /\ Append(f, c)[Len(f) + 1] = c
          /\ \A i \in 1 .. Len(f) : Append(f, c)[i] = f[i]
      BY <1>5, AppendIs
    <3>2. QED
      BY <1>4, <3>1
  <2>2. QED
    BY <1>2, <1>5, <2>1
<1>8. ASSUME NEW i \in 1 .. M PROVE a[i] = h[i]
  <2>1. CASE i = M
    <3>1. M <= D <=> L < D
      BY <1>2
    <3>2. D + 1 - M = D - L
      BY <1>2
    <3>3. h[M] = IF M <= D THEN g[D + 1 - M] ELSE "0"
      BY <1>6, <2>1
    <3>4. c = IF L < D THEN g[D - L] ELSE "0"
      BY <1>1
    <3>5. h[M] = c
      BY <3>1, <3>2, <3>3, <3>4
    <3>6. QED
      BY <1>7, <2>1, <3>5
  <2>2. CASE i # M
    <3>1. i \in 1 .. L
      BY <1>2, <2>2
    <3>2. QED
      BY <1>5, <1>6, <1>7, <3>1
  <2>3. QED
    BY <2>1, <2>2
<1>9. a = h
  <2>1. Len(a) = Len(h) /\ \A i \in 1 .. Len(a) : a[i] = h[i]
    BY <1>6, <1>7, <1>8
  <2>2. QED
    BY <1>6, <1>7, <2>1, SameSeq
<1>10. QED
  BY <1>2, <1>4, <1>9

(* Cut to its first m characters.                                          *)
LEMMA FilledCut ==
  ASSUME NEW g, IsSeq(g), NEW L \in Nat, NEW m \in Nat, m <= L
  PROVE  SubSeq(Filled(g, L), 1, m) = Filled(g, m)
<1>1. PICK D \in Nat : D = Len(g)
  BY LenIs
<1>4. PICK f, h, a : f = Filled(g, L) /\ h = Filled(g, m) /\ a = SubSeq(f, 1, m)
  OBVIOUS
<1>5. /\ IsSeq(f) /\ Len(f) = L
      /\ \A i \in 1 .. L : f[i] = IF i <= D THEN g[D + 1 - i] ELSE "0"
  BY <1>1, <1>4, FilledIs
<1>6. /\ IsSeq(h) /\ Len(h) = m
      /\ \A i \in 1 .. m : h[i] = IF i <= D THEN g[D + 1 - i] ELSE "0"
  BY <1>1, <1>4, FilledIs
<1>7. IsSeq(a) /\ Len(a) = m /\ \A i \in 1 .. m : a[i] = f[i]
  <2>1. PICK S : f \in Seq(S)
    BY <1>5 DEF IsSeq
  <2>2. \A i \in 1 .. m : f[i] \in S
    BY <1>5, <2>1
  <2>3. /\ a \in Seq(S) /\ Len(a) = (IF 1 <= m THEN m - 1 + 1 ELSE 0)
        /\ \A i \in 1 .. m - 1 + 1 : a[i] = f[1 + i - 1]
    BY <1>4, <2>2, SubSeqProperties
  <2>4. m - 1 + 1 = m /\ \A i \in 1 .. m : 1 + i - 1 = i
    OBVIOUS
  <2>5. Len(a) = m
    BY <2>3
  <2>6. \A i \in 1 .. m : a[i] = f[i]
    BY <2>3, <2>4
  <2>7. QED
    BY <2>3, <2>5, <2>6 DEF IsSeq
<1>8. Len(a) = Len(h) /\ \A i \in 1 .. Len(a) : a[i] = h[i]
  BY <1>5, <1>6, <1>7
<1>9. a = h
  BY <1>6, <1>7, <1>8, SameSeq
<1>10. QED
  BY <1>4, <1>9

(* Backwards it is the numeral after its zeros.                            *)
LEMMA FilledReverse ==
  ASSUME NEW g, IsSeq(g), NEW L \in Nat, Len(g) <= L
  PROVE  Reverse(Filled(g, L)) = Repeat("0", L - Len(g)) \o g
<1>1. PICK D \in Nat : D = Len(g)
  BY LenIs
<1>2. PICK n \in Nat : n = L - D
  BY <1>1
<1>4. PICK f, r, z, b : f = Filled(g, L) /\ r = Reverse(f) /\ z = Repeat("0", n) /\ b = z \o g
  OBVIOUS
<1>5. /\ IsSeq(f) /\ Len(f) = L
      /\ \A i \in 1 .. L : f[i] = IF i <= D THEN g[D + 1 - i] ELSE "0"
  BY <1>1, <1>4, FilledIs
<1>6. IsSeq(r) /\ Len(r) = L /\ \A i \in 1 .. L : r[i] = f[L + 1 - i]
  <2>1. IsSeq(r) /\ Len(r) = Len(f) /\ \A i \in 1 .. Len(f) : r[i] = f[Len(f) + 1 - i]
    BY <1>4, <1>5, ReverseIs, Zenon
  <2>2. QED
    BY <1>5, <2>1
<1>7. IsSeq(z) /\ Len(z) = n /\ \A i \in 1 .. n : z[i] = "0"
  <2>1. n \in Int
    OBVIOUS
  <2>2. IsSeq(z) /\ Len(z) = (IF n > 0 THEN n ELSE 0) /\ \A i \in 1 .. n : z[i] = "0"
    BY <1>4, <2>1, RepeatIs
  <2>3. QED
    BY <2>2
<1>8. /\ IsSeq(b) /\ Len(b) = n + D
      /\ \A i \in 1 .. n : b[i] = z[i]
      /\ \A i \in 1 .. D : b[n + i] = g[i]
  <2>1. /\ IsSeq(b) /\ Len(b) = Len(z) + Len(g)
        /\ \A i \in 1 .. Len(z) : b[i] = z[i]
        /\ \A i \in 1 .. Len(g) : b[Len(z) + i] = g[i]
    <3>1. IsSeq(z) /\ IsSeq(g)
      BY <1>7
    <3>2. /\ IsSeq(z \o g) /\ Len(z \o g) = Len(z) + Len(g)
          /\ \A i \in 1 .. Len(z) : (z \o g)[i] = z[i]
          /\ \A i \in 1 .. Len(g) : (z \o g)[Len(z) + i] = g[i]
      BY <3>1, JoinIs
    <3>3. QED
      BY <1>4, <3>2
  <2>2. QED
    BY <1>1, <1>7, <2>1
<1>9. ASSUME NEW i \in 1 .. L PROVE r[i] = b[i]
  <2>1. PICK j : j = L + 1 - i
    OBVIOUS
  <2>2. j \in 1 .. L
    BY <2>1
  <2>3. r[i] = IF j <= D THEN g[D + 1 - j] ELSE "0"
    BY <1>5, <1>6, <2>1, <2>2
  <2>4. CASE i <= n
    <3>1. ~ j <= D /\ i \in 1 .. n
      BY <1>2, <2>1, <2>4
    <3>2. QED
      BY <1>7, <1>8, <2>3, <3>1
  <2>5. CASE ~ i <= n
    <3>1. PICK k : k = i - n
      OBVIOUS
    <3>2. j <= D /\ k \in 1 .. D /\ i = n + k /\ D + 1 - j = k
      BY <1>2, <2>1, <2>5, <3>1
    <3>3. QED
      BY <1>8, <2>3, <3>2
  <2>6. QED
    BY <2>4, <2>5
<1>10. r = b
  <2>1. Len(r) = Len(b) /\ \A i \in 1 .. Len(r) : r[i] = b[i]
    BY <1>2, <1>6, <1>8, <1>9
  <2>2. QED
    BY <1>6, <1>8, <2>1, SameSeq
<1>11. QED
  BY <1>1, <1>2, <1>4, <1>10

-----------------------------------------------------------------------------
(* Casts.                                                                  *)

(* The argument cut to its size, of m = 2 * h values.                      *)
LEMMA Quotient ==
  ASSUME NEW x \in Int, NEW m \in Nat \ {0}
  PROVE  \E q \in Int, t \in 0 .. m - 1 : x = m * q + t /\ x % m = t
<1>1. x \div m \in Int /\ x % m \in 0 .. m - 1 /\ x = m * (x \div m) + (x % m)
  BY Z3
<1>2. QED
  BY <1>1

(* The remainder of a number written as quotient and remainder.            *)
LEMMA RemainderIs ==
  ASSUME NEW q \in Int, NEW m \in Nat \ {0}, NEW t \in 0 .. m - 1
  PROVE  (m * q + t) % m = t
<1>1. PICK x \in Int : x = m * q + t
  OBVIOUS
<1>2. PICK p \in Int, s \in 0 .. m - 1 : x = m * p + s /\ x % m = s
  BY Quotient
<1>3. m * (p - q) = t - s
  BY <1>1, <1>2
<1>4. PICK k \in Int : k = p - q
  OBVIOUS
<1>5. k = 0
  <2>1. m * k = t - s /\ t - s < m /\ t - s > - m
    BY <1>3, <1>4
  <2>2. ~ k >= 1
    <3>1. ASSUME k >= 1 PROVE FALSE
      <4>1. m * k >= m
        BY <3>1
      <4>2. QED
        BY <2>1, <4>1
    <3>2. QED
      BY <3>1
  <2>3. ~ k <= -1
    <3>1. ASSUME k <= -1 PROVE FALSE
      <4>1. m * k <= - m
        BY <3>1
      <4>2. QED
        BY <2>1, <4>1
    <3>2. QED
      BY <3>1
  <2>4. QED
    BY <2>2, <2>3
<1>6. s = t
  BY <1>3, <1>4, <1>5
<1>7. QED
  BY <1>1, <1>2, <1>6

(* Two numbers have the same remainder when m divides their difference.    *)
LEMMA SameRemainder ==
  ASSUME NEW m \in Nat \ {0}, NEW x \in Int, NEW y \in Int
  PROVE  (x - y) % m = 0 <=> x % m = y % m
<1>1. PICK p \in Int, s \in 0 .. m - 1 : x = m * p + s /\ x % m = s
  BY Quotient
<1>2. PICK q \in Int, t \in 0 .. m - 1 : y = m * q + t /\ y % m = t
  BY Quotient
<1>3. PICK k \in Int : k = p - q
  OBVIOUS
<1>4. PICK z \in Int : z = x - y
  OBVIOUS
<1>5. z = m * k + (s - t)
  BY <1>1, <1>2, <1>3, <1>4
<1>6. CASE s >= t
  <2>1. PICK r \in 0 .. m - 1 : r = s - t
    BY <1>6
  <2>2. (m * k + r) % m = r
    BY RemainderIs
  <2>3. z % m = r
    BY <1>5, <2>1, <2>2
  <2>4. QED
    BY <1>1, <1>2, <1>4, <2>1, <2>3
<1>7. CASE s < t
  <2>1. PICK r \in 1 .. m - 1 : r = s - t + m
    BY <1>7
  <2>2. PICK j \in Int : j = k - 1
    OBVIOUS
  <2>3. z = m * j + r
    BY <1>5, <2>1, <2>2
  <2>4. (m * j + r) % m = r
    BY RemainderIs
  <2>5. z % m # 0
    BY <2>3, <2>4
  <2>6. QED
    BY <1>1, <1>2, <1>4, <1>7, <2>5
<1>8. QED
  BY <1>6, <1>7

(* The numbers of B bits are two halves.                                   *)
LEMMA HalfIs ==
  ASSUME NEW B \in Nat \ {0}
  PROVE  \E h \in Nat \ {0} : Power(2)[B] = 2 * h /\ Power(2)[B] \div 2 = h
<1>1. PICK A \in Nat : B = A + 1
  <2>1. B - 1 \in Nat /\ B = (B - 1) + 1
    OBVIOUS
  <2>2. QED
    BY <2>1
<1>2. 2 \in Nat \ {0}
  OBVIOUS
<1>3. \A n \in Nat : Power(2)[n] \in Nat \ {0} /\ Power(2)[n + 1] = 2 * Power(2)[n]
  BY <1>2, PowerIs, Zenon
<1>4. PICK h \in Nat \ {0} : h = Power(2)[A]
  BY <1>3
<1>5. PICK m : m = Power(2)[B]
  OBVIOUS
<1>6. m = 2 * h
  BY <1>1, <1>3, <1>4, <1>5
<1>7. m \div 2 = h
  BY <1>6
<1>8. QED
  BY <1>5, <1>6, <1>7

(* The casts of the code (printf.c:722-753) leave what C's conversion      *)
(* prints, of a magnitude that has no more bits than the type.             *)
LEMMA CastIs ==
  ASSUME NEW d, Bits[d.size] \in Nat \ {0}, NEW v \in Int, v = d.args[Len(d.args)].value
  PROVE  /\ Cast(d, v) = ValueOf(d) /\ ValueOf(d) \in Int
         /\ Magnitude(ValueOf(d)) \in Nat /\ Magnitude(ValueOf(d)) < Power(2)[Bits[d.size]]
         /\ ~ Signed(d) => ValueOf(d) >= 0
<1>1. PICK h \in Nat \ {0} : Power(2)[Bits[d.size]] = 2 * h /\ Power(2)[Bits[d.size]] \div 2 = h
  BY HalfIs
<1>2. PICK m \in Nat \ {0} : m = Power(2)[Bits[d.size]] /\ m = 2 * h /\ m \div 2 = h
  BY <1>1
<1>3. PICK t \in 0 .. m - 1 : v % m = t
  BY Quotient
<1>4. PICK r : r = Cast(d, v)
  OBVIOUS
<1>5. r = IF Signed(d) /\ t >= h THEN t - m ELSE t
  BY <1>2, <1>3, <1>4 DEF Cast
<1>6. r \in Int /\ r % m = t
  <2>1. CASE r = t
    <3>1. (m * 0 + t) % m = t
      BY RemainderIs
    <3>2. m * 0 + t = t
      OBVIOUS
    <3>3. QED
      BY <2>1, <3>1, <3>2
  <2>2. CASE r = t - m
    <3>1. PICK k \in Int : k = -1
      OBVIOUS
    <3>2. (m * k + t) % m = t
      BY RemainderIs
    <3>3. m * k + t = t - m
      BY <3>1
    <3>4. QED
      BY <2>2, <3>2, <3>3
  <2>3. QED
    BY <1>5, <2>1, <2>2
<1>7. r \in IF Signed(d) THEN - h .. h - 1 ELSE 0 .. m - 1
  BY <1>2, <1>5
<1>17. PICK r1 \in Int : r1 = r
  BY <1>6
<1>18. (r1 - v) % m = 0 <=> r1 % m = v % m
  BY SameRemainder
<1>8. (r - v) % m = 0
  BY <1>3, <1>6, <1>17, <1>18
<1>15. PICK R : R = IF Signed(d) THEN - h .. h - 1 ELSE 0 .. m - 1
  OBVIOUS
<1>16. R \subseteq Int /\ \A x \in R : \A y \in R : x - y < m
  <2>1. CASE Signed(d)
    <3>1. R = - h .. h - 1
      BY <1>15, <2>1
    <3>2. QED
      BY <1>2, <3>1
  <2>2. CASE ~ Signed(d)
    <3>1. R = 0 .. m - 1
      BY <1>15, <2>2
    <3>2. QED
      BY <1>2, <3>1
  <2>3. QED
    BY <2>1, <2>2
<1>9. r \in R
  BY <1>7, <1>15, Zenon
<1>10. \A n \in R : (n - v) % m = 0 => n = r
  <2>1. ASSUME NEW n \in R, (n - v) % m = 0
        PROVE  n = r
    <3>1. n \in Int
      BY <1>16
    <3>12. PICK n1 \in Int : n1 = n
      BY <3>1
    <3>13. (n1 - v) % m = 0 <=> n1 % m = v % m
      BY SameRemainder
    <3>2. n % m = t
      BY <1>3, <2>1, <3>12, <3>13
    <3>14. PICK q \in Int, t1 \in 0 .. m - 1 : n1 = m * q + t1 /\ n1 % m = t1
      BY Quotient
    <3>3. n = m * q + t
      BY <3>2, <3>12, <3>14
    <3>15. PICK p \in Int, t2 \in 0 .. m - 1 : r1 = m * p + t2 /\ r1 % m = t2
      BY Quotient
    <3>4. r = m * p + t
      BY <1>6, <1>17, <3>15
    <3>5. PICK k \in Int : k = q - p
      OBVIOUS
    <3>6. n - r = m * k
      BY <3>3, <3>4, <3>5
    <3>7. n - r < m /\ r - n < m
      BY <1>9, <1>16
    <3>8. ~ k >= 1
      <4>1. ASSUME k >= 1 PROVE m * k >= m
        BY <4>1
      <4>2. QED
        BY <1>6, <3>1, <3>6, <3>7, <4>1
    <3>9. ~ k <= -1
      <4>1. ASSUME k <= -1 PROVE m * k <= - m
        BY <4>1
      <4>2. QED
        BY <1>6, <3>1, <3>6, <3>7, <4>1
    <3>10. k = 0
      BY <3>8, <3>9
    <3>11. QED
      BY <1>6, <3>1, <3>6, <3>10
  <2>2. QED
    BY <2>1
<1>11. ValueOf(d) = r
  <2>2. ValueOf(d) = CHOOSE n \in R : (n - v) % m = 0
    BY <1>2, <1>15 DEF ValueOf
  <2>3. r \in R /\ (r - v) % m = 0 /\ \A n \in R : (n - v) % m = 0 => n = r
    BY <1>8, <1>9, <1>10
  <2>4. QED
    BY <2>2, <2>3
<1>12. Magnitude(r) \in Nat /\ Magnitude(r) < m
  BY <1>2, <1>6, <1>7 DEF Magnitude
<1>13. ~ Signed(d) => r >= 0
  BY <1>7
<1>14. QED
  BY <1>2, <1>4, <1>6, <1>11, <1>12, <1>13

-----------------------------------------------------------------------------
(* Digits.                                                                 *)

(* Positional notation.                                                    *)
LEMMA QuotientIs ==
  ASSUME NEW q \in Int, NEW m \in Nat \ {0}, NEW t \in 0 .. m - 1
  PROVE  (m * q + t) \div m = q
<1>1. PICK x \in Int : x = m * q + t
  OBVIOUS
<1>2. x % m = t
  BY <1>1, RemainderIs
<1>3. PICK p \in Int : p = x \div m
  OBVIOUS
<1>4. x = m * p + t
  <2>1. x = m * (x \div m) + (x % m)
    BY Z3
  <2>2. QED
    BY <1>2, <1>3, <2>1
<1>5. PICK k \in Int : k = p - q
  OBVIOUS
<1>6. m * k = 0
  BY <1>1, <1>4, <1>5
<1>7. k = 0
  BY <1>6
<1>8. QED
  BY <1>1, <1>3, <1>5, <1>7

(* Dividing twice.                                                         *)
LEMMA DivTwice ==
  ASSUME NEW v \in Nat, NEW b \in Nat \ {0}, NEW c \in Nat \ {0}
  PROVE  (v \div c) \div b = v \div (b * c)
<1>11. v \in Int
  OBVIOUS
<1>1. PICK q \in Int, r \in 0 .. c - 1 : v = c * q + r /\ v % c = r
  BY <1>11, Quotient
<1>2. v \div c = q
  BY <1>1, QuotientIs
<1>3. PICK s \in Int, t \in 0 .. b - 1 : q = b * s + t /\ q % b = t
  BY Quotient
<1>4. q \div b = s
  BY <1>3, QuotientIs
<1>5. PICK m \in Nat \ {0} : m = b * c
  OBVIOUS
<1>6. PICK u \in Nat : u = c * t + r
  <2>1. c * t \in Nat
    OBVIOUS
  <2>2. QED
    BY <2>1
<1>7. u <= m - 1
  <2>1. c * t <= c * (b - 1)
    OBVIOUS
  <2>2. c * (b - 1) = m - c
    BY <1>5
  <2>3. PICK w \in Int : w = c * t
    OBVIOUS
  <2>4. w <= m - c /\ u = w + r
    BY <1>6, <2>1, <2>2, <2>3
  <2>5. QED
    BY <2>4
<1>8. v = m * s + u
  <2>1. c * (b * s + t) = c * (b * s) + c * t
    OBVIOUS
  <2>2. c * (b * s) = m * s
    BY <1>5
  <2>3. QED
    BY <1>1, <1>3, <1>6, <2>1, <2>2
<1>9. (m * s + u) \div m = s
  <2>1. u \in 0 .. m - 1
    BY <1>7
  <2>2. QED
    BY <2>1, QuotientIs
<1>10. QED
  BY <1>2, <1>4, <1>5, <1>8, <1>9

(* Powers of a base grow, those of 2 the slowest.                          *)
LEMMA PowersGrow ==
  ASSUME NEW b \in Nat \ {0}, b >= 2
  PROVE  \A n \in Nat : /\ \A k \in Nat : Power(b)[n] <= Power(b)[n + k]
                        /\ Power(2)[n] <= Power(b)[n]
<1>1. Power(b)[0] = 1 /\ \A n \in Nat : Power(b)[n] \in Nat \ {0} /\ Power(b)[n + 1] = b * Power(b)[n]
  BY PowerIs
<1>2. Power(2)[0] = 1 /\ \A n \in Nat : Power(2)[n] \in Nat \ {0} /\ Power(2)[n + 1] = 2 * Power(2)[n]
  <2>1. 2 \in Nat \ {0}
    OBVIOUS
  <2>2. QED
    BY <2>1, PowerIs, Zenon
<1>3. PICK P, T : P = Power(b) /\ T = Power(2)
  OBVIOUS
<1>4. P[0] = 1 /\ \A n \in Nat : P[n] \in Nat \ {0} /\ P[n + 1] = b * P[n]
  BY <1>1, <1>3, Zenon
<1>5. T[0] = 1 /\ \A n \in Nat : T[n] \in Nat \ {0} /\ T[n + 1] = 2 * T[n]
  BY <1>2, <1>3, Zenon
<1>6. ASSUME NEW n \in Nat PROVE \A k \in Nat : P[n] <= P[n + k]
  <2> DEFINE G == {k \in Nat : P[n] <= P[n + k]}
  <2>1. 0 \in G
    BY <1>4
  <2>2. ASSUME NEW k \in Nat, k \in G PROVE k + 1 \in G
    <3>1. PICK x \in Nat : x = P[n + k]
      BY <1>4
    <3>2. P[(n + k) + 1] = b * x
      <4>1. n + k \in Nat
        OBVIOUS
      <4>2. QED
        BY <1>4, <3>1, <4>1
    <3>3. (n + k) + 1 = n + (k + 1)
      OBVIOUS
    <3>4. P[n + (k + 1)] = b * x
      BY <3>2, <3>3
    <3>5. b * x >= x
      OBVIOUS
    <3>6. P[n] <= x /\ P[n] \in Nat
      BY <1>4, <2>2, <3>1
    <3>7. PICK y \in Nat : y = b * x
      OBVIOUS
    <3>8. P[n] <= y
      BY <3>5, <3>6, <3>7
    <3>9. QED
      BY <3>4, <3>7, <3>8
  <2>3. Nat \subseteq G
    <3> HIDE DEF G
    <3>1. QED
      BY <2>1, <2>2, EveryNat
  <2>4. QED
    BY <2>3
<1>7. \A n \in Nat : T[n] <= P[n]
  <2> DEFINE G == {k \in Nat : T[k] <= P[k]}
  <2>1. 0 \in G
    BY <1>4, <1>5
  <2>2. ASSUME NEW k \in Nat, k \in G PROVE k + 1 \in G
    <3>1. PICK x \in Nat, y \in Nat : x = P[k] /\ y = T[k]
      BY <1>4, <1>5
    <3>2. P[k + 1] = b * x /\ T[k + 1] = 2 * y
      BY <1>4, <1>5, <3>1
    <3>3. y <= x
      BY <2>2, <3>1
    <3>4. b * x >= 2 * x
      OBVIOUS
    <3>5. PICK z \in Nat : z = b * x
      OBVIOUS
    <3>6. 2 * y <= z
      BY <3>3, <3>4, <3>5
    <3>7. QED
      BY <3>2, <3>5, <3>6
  <2>3. Nat \subseteq G
    <3> HIDE DEF G
    <3>1. QED
      BY <2>1, <2>2, EveryNat
  <2>4. QED
    BY <2>3
<1>8. QED
  BY <1>3, <1>6, <1>7

(* The number of digits, and the quotients they are the remainders of.     *)
IsLong(v, b, n) == v < Power(b)[n] /\ (n = 1 \/ Power(b)[n - 1] <= v)

(* A number of B bits has at most B digits.                                *)
LEMMA LengthExists ==
  ASSUME NEW b \in Nat \ {0}, b >= 2, NEW B \in Nat \ {0}, NEW v \in Nat, v < Power(2)[B]
  PROVE  \E n \in 1 .. B : IsLong(v, b, n)
<1>1. \A n \in Nat : Power(b)[n] \in Nat \ {0}
  BY PowerIs
<1>2. PICK P : P = Power(b)
  OBVIOUS
<1>3. \A n \in Nat : P[n] \in Nat \ {0}
  BY <1>1, <1>2, Zenon
<1>4. v < P[B]
  <2>1. Power(2)[B] <= P[B]
    BY <1>2, PowersGrow
  <2>2. Power(2)[B] \in Nat
    <3>1. 2 \in Nat \ {0}
      OBVIOUS
    <3>2. \A n \in Nat : Power(2)[n] \in Nat \ {0}
      BY <3>1, PowerIs, Zenon
    <3>3. QED
      BY <3>2
  <2>3. P[B] \in Nat
    BY <1>3
  <2>4. QED
    BY <2>1, <2>2, <2>3
<1> DEFINE T == {n \in Nat \ {0} : v < P[n]}
<1>5. T \subseteq Nat /\ B \in T
  BY <1>4
<1>6. PICK n \in T : \A y \in T : n <= y
  <2>1. T # {}
    BY <1>5
  <2> HIDE DEF T
  <2>2. QED
    BY <1>5, <2>1, LeastOf
<1>7. n \in 1 .. B /\ v < P[n]
  BY <1>5, <1>6
<1>8. n = 1 \/ P[n - 1] <= v
  <2>1. ASSUME n # 1 PROVE P[n - 1] <= v
    <3>1. PICK k \in Nat \ {0} : k = n - 1
      BY <1>7, <2>1
    <3>2. k \notin T
      BY <1>6, <1>7, <3>1
    <3>3. ~ v < P[k] /\ P[k] \in Nat
      BY <1>3, <3>2
    <3>4. P[k] <= v
      BY <3>3
    <3>5. QED
      BY <3>1, <3>4
  <2>2. QED
    BY <2>1
<1>9. QED
  BY <1>2, <1>7, <1>8 DEF IsLong

(* What is left of it after each digit: nothing after the last and         *)
(* something before.                                                       *)
LEMMA QuotientsAre ==
  ASSUME NEW b \in Nat \ {0}, b >= 2, NEW D \in Nat \ {0}, NEW v \in Nat, IsLong(v, b, D)
  PROVE  /\ v \div Power(b)[0] = v
         /\ \A k \in 0 .. D - 1 : (v \div Power(b)[k]) \div b = v \div Power(b)[k + 1]
         /\ \A k \in 0 .. D : v \div Power(b)[k] \in Nat
         /\ \A k \in 1 .. D - 1 : v \div Power(b)[k] # 0
         /\ v \div Power(b)[D] = 0
<1>1. Power(b)[0] = 1 /\ \A n \in Nat : Power(b)[n] \in Nat \ {0} /\ Power(b)[n + 1] = b * Power(b)[n]
  BY PowerIs
<1>2. PICK P : P = Power(b)
  OBVIOUS
<1>3. P[0] = 1 /\ \A n \in Nat : P[n] \in Nat \ {0} /\ P[n + 1] = b * P[n]
  BY <1>1, <1>2, Zenon
<1>4. v \div P[0] = v
  BY <1>3
<1>5. ASSUME NEW k \in 0 .. D - 1 PROVE (v \div P[k]) \div b = v \div P[k + 1]
  <2>1. PICK c \in Nat \ {0} : c = P[k]
    BY <1>3
  <2>2. (v \div c) \div b = v \div (b * c)
    BY DivTwice
  <2>3. P[k + 1] = b * c
    BY <1>3, <2>1
  <2>4. QED
    BY <2>1, <2>2, <2>3
<1>6. ASSUME NEW k \in 0 .. D PROVE v \div P[k] \in Nat
  <2>1. PICK c \in Nat \ {0} : c = P[k]
    BY <1>3
  <2>2. v \div c \in Nat
    BY Z3
  <2>3. QED
    BY <2>1, <2>2
<1>7. ASSUME NEW k \in 1 .. D - 1 PROVE v \div P[k] # 0
  <2>1. PICK c \in Nat \ {0} : c = P[k]
    BY <1>3
  <2>2. P[D - 1] <= v
    BY <1>2 DEF IsLong
  <2>3. PICK j \in Nat : j = D - 1 - k
    OBVIOUS
  <2>4. P[k] <= P[k + j]
    BY <1>2, PowersGrow
  <2>5. k + j = D - 1
    BY <2>3
  <2>6. PICK p \in Nat : p = P[D - 1]
    <3>1. D - 1 \in Nat
      OBVIOUS
    <3>2. QED
      BY <1>3, <3>1
  <2>7. c <= v
    BY <2>1, <2>2, <2>4, <2>5, <2>6
  <2>12. v \in Int
    OBVIOUS
  <2>8. PICK q \in Int, r \in 0 .. c - 1 : v = c * q + r /\ v % c = r
    BY <2>12, Quotient
  <2>9. v \div c = q
    BY <2>8, QuotientIs
  <2>10. q # 0
    BY <2>7, <2>8
  <2>11. QED
    BY <2>1, <2>9, <2>10
<1>8. v \div P[D] = 0
  <2>1. PICK c \in Nat \ {0} : c = P[D]
    BY <1>3
  <2>2. v < c
    BY <1>2, <2>1 DEF IsLong
  <2>3. (c * 0 + v) \div c = 0
    <3>1. v \in 0 .. c - 1 /\ 0 \in Int
      BY <2>2
    <3>2. QED
      BY <3>1, QuotientIs
  <2>4. c * 0 + v = v
    OBVIOUS
  <2>5. QED
    BY <2>1, <2>3, <2>4
<1>9. QED
  BY <1>2, <1>4, <1>5, <1>6, <1>7, <1>8

(* The conversions of integers.                                            *)
LEMMA BaseIs ==
  /\ DOMAIN Base = {"d", "i", "u", "x", "X", "o", "b", "p"}
  /\ \A c \in DOMAIN Base :
       /\ Base[c] \in Nat \ {0} /\ Base[c] >= 2
       /\ Base[c] = 16 <=> c \in {"x", "X", "p"}
       /\ Base[c] = 2 <=> c = "b"
       /\ Base[c] = 10 <=> c \in {"d", "i", "u"}
<1> DEFINE C == {"d", "i", "u", "x", "X", "o", "b", "p"}
<1>1. DOMAIN Base = C
  BY DEF Base
<1>2. ASSUME NEW c \in C
      PROVE  Base[c] = CASE c \in {"x", "X", "p"} -> 16
                         [] c = "o" -> 8 [] c = "b" -> 2 [] OTHER -> 10
  BY DEF Base
<1>3. ASSUME NEW c \in C, c \in {"x", "X", "p"} PROVE Base[c] = 16
  BY <1>2, <1>3
<1>4. Base["o"] = 8 /\ Base["b"] = 2
  BY <1>2
<1>5. ASSUME NEW c \in C, c \in {"d", "i", "u"} PROVE Base[c] = 10
  BY <1>2, <1>5
<1>6. ASSUME NEW c \in C
      PROVE  \/ c \in {"x", "X", "p"} /\ Base[c] = 16
             \/ c = "o" /\ Base[c] = 8
             \/ c = "b" /\ Base[c] = 2
             \/ c \in {"d", "i", "u"} /\ Base[c] = 10
  BY <1>3, <1>4, <1>5
<1>7. ASSUME NEW c \in C
      PROVE  /\ Base[c] \in Nat \ {0} /\ Base[c] >= 2
             /\ Base[c] = 16 <=> c \in {"x", "X", "p"}
             /\ Base[c] = 2 <=> c = "b"
             /\ Base[c] = 10 <=> c \in {"d", "i", "u"}
  BY <1>6
<1>8. QED
  BY <1>1, <1>7

(* A piece that is converted: an integer, of a size the build has.         *)
IsInteger(d) ==
  /\ d.conv \in DOMAIN Base /\ d.size \in DOMAIN Bits /\ Bits[d.size] \in Nat \ {0}
  /\ d.args[Len(d.args)].value \in Int

(* The D digits of v, as C writes them, and how many there are.            *)
Numerals(v, b, D, upper) ==
  [i \in 1 .. D |-> Numeral((v \div Power(b)[D - i]) % b, upper)]

SizeOf(v, b, B) == CHOOSE n \in 1 .. B : v < Power(b)[n] /\ (n = 1 \/ Power(b)[n - 1] <= v)

(* What C calls the digits of an integer.                                  *)
LEMMA DigitsBy ==
  ASSUME NEW d, IsInteger(d)
  PROVE  \E D \in Nat \ {0} :
           /\ IsLong(Magnitude(ValueOf(d)), Base[d.conv], D)
           /\ Digits(d) = IF Magnitude(ValueOf(d)) = 0 /\ HasPrecision(d) THEN <<>>
                          ELSE Numerals(Magnitude(ValueOf(d)), Base[d.conv], D, d.conv \in {"X", "p"})
<1>1. PICK a \in Int : a = d.args[Len(d.args)].value
  BY DEF IsInteger
<1>2. PICK B \in Nat \ {0} : B = Bits[d.size]
  BY DEF IsInteger
<1>3. PICK b \in Nat \ {0} : b = Base[d.conv] /\ b >= 2
  BY BaseIs DEF IsInteger
<1>4. Magnitude(ValueOf(d)) \in Nat /\ Magnitude(ValueOf(d)) < Power(2)[B]
  <2>1. Bits[d.size] \in Nat \ {0}
    BY <1>2
  <2>2. QED
    BY <1>1, <1>2, <2>1, CastIs
<1>5. PICK v \in Nat : v = Magnitude(ValueOf(d)) /\ v < Power(2)[B]
  BY <1>4
<1>6. \E n \in 1 .. B : IsLong(v, b, n)
  BY <1>3, <1>5, LengthExists
<1>7. PICK D : D = CHOOSE n \in 1 .. B : IsLong(v, b, n)
  OBVIOUS
<1>8. D \in 1 .. B /\ IsLong(v, b, D)
  BY <1>6, <1>7
<1>9. Digits(d) = IF v = 0 /\ HasPrecision(d) THEN <<>>
                  ELSE Numerals(v, b, D, d.conv \in {"X", "p"})
  <2>1. D = SizeOf(v, b, B)
    BY <1>7, Zenon DEF IsLong, SizeOf
  <2>2. Digits(d) =
          IF Magnitude(ValueOf(d)) = 0 /\ HasPrecision(d) THEN <<>>
          ELSE Numerals(Magnitude(ValueOf(d)), Base[d.conv],
                        SizeOf(Magnitude(ValueOf(d)), Base[d.conv], Bits[d.size]), d.conv \in {"X", "p"})
    BY Zenon DEF Digits, Numerals, SizeOf
  <2>3. QED
    BY <1>2, <1>3, <1>5, <2>1, <2>2, Zenon
<1>10. D \in Nat \ {0}
  BY <1>8
<1>11. QED
  BY <1>3, <1>5, <1>8, <1>9, <1>10

(* The digits are the remainders, the last one first.                      *)
InTurn(v, b, D, up, g) ==
  /\ IsSeq(g) /\ Len(g) = D
  /\ \A k \in 0 .. D - 1 : g[D - k] = Numeral((v \div Power(b)[k]) % b, up)

(* And so it is.                                                           *)
LEMMA NumeralsAre ==
  ASSUME NEW v, NEW b, NEW D \in Nat, NEW up
  PROVE  InTurn(v, b, D, up, Numerals(v, b, D, up))
<1>1. PICK w : w = [k \in 0 .. D - 1 |-> Numeral((v \div Power(b)[k]) % b, up)]
  OBVIOUS
<1>2. PICK g : g = Numerals(v, b, D, up)
  OBVIOUS
<1>3. g = [i \in 1 .. D |-> w[D - i]]
  <2>1. \A i \in 1 .. D : D - i \in 0 .. D - 1
    OBVIOUS
  <2>2. \A i \in 1 .. D : w[D - i] = Numeral((v \div Power(b)[D - i]) % b, up)
    BY <1>1, <2>1, Zenon
  <2>3. QED
    BY <1>2, <2>2, Zenon DEF Numerals
<1>4. DOMAIN g = 1 .. D /\ g = [i \in 1 .. D |-> g[i]]
  BY <1>3
<1>5. IsSeq(g) /\ Len(g) = D
  BY <1>4, FunctionIsSeq
<1>6. \A k \in 0 .. D - 1 : g[D - k] = w[k]
  <2>1. ASSUME NEW k \in 0 .. D - 1 PROVE g[D - k] = w[k]
    <3>1. D - k \in 1 .. D /\ D - (D - k) = k
      OBVIOUS
    <3>2. QED
      BY <1>3, <3>1
  <2>2. QED
    BY <2>1
<1>7. \A k \in 0 .. D - 1 : w[k] = Numeral((v \div Power(b)[k]) % b, up)
  BY <1>1, Zenon
<1>8. QED
  BY <1>2, <1>5, <1>6, <1>7 DEF InTurn

-----------------------------------------------------------------------------
(* The arguments.                                                          *)

(* What is in the arguments of a directive, and where they are in va.      *)
Datum == [value : Int] \cup [text : Seq(STRING)]

(* A call is a sequence of pieces.                                         *)
LEMMA CallIs ==
  ASSUME call \in Calls
  PROVE  Len(call) \in Nat /\ DOMAIN call = 1 .. Len(call) /\ \A i \in 1 .. Len(call) : IsPiece(call[i])
<1>1. PICK c \in Calls : c = call
  OBVIOUS
<1>2. Len(c) \in Nat /\ DOMAIN c = 1 .. Len(c) /\ \A i \in DOMAIN c : IsPiece(c[i])
  BY CallsAssumption
<1>3. QED
  BY <1>1, <1>2, Zenon

(* Their arguments.                                                        *)
LEMMA ArgsAre ==
  ASSUME NEW d, IsPiece(d)
  PROVE  d.args \in Seq(Datum)
<1>1. CASE d.args = <<>>
  BY <1>1
<1>2. CASE d.args # <<>>
  BY <1>2, Zenon DEF IsPiece, Datum
<1>3. QED
  BY <1>1, <1>2

(* How many arguments the first n pieces of the call have.                 *)
Taken(n) == Len(FlattenSeq([i \in 1 .. n |-> call[i].args]))

(* One more piece has its arguments where the pieces before it end.        *)
LEMMA TakenIs ==
  ASSUME call \in Calls
  PROVE  /\ Taken(0) = 0
         /\ \A n \in 0 .. Len(call) - 1 :
              /\ Taken(n) \in Nat
              /\ Taken(n + 1) = Taken(n) + Len(call[n + 1].args)
              /\ \A j \in 1 .. Len(call[n + 1].args) : va[Taken(n) + j] = call[n + 1].args[j]
<1>1. PICK N \in Nat : N = Len(call) /\ DOMAIN call = 1 .. N
  BY CallIs
<1>2. PICK S : S = Datum
  OBVIOUS
<1>3. PICK w : w = [i \in 1 .. N |-> call[i].args]
  OBVIOUS
<1>4. \A i \in 1 .. N : w[i] \in Seq(S)
  <2>1. ASSUME NEW i \in 1 .. N PROVE w[i] \in Seq(S)
    <3>1. PICK d : d = call[i]
      OBVIOUS
    <3>2. IsPiece(d)
      BY <1>1, <3>1, CallIs
    <3>3. d.args \in Seq(S)
      BY <1>2, <3>2, ArgsAre
    <3>4. QED
      BY <1>3, <3>1, <3>3
  <2>2. QED
    BY <2>1
<1>5. PICK F : F = [n \in 0 .. N |-> FlattenSeq([i \in 1 .. n |-> w[i]])]
  OBVIOUS
<1>6. /\ F[0] = <<>>
      /\ \A n \in 0 .. N : F[n] \in Seq(S)
      /\ \A n \in 0 .. N - 1 : F[n + 1] = F[n] \o w[n + 1]
  <2>1. SeqsOf(S, N, w) /\ IsFlat(N, w, F)
    BY <1>4, <1>5 DEF SeqsOf, IsFlat
  <2>2. FlatParts(S, N, w, F)
    BY <2>1, FlattenIs
  <2>3. QED
    BY <2>2 DEF FlatParts
<1>7. ASSUME NEW n \in 0 .. N
      PROVE  F[n] = FlattenSeq([i \in 1 .. n |-> call[i].args])
  <2>1. [i \in 1 .. n |-> w[i]] = [i \in 1 .. n |-> call[i].args]
    <3>1. ASSUME NEW i \in 1 .. n PROVE w[i] = call[i].args
      <4>1. i \in 1 .. N
        OBVIOUS
      <4>2. QED
        BY <1>3, <4>1
    <3>2. QED
      BY <3>1
  <2>2. F[n] = FlattenSeq([i \in 1 .. n |-> w[i]])
    BY <1>5
  <2>3. QED
    BY <2>1, <2>2, Zenon
<1>8. \A n \in 0 .. N : Taken(n) = Len(F[n])
  BY <1>7, Zenon DEF Taken
<1>9. va = F[N]
  <2>1. N \in 0 .. N
    OBVIOUS
  <2>2. F[N] = FlattenSeq([i \in 1 .. N |-> call[i].args])
    BY <1>7, <2>1
  <2>3. QED
    BY <1>1, <2>2, Zenon DEF va
<1>10. Taken(0) = 0
  BY <1>6, <1>8
<1>11. ASSUME NEW n \in 0 .. N - 1
       PROVE  /\ Taken(n) \in Nat
              /\ Taken(n + 1) = Taken(n) + Len(call[n + 1].args)
              /\ \A j \in 1 .. Len(call[n + 1].args) : va[Taken(n) + j] = call[n + 1].args[j]
  <2>1. PICK m : m = n + 1
    OBVIOUS
  <2>2. m \in 1 .. N /\ m \in 0 .. N /\ n \in 0 .. N
    BY <2>1
  <2>3. PICK a, b, c, f : a = F[n] /\ b = w[m] /\ c = F[m] /\ f = F[N]
    OBVIOUS
  <2>4. a \in Seq(S) /\ b \in Seq(S) /\ c \in Seq(S) /\ c = a \o b
    BY <1>4, <1>6, <2>1, <2>2, <2>3
  <2>5. b = call[m].args
    BY <1>3, <2>2, <2>3
  <2>6. Begins(c, f)
    BY <1>4, <1>6, <2>2, <2>3, FlattenBegins
  <2>7. PICK k1 \in Nat, k2 \in Nat, k3 \in Nat : k1 = Len(a) /\ k2 = Len(b) /\ k3 = Len(c)
    BY <2>4
  <2>8. k3 = k1 + k2
    BY <2>4, <2>7, Joined
  <2>9. ASSUME NEW j \in 1 .. k2 PROVE f[k1 + j] = b[j]
    <3>1. k1 + j \in 1 .. k3
      BY <2>8
    <3>2. f[k1 + j] = c[k1 + j]
      BY <2>6, <2>7, <3>1 DEF Begins
    <3>3. c[k1 + j] = b[j]
      BY <2>4, <2>7
    <3>4. QED
      BY <3>2, <3>3
  <2>10. Taken(n) = k1 /\ Taken(m) = k3
    BY <1>8, <2>2, <2>3, <2>7
  <2>11. QED
    BY <1>9, <2>1, <2>3, <2>5, <2>7, <2>8, <2>9, <2>10
<1>12. QED
  BY <1>1, <1>10, <1>11, Zenon

(* One more piece.                                                         *)
LEMMA FlattenNext ==
  ASSUME NEW n \in Nat, NEW w, \A i \in 1 .. n + 1 : IsSeq(w[i])
  PROVE  /\ FlattenSeq([i \in 1 .. n + 1 |-> w[i]]) = FlattenSeq([i \in 1 .. n |-> w[i]]) \o w[n + 1]
         /\ IsSeq(FlattenSeq([i \in 1 .. n |-> w[i]]))
<1>1. PICK N \in Nat : N = n + 1
  OBVIOUS
<1>2. PICK S : S = UNION {{w[i][j] : j \in 1 .. Len(w[i])} : i \in 1 .. N}
  OBVIOUS
<1>3. ASSUME NEW i \in 1 .. N PROVE w[i] \in Seq(S)
  <2>1. PICK s : s = w[i]
    OBVIOUS
  <2>2. IsSeq(s)
    BY <1>1, <2>1
  <2>3. PICK L \in Nat : L = Len(s) /\ DOMAIN s = 1 .. L /\ s = [j \in 1 .. L |-> s[j]]
    BY <2>2, LenIs
  <2>4. \A j \in 1 .. L : s[j] \in S
    <3>1. ASSUME NEW j \in 1 .. L PROVE s[j] \in S
      <4>1. PICK R : R = {w[i][k] : k \in 1 .. Len(w[i])}
        OBVIOUS
      <4>2. s[j] \in R
        BY <2>1, <2>3, <4>1
      <4>3. R \in {{w[h][k] : k \in 1 .. Len(w[h])} : h \in 1 .. N}
        BY <4>1
      <4>4. QED
        BY <1>2, <4>2, <4>3, Zenon
    <3>2. QED
      BY <3>1
  <2>6. s \in [1 .. L -> S]
    BY <2>3, <2>4
  <2>7. s \in Seq(S)
    BY <2>6
  <2>5. QED
    BY <2>1, <2>7
<1>4. PICK F : F = [k \in 0 .. N |-> FlattenSeq([i \in 1 .. k |-> w[i]])]
  OBVIOUS
<1>5. /\ \A k \in 0 .. N : F[k] \in Seq(S)
      /\ \A k \in 0 .. N - 1 : F[k + 1] = F[k] \o w[k + 1]
  <2>1. SeqsOf(S, N, w) /\ IsFlat(N, w, F)
    BY <1>3, <1>4 DEF SeqsOf, IsFlat
  <2>2. FlatParts(S, N, w, F)
    BY <2>1, FlattenIs
  <2>3. QED
    BY <2>2 DEF FlatParts
<1>6. n \in 0 .. N - 1 /\ n \in 0 .. N /\ N \in 0 .. N
  BY <1>1
<1>7. F[N] = FlattenSeq([i \in 1 .. N |-> w[i]]) /\ F[n] = FlattenSeq([i \in 1 .. n |-> w[i]])
  BY <1>4, <1>6
<1>8. F[N] = F[n] \o w[N] /\ IsSeq(F[n])
  BY <1>1, <1>5, <1>6 DEF IsSeq
<1>9. QED
  BY <1>1, <1>7, <1>8, Zenon

(* The arguments that come next are those of d.                            *)
Owns(d) == \A j \in 1 .. Len(d.args) : Arg(j) = d.args[j]

(* The loop reads the arguments of the directive it is at.                 *)
LEMMA ArgIs ==
  ASSUME call \in Calls, next \in Nat, next < Len(call), used = Taken(next),
         NEW d, d = call[next + 1]
  PROVE  IsPiece(d) /\ Owns(d)
<1>1. PICK N \in Nat : N = Len(call)
  BY CallIs
<1>2. PICK n \in 0 .. N - 1 : n = next
  BY <1>1
<1>3. n + 1 \in 1 .. N
  BY <1>2
<1>4. IsPiece(d)
  BY <1>1, <1>2, <1>3, CallIs
<1>5. \A j \in 1 .. Len(call[n + 1].args) : va[Taken(n) + j] = call[n + 1].args[j]
  BY <1>1, TakenIs
<1>6. \A j \in 1 .. Len(d.args) : va[used + j] = d.args[j]
  BY <1>2, <1>5, Zenon
<1>7. QED
  BY <1>4, <1>6, Zenon DEF Arg, Owns

(* The arguments of a directive: those of its stars and the one printed.   *)
LEMMA StarsAre ==
  ASSUME NEW d, IsPiece(d), d.conv # "text"
  PROVE  /\ Stars(d) \in 0 .. 2 /\ Len(d.args) = Stars(d) + 1
         /\ d.width = Star => Stars(d) \in 1 .. 2 /\ d.args[1].value \in Int
         /\ d.precision = Star => Stars(d) \in 1 .. 2 /\ d.args[Stars(d)].value \in Int
         /\ d.width \in Nat \cup {Star} /\ d.precision \in Nat \cup {Star, None}
         /\ d.flags \subseteq Flags \ {"UPPERCASE", "PRECISION"}
         /\ d.conv \in {"c", "s"} \cup DOMAIN Base
<1>1. /\ d.conv \in {"c", "s"} \cup DOMAIN Base
      /\ d.flags \subseteq Flags \ {"UPPERCASE", "PRECISION"}
      /\ d.width \in Nat \cup {Star} /\ d.precision \in Nat \cup {Star, None}
      /\ Len(d.args) = Stars(d) + 1
      /\ \A i \in 1 .. Stars(d) : d.args[i] \in [value : Int]
  BY Zenon DEF IsPiece
<1>2. PICK k : k = Stars(d)
  OBVIOUS
<1>3. /\ k \in 0 .. 2
      /\ d.width = Star => k \in 1 .. 2
      /\ d.precision = Star => k \in 1 .. 2
  <2>1. k = (IF d.width = Star THEN 1 ELSE 0) + (IF d.precision = Star THEN 1 ELSE 0)
    BY <1>2 DEF Stars
  <2>2. QED
    BY <2>1
<1>4. \A i \in 1 .. k : d.args[i].value \in Int
  <2>1. ASSUME NEW i \in 1 .. k PROVE d.args[i].value \in Int
    <3>1. d.args[i] \in [value : Int]
      BY <1>1, <1>2
    <3>2. QED
      BY <3>1
  <2>2. QED
    BY <2>1
<1>5. d.width = Star => d.args[1].value \in Int
  BY <1>3, <1>4
<1>6. d.precision = Star => d.args[k].value \in Int
  BY <1>3, <1>4
<1>7. QED
  BY <1>1, <1>2, <1>3, <1>5, <1>6, Zenon

(* The precision a conversion works with.                                  *)
Prec(d) == IF HasPrecision(d) THEN PrecisionOf(d) ELSE 0

(* A precision from the arguments that is one: not negative.               *)
Starred(d) == d.precision = Star => HasPrecision(d)

(* Width, precision and the value, read from the right arguments.          *)
NumbersRight(d) ==
  /\ width(d) = WidthOf(d) /\ WidthOf(d) \in Nat
  /\ d.width = Star => Arg(1).value = StarredWidth(d)
  /\ StarredWidth(d) \in Int
  /\ d.width # Star => StarredWidth(d) >= 0
  /\ PrecisionOf(d) \in Int
  /\ d.precision = None => ~ HasPrecision(d)
  /\ Starred(d) => precision(d) = Prec(d) /\ (d.precision # None => HasPrecision(d))
  /\ Arg(Stars(d) + 1) = d.args[Len(d.args)]

(* They are (printf.c:614-645).                                            *)
LEMMA NumbersOfFields ==
  ASSUME NEW d, IsPiece(d), d.conv # "text", Owns(d)
  PROVE  NumbersRight(d)
<1>1. PICK k : k = Stars(d)
  OBVIOUS
<1>2. /\ k \in 0 .. 2 /\ Len(d.args) = k + 1
      /\ d.width = Star => k \in 1 .. 2 /\ d.args[1].value \in Int
      /\ d.precision = Star => k \in 1 .. 2 /\ d.args[k].value \in Int
      /\ d.width \in Nat \cup {Star} /\ d.precision \in Nat \cup {Star, None}
  BY <1>1, StarsAre, Zenon
<1>3. \A j \in 1 .. k + 1 : Arg(j) = d.args[j]
  BY <1>2, Zenon DEF Owns
<1>4. k + 1 \in 1 .. k + 1 /\ 1 \in 1 .. k + 1 /\ (k \in 1 .. 2 => k \in 1 .. k + 1)
  BY <1>2
<1>5. Arg(k + 1) = d.args[k + 1] /\ Arg(1) = d.args[1] /\ (k \in 1 .. 2 => Arg(k) = d.args[k])
  BY <1>3, <1>4, Zenon
<1>6. PICK w \in Int : w = StarredWidth(d)
  BY <1>2 DEF StarredWidth, Star
<1>7. /\ d.width = Star => Arg(1).value = w
      /\ d.width # Star => d.width = w /\ w >= 0
  <2>1. d.width = Star => d.args[1].value = w
    BY <1>6 DEF StarredWidth
  <2>2. d.width = Star => Arg(1).value = w
    BY <1>5, <2>1, Zenon
  <2>3. d.width # Star => d.width = w
    BY <1>6 DEF StarredWidth
  <2>4. d.width # Star => d.width \in Nat
    BY <1>2
  <2>5. QED
    BY <2>2, <2>3, <2>4
<1>8. width(d) = WidthOf(d) /\ WidthOf(d) \in Nat
  <2>1. PICK m : m = Magnitude(w)
    OBVIOUS
  <2>2. m \in Nat /\ (w >= 0 => m = w)
    BY <2>1 DEF Magnitude
  <2>3. WidthOf(d) = m
    BY <1>6, <2>1, Zenon DEF WidthOf
  <2>4. CASE d.width = Star
    <3>1. width(d) = Magnitude(Arg(1).value)
      BY <2>4, Zenon DEF width
    <3>2. QED
      BY <1>7, <2>1, <2>2, <2>3, <2>4, <3>1, Zenon
  <2>5. CASE d.width # Star
    <3>1. width(d) = d.width
      BY <2>5, Zenon DEF width
    <3>2. QED
      BY <1>7, <2>2, <2>3, <2>5, <3>1
  <2>6. QED
    BY <2>4, <2>5
<1>9. Len(d.args) - 1 = k
  BY <1>2
<1>10. PrecisionOf(d) = IF d.precision = Star THEN d.args[k].value ELSE d.precision
  BY <1>9, Zenon DEF PrecisionOf
<1>11. PICK p \in Int : p = PrecisionOf(d)
  BY <1>2, <1>10 DEF Star, None
<1>12. HasPrecision(d) <=> p >= 0
  BY <1>11 DEF HasPrecision
<1>13. d.precision = None => ~ HasPrecision(d)
  BY <1>10, <1>11, <1>12 DEF Star, None
<1>14. ASSUME Starred(d) PROVE precision(d) = Prec(d) /\ (d.precision # None => HasPrecision(d))
  <2>1. CASE d.precision = Star
    <3>1. HasPrecision(d) /\ p >= 0
      BY <1>12, <1>14, <2>1 DEF Starred
    <3>2. Arg(k).value = p
      BY <1>2, <1>5, <1>10, <1>11, <2>1, Zenon
    <3>3. None # Star
      BY DEF None, Star
    <3>4. precision(d) = Positive(Arg(k).value)
      BY <1>1, <2>1, <3>3, Zenon DEF precision
    <3>5. Positive(p) = p
      BY <3>1 DEF Positive
    <3>6. Prec(d) = p
      BY <1>11, <3>1 DEF Prec
    <3>7. QED
      BY <3>1, <3>2, <3>4, <3>5, <3>6, Zenon
  <2>2. CASE d.precision = None
    <3>3. None # Star
      BY DEF None, Star
    <3>1. precision(d) = 0
      BY <2>2, <3>3, Zenon DEF precision
    <3>2. Prec(d) = 0
      BY <1>13, <2>2 DEF Prec
    <3>4. QED
      BY <2>2, <3>1, <3>2
  <2>3. CASE d.precision # Star /\ d.precision # None
    <3>1. precision(d) = d.precision
      BY <2>3 DEF precision
    <3>2. d.precision \in Nat /\ p = d.precision
      BY <1>2, <1>10, <1>11, <2>3
    <3>3. HasPrecision(d)
      BY <1>12, <3>2
    <3>4. Prec(d) = p
      BY <1>11, <3>3 DEF Prec
    <3>5. QED
      BY <3>1, <3>2, <3>3, <3>4
  <2>4. QED
    BY <2>1, <2>2, <2>3
<1>15. Arg(Stars(d) + 1) = d.args[Len(d.args)]
  BY <1>1, <1>2, <1>5, Zenon
<1>16. QED
  BY <1>6, <1>7, <1>8, <1>11, <1>13, <1>14, <1>15, Zenon DEF NumbersRight

(* And the flags are those of the directive, '-' also from a width.        *)
LEMMA FlagsOfFields ==
  ASSUME NEW d, IsPiece(d), d.conv # "text", Owns(d),
         Starred(d)
  PROVE  /\ "PRECISION" \in flags(d) <=> HasPrecision(d)
         /\ "LEFT" \in flags(d) <=> LeftSide(d)
         /\ \A f \in {"ZEROPAD", "PLUS", "SPACE", "HASH"} : f \in flags(d) <=> f \in d.flags
         /\ "UPPERCASE" \notin flags(d)
<1>11. NumbersRight(d)
  BY NumbersOfFields
<1>1. /\ d.width = Star => Arg(1).value = StarredWidth(d)
      /\ StarredWidth(d) \in Int
      /\ d.width # Star => StarredWidth(d) >= 0
  BY <1>11 DEF NumbersRight
<1>12. d.precision = None => ~ HasPrecision(d)
  BY <1>11 DEF NumbersRight
<1>13. precision(d) = Prec(d) /\ (d.precision # None => HasPrecision(d))
  BY <1>11 DEF NumbersRight
<1>2. d.precision # None <=> HasPrecision(d)
  BY <1>12, <1>13, Zenon
<1>3. (d.width = Star /\ Arg(1).value < 0) <=> StarredWidth(d) < 0
  <2>1. PICK w \in Int : w = StarredWidth(d)
    BY <1>1, Zenon
  <2>2. PICK a : a = Arg(1).value
    OBVIOUS
  <2>3. d.width = Star => a = w
    BY <1>1, <2>1, <2>2, Zenon
  <2>4. d.width # Star => w >= 0
    BY <1>1, <2>1, Zenon
  <2>5. (d.width = Star /\ a < 0) <=> w < 0
    BY <2>3, <2>4
  <2>6. QED
    BY <2>1, <2>2, <2>5, Zenon
<1>4. PICK A, B : /\ A = IF d.width = Star /\ Arg(1).value < 0 THEN {"LEFT"} ELSE {}
                  /\ B = IF d.precision # None THEN {"PRECISION"} ELSE {}
  OBVIOUS
<1>5. flags(d) = d.flags \cup A \cup B
  BY <1>4, Zenon DEF flags
<1>6. A \subseteq {"LEFT"} /\ ("LEFT" \in A <=> StarredWidth(d) < 0)
  <2>1. A = IF StarredWidth(d) < 0 THEN {"LEFT"} ELSE {}
    BY <1>3, <1>4, Zenon
  <2>2. QED
    BY <2>1
<1>7. B \subseteq {"PRECISION"} /\ ("PRECISION" \in B <=> HasPrecision(d))
  <2>1. B = IF HasPrecision(d) THEN {"PRECISION"} ELSE {}
    BY <1>2, <1>4, Zenon
  <2>2. QED
    BY <2>1
<1>8. "PRECISION" \notin d.flags /\ "UPPERCASE" \notin d.flags
  BY StarsAre
<1>9. LeftSide(d) <=> "LEFT" \in d.flags \/ "LEFT" \in A
  BY <1>6, Zenon DEF LeftSide
<1>10. QED
  BY <1>5, <1>6, <1>7, <1>8, <1>9

-----------------------------------------------------------------------------
(* The flags and the width of a conversion.                                *)

(* The flags a number is converted with.                                   *)
FillsZeros(d) == d.conv = "p" \/ ("ZEROPAD" \in d.flags /\ ~ HasPrecision(d))

(* The flags of the conversion, each for what it does there.               *)
FlagsFor(d, f) ==
  /\ "LEFT" \in f <=> LeftSide(d)
  /\ "PRECISION" \in f <=> HasPrecision(d)
  /\ "ZEROPAD" \in f <=> FillsZeros(d)
  /\ "UPPERCASE" \in f <=> d.conv \in {"X", "p"}
  /\ "HASH" \in f <=> PrefixOf(d) # <<>>
  /\ "PLUS" \in f <=> Signed(d) /\ "PLUS" \in d.flags
  /\ "SPACE" \in f <=> Signed(d) /\ "SPACE" \in d.flags

(* What AsC asks of a directive.                                           *)
LEMMA AsCIs ==
  ASSUME NEW d, d.conv # "text", AsC(d)
  PROVE  Starred(d) /\ (d.conv \in DOMAIN Base => AsCNumber(d))
BY DEF AsC, Starred

(* Only d and i are signed, and have no prefix.                            *)
LEMMA SignedIs ==
  ASSUME NEW d, Signed(d)
  PROVE  /\ d.conv \in {"d", "i"} /\ d.conv \in DOMAIN Base
         /\ PrefixOf(d) = <<>> /\ Base[d.conv] = 10
<1>1. d.conv \in {"d", "i"}
  BY DEF Signed
<1>2. d.conv \in DOMAIN Base
  BY <1>1, BaseIs
<1>3. Base[d.conv] = 10
  BY <1>1, <1>2, BaseIs
<1>4. d.conv \notin {"x", "X"}
  BY <1>1
<1>5. PrefixOf(d) = <<>>
  BY <1>4 DEF PrefixOf
<1>6. QED
  BY <1>1, <1>2, <1>3, <1>5

(* The prefix is for a hexadecimal number that is not 0.                   *)
LEMMA PrefixIs ==
  ASSUME NEW d
  PROVE  PrefixOf(d) # <<>> <=>
           "HASH" \in d.flags /\ d.conv \in {"x", "X"} /\ ValueOf(d) # 0
<1>1. PICK z : z = <<"0", d.conv>>
  OBVIOUS
<1>2. z # <<>>
  BY <1>1
<1>3. QED
  BY <1>1, <1>2, Zenon DEF PrefixOf

(* The switch on the conversion leaves them (printf.c:684-719).            *)
LEMMA FlagsOfNumber ==
  ASSUME NEW d, IsPiece(d), d.conv \in DOMAIN Base, Owns(d), AsC(d)
  PROVE  FlagsFor(d, number_flags(d, ValueOf(d)))
<1>1. d.conv # "text" /\ d.conv \in {"d", "i", "u", "x", "X", "o", "b", "p"}
  BY BaseIs
<1>2. AsCNumber(d) /\ Starred(d)
  BY <1>1, AsCIs
<1>3. /\ d.conv = "p" => d.flags = {} /\ ~ LeftSide(d) /\ ~ HasPrecision(d)
      /\ "HASH" \in d.flags => d.conv \notin {"o", "b"}
  BY <1>2, Zenon DEF AsCNumber
<1>4. PICK F, G : F = flags(d) /\ G = number_flags(d, ValueOf(d))
  OBVIOUS
<1>5. /\ "PRECISION" \in F <=> HasPrecision(d)
      /\ "LEFT" \in F <=> LeftSide(d)
      /\ \A f \in {"ZEROPAD", "PLUS", "SPACE", "HASH"} : f \in F <=> f \in d.flags
      /\ "UPPERCASE" \notin F
  BY <1>1, <1>2, <1>4, FlagsOfFields
<1>6. PICK A : A = Added(d)
  OBVIOUS
<1>7. /\ "ZEROPAD" \in A <=> d.conv = "p"
      /\ "UPPERCASE" \in A <=> d.conv \in {"X", "p"}
      /\ A \subseteq {"ZEROPAD", "UPPERCASE"}
  BY <1>6 DEF Added
<1>8. PICK I1, I2, I3 :
        /\ I1 = IF ValueOf(d) = 0 \/ Base[d.conv] = 10 THEN {"HASH"} ELSE {}
        /\ I2 = IF d.conv # "p" /\ ~ Signed(d) THEN {"PLUS", "SPACE"} ELSE {}
        /\ I3 = IF d.conv # "p" /\ "PRECISION" \in F THEN {"ZEROPAD"} ELSE {}
  OBVIOUS
<1>9. G = (F \cup A) \ (I1 \cup I2 \cup I3)
  BY <1>4, <1>6, <1>8, Zenon DEF number_flags, Ignored
<1>10. I1 \subseteq {"HASH"} /\ ("HASH" \in I1 <=> ValueOf(d) = 0 \/ Base[d.conv] = 10)
  BY <1>8
<1>11. /\ I2 \subseteq {"PLUS", "SPACE"}
       /\ "PLUS" \in I2 <=> d.conv # "p" /\ ~ Signed(d)
       /\ "SPACE" \in I2 <=> d.conv # "p" /\ ~ Signed(d)
  BY <1>8
<1>12. I3 \subseteq {"ZEROPAD"} /\ ("ZEROPAD" \in I3 <=> d.conv # "p" /\ HasPrecision(d))
  BY <1>5, <1>8
<1>13. "LEFT" \in G <=> LeftSide(d)
  BY <1>5, <1>7, <1>9, <1>10, <1>11, <1>12
<1>14. "PRECISION" \in G <=> HasPrecision(d)
  BY <1>5, <1>7, <1>9, <1>10, <1>11, <1>12
<1>15. "ZEROPAD" \in G <=> FillsZeros(d)
  <2>1. "ZEROPAD" \in G <=> ("ZEROPAD" \in F \/ "ZEROPAD" \in A) /\ "ZEROPAD" \notin I3
    BY <1>9, <1>10, <1>11
  <2>2. QED
    BY <2>1, <1>5, <1>7, <1>12 DEF FillsZeros
<1>16. "UPPERCASE" \in G <=> d.conv \in {"X", "p"}
  BY <1>5, <1>7, <1>9, <1>10, <1>11, <1>12
<1>17. Signed(d) <=> d.conv \in {"d", "i"}
  BY DEF Signed
<1>18. "PLUS" \in G <=> Signed(d) /\ "PLUS" \in d.flags
  <2>1. "PLUS" \in G <=> "PLUS" \in F /\ "PLUS" \notin I2
    BY <1>7, <1>9, <1>10, <1>12
  <2>2. QED
    BY <2>1, <1>3, <1>5, <1>11, <1>17
<1>19. "SPACE" \in G <=> Signed(d) /\ "SPACE" \in d.flags
  <2>1. "SPACE" \in G <=> "SPACE" \in F /\ "SPACE" \notin I2
    BY <1>7, <1>9, <1>10, <1>12
  <2>2. QED
    BY <2>1, <1>3, <1>5, <1>11, <1>17
<1>20. "HASH" \in G <=> PrefixOf(d) # <<>>
  <2>1. "HASH" \in G <=> "HASH" \in F /\ "HASH" \notin I1
    BY <1>7, <1>9, <1>11, <1>12
  <2>2. "HASH" \in G <=> "HASH" \in d.flags /\ ValueOf(d) # 0 /\ Base[d.conv] # 10
    BY <2>1, <1>5, <1>10
  <2>3. Base[d.conv] = 10 <=> d.conv \in {"d", "i", "u"}
    BY BaseIs
  <2>4. PrefixOf(d) # <<>> <=> "HASH" \in d.flags /\ d.conv \in {"x", "X"} /\ ValueOf(d) # 0
    BY PrefixIs
  <2>5. "HASH" \in d.flags => (Base[d.conv] # 10 <=> d.conv \in {"x", "X"})
    BY <1>1, <1>3, <2>3
  <2>6. QED
    BY <2>2, <2>4, <2>5
<1>21. QED
  BY <1>4, <1>13, <1>14, <1>15, <1>16, <1>18, <1>19, <1>20, Zenon DEF FlagsFor

(* A number as StartNumber leaves it, but for what is left of it.          *)
SignIn(d) == SignOf(d) # <<>>

(* The width the zeros are counted in: a sign takes one from it.           *)
LineWidth(d) ==
  IF d.conv = "p" THEN Bits["pointer"] \div 4
  ELSE IF SignIn(d) /\ ~ LeftSide(d) /\ FillsZeros(d) /\ WidthOf(d) > 0 THEN WidthOf(d) - 1
  ELSE WidthOf(d)

(* The number that _ntoa_format is given, for directive d.                 *)
NumberFor(d, n) ==
  /\ n = [rest |-> n.rest, negative |-> n.negative, base |-> n.base, flags |-> n.flags,
          width |-> n.width, prec |-> n.prec]
  /\ n.negative <=> ValueOf(d) < 0
  /\ n.base = Base[d.conv]
  /\ FlagsFor(d, n.flags)
  /\ n.width = LineWidth(d)
  /\ n.prec = Prec(d)

(* When C writes a sign, and which.                                        *)
LEMMA SignIs ==
  ASSUME NEW d
  PROVE  /\ SignIn(d) <=> Signed(d) /\ (ValueOf(d) < 0 \/ "PLUS" \in d.flags \/ "SPACE" \in d.flags)
         /\ SignIn(d) =>
              SignOf(d) = IF ValueOf(d) < 0 THEN <<"-">>
                          ELSE IF "PLUS" \in d.flags THEN <<"+">> ELSE <<" ">>
<1>1. PICK m, p, s : m = <<"-">> /\ p = <<"+">> /\ s = <<" ">>
  OBVIOUS
<1>2. m # <<>> /\ p # <<>> /\ s # <<>>
  BY <1>1
<1>3. PICK a : a = SignOf(d)
  OBVIOUS
<1>4. /\ ~ Signed(d) => a = <<>>
      /\ Signed(d) /\ ValueOf(d) < 0 => a = m
      /\ Signed(d) /\ ~ ValueOf(d) < 0 /\ "PLUS" \in d.flags => a = p
      /\ Signed(d) /\ ~ ValueOf(d) < 0 /\ "PLUS" \notin d.flags /\ "SPACE" \in d.flags => a = s
      /\ Signed(d) /\ ~ ValueOf(d) < 0 /\ "PLUS" \notin d.flags /\ "SPACE" \notin d.flags => a = <<>>
  <2>1. a = IF ~ Signed(d)              THEN <<>>
            ELSE IF ValueOf(d) < 0      THEN m
            ELSE IF "PLUS" \in d.flags  THEN p
            ELSE IF "SPACE" \in d.flags THEN s
            ELSE <<>>
    BY <1>1, <1>3, Zenon DEF SignOf
  <2>2. ~ Signed(d) => a = <<>>
    BY <2>1
  <2>3. Signed(d) /\ ValueOf(d) < 0 => a = m
    BY <2>1
  <2>4. Signed(d) /\ ~ ValueOf(d) < 0 /\ "PLUS" \in d.flags => a = p
    BY <2>1
  <2>5. Signed(d) /\ ~ ValueOf(d) < 0 /\ "PLUS" \notin d.flags /\ "SPACE" \in d.flags => a = s
    BY <2>1
  <2>6. Signed(d) /\ ~ ValueOf(d) < 0 /\ "PLUS" \notin d.flags /\ "SPACE" \notin d.flags => a = <<>>
    BY <2>1
  <2>7. QED
    BY <2>2, <2>3, <2>4, <2>5, <2>6
<1>5. SignIn(d) <=> a # <<>>
  BY <1>3, Zenon DEF SignIn
<1>6. QED
  BY <1>1, <1>2, <1>3, <1>4, <1>5, Zenon

(* The width with a place kept for the sign (printf.c:230-232).            *)
LEMMA WidthOfNumber ==
  ASSUME NEW d, IsPiece(d), d.conv \in DOMAIN Base, Owns(d), AsC(d), NEW f, FlagsFor(d, f),
         ValueOf(d) \in Int, ~ Signed(d) => ValueOf(d) >= 0
  PROVE  /\ SignBeforeZeros(f, ValueOf(d) < 0) <=> SignIn(d) /\ ~ LeftSide(d) /\ FillsZeros(d)
         /\ number_width(IF d.conv = "p" THEN Bits["pointer"] \div 4 ELSE width(d), f, ValueOf(d) < 0)
              = LineWidth(d)
<1>1. /\ "LEFT" \in f <=> LeftSide(d)
      /\ "ZEROPAD" \in f <=> FillsZeros(d)
      /\ "PLUS" \in f <=> Signed(d) /\ "PLUS" \in d.flags
      /\ "SPACE" \in f <=> Signed(d) /\ "SPACE" \in d.flags
  BY DEF FlagsFor
<1>2. PICK negative : negative = (ValueOf(d) < 0)
  OBVIOUS
<1>3. ValueOf(d) < 0 => Signed(d)
  OBVIOUS
<1>4. SignBeforeZeros(f, ValueOf(d) < 0) <=> SignIn(d) /\ ~ LeftSide(d) /\ FillsZeros(d)
  <2>1. SignIn(d) <=> ValueOf(d) < 0 \/ "PLUS" \in f \/ "SPACE" \in f
    BY <1>1, <1>3, SignIs, Zenon
  <2>2. {"LEFT", "ZEROPAD"} \cap f = {"ZEROPAD"} <=> "ZEROPAD" \in f /\ "LEFT" \notin f
    OBVIOUS
  <2>3. {"PLUS", "SPACE"} \cap f # {} <=> "PLUS" \in f \/ "SPACE" \in f
    OBVIOUS
  <2>4. QED
    BY <1>1, <2>1, <2>2, <2>3, Zenon DEF SignBeforeZeros
<1>5. d.conv = "p" => ~ SignIn(d)
  <2>1. d.conv = "p" => ~ Signed(d)
    BY DEF Signed
  <2>2. QED
    BY <2>1, SignIs, Zenon
<1>6. width(d) = WidthOf(d)
  <2>1. d.conv # "text"
    BY BaseIs
  <2>2. NumbersRight(d)
    BY <2>1, NumbersOfFields
  <2>3. QED
    BY <2>2 DEF NumbersRight
<1>7. QED
  BY <1>4, <1>5, <1>6, Zenon DEF number_width, LineWidth

(* The conversion begins with the magnitude of the argument.               *)
LEMMA StartIs ==
  ASSUME call \in Calls, next \in Nat, next < Len(call), used = Taken(next), StartNumber,
         NEW d, d = call[next + 1], AsC(d)
  PROVE  /\ IsPiece(d) /\ d.conv \in DOMAIN Base /\ IsInteger(d)
         /\ NumberFor(d, number') /\ number'.rest = Magnitude(ValueOf(d))
         /\ stage' = IF ValueOf(d) = 0 /\ HasPrecision(d) THEN "zeros" ELSE "digits"
         /\ buf' = <<>> /\ used' = Taken(next + 1) /\ next' = next + 1
         /\ call' = call /\ out' = out
<1>1. IsPiece(d) /\ Owns(d)
  BY ArgIs
<1>2. d.conv \in DOMAIN Base /\ d.size # "longlong" /\ Piece = d
  BY DEF StartNumber, Piece
<1>3. d.conv # "text"
  BY <1>2, BaseIs
<1>4. NumbersRight(d)
  BY <1>1, <1>3, NumbersOfFields
<1>5. Len(d.args) = Stars(d) + 1 /\ Stars(d) \in 0 .. 2
  BY <1>1, <1>3, StarsAre
<1>6. d.args[Stars(d) + 1] \in [value : Int] /\ d.size \in DOMAIN Bits
  BY <1>1, <1>2, <1>3, BaseIs, Zenon DEF IsPiece
<1>7. IsInteger(d)
  <2>1. d.args[Len(d.args)].value \in Int
    <3>1. d.args[Stars(d) + 1].value \in Int
      BY <1>6
    <3>2. QED
      BY <1>5, <3>1, Zenon
  <2>2. Bits[d.size] \in Nat \ {0}
    BY <1>6, CallsAssumption
  <2>3. QED
    BY <1>2, <1>6, <2>1, <2>2 DEF IsInteger
<1>8. PICK v : v = ValueOf(d)
  OBVIOUS
<1>9. /\ Cast(d, Arg(Stars(d) + 1).value) = v
      /\ v \in Int
      /\ ~ Signed(d) => v >= 0
  <2>1. PICK a \in Int : a = d.args[Len(d.args)].value
    BY <1>7 DEF IsInteger
  <2>2. Cast(d, a) = ValueOf(d) /\ ValueOf(d) \in Int /\ (~ Signed(d) => ValueOf(d) >= 0)
    <3>1. Bits[d.size] \in Nat \ {0}
      BY <1>7 DEF IsInteger
    <3>2. QED
      BY <2>1, <3>1, CastIs
  <2>3. Arg(Stars(d) + 1).value = a
    BY <1>4, <2>1, Zenon DEF NumbersRight
  <2>4. QED
    BY <1>8, <2>2, <2>3, Zenon
<1>10. PICK f : f = number_flags(d, v)
  OBVIOUS
<1>11. FlagsFor(d, f)
  BY <1>1, <1>2, <1>8, <1>10, FlagsOfNumber
<1>12. PICK w : w = number_width(IF d.conv = "p" THEN Bits["pointer"] \div 4 ELSE width(d), f, v < 0)
  OBVIOUS
<1>13. w = LineWidth(d)
  BY <1>1, <1>2, <1>8, <1>9, <1>11, <1>12, WidthOfNumber
<1>14. precision(d) = Prec(d)
  BY <1>3, <1>4, AsCIs DEF NumbersRight
<1>15. number' = [rest |-> Magnitude(v), negative |-> v < 0, base |-> Base[d.conv], flags |-> f,
                  width |-> w, prec |-> precision(d)]
  BY <1>2, <1>9, <1>10, <1>12, Zenon DEF StartNumber
<1>16. NumberFor(d, number') /\ number'.rest = Magnitude(v)
  <2>1. PICK n : n = number'
    OBVIOUS
  <2>2. /\ n.rest = Magnitude(v) /\ n.base = Base[d.conv] /\ n.flags = f /\ n.width = w
        /\ n.prec = precision(d) /\ n.negative = (v < 0)
    BY <1>15, <2>1
  <2>3. n.negative <=> ValueOf(d) < 0
    BY <1>8, <2>2, Zenon
  <2>6. n = [rest |-> n.rest, negative |-> n.negative, base |-> n.base, flags |-> n.flags,
             width |-> n.width, prec |-> n.prec]
    BY <1>15, <2>1, <2>2, Zenon
  <2>4. NumberFor(d, n)
    BY <1>11, <1>13, <1>14, <2>2, <2>3, <2>6, Zenon DEF NumberFor
  <2>5. QED
    BY <2>1, <2>2, <2>4
<1>17. stage' = IF v = 0 /\ HasPrecision(d) THEN "zeros" ELSE "digits"
  <2>1. stage' = IF v = 0 /\ "PRECISION" \in f THEN "zeros" ELSE "digits"
    BY <1>2, <1>9, <1>10, Zenon DEF StartNumber
  <2>2. "PRECISION" \in f <=> HasPrecision(d)
    BY <1>11 DEF FlagsFor
  <2>3. QED
    BY <2>1, <2>2, Zenon
<1>18. used' = Taken(next + 1)
  <2>1. used' = used + Stars(d) + 1
    BY <1>2 DEF StartNumber
  <2>2. PICK N \in Nat : N = Len(call)
    BY CallIs
  <2>3. PICK n \in 0 .. N - 1 : n = next
    BY <2>2
  <2>4. Taken(n) \in Nat /\ Taken(n + 1) = Taken(n) + Len(call[n + 1].args)
    BY <2>2, TakenIs
  <2>5. Len(call[n + 1].args) = Stars(d) + 1
    BY <1>5, <2>3
  <2>6. PICK k \in 0 .. 2 : k = Stars(d)
    BY <1>5
  <2>7. PICK t \in Nat : t = Taken(n)
    BY <2>4
  <2>8. used = t /\ used' = t + k + 1 /\ Taken(n + 1) = t + (k + 1)
    BY <2>1, <2>3, <2>4, <2>5, <2>6, <2>7, Zenon
  <2>9. QED
    BY <2>3, <2>8
<1>19. buf' = <<>> /\ next' = next + 1 /\ call' = call /\ out' = out
  BY DEF StartNumber
<1>20. QED
  BY <1>1, <1>2, <1>7, <1>8, <1>16, <1>17, <1>18, <1>19, Zenon

-----------------------------------------------------------------------------
(* What C prints of a number.                                              *)

(* A width is not negative.                                                *)
LEMMA FieldTypes ==
  ASSUME NEW d, IsPiece(d), d.conv # "text"
  PROVE  WidthOf(d) \in Nat /\ PrecisionOf(d) \in Int
<1>1. PICK k : k = Stars(d)
  OBVIOUS
<1>2. /\ k \in 0 .. 2 /\ Len(d.args) = k + 1
      /\ d.width = Star => d.args[1].value \in Int
      /\ d.precision = Star => d.args[k].value \in Int
      /\ d.width \in Nat \cup {Star} /\ d.precision \in Nat \cup {Star, None}
  BY <1>1, StarsAre, Zenon
<1>3. PICK w \in Int : w = StarredWidth(d)
  BY <1>2 DEF StarredWidth, Star
<1>4. Magnitude(w) \in Nat
  BY DEF Magnitude
<1>5. Len(d.args) - 1 = k
  BY <1>2
<1>6. PrecisionOf(d) = IF d.precision = Star THEN d.args[k].value ELSE d.precision
  BY <1>5, Zenon DEF PrecisionOf
<1>7. PrecisionOf(d) \in Int
  BY <1>2, <1>6 DEF Star, None
<1>8. QED
  BY <1>3, <1>4, <1>7, Zenon DEF WidthOf

(* The zeros and digits of a number: how many C wants, and how many the    *)
(* buffer is filled with.                                                  *)
RoomOf(d) ==
  IF d.conv = "p"         THEN Bits["pointer"] \div 4
  ELSE IF HasPrecision(d) THEN PrecisionOf(d)
  ELSE IF ZeroFilled(d)   THEN WidthOf(d) - Len(SignOf(d) \o PrefixOf(d))
  ELSE 0

(* How many characters the zeros fill the number to.                       *)
Zeros(d) ==
  IF d.conv = "p"         THEN Bits["pointer"] \div 4
  ELSE IF HasPrecision(d) THEN PrecisionOf(d)
  ELSE IF ZeroFilled(d)   THEN LineWidth(d)
  ELSE 0

(* The larger of two.                                                      *)
AtLeast(m, n) == IF m >= n THEN m ELSE n

(* A number has a sign or a prefix, or neither.                            *)
LEMMA MarkIs ==
  ASSUME NEW d
  PROVE  /\ IsSeq(SignOf(d)) /\ IsSeq(PrefixOf(d))
         /\ Len(SignOf(d)) = IF SignIn(d) THEN 1 ELSE 0
         /\ Len(PrefixOf(d)) = IF PrefixOf(d) # <<>> THEN 2 ELSE 0
         /\ PrefixOf(d) # <<>> => ~ SignIn(d) /\ d.conv \in {"x", "X"} /\ PrefixOf(d) = <<"0", d.conv>>
<1>1. IsSeq(SignOf(d)) /\ Len(SignOf(d)) = IF SignIn(d) THEN 1 ELSE 0
  <2>1. CASE SignIn(d)
    <3>1. \E c : SignOf(d) = <<c>>
      BY <2>1, SignIs, Zenon
    <3>2. PICK c : SignOf(d) = <<c>>
      BY <3>1
    <3>3. IsSeq(<<c>>) /\ Len(<<c>>) = 1
      BY SingleIs
    <3>4. QED
      BY <2>1, <3>2, <3>3
  <2>2. CASE ~ SignIn(d)
    <3>1. SignOf(d) = <<>>
      BY <2>2 DEF SignIn
    <3>2. QED
      BY <2>2, <3>1, NothingIs
  <2>3. QED
    BY <2>1, <2>2
<1>2. CASE PrefixOf(d) = <<>>
  BY <1>1, <1>2, NothingIs
<1>3. CASE PrefixOf(d) # <<>>
  <2>1. d.conv \in {"x", "X"}
    BY <1>3, PrefixIs, Zenon
  <2>2. PrefixOf(d) = <<"0", d.conv>>
    BY <1>3, Zenon DEF PrefixOf
  <2>3. PICK c, z : c = d.conv /\ z = <<"0", c>>
    OBVIOUS
  <2>4. z \in Seq({"0", c}) /\ Len(z) = 2
    BY <2>3
  <2>5. IsSeq(z)
    BY <2>4 DEF IsSeq
  <2>6. ~ SignIn(d)
    <3>1. ~ Signed(d)
      BY <2>1 DEF Signed
    <3>2. QED
      BY <3>1, SignIs, Zenon
  <2>7. QED
    BY <1>1, <1>3, <2>1, <2>2, <2>3, <2>4, <2>5, <2>6, Zenon
<1>4. QED
  BY <1>2, <1>3

(* No zeros, however negative their number.                                *)
LEMMA RepeatSame ==
  ASSUME NEW c, NEW m \in Int, NEW n \in Int, m > 0 \/ n > 0 => m = n
  PROVE  Repeat(c, m) = Repeat(c, n)
<1>1. 1 .. m = 1 .. n
  OBVIOUS
<1>2. QED
  BY <1>1, Zenon DEF Repeat

(* What C prints of a number.                                              *)
LEMMA BodyIs ==
  ASSUME NEW d, IsPiece(d), IsInteger(d)
  PROVE  /\ IsSeq(Digits(d)) /\ Len(Digits(d)) \in Nat /\ RoomOf(d) \in Int
         /\ IsSeq(Body(d))
         /\ Body(d) = (SignOf(d) \o PrefixOf(d))
                        \o (Repeat("0", RoomOf(d) - Len(Digits(d))) \o Digits(d))
         /\ Len(Body(d)) = Len(SignOf(d)) + Len(PrefixOf(d)) + AtLeast(Len(Digits(d)), RoomOf(d))
<1>1. d.conv \in DOMAIN Base /\ d.conv \notin {"text", "c", "s"}
  BY BaseIs DEF IsInteger
<1>2. IsSeq(Digits(d))
  <2>1. PICK v, b, up : v = Magnitude(ValueOf(d)) /\ b = Base[d.conv] /\ up = (d.conv \in {"X", "p"})
    OBVIOUS
  <2>2. PICK D \in Nat \ {0} : Digits(d) = <<>> \/ Digits(d) = Numerals(v, b, D, up)
    BY <2>1, DigitsBy, Zenon
  <2>3. IsSeq(Numerals(v, b, D, up))
    BY NumeralsAre DEF InTurn
  <2>4. QED
    BY <2>2, <2>3, NothingIs
<1>3. PICK D \in Nat : D = Len(Digits(d))
  BY <1>2, LenIs
<1>4. PICK s, p, m : s = SignOf(d) /\ p = PrefixOf(d) /\ m = s \o p
  OBVIOUS
<1>5. IsSeq(s) /\ IsSeq(p) /\ Len(s) \in Nat /\ Len(p) \in Nat
  BY <1>4, MarkIs, LenIs
<1>6. IsSeq(m) /\ Len(m) = Len(s) + Len(p)
  BY <1>4, <1>5, JoinIs
<1>7. PICK r \in Int : r = RoomOf(d)
  <2>1. d.conv # "text"
    BY <1>1
  <2>2. WidthOf(d) \in Int /\ PrecisionOf(d) \in Int
    BY <2>1, FieldTypes
  <2>3. Bits["pointer"] \div 4 \in Int
    <3>1. Bits["pointer"] \in Nat
      BY CallsAssumption
    <3>2. QED
      BY <3>1
  <2>4. WidthOf(d) - Len(m) \in Int
    BY <1>5, <1>6, <2>2
  <2>5. QED
    BY <1>4, <2>2, <2>3, <2>4 DEF RoomOf
<1>8. PICK n \in Int : n = r - D
  OBVIOUS
<1>9. PICK z, g, t, y : z = Repeat("0", n) /\ g = Digits(d) /\ t = z \o g /\ y = m \o t
  OBVIOUS
<1>10. IsSeq(z) /\ Len(z) = IF n > 0 THEN n ELSE 0
  BY <1>9, RepeatIs
<1>11. IsSeq(t) /\ Len(t) = Len(z) + D
  BY <1>2, <1>3, <1>9, <1>10, JoinIs
<1>12. Len(t) = AtLeast(D, r)
  BY <1>8, <1>10, <1>11 DEF AtLeast
<1>13. IsSeq(y) /\ Len(y) = Len(m) + Len(t)
  BY <1>6, <1>9, <1>11, JoinIs
<1>14. Body(d) = y
  <2>1. Body(d) = Numeric(d)
    BY <1>1, Zenon DEF Body
  <2>2. Numeric(d) = ((SignOf(d) \o PrefixOf(d)) \o Repeat("0", RoomOf(d) - Len(Digits(d)))) \o Digits(d)
    BY Zenon DEF Numeric, RoomOf
  <2>3. Numeric(d) = (m \o z) \o g
    BY <1>3, <1>4, <1>7, <1>8, <1>9, <2>2, Zenon
  <2>4. (m \o z) \o g = m \o (z \o g)
    BY <1>2, <1>6, <1>9, <1>10, JoinThree
  <2>5. QED
    BY <1>9, <2>1, <2>3, <2>4, Zenon
<1>15. Len(y) = Len(s) + Len(p) + AtLeast(D, r)
  <2>1. AtLeast(D, r) \in Nat
    BY DEF AtLeast
  <2>2. QED
    BY <1>5, <1>6, <1>12, <1>13, <2>1
<1>16. QED
  BY <1>2, <1>3, <1>4, <1>7, <1>8, <1>9, <1>13, <1>14, <1>15, Zenon

(* How far the buffer is filled before sign and prefix, and whether zeros  *)
(* give way to the prefix then.                                            *)
Target(d) == AtLeast(Len(Digits(d)), Zeros(d))

(* The prefix takes the place of characters (printf.c:243-248).            *)
Eats(d, n) == ~ HasPrecision(d) /\ n # 0 /\ (n = Prec(d) \/ n = LineWidth(d))

(* A number that is not 0 has digits.                                      *)
LEMMA SomeDigits ==
  ASSUME NEW d, IsInteger(d), ValueOf(d) # 0
  PROVE  Len(Digits(d)) \in Nat \ {0}
<1>1. PICK v, b, up : v = Magnitude(ValueOf(d)) /\ b = Base[d.conv] /\ up = (d.conv \in {"X", "p"})
  OBVIOUS
<1>2. v # 0
  <2>1. PICK a \in Int : a = d.args[Len(d.args)].value
    BY DEF IsInteger
  <2>2. Bits[d.size] \in Nat \ {0}
    BY DEF IsInteger
  <2>3. ValueOf(d) \in Int
    BY <2>1, <2>2, CastIs
  <2>4. QED
    BY <1>1, <2>3 DEF Magnitude
<1>3. PICK D \in Nat \ {0} : Digits(d) = Numerals(v, b, D, up)
  BY <1>1, <1>2, DigitsBy, Zenon
<1>4. Len(Numerals(v, b, D, up)) = D
  BY NumeralsAre DEF InTurn
<1>5. QED
  BY <1>3, <1>4

(* The buffer is filled to what C wants between prefix and end; two more   *)
(* when the prefix takes their place.                                      *)
LEMMA TargetIs ==
  ASSUME NEW d, IsPiece(d), IsInteger(d), AsC(d)
  PROVE  /\ Target(d) \in Nat /\ Zeros(d) \in Int
         /\ Target(d) <= Len(Body(d))
         /\ PrefixOf(d) = <<>> => Target(d) = AtLeast(Len(Digits(d)), RoomOf(d))
         /\ PrefixOf(d) # <<>> /\ ~ Eats(d, Target(d)) =>
              Target(d) = AtLeast(Len(Digits(d)), RoomOf(d))
         /\ PrefixOf(d) # <<>> /\ Eats(d, Target(d)) =>
              Target(d) = AtLeast(Len(Digits(d)), RoomOf(d)) + 2
<1>1. d.conv \in DOMAIN Base /\ d.conv # "text"
  BY BaseIs DEF IsInteger
<1>2. AsCNumber(d)
  BY <1>1, AsCIs
<1>3. PICK W \in Nat, P \in Int : W = WidthOf(d) /\ P = PrecisionOf(d)
  BY <1>1, FieldTypes
<1>4. PICK D \in Nat, R \in Int : D = Len(Digits(d)) /\ R = RoomOf(d)
  BY BodyIs
<1>5. PICK B \in Nat : B = Bits["pointer"] \div 4
  <2>1. Bits["pointer"] \in Nat
    BY CallsAssumption
  <2>2. QED
    BY <2>1
<1>6. PICK l \in Nat, m \in Nat : l = Len(SignOf(d)) /\ m = Len(PrefixOf(d))
  BY MarkIs, LenIs
<1>7. PICK S, H : S = SignOf(d) /\ H = PrefixOf(d)
  OBVIOUS
<1>8. Len(S \o H) = l + m
  BY <1>6, <1>7, MarkIs, JoinIs
<1>9. /\ l = IF SignIn(d) THEN 1 ELSE 0
      /\ m = IF H # <<>> THEN 2 ELSE 0
      /\ H # <<>> => ~ SignIn(d) /\ d.conv \in {"x", "X"}
  BY <1>6, <1>7, MarkIs
<1>10. R = IF d.conv = "p" THEN B ELSE IF HasPrecision(d) THEN P
           ELSE IF ZeroFilled(d) THEN W - (l + m) ELSE 0
  BY <1>3, <1>4, <1>5, <1>7, <1>8, Zenon DEF RoomOf
<1>11. PICK V \in Int : V = LineWidth(d)
  <2>1. LineWidth(d) = B \/ LineWidth(d) = W - 1 \/ LineWidth(d) = W
    BY <1>3, <1>5, Zenon DEF LineWidth
  <2>2. QED
    BY <2>1
<1>12. d.conv # "p" =>
         V = IF SignIn(d) /\ ~ LeftSide(d) /\ FillsZeros(d) /\ W > 0 THEN W - 1 ELSE W
  BY <1>3, <1>11, Zenon DEF LineWidth
<1>13. PICK Z \in Int : Z = Zeros(d)
  <2>1. Zeros(d) = B \/ Zeros(d) = P \/ Zeros(d) = V \/ Zeros(d) = 0
    BY <1>3, <1>5, <1>11, Zenon DEF Zeros
  <2>2. QED
    BY <2>1
<1>14. Z = IF d.conv = "p" THEN B ELSE IF HasPrecision(d) THEN P ELSE IF ZeroFilled(d) THEN V ELSE 0
  BY <1>3, <1>5, <1>11, <1>13, Zenon DEF Zeros
<1>15. PICK T, A : T = AtLeast(D, Z) /\ A = AtLeast(D, R)
  OBVIOUS
<1>16. T \in Nat /\ A \in Nat /\ D <= T /\ D <= A
  BY <1>15 DEF AtLeast
<1>17. Target(d) = T
  BY <1>4, <1>13, <1>15, Zenon DEF Target
<1>18. HasPrecision(d) <=> P >= 0
  BY <1>3 DEF HasPrecision
<1>19. CASE H = <<>>
  <2>1. T = A
    <3>1. CASE d.conv = "p" \/ HasPrecision(d) \/ ~ ZeroFilled(d)
      <4>1. Z = R
        BY <1>10, <1>14, <3>1, Zenon
      <4>2. QED
        BY <1>15, <4>1
    <3>2. CASE ~ (d.conv = "p" \/ HasPrecision(d) \/ ~ ZeroFilled(d))
      <4>1. ~ LeftSide(d) /\ FillsZeros(d)
        BY <3>2, Zenon DEF ZeroFilled, FillsZeros
      <4>2. V = IF SignIn(d) /\ W > 0 THEN W - 1 ELSE W
        BY <1>12, <3>2, <4>1, Zenon
      <4>3. R = W - (l + m) /\ Z = V
        BY <1>10, <1>14, <3>2, Zenon
      <4>4. m = 0
        BY <1>9, <1>19
      <4>5. CASE SignIn(d)
        <5>1. l = 1
          BY <1>9, <4>5
        <5>2. R = W - 1 /\ Z = (IF W > 0 THEN W - 1 ELSE W)
          BY <4>2, <4>3, <4>4, <4>5, <5>1
        <5>3. QED
          BY <1>15, <5>2 DEF AtLeast
      <4>6. CASE ~ SignIn(d)
        <5>1. l = 0
          BY <1>9, <4>6
        <5>2. R = W /\ Z = W
          BY <4>2, <4>3, <4>4, <4>6, <5>1
        <5>3. QED
          BY <1>15, <5>2
      <4>7. QED
        BY <4>5, <4>6
    <3>3. QED
      BY <3>1, <3>2
  <2>2. Len(Body(d)) = l + m + A
    BY <1>4, <1>6, <1>15, BodyIs, Zenon
  <2>3. T <= Len(Body(d))
    BY <1>16, <2>1, <2>2
  <2>4. QED
    BY <1>4, <1>7, <1>13, <1>15, <1>16, <1>17, <1>19, <2>1, <2>3, Zenon
<1>20. CASE H # <<>>
  <2>1. ~ SignIn(d) /\ d.conv \in {"x", "X"} /\ d.conv # "p" /\ m = 2 /\ l = 0
    BY <1>9, <1>20
  <2>2. V = W
    BY <1>12, <2>1, Zenon
  <2>3. D # 0
    <3>1. ValueOf(d) # 0 /\ "HASH" \in d.flags
      BY <1>7, <1>20, PrefixIs
    <3>2. QED
      BY <1>4, <3>1, SomeDigits
  <2>4. "HASH" \in d.flags
    BY <1>7, <1>20, PrefixIs
  <2>5. ~ HasPrecision(d) => D \notin {W, IF "ZEROPAD" \in d.flags THEN W - 1 ELSE 0}
    BY <1>2, <1>3, <1>4, <2>1, <2>4, Zenon DEF AsCNumber
  <2>6. Eats(d, T) <=> ~ HasPrecision(d) /\ T # 0 /\ (T = Prec(d) \/ T = V)
    BY <1>11, Zenon DEF Eats
  <2>7. (Eats(d, T) /\ T = A + 2) \/ (~ Eats(d, T) /\ T = A)
    <3>1. CASE HasPrecision(d)
      <4>1. Z = R
        BY <1>10, <1>14, <2>1, <3>1, Zenon
      <4>2. T = A
        BY <1>15, <4>1
      <4>3. QED
        BY <2>6, <3>1, <4>2
    <3>2. CASE ~ HasPrecision(d) /\ ZeroFilled(d)
      <4>1. Z = W /\ R = W - (l + m)
        BY <1>10, <1>14, <2>1, <2>2, <3>2, Zenon
      <4>2. Prec(d) = 0
        BY <3>2 DEF Prec
      <4>3. "ZEROPAD" \in d.flags
        BY <3>2 DEF ZeroFilled
      <4>4. D # W /\ D # W - 1
        BY <2>5, <3>2, <4>3
      <4>5. R = W - 2
        BY <2>1, <4>1
      <4>6. Eats(d, T) <=> T = W
        <5>1. T # 0
          BY <1>16, <2>3
        <5>2. QED
          BY <2>2, <2>6, <3>2, <4>2, <5>1, Zenon
      <4>7. (T = W /\ T = A + 2) \/ (T # W /\ T = A)
        BY <1>15, <4>1, <4>4, <4>5 DEF AtLeast
      <4>8. QED
        BY <4>6, <4>7
    <3>3. CASE ~ HasPrecision(d) /\ ~ ZeroFilled(d)
      <4>1. Z = 0 /\ R = 0
        BY <1>10, <1>14, <2>1, <3>3, Zenon
      <4>2. T = D /\ A = D
        BY <1>15, <4>1 DEF AtLeast
      <4>3. Prec(d) = 0
        BY <3>3 DEF Prec
      <4>4. D # W
        BY <2>5, <3>3
      <4>5. ~ Eats(d, T)
        BY <2>2, <2>3, <2>6, <4>2, <4>3, <4>4
      <4>6. QED
        BY <4>2, <4>5
    <3>4. QED
      BY <3>1, <3>2, <3>3
  <2>8. Len(Body(d)) = l + m + A
    BY <1>4, <1>6, <1>15, BodyIs, Zenon
  <2>9. T <= Len(Body(d))
    BY <1>16, <2>1, <2>7, <2>8
  <2>10. QED
    BY <1>4, <1>7, <1>13, <1>15, <1>16, <1>17, <1>20, <2>7, <2>9, Zenon
<1>21. QED
  BY <1>19, <1>20

-----------------------------------------------------------------------------
(* The end of the buffer: zeros, prefix, sign.                             *)

(* Until where zeros are put in the buffer.                                *)
LEMMA WantsWhen ==
  ASSUME NEW d, IsPiece(d), IsInteger(d), AsC(d), NumberFor(d, number), Len(buf) \in Nat
  PROVE  WantsZero <=> Len(buf) < BufferSize /\ Len(buf) < Zeros(d)
<1>1. d.conv \in DOMAIN Base /\ d.conv # "text"
  BY BaseIs DEF IsInteger
<1>2. AsCNumber(d)
  BY <1>1, AsCIs
<1>3. /\ ~ (LeftSide(d) /\ HasPrecision(d))
      /\ d.conv = "p" => ~ LeftSide(d) /\ ~ HasPrecision(d)
  BY <1>2, Zenon DEF AsCNumber
<1>4. PICK L \in Nat : L = Len(buf)
  OBVIOUS
<1>5. Zeros(d) \in Int
  BY TargetIs
<1>6. PICK Z \in Int : Z = Zeros(d)
  BY <1>5
<1>7. PICK P, V : P = Prec(d) /\ V = LineWidth(d)
  OBVIOUS
<1>8. WantsZero <=> /\ ~ LeftSide(d) /\ L < BufferSize
                    /\ L < P \/ (FillsZeros(d) /\ L < V)
  <2>1. number.prec = P /\ number.width = V /\ FlagsFor(d, number.flags)
    BY <1>7, Zenon DEF NumberFor
  <2>2. ("LEFT" \in number.flags <=> LeftSide(d)) /\ ("ZEROPAD" \in number.flags <=> FillsZeros(d))
    BY <2>1 DEF FlagsFor
  <2>3. QED
    BY <1>4, <2>1, <2>2, Zenon DEF WantsZero
<1>9. ~ HasPrecision(d) => P = 0
  BY <1>7 DEF Prec
<1>10. CASE LeftSide(d)
  <2>1. ~ HasPrecision(d) /\ d.conv # "p" /\ ~ ZeroFilled(d)
    BY <1>3, <1>10, Zenon DEF ZeroFilled
  <2>2. Z = 0
    BY <1>6, <2>1, Zenon DEF Zeros
  <2>3. ~ L < Z
    BY <2>2
  <2>4. QED
    BY <1>4, <1>6, <1>8, <1>10, <2>3, Zenon
<1>11. CASE ~ LeftSide(d) /\ d.conv = "p"
  <2>1. P = 0 /\ FillsZeros(d)
    BY <1>3, <1>9, <1>11 DEF FillsZeros
  <2>2. Z = V
    BY <1>6, <1>7, <1>11, Zenon DEF Zeros, LineWidth
  <2>3. ~ L < P
    BY <2>1
  <2>4. QED
    BY <1>4, <1>6, <1>8, <1>11, <2>1, <2>2, <2>3, Zenon
<1>12. CASE ~ LeftSide(d) /\ d.conv # "p" /\ HasPrecision(d)
  <2>1. ~ FillsZeros(d)
    BY <1>12 DEF FillsZeros
  <2>2. Z = P
    BY <1>6, <1>7, <1>12, Zenon DEF Zeros, Prec
  <2>3. QED
    BY <1>4, <1>6, <1>8, <1>12, <2>1, <2>2, Zenon
<1>13. CASE ~ LeftSide(d) /\ d.conv # "p" /\ ~ HasPrecision(d)
  <2>1. FillsZeros(d) <=> ZeroFilled(d)
    BY <1>13, Zenon DEF FillsZeros, ZeroFilled
  <2>2. ~ L < P
    BY <1>9, <1>13
  <2>3. CASE ZeroFilled(d)
    <3>1. Z = V
      BY <1>6, <1>7, <1>13, <2>3, Zenon DEF Zeros
    <3>2. QED
      BY <1>4, <1>6, <1>8, <1>13, <2>1, <2>2, <2>3, <3>1, Zenon
  <2>4. CASE ~ ZeroFilled(d)
    <3>1. Z = 0
      BY <1>6, <1>13, <2>4, Zenon DEF Zeros
    <3>2. ~ L < Z
      BY <3>1
    <3>3. QED
      BY <1>4, <1>6, <1>8, <1>13, <2>1, <2>2, <2>4, <3>2, Zenon
  <2>5. QED
    BY <2>3, <2>4
<1>14. QED
  BY <1>10, <1>11, <1>12, <1>13

(* The sign is written when C wants one and there is room.                 *)
LEMMA SignWritten ==
  ASSUME NEW d, IsInteger(d), NumberFor(d, number), NEW b
  PROVE  /\ ~ SignIn(d) => WithSign(b) = b
         /\ SignIn(d) /\ Room(b) => \E c : SignOf(d) = <<c>> /\ WithSign(b) = Append(b, c)
<1>1. FlagsFor(d, number.flags) /\ (number.negative <=> ValueOf(d) < 0)
  BY Zenon DEF NumberFor
<1>2. /\ "PLUS" \in number.flags <=> Signed(d) /\ "PLUS" \in d.flags
      /\ "SPACE" \in number.flags <=> Signed(d) /\ "SPACE" \in d.flags
  BY <1>1 DEF FlagsFor
<1>3. ValueOf(d) < 0 => Signed(d)
  <2>1. PICK a \in Int : a = d.args[Len(d.args)].value
    BY DEF IsInteger
  <2>2. Bits[d.size] \in Nat \ {0}
    BY DEF IsInteger
  <2>3. ValueOf(d) \in Int /\ (~ Signed(d) => ValueOf(d) >= 0)
    BY <2>1, <2>2, CastIs
  <2>4. QED
    BY <2>3
<1>4. {"PLUS", "SPACE"} \cap number.flags # {} <=> "PLUS" \in number.flags \/ "SPACE" \in number.flags
  OBVIOUS
<1>5. (number.negative \/ {"PLUS", "SPACE"} \cap number.flags # {}) <=> SignIn(d)
  BY <1>1, <1>2, <1>3, <1>4, SignIs, Zenon
<1>6. PICK c : c = IF number.negative THEN "-" ELSE IF "PLUS" \in number.flags THEN "+" ELSE " "
  OBVIOUS
<1>7. WithSign(b) = IF Room(b) /\ (number.negative \/ {"PLUS", "SPACE"} \cap number.flags # {})
                      THEN Append(b, c) ELSE b
  BY <1>6, Zenon DEF WithSign
<1>8. SignIn(d) => SignOf(d) = <<c>>
  <2>1. ASSUME SignIn(d) PROVE SignOf(d) = <<c>>
    <3>1. Signed(d) /\ SignOf(d) = IF ValueOf(d) < 0 THEN <<"-">>
                                   ELSE IF "PLUS" \in d.flags THEN <<"+">> ELSE <<" ">>
      BY <2>1, SignIs
    <3>2. CASE number.negative
      BY <1>1, <1>6, <3>1, <3>2, Zenon
    <3>3. CASE ~ number.negative /\ "PLUS" \in d.flags
      BY <1>1, <1>2, <1>6, <3>1, <3>3, Zenon
    <3>4. CASE ~ number.negative /\ "PLUS" \notin d.flags
      BY <1>1, <1>2, <1>6, <3>1, <3>4, Zenon
    <3>5. QED
      BY <3>2, <3>3, <3>4
  <2>2. QED
    BY <2>1
<1>9. QED
  BY <1>5, <1>7, <1>8, Zenon

(* The prefix takes the place of zeros, or is put behind them.             *)
LEMMA HashWritten ==
  ASSUME NEW d, IsPiece(d), IsInteger(d), AsC(d), NumberFor(d, number), NEW g, IsSeq(g),
         NEW T \in Nat, NEW A \in Nat, A + 2 <= BufferSize,
         PrefixOf(d) # <<>>,
         (Eats(d, T) /\ T = A + 2) \/ (~ Eats(d, T) /\ T = A)
  PROVE  WithHash(Filled(g, T)) = Append(Append(Filled(g, A), d.conv), "0")
<1>1. FlagsFor(d, number.flags) /\ number.prec = Prec(d) /\ number.width = LineWidth(d)
      /\ number.base = Base[d.conv]
  BY Zenon DEF NumberFor
<1>2. /\ "PRECISION" \in number.flags <=> HasPrecision(d)
      /\ "UPPERCASE" \in number.flags <=> d.conv \in {"X", "p"}
      /\ "HASH" \in number.flags <=> PrefixOf(d) # <<>>
  BY <1>1 DEF FlagsFor
<1>11. d.conv \in {"x", "X"} /\ "HASH" \in number.flags
  BY <1>2, MarkIs
<1>12. number.base = 16
  BY <1>1, <1>11, BaseIs
<1>13. PICK b : b = Filled(g, T)
  OBVIOUS
<1>14. IsSeq(b) /\ Len(b) = T
  BY <1>13, FilledIs
<1>15. b # <<>> <=> T # 0
  <2>1. CASE T = 0
    BY <1>13, <2>1, FilledNone
  <2>2. CASE T # 0
    BY <1>14, <2>2, NothingIs
  <2>3. QED
    BY <2>1, <2>2
<1>16. ("PRECISION" \notin number.flags /\ b # <<>> /\ (Len(b) = number.prec \/ Len(b) = number.width))
        <=> Eats(d, T)
  BY <1>1, <1>2, <1>14, <1>15, Zenon DEF Eats
<1>17. PICK cut \in Nat : cut = IF ~ Eats(d, T) THEN 0 ELSE IF number.base = 16 /\ T > 1 THEN 2 ELSE 1
  OBVIOUS
<1>18. T - cut = A
  BY <1>12, <1>17
<1>19. PICK kept : kept = Filled(g, A)
  OBVIOUS
<1>20. SubSeq(b, 1, Len(b) - cut) = kept
  <2>1. A <= T
    OBVIOUS
  <2>2. SubSeq(Filled(g, T), 1, A) = Filled(g, A)
    BY <2>1, FilledCut
  <2>3. QED
    BY <1>13, <1>14, <1>18, <1>19, <2>2, Zenon
<1>21. IsSeq(kept) /\ Len(kept) = A
  BY <1>19, FilledIs
<1>22. Room(kept)
  BY <1>21, BufferAssumption DEF Room
<1>23. 16 \in DOMAIN Letter /\ Letter[16] = d.conv
  <2>1. DOMAIN Letter = {2, 16}
    BY DEF Letter
  <2>2. Letter[16] = IF "UPPERCASE" \in number.flags THEN "X" ELSE "x"
    BY DEF Letter
  <2>3. CASE d.conv = "X"
    BY <1>2, <2>1, <2>2, <2>3
  <2>4. CASE d.conv = "x"
    BY <1>2, <2>1, <2>2, <2>4
  <2>5. QED
    BY <1>11, <2>3, <2>4
<1>24. PICK mark : mark = Append(kept, d.conv)
  OBVIOUS
<1>25. IsSeq(mark) /\ Len(mark) = A + 1
  BY <1>21, <1>24, AppendIs
<1>26. Room(mark)
  BY <1>25, BufferAssumption DEF Room
<1>27. WithHash(b) = Append(mark, "0")
  <2>1. cut = IF ~ ("PRECISION" \notin number.flags /\ b # <<>>
                      /\ (Len(b) = number.prec \/ Len(b) = number.width)) THEN 0
              ELSE IF number.base = 16 /\ Len(b) > 1 THEN 2 ELSE 1
    BY <1>14, <1>16, <1>17, Zenon
  <2>2. mark = IF number.base \in DOMAIN Letter /\ Room(kept)
                 THEN Append(kept, Letter[number.base]) ELSE kept
    BY <1>12, <1>22, <1>23, <1>24, Zenon
  <2>3. WithHash(b) = IF "HASH" \notin number.flags THEN b
                      ELSE IF Room(mark) THEN Append(mark, "0") ELSE mark
    BY <1>20, <2>1, <2>2, Zenon DEF WithHash
  <2>4. QED
    BY <1>11, <1>26, <2>3, Zenon
<1>28. QED
  BY <1>13, <1>19, <1>24, <1>27, Zenon

(* Two characters.                                                         *)
LEMMA PairIs ==
  ASSUME NEW a, NEW b
  PROVE  <<a>> \o <<b>> = <<a, b>>
<1>1. PICK o, c, w, j : o = <<a>> /\ c = <<b>> /\ w = <<a, b>> /\ j = o \o c
  OBVIOUS
<1>2. IsSeq(o) /\ Len(o) = 1 /\ o[1] = a /\ IsSeq(c) /\ Len(c) = 1 /\ c[1] = b
  BY <1>1, SingleIs
<1>3. w \in Seq({a, b}) /\ Len(w) = 2 /\ w[1] = a /\ w[2] = b
  BY <1>1
<1>4. IsSeq(w)
  BY <1>3 DEF IsSeq
<1>5. /\ IsSeq(j) /\ Len(j) = Len(o) + Len(c)
      /\ \A i \in 1 .. Len(o) : j[i] = o[i]
      /\ \A i \in 1 .. Len(c) : j[Len(o) + i] = c[i]
  BY <1>1, <1>2, JoinIs
<1>6. Len(j) = 2 /\ j[1] = a /\ j[2] = b
  BY <1>2, <1>5
<1>7. Len(j) = Len(w) /\ \A i \in 1 .. Len(j) : j[i] = w[i]
  BY <1>3, <1>6
<1>8. j = w
  BY <1>4, <1>5, <1>7, SameSeq
<1>9. QED
  BY <1>1, <1>8, Zenon

(* Sign and prefix, and the buffer read backwards.                         *)
LEMMA PrefixDone ==
  ASSUME NEW d, IsPiece(d), IsInteger(d), AsC(d), NumberFor(d, number),
         buf = Filled(Digits(d), Target(d))
  PROVE  /\ IsSeq(WithSign(WithHash(buf)))
         /\ Reverse(WithSign(WithHash(buf))) = Body(d)
<1>1. AsCNumber(d)
  <2>1. d.conv \in DOMAIN Base /\ d.conv # "text"
    BY BaseIs DEF IsInteger
  <2>2. QED
    BY <2>1, AsCIs
<1>2. PICK g : g = Digits(d)
  OBVIOUS
<1>3. IsSeq(g)
  BY <1>2, BodyIs
<1>4. PICK D \in Nat, R \in Int : D = Len(g) /\ R = RoomOf(d)
  BY <1>2, BodyIs
<1>5. PICK A \in Nat : A = AtLeast(D, R)
  BY DEF AtLeast
<1>6. PICK T \in Nat : T = Target(d)
  BY TargetIs
<1>7. PICK s, p : s = SignOf(d) /\ p = PrefixOf(d)
  OBVIOUS
<1>8. IsSeq(s) /\ IsSeq(p) /\ Len(s) \in Nat /\ Len(p) \in Nat
  BY <1>7, MarkIs, LenIs
<1>9. Len(Body(d)) = Len(s) + Len(p) + A
  BY <1>2, <1>4, <1>5, <1>7, BodyIs, Zenon
<1>10. Len(s) + Len(p) + A <= BufferSize
  BY <1>1, <1>9 DEF AsCNumber
<1>11. PICK z, y : z = Repeat("0", A - D) /\ y = z \o g
  OBVIOUS
<1>12. Repeat("0", R - D) = z
  <2>1. PICK i \in Int, j \in Int : i = R - D /\ j = A - D
    OBVIOUS
  <2>2. i > 0 \/ j > 0 => i = j
    BY <1>5, <2>1 DEF AtLeast
  <2>3. Repeat("0", i) = Repeat("0", j)
    BY <2>2, RepeatSame
  <2>4. QED
    BY <1>11, <2>1, <2>3, Zenon
<1>13. Body(d) = (s \o p) \o y
  BY <1>2, <1>4, <1>7, <1>11, <1>12, BodyIs, Zenon
<1>14. D <= A
  BY <1>5 DEF AtLeast
<1>15. Reverse(Filled(g, A)) = y
  <2>1. Len(g) <= A
    BY <1>4, <1>14
  <2>2. Reverse(Filled(g, A)) = Repeat("0", A - Len(g)) \o g
    BY <1>3, <2>1, FilledReverse
  <2>3. QED
    BY <1>4, <1>11, <2>2, Zenon
<1>16. IsSeq(Filled(g, A)) /\ Len(Filled(g, A)) = A
  BY <1>3, FilledIs
<1>17. IsSeq(y)
  <2>1. IsSeq(z)
    BY <1>11, RepeatIs
  <2>2. QED
    BY <1>3, <1>11, <2>1, JoinIs
<1>18. buf = Filled(g, T)
  BY <1>2, <1>6
<1>19. CASE p # <<>>
  <2>1. (Eats(d, T) /\ T = A + 2) \/ (~ Eats(d, T) /\ T = A)
    BY <1>2, <1>4, <1>5, <1>6, <1>7, <1>19, TargetIs, Zenon
  <2>2. ~ SignIn(d) /\ p = <<"0", d.conv>> /\ Len(p) = 2
    BY <1>7, <1>19, MarkIs
  <2>3. A + 2 <= BufferSize
    BY <1>8, <1>10, <2>2, BufferAssumption
  <2>4. WithHash(Filled(g, T)) = Append(Append(Filled(g, A), d.conv), "0")
    BY <1>3, <1>7, <1>19, <2>1, <2>3, HashWritten
  <2>5. PICK f, x, u, r : f = Filled(g, A) /\ x = d.conv /\ u = Append(f, x) /\ r = Append(u, "0")
    OBVIOUS
  <2>6. IsSeq(f) /\ IsSeq(u) /\ IsSeq(r)
    <3>1. IsSeq(f)
      BY <1>16, <2>5
    <3>2. IsSeq(u)
      BY <2>5, <3>1, AppendIs
    <3>3. QED
      BY <2>5, <3>1, <3>2, AppendIs
  <2>7. WithSign(WithHash(buf)) = r
    <3>1. WithHash(buf) = r
      BY <1>18, <2>4, <2>5, Zenon
    <3>2. WithSign(r) = r
      BY <2>2, SignWritten
    <3>3. QED
      BY <3>1, <3>2, Zenon
  <2>8. PICK o, c : o = <<"0">> /\ c = <<x>>
    OBVIOUS
  <2>9. IsSeq(o) /\ IsSeq(c)
    BY <2>8, SingleIs
  <2>10. Reverse(r) = o \o (c \o y)
    <3>1. Reverse(r) = o \o Reverse(u)
      BY <2>5, <2>6, <2>8, ReverseAppend
    <3>2. Reverse(u) = c \o Reverse(f)
      BY <2>5, <2>6, <2>8, ReverseAppend
    <3>3. Reverse(f) = y
      BY <1>15, <2>5
    <3>4. QED
      BY <3>1, <3>2, <3>3, Zenon
  <2>11. (o \o c) \o y = o \o (c \o y)
    BY <1>17, <2>9, JoinThree
  <2>12. s \o p = o \o c
    <3>1. s = <<>>
      BY <1>7, <2>2 DEF SignIn
    <3>2. s \o p = p
      BY <1>8, <3>1, JoinNothing
    <3>3. o \o c = <<"0", x>>
      BY <2>8, PairIs, Zenon
    <3>4. QED
      BY <2>2, <2>5, <3>2, <3>3, Zenon
  <2>13. QED
    BY <1>13, <2>6, <2>7, <2>10, <2>11, <2>12, Zenon
<1>20. CASE p = <<>>
  <2>1. T = A
    BY <1>2, <1>4, <1>5, <1>6, <1>7, <1>20, TargetIs, Zenon
  <2>2. PICK f : f = Filled(g, A)
    OBVIOUS
  <2>3. IsSeq(f) /\ Len(f) = A /\ Reverse(f) = y /\ buf = f
    BY <1>15, <1>16, <1>18, <2>1, <2>2
  <2>4. WithHash(buf) = f
    <3>1. "HASH" \notin number.flags
      BY <1>7, <1>20, Zenon DEF NumberFor, FlagsFor
    <3>2. QED
      BY <2>3, <3>1, Zenon DEF WithHash
  <2>5. s \o p = s
    BY <1>8, <1>20, JoinNothing
  <2>6. CASE SignIn(d)
    <3>1. Len(s) = 1
      BY <1>7, <2>6, MarkIs
    <3>2. A < BufferSize
      BY <1>8, <1>10, <3>1, BufferAssumption
    <3>3. Room(f)
      BY <2>3, <3>2 DEF Room
    <3>4. PICK c : SignOf(d) = <<c>> /\ WithSign(f) = Append(f, c)
      BY <2>6, <3>3, SignWritten
    <3>5. PICK r : r = Append(f, c)
      OBVIOUS
    <3>6. IsSeq(r)
      BY <2>3, <3>5, AppendIs
    <3>7. Reverse(r) = <<c>> \o Reverse(f)
      BY <2>3, <3>5, ReverseAppend
    <3>8. QED
      BY <1>7, <1>13, <2>3, <2>4, <2>5, <3>4, <3>5, <3>6, <3>7, Zenon
  <2>7. CASE ~ SignIn(d)
    <3>1. s = <<>>
      BY <1>7, <2>7 DEF SignIn
    <3>2. WithSign(f) = f
      BY <2>7, SignWritten
    <3>3. s \o y = y
      BY <1>17, <3>1, JoinNothing
    <3>4. QED
      BY <1>13, <2>3, <2>4, <2>5, <3>2, <3>3, Zenon
  <2>8. QED
    BY <2>6, <2>7
<1>21. QED
  BY <1>19, <1>20

-----------------------------------------------------------------------------
(* A conversion.                                                           *)

(* The conversion of d in each of its stages s, with number n and buffer b.*)
InDigits(d, n, b) ==
  \E D \in Nat \ {0} : \E k \in 0 .. D - 1 :
    /\ IsLong(Magnitude(ValueOf(d)), Base[d.conv], D)
    /\ Digits(d) = Numerals(Magnitude(ValueOf(d)), Base[d.conv], D, d.conv \in {"X", "p"})
    /\ b = Filled(Digits(d), k)
    /\ n.rest = Magnitude(ValueOf(d)) \div Power(Base[d.conv])[k]

(* All digits are in the buffer and zeros follow.                          *)
InZeros(d, b) ==
  \E L \in Nat : b = Filled(Digits(d), L) /\ Len(Digits(d)) <= L /\ L <= Target(d)

(* The buffer in each of the stages of a conversion.                       *)
Converts(d, s, n, b) ==
  /\ NumberFor(d, n)
  /\ \/ s = "digits" /\ InDigits(d, n, b)
     \/ s = "zeros" /\ InZeros(d, b)
     \/ s = "reverse" /\ IsSeq(b) /\ Reverse(b) = Body(d)

(* The value of an integer, and its magnitude.                             *)
LEMMA ValueIs ==
  ASSUME NEW d, IsInteger(d)
  PROVE  ValueOf(d) \in Int /\ Magnitude(ValueOf(d)) \in Nat /\ (Magnitude(ValueOf(d)) = 0 <=> ValueOf(d) = 0)
<1>1. PICK a \in Int : a = d.args[Len(d.args)].value
  BY DEF IsInteger
<1>2. Bits[d.size] \in Nat \ {0}
  BY DEF IsInteger
<1>3. ValueOf(d) \in Int
  BY <1>1, <1>2, CastIs
<1>4. PICK v \in Int : v = ValueOf(d)
  BY <1>3
<1>5. Magnitude(v) \in Nat /\ (Magnitude(v) = 0 <=> v = 0)
  BY DEF Magnitude
<1>6. QED
  BY <1>4, <1>5, Zenon

(* The sizes a conversion deals with: what it fills fits in the buffer.    *)
LEMMA Converting ==
  ASSUME NEW d, IsPiece(d), IsInteger(d), AsC(d)
  PROVE  /\ IsSeq(Digits(d)) /\ Len(Digits(d)) \in Nat
         /\ Target(d) \in Nat /\ Len(Digits(d)) <= Target(d) /\ Target(d) <= BufferSize
         /\ Zeros(d) \in Int /\ (Target(d) = Len(Digits(d)) \/ Target(d) = Zeros(d))
<1>1. AsCNumber(d)
  <2>1. d.conv \in DOMAIN Base /\ d.conv # "text"
    BY BaseIs DEF IsInteger
  <2>2. QED
    BY <2>1, AsCIs
<1>2. IsSeq(Digits(d)) /\ Len(Digits(d)) \in Nat /\ IsSeq(Body(d))
  BY BodyIs
<1>3. PICK D \in Nat, B \in Nat, T \in Nat, Z \in Int :
        D = Len(Digits(d)) /\ B = Len(Body(d)) /\ T = Target(d) /\ Z = Zeros(d)
  <2>1. Len(Body(d)) \in Nat
    BY <1>2, LenIs
  <2>2. Target(d) \in Nat /\ Zeros(d) \in Int
    BY TargetIs
  <2>3. QED
    BY <1>2, <2>1, <2>2
<1>4. T <= B
  BY <1>3, TargetIs
<1>5. B <= BufferSize
  BY <1>1, <1>3 DEF AsCNumber
<1>6. T = AtLeast(D, Z)
  BY <1>3, Zenon DEF Target
<1>7. D <= T /\ (T = D \/ T = Z)
  BY <1>6 DEF AtLeast
<1>8. T <= BufferSize
  BY <1>4, <1>5, BufferAssumption
<1>9. QED
  BY <1>2, <1>3, <1>7, <1>8

(* No digit yet; a 0 of a precision of 0 has none.                         *)
LEMMA StartConverts ==
  ASSUME NEW d, IsPiece(d), IsInteger(d), AsC(d), NEW n, NumberFor(d, n),
         n.rest = Magnitude(ValueOf(d)),
         NEW s, s = IF ValueOf(d) = 0 /\ HasPrecision(d) THEN "zeros" ELSE "digits"
  PROVE  Converts(d, s, n, <<>>)
<1>30. PICK v \in Nat : v = Magnitude(ValueOf(d))
  BY ValueIs
<1>1. PICK b, up : v = Magnitude(ValueOf(d)) /\ b = Base[d.conv] /\ up = (d.conv \in {"X", "p"})
  BY <1>30
<1>2. v = 0 <=> ValueOf(d) = 0
  BY <1>1, ValueIs
<1>3. PICK D \in Nat \ {0} :
        IsLong(v, b, D) /\ Digits(d) = IF v = 0 /\ HasPrecision(d) THEN <<>> ELSE Numerals(v, b, D, up)
  BY <1>1, DigitsBy, Zenon
<1>4. PICK g : g = Digits(d)
  OBVIOUS
<1>5. Filled(g, 0) = <<>>
  BY FilledNone
<1>6. CASE ValueOf(d) = 0 /\ HasPrecision(d)
  <2>1. g = <<>>
    BY <1>2, <1>3, <1>4, <1>6, Zenon
  <2>2. Len(g) = 0
    BY <2>1, NothingIs
  <2>3. Len(g) <= 0 /\ 0 <= Target(d)
    BY <2>2, Converting
  <2>4. InZeros(d, <<>>)
    BY <1>4, <1>5, <2>3 DEF InZeros
  <2>5. s = "zeros"
    BY <1>6
  <2>6. QED
    BY <2>4, <2>5 DEF Converts
<1>7. CASE ~ (ValueOf(d) = 0 /\ HasPrecision(d))
  <2>1. g = Numerals(v, b, D, up)
    BY <1>2, <1>3, <1>4, <1>7, Zenon
  <2>2. s = "digits"
    BY <1>7, Zenon
  <2>3. PICK k : k = 0
    OBVIOUS
  <2>4. k \in 0 .. D - 1
    BY <2>3
  <2>5. v \div Power(b)[k] = v
    <3>1. b \in Nat \ {0} /\ b >= 2
      BY <1>1, BaseIs DEF IsInteger
    <3>2. v \div Power(b)[0] = v
      BY <1>3, <3>1, QuotientsAre
    <3>3. QED
      BY <2>3, <3>2
  <2>6. n.rest = v \div Power(b)[k]
    BY <1>1, <2>5
  <2>7. <<>> = Filled(g, k)
    BY <1>5, <2>3
  <2>8. InDigits(d, n, <<>>)
    BY <1>1, <1>3, <1>4, <2>1, <2>4, <2>6, <2>7, Zenon DEF InDigits
  <2>9. QED
    BY <2>2, <2>8 DEF Converts
<1>8. QED
  BY <1>6, <1>7

(* One more digit, or the last.                                            *)
LEMMA DigitConverts ==
  ASSUME NEW d, IsPiece(d), IsInteger(d), AsC(d), NumberFor(d, number), InDigits(d, number, buf), Digit
  PROVE  Converts(d, stage', number', buf')
<1>30. PICK v \in Nat : v = Magnitude(ValueOf(d))
  BY ValueIs
<1>1. PICK b, up : v = Magnitude(ValueOf(d)) /\ b = Base[d.conv] /\ up = (d.conv \in {"X", "p"})
  BY <1>30
<1>2. b \in Nat \ {0} /\ b >= 2
  BY <1>1, BaseIs DEF IsInteger
<1>3. PICK g : g = Digits(d)
  OBVIOUS
<1>4. PICK D \in Nat \ {0} : \E k \in 0 .. D - 1 :
        IsLong(v, b, D) /\ g = Numerals(v, b, D, up) /\ buf = Filled(g, k) /\ number.rest = v \div Power(b)[k]
  BY <1>1, <1>3, Zenon DEF InDigits
<1>5. PICK k \in 0 .. D - 1 :
        IsLong(v, b, D) /\ g = Numerals(v, b, D, up) /\ buf = Filled(g, k) /\ number.rest = v \div Power(b)[k]
  BY <1>4
<1>6. /\ IsSeq(g) /\ Len(g) = D
      /\ g[D - k] = Numeral((v \div Power(b)[k]) % b, up)
  <2>1. InTurn(v, b, D, up, Numerals(v, b, D, up))
    BY NumeralsAre
  <2>2. QED
    BY <1>5, <2>1, Zenon DEF InTurn
<1>7. PICK j : j = k + 1
  OBVIOUS
<1>8. j \in 1 .. D /\ k \in Nat
  BY <1>7
<1>9. PICK r : r = v \div Power(b)[j]
  OBVIOUS
<1>10. (v \div Power(b)[k]) \div b = r
  BY <1>2, <1>5, <1>7, <1>9, QuotientsAre
<1>11. number.base = b /\ FlagsFor(d, number.flags)
  BY <1>1, Zenon DEF NumberFor
<1>12. PICK c : c = g[D - k]
  OBVIOUS
<1>13. PICK x, y : x = (v \div Power(b)[k]) % b /\ y = ("UPPERCASE" \in number.flags)
  OBVIOUS
<1>14. Numeral(x, y) = c
  <2>1. "UPPERCASE" \in number.flags <=> d.conv \in {"X", "p"}
    BY <1>11 DEF FlagsFor
  <2>2. Numeral(x, y) = Numeral(x, up)
    <3>1. y <=> up
      BY <1>1, <1>13, <2>1, Zenon
    <3>2. QED
      BY <3>1, Zenon DEF Numeral
  <2>3. QED
    BY <1>6, <1>12, <1>13, <2>2, Zenon
<1>15. buf' = Append(buf, c)
  BY <1>5, <1>11, <1>13, <1>14, Zenon DEF Digit
<1>16. buf' = Filled(g, j)
  <2>1. c = IF k < Len(g) THEN g[Len(g) - k] ELSE "0"
    BY <1>6, <1>8, <1>12
  <2>2. Append(Filled(g, k), c) = Filled(g, k + 1)
    BY <1>6, <1>8, <2>1, FilledAppend
  <2>3. QED
    BY <1>5, <1>7, <1>15, <2>2, Zenon
<1>17. number' = [number EXCEPT !.rest = r]
  BY <1>5, <1>10, <1>11, Zenon DEF Digit
<1>18. NumberFor(d, number') /\ number'.rest = r
  <2>1. PICK m : m = number'
    OBVIOUS
  <2>2. number = [rest |-> number.rest, negative |-> number.negative, base |-> number.base,
                  flags |-> number.flags, width |-> number.width, prec |-> number.prec]
    BY Zenon DEF NumberFor
  <2>3. m = [rest |-> r, negative |-> number.negative, base |-> number.base,
             flags |-> number.flags, width |-> number.width, prec |-> number.prec]
    BY <1>17, <2>1, <2>2
  <2>4. /\ m.rest = r /\ m.negative = number.negative /\ m.base = number.base
        /\ m.flags = number.flags /\ m.width = number.width /\ m.prec = number.prec
    BY <2>3
  <2>5. NumberFor(d, m)
    BY <2>3, <2>4, Zenon DEF NumberFor
  <2>6. QED
    BY <2>1, <2>4, <2>5
<1>19. Len(buf) = k
  BY <1>5, <1>6, <1>8, FilledIs
<1>20. stage' = IF r # 0 /\ k + 1 < BufferSize THEN "digits" ELSE "zeros"
  BY <1>5, <1>10, <1>11, <1>19, Zenon DEF Digit
<1>21. Target(d) \in Nat /\ D <= Target(d) /\ Target(d) <= BufferSize
  BY <1>3, <1>6, Converting
<1>22. CASE j = D
  <2>1. r = 0
    BY <1>2, <1>5, <1>9, <1>22, QuotientsAre
  <2>2. stage' = "zeros"
    BY <1>20, <2>1
  <2>3. InZeros(d, buf')
    <3>1. D \in Nat /\ Len(g) <= D /\ D <= Target(d) /\ buf' = Filled(g, D)
      BY <1>6, <1>16, <1>21, <1>22
    <3>2. QED
      BY <1>3, <3>1, Zenon DEF InZeros
  <2>4. QED
    BY <1>18, <2>2, <2>3 DEF Converts
<1>23. CASE j # D
  <2>1. j \in 1 .. D - 1 /\ j \in 0 .. D - 1
    BY <1>8, <1>23
  <2>2. r # 0
    BY <1>2, <1>5, <1>9, <2>1, QuotientsAre
  <2>3. k + 1 < BufferSize
    BY <1>7, <1>21, <2>1, BufferAssumption
  <2>4. stage' = "digits"
    BY <1>20, <2>2, <2>3
  <2>5. InDigits(d, number', buf')
    BY <1>1, <1>3, <1>5, <1>9, <1>16, <1>18, <2>1, Zenon DEF InDigits
  <2>6. QED
    BY <1>18, <2>4, <2>5 DEF Converts
<1>24. QED
  BY <1>22, <1>23

(* One more zero.                                                          *)
LEMMA ZeroConverts ==
  ASSUME NEW d, IsPiece(d), IsInteger(d), AsC(d), NumberFor(d, number), InZeros(d, buf), PadZero
  PROVE  Converts(d, stage', number', buf')
<1>1. PICK g : g = Digits(d)
  OBVIOUS
<1>2. PICK L \in Nat : buf = Filled(g, L) /\ Len(g) <= L /\ L <= Target(d)
  BY <1>1, Zenon DEF InZeros
<1>3. PICK D \in Nat, T \in Nat, Z \in Int : D = Len(g) /\ T = Target(d) /\ Z = Zeros(d)
  BY <1>1, Converting
<1>4. IsSeq(g) /\ (T = D \/ T = Z)
  BY <1>1, <1>3, Converting
<1>5. Len(buf) = L
  BY <1>2, <1>4, FilledIs
<1>6. L < Z
  <2>1. WantsZero
    BY DEF PadZero
  <2>2. Len(buf) \in Nat
    BY <1>5
  <2>3. Len(buf) < Zeros(d)
    BY <2>1, <2>2, WantsWhen
  <2>4. QED
    BY <1>3, <1>5, <2>3
<1>7. Zeros(d) <= Target(d)
  <2>1. T = AtLeast(D, Z)
    BY <1>1, <1>3, Zenon DEF Target
  <2>2. Z <= T
    BY <2>1 DEF AtLeast
  <2>3. QED
    BY <1>3, <2>2
<1>8. L + 1 \in Nat /\ Len(g) <= L + 1 /\ L + 1 <= Target(d)
  BY <1>2, <1>3, <1>6, <1>7
<1>9. buf' = Filled(g, L + 1)
  <2>1. PICK c : c = "0"
    OBVIOUS
  <2>2. ~ L < D
    BY <1>2, <1>3
  <2>3. c = IF L < Len(g) THEN g[Len(g) - L] ELSE "0"
    BY <1>3, <2>1, <2>2
  <2>4. Append(Filled(g, L), c) = Filled(g, L + 1)
    BY <1>4, <2>3, FilledAppend
  <2>5. buf' = Append(buf, c)
    BY <2>1 DEF PadZero
  <2>6. QED
    BY <1>2, <2>4, <2>5, Zenon
<1>10. InZeros(d, buf')
  BY <1>1, <1>8, <1>9, Zenon DEF InZeros
<1>11. stage' = "zeros" /\ number' = number
  BY DEF PadZero
<1>12. QED
  BY <1>10, <1>11, Zenon DEF Converts

(* Prefix and sign behind them.                                            *)
LEMMA PrefixConverts ==
  ASSUME NEW d, IsPiece(d), IsInteger(d), AsC(d), NumberFor(d, number), InZeros(d, buf), Prefix
  PROVE  Converts(d, stage', number', buf')
<1>1. PICK g : g = Digits(d)
  OBVIOUS
<1>2. PICK L \in Nat : buf = Filled(g, L) /\ Len(g) <= L /\ L <= Target(d)
  BY <1>1, Zenon DEF InZeros
<1>3. PICK D \in Nat, T \in Nat, Z \in Int : D = Len(g) /\ T = Target(d) /\ Z = Zeros(d)
  BY <1>1, Converting
<1>4. IsSeq(g) /\ (T = D \/ T = Z) /\ T <= BufferSize
  BY <1>1, <1>3, Converting
<1>5. Len(buf) = L
  BY <1>2, <1>4, FilledIs
<1>6. ~ (L < BufferSize /\ L < Z)
  <2>1. ~ WantsZero
    BY DEF Prefix
  <2>2. Len(buf) \in Nat
    BY <1>5
  <2>3. WantsZero <=> Len(buf) < BufferSize /\ Len(buf) < Zeros(d)
    BY <2>2, WantsWhen
  <2>4. QED
    BY <1>3, <1>5, <2>1, <2>3, Zenon
<1>7. L = T
  BY <1>2, <1>3, <1>4, <1>6, BufferAssumption
<1>8. buf = Filled(Digits(d), Target(d))
  BY <1>1, <1>2, <1>3, <1>7, Zenon
<1>9. IsSeq(WithSign(WithHash(buf))) /\ Reverse(WithSign(WithHash(buf))) = Body(d)
  BY <1>8, PrefixDone
<1>10. stage' = "reverse" /\ number' = number /\ buf' = WithSign(WithHash(buf))
  BY DEF Prefix
<1>11. QED
  BY <1>9, <1>10, Zenon DEF Converts

-----------------------------------------------------------------------------
(* What is printed of a piece.                                             *)

(* No filling when there is nothing to fill.                               *)
LEMMA Filling ==
  ASSUME NEW n \in Int
  PROVE  IsSeq(Spaces(n)) /\ (n <= 0 => Spaces(n) = <<>>)
<1>1. PICK s : s = Spaces(n)
  OBVIOUS
<1>2. s = Repeat(" ", n)
  BY <1>1, SpacesAre
<1>3. IsSeq(s) /\ Len(s) = IF n > 0 THEN n ELSE 0
  BY <1>2, RepeatIs
<1>4. n <= 0 => s = <<>>
  <2>1. ASSUME n <= 0 PROVE s = <<>>
    <3>1. Len(s) = 0
      BY <1>3, <2>1
    <3>2. Len(s) = Len(<<>>) /\ \A i \in 1 .. Len(s) : s[i] = <<>>[i]
      BY <3>1, NothingIs
    <3>3. QED
      BY <1>3, <3>2, NothingIs, SameSeq
  <2>2. QED
    BY <2>1
<1>5. QED
  BY <1>1, <1>3, <1>4

(* The number in the buffer is what C prints, padded as C pads it.         *)
LEMMA PrintedNumber ==
  ASSUME NEW d, IsPiece(d), IsInteger(d), AsC(d), NumberFor(d, number),
         IsSeq(buf), Reverse(buf) = Body(d), out_rev
  PROVE  out' = out \o Printed(d)
<1>1. d.conv \in DOMAIN Base /\ d.conv # "text"
  BY BaseIs DEF IsInteger
<1>2. AsCNumber(d)
  BY <1>1, AsCIs
<1>3. FlagsFor(d, number.flags) /\ number.width = LineWidth(d)
  BY Zenon DEF NumberFor
<1>4. ("LEFT" \in number.flags <=> LeftSide(d)) /\ ("ZEROPAD" \in number.flags <=> FillsZeros(d))
  BY <1>3 DEF FlagsFor
<1>5. PICK x : x = Body(d)
  OBVIOUS
<1>6. IsSeq(x) /\ Len(x) \in Nat /\ Len(buf) = Len(x)
  <2>1. IsSeq(x)
    BY <1>5, BodyIs
  <2>2. Len(Reverse(buf)) = Len(buf)
    BY ReverseIs
  <2>3. QED
    BY <1>5, <2>1, <2>2, LenIs
<1>7. PICK B \in Nat : B = Len(x)
  BY <1>6
<1>8. PICK W \in Nat : W = WidthOf(d)
  BY <1>1, FieldTypes
<1>9. PICK V : V = LineWidth(d)
  OBVIOUS
<1>10. PICK f : f = Spaces(V - B)
  OBVIOUS
<1>11. PICK h, t : /\ h = IF {"LEFT", "ZEROPAD"} \cap number.flags = {} THEN f ELSE <<>>
                   /\ t = IF "LEFT" \in number.flags THEN f ELSE <<>>
  OBVIOUS
<1>12. out' = out \o ((h \o x) \o t)
  <2>1. f = Spaces(number.width - Len(buf))
    BY <1>3, <1>6, <1>7, <1>9, <1>10, Zenon
  <2>2. QED
    BY <1>5, <1>11, <2>1, Zenon DEF out_rev, Put
<1>13. {"LEFT", "ZEROPAD"} \cap number.flags = {} <=> ~ LeftSide(d) /\ ~ FillsZeros(d)
  BY <1>4
<1>14. Printed(d) = IF d.conv = "p" THEN x
                    ELSE IF LeftSide(d) THEN x \o Spaces(W - B) ELSE Spaces(W - B) \o x
  <2>1. d.conv \in {"text", "p"} <=> d.conv = "p"
    BY <1>1
  <2>2. QED
    BY <1>5, <1>7, <1>8, <2>1, Zenon DEF Printed
<1>15. <<>> \o x = x /\ x \o <<>> = x
  BY <1>6, JoinNothing
<1>16. CASE d.conv = "p"
  <2>1. ~ LeftSide(d) /\ FillsZeros(d)
    BY <1>2, <1>16, Zenon DEF AsCNumber, FillsZeros
  <2>2. h = <<>> /\ t = <<>>
    BY <1>4, <1>11, <1>13, <2>1, Zenon
  <2>3. QED
    BY <1>12, <1>14, <1>15, <1>16, <2>2, Zenon
<1>17. CASE d.conv # "p" /\ LeftSide(d)
  <2>1. V = W
    BY <1>8, <1>9, <1>17, Zenon DEF LineWidth
  <2>2. h = <<>> /\ t = Spaces(W - B)
    BY <1>4, <1>10, <1>11, <1>13, <1>17, <2>1, Zenon
  <2>3. QED
    BY <1>12, <1>14, <1>15, <1>17, <2>2, Zenon
<1>18. CASE d.conv # "p" /\ ~ LeftSide(d) /\ ~ FillsZeros(d)
  <2>1. V = W
    BY <1>8, <1>9, <1>18, Zenon DEF LineWidth
  <2>2. h = Spaces(W - B) /\ t = <<>>
    BY <1>4, <1>10, <1>11, <1>13, <1>18, <2>1, Zenon
  <2>3. IsSeq(Spaces(W - B) \o x)
    <3>1. W - B \in Int
      OBVIOUS
    <3>2. IsSeq(Spaces(W - B))
      BY <3>1, Filling
    <3>3. QED
      BY <1>6, <3>2, JoinIs
  <2>4. (Spaces(W - B) \o x) \o <<>> = Spaces(W - B) \o x
    BY <2>3, JoinNothing
  <2>5. QED
    BY <1>12, <1>14, <1>18, <2>2, <2>4, Zenon
<1>19. CASE d.conv # "p" /\ ~ LeftSide(d) /\ FillsZeros(d)
  <2>1. h = <<>> /\ t = <<>>
    BY <1>4, <1>11, <1>13, <1>19, Zenon
  <2>2. W - B <= 0
    <3>1. ~ HasPrecision(d) /\ ZeroFilled(d)
      BY <1>19, Zenon DEF FillsZeros, ZeroFilled
    <3>2. PICK l \in Nat, m \in Nat : l = Len(SignOf(d)) /\ m = Len(PrefixOf(d))
      BY MarkIs, LenIs
    <3>3. Len(SignOf(d) \o PrefixOf(d)) = l + m
      BY <3>2, MarkIs, JoinIs
    <3>4. RoomOf(d) = W - (l + m)
      BY <1>8, <1>19, <3>1, <3>3, Zenon DEF RoomOf
    <3>5. PICK D \in Nat, R \in Int : D = Len(Digits(d)) /\ R = RoomOf(d)
      BY BodyIs
    <3>6. B = l + m + AtLeast(D, R)
      BY <1>5, <1>7, <3>2, <3>5, BodyIs, Zenon
    <3>7. AtLeast(D, R) >= R /\ AtLeast(D, R) \in Int
      BY DEF AtLeast
    <3>8. QED
      BY <3>4, <3>5, <3>6, <3>7
  <2>3. Spaces(W - B) = <<>>
    <3>1. PICK i \in Int : i = W - B
      OBVIOUS
    <3>2. i <= 0
      BY <2>2, <3>1
    <3>3. Spaces(i) = <<>>
      BY <3>2, Filling
    <3>4. QED
      BY <3>1, <3>3, Zenon
  <2>4. QED
    BY <1>12, <1>14, <1>15, <1>19, <2>1, <2>3, Zenon
<1>20. QED
  BY <1>16, <1>17, <1>18, <1>19

(* A character or a string, cut and padded as in C.                        *)
LEMMA PrintedText ==
  ASSUME NEW d, IsPiece(d), d.conv \in {"c", "s"}, AsC(d), Owns(d)
  PROVE  Padded(d, Shown(d)) = Printed(d)
<1>1. d.conv # "text" /\ d.conv # "p"
  OBVIOUS
<1>2. Starred(d)
  BY <1>1, AsCIs
<1>3. NumbersRight(d)
  BY <1>1, NumbersOfFields
<1>4. ("PRECISION" \in flags(d) <=> HasPrecision(d)) /\ ("LEFT" \in flags(d) <=> LeftSide(d))
  BY <1>1, <1>2, FlagsOfFields
<1>5. width(d) = WidthOf(d) /\ Arg(Stars(d) + 1) = d.args[Len(d.args)]
  BY <1>3, Zenon DEF NumbersRight
<1>6. HasPrecision(d) => precision(d) = PrecisionOf(d)
  BY <1>2, <1>3, Zenon DEF NumbersRight, Prec
<1>7. Shown(d) = TextOf(d)
  <2>1. PICK x : x = d.args[Len(d.args)].text
    OBVIOUS
  <2>2. Shown(d) = IF d.conv = "s" /\ "PRECISION" \in flags(d) /\ precision(d) < Len(x)
                     THEN SubSeq(x, 1, precision(d)) ELSE x
    BY <1>5, <2>1, Zenon DEF Shown
  <2>3. TextOf(d) = IF d.conv = "s" /\ HasPrecision(d) /\ PrecisionOf(d) < Len(x)
                      THEN SubSeq(x, 1, PrecisionOf(d)) ELSE x
    BY <2>1, Zenon DEF TextOf
  <2>4. CASE HasPrecision(d)
    <3>1. precision(d) = PrecisionOf(d) /\ "PRECISION" \in flags(d)
      BY <1>4, <1>6, <2>4, Zenon
    <3>2. Shown(d) = IF d.conv = "s" /\ HasPrecision(d) /\ PrecisionOf(d) < Len(x)
                       THEN SubSeq(x, 1, PrecisionOf(d)) ELSE x
      BY <2>2, <2>4, <3>1, Zenon
    <3>3. QED
      BY <2>3, <3>2, Zenon
  <2>5. CASE ~ HasPrecision(d)
    <3>1. Shown(d) = x /\ TextOf(d) = x
      BY <1>4, <2>2, <2>3, <2>5, Zenon
    <3>2. QED
      BY <3>1, Zenon
  <2>6. QED
    BY <2>4, <2>5
<1>8. Body(d) = TextOf(d)
  BY <1>1, Zenon DEF Body
<1>9. PICK x : x = TextOf(d)
  OBVIOUS
<1>10. Padded(d, x) = IF LeftSide(d) THEN x \o Spaces(WidthOf(d) - Len(x)) ELSE Spaces(WidthOf(d) - Len(x)) \o x
  BY <1>4, <1>5, Zenon DEF Padded
<1>11. d.conv \notin {"text", "p"}
  BY <1>1
<1>12. Printed(d) = IF LeftSide(d) THEN x \o Spaces(WidthOf(d) - Len(x)) ELSE Spaces(WidthOf(d) - Len(x)) \o x
  BY <1>8, <1>9, <1>11, Zenon DEF Printed
<1>13. QED
  BY <1>7, <1>9, <1>10, <1>12, Zenon

(* An integer is of a size the build has, if it is to be as in C.          *)
LEMMA IntegerIs ==
  ASSUME NEW d, IsPiece(d), d.conv \in DOMAIN Base, d.size # "longlong"
  PROVE  IsInteger(d)
<1>1. d.conv # "text"
  BY BaseIs
<1>2. Len(d.args) = Stars(d) + 1
  BY <1>1, StarsAre
<1>3. d.args[Stars(d) + 1] \in [value : Int] /\ d.size \in DOMAIN Bits
  BY <1>1, BaseIs, Zenon DEF IsPiece
<1>4. d.args[Stars(d) + 1].value \in Int
  BY <1>3
<1>5. d.args[Len(d.args)].value \in Int
  BY <1>2, <1>4, Zenon
<1>6. Bits[d.size] \in Nat \ {0}
  BY <1>3, CallsAssumption
<1>7. QED
  BY <1>3, <1>5, <1>6 DEF IsInteger

(* What C prints are characters.                                           *)
LEMMA PrintedIsSeq ==
  ASSUME NEW d, IsPiece(d), AsC(d)
  PROVE  IsSeq(Printed(d))
<1>1. CASE d.conv = "text"
  <2>1. Printed(d) = d.text
    BY <1>1, Zenon DEF Printed, Body
  <2>2. d.text \in Seq(STRING)
    BY <1>1, BaseIs DEF IsPiece
  <2>3. QED
    BY <2>1, <2>2 DEF IsSeq
<1>2. CASE d.conv # "text"
  <2>1. d.conv \in {"c", "s"} \cup DOMAIN Base
    BY <1>2, StarsAre
  <2>2. IsSeq(Body(d))
    <3>1. CASE d.conv \in DOMAIN Base
      <4>1. d.size # "longlong"
        BY <1>2, <3>1, AsCIs DEF AsCNumber
      <4>2. IsInteger(d)
        BY <3>1, <4>1, IntegerIs
      <4>3. QED
        BY <4>2, BodyIs
    <3>2. CASE d.conv \in {"c", "s"}
      <4>1. Body(d) = TextOf(d)
        BY <1>2, <3>2, Zenon DEF Body
      <4>2. PICK x : x = d.args[Len(d.args)].text
        OBVIOUS
      <4>3. x \in Seq(STRING)
        <5>1. d.args[Stars(d) + 1] \in [text : Seq(STRING)] /\ Len(d.args) = Stars(d) + 1
          <6>1. d.conv \notin DOMAIN Base
            BY <3>2, BaseIs
          <6>2. QED
            BY <1>2, <6>1, Zenon DEF IsPiece
        <5>2. d.args[Stars(d) + 1].text \in Seq(STRING)
          BY <5>1
        <5>3. QED
          BY <4>2, <5>1, <5>2, Zenon
      <4>4. PICK P \in Int : P = PrecisionOf(d)
        BY <1>2, FieldTypes
      <4>5. CASE HasPrecision(d) /\ P < Len(x)
        <5>1. P \in Nat /\ P <= Len(x)
          BY <4>3, <4>4, <4>5 DEF HasPrecision
        <5>2. \A i \in 1 .. P : x[i] \in STRING
          BY <4>3, <5>1
        <5>3. SubSeq(x, 1, P) \in Seq(STRING)
          BY <4>3, <5>1, <5>2
        <5>4. TextOf(d) = x \/ TextOf(d) = SubSeq(x, 1, P)
          BY <4>2, <4>4, Zenon DEF TextOf
        <5>5. QED
          BY <4>1, <4>3, <5>3, <5>4 DEF IsSeq
      <4>6. CASE ~ (HasPrecision(d) /\ P < Len(x))
        <5>1. TextOf(d) = x
          BY <4>2, <4>4, <4>6, Zenon DEF TextOf
        <5>2. QED
          BY <4>1, <4>3, <5>1 DEF IsSeq
      <4>7. QED
        BY <4>5, <4>6
    <3>3. QED
      BY <2>1, <3>1, <3>2
  <2>3. PICK x : x = Body(d)
    OBVIOUS
  <2>4. PICK i \in Int : i = WidthOf(d) - Len(x)
    <3>1. WidthOf(d) \in Nat
      BY <1>2, FieldTypes
    <3>2. Len(x) \in Nat
      BY <2>2, <2>3, LenIs
    <3>3. QED
      BY <3>1, <3>2
  <2>5. IsSeq(Spaces(i)) /\ IsSeq(x)
    BY <2>2, <2>3, Filling
  <2>6. IsSeq(x \o Spaces(i)) /\ IsSeq(Spaces(i) \o x)
    BY <2>5, JoinIs
  <2>7. Printed(d) = x \/ Printed(d) = x \o Spaces(i) \/ Printed(d) = Spaces(i) \o x
    BY <2>3, <2>4, Zenon DEF Printed
  <2>8. QED
    BY <2>5, <2>6, <2>7, Zenon
<1>3. QED
  BY <1>1, <1>2

-----------------------------------------------------------------------------
(* The loop of printf_ prints what C's does.                               *)

(* What the first n pieces print.                                          *)
SoFar(n) == FlattenSeq([i \in 1 .. n |-> Printed(call[i])])
(* All of them are such as AsC describes.                                  *)
AllAsC(n) == \A i \in 1 .. n : AsC(call[i])

(* One piece more prints more.                                             *)
LEMMA SoFarNext ==
  ASSUME call \in Calls, NEW n \in Nat, n < Len(call), AllAsC(n + 1)
  PROVE  SoFar(n + 1) = SoFar(n) \o Printed(call[n + 1])
<1>1. PICK N \in Nat : N = Len(call) /\ \A i \in 1 .. N : IsPiece(call[i])
  BY CallIs
<1>2. PICK m \in Nat : m = n + 1
  OBVIOUS
<1>3. PICK w : w = [i \in 1 .. m |-> Printed(call[i])]
  OBVIOUS
<1>4. ASSUME NEW i \in 1 .. m PROVE IsSeq(w[i])
  <2>1. PICK d : d = call[i]
    OBVIOUS
  <2>2. IsPiece(d)
    BY <1>1, <1>2, <2>1
  <2>3. AsC(d)
    BY <1>2, <2>1 DEF AllAsC
  <2>4. IsSeq(Printed(d))
    BY <2>2, <2>3, PrintedIsSeq
  <2>5. QED
    BY <1>3, <2>1, <2>4
<1>5. FlattenSeq([i \in 1 .. n + 1 |-> w[i]]) = FlattenSeq([i \in 1 .. n |-> w[i]]) \o w[n + 1]
  <2>1. \A i \in 1 .. n + 1 : IsSeq(w[i])
    BY <1>2, <1>4
  <2>2. QED
    BY <2>1, FlattenNext
<1>6. [i \in 1 .. n + 1 |-> w[i]] = [i \in 1 .. n + 1 |-> Printed(call[i])]
  <2>1. ASSUME NEW i \in 1 .. n + 1 PROVE w[i] = Printed(call[i])
    BY <1>2, <1>3
  <2>2. QED
    BY <2>1
<1>7. [i \in 1 .. n |-> w[i]] = [i \in 1 .. n |-> Printed(call[i])]
  <2>1. ASSUME NEW i \in 1 .. n PROVE w[i] = Printed(call[i])
    <3>1. i \in 1 .. m
      BY <1>2
    <3>2. QED
      BY <1>3, <3>1
  <2>2. QED
    BY <2>1
<1>8. w[n + 1] = Printed(call[n + 1])
  <2>1. n + 1 \in 1 .. m
    BY <1>2
  <2>2. QED
    BY <1>3, <2>1
<1>9. QED
  BY <1>5, <1>6, <1>7, <1>8, Zenon DEF SoFar

(* No piece prints nothing.                                                *)
LEMMA SoFarNone == SoFar(0) = <<>>
<1>1. PICK w : w = [i \in 1 .. 0 |-> Printed(call[i])]
  OBVIOUS
<1>2. PICK F : F = [n \in 0 .. 0 |-> FlattenSeq([i \in 1 .. n |-> w[i]])]
  OBVIOUS
<1>3. SeqsOf({}, 0, w) /\ IsFlat(0, w, F)
  BY <1>2 DEF SeqsOf, IsFlat
<1>4. FlatParts({}, 0, w, F)
  BY <1>3, FlattenIs
<1>5. F[0] = <<>>
  BY <1>4 DEF FlatParts
<1>6. F[0] = FlattenSeq([i \in 1 .. 0 |-> w[i]])
  BY <1>2
<1>7. [i \in 1 .. 0 |-> w[i]] = [i \in 1 .. 0 |-> Printed(call[i])]
  BY <1>1
<1>8. QED
  BY <1>5, <1>6, <1>7, Zenon DEF SoFar

(* Where the loop is as long as all the pieces were such as AsC describes. *)
Standing ==
  /\ used = Taken(next)
  /\ stage = "format" => out = SoFar(next)
  /\ stage # "format" =>
       /\ out = SoFar(next - 1)
       /\ IsPiece(call[next]) /\ IsInteger(call[next])
       /\ Converts(call[next], stage, number, buf)

(* The inductive invariant: PrintsAsC in the middle of a conversion too,   *)
(* once the pieces so far are as AsC describes.                            *)
PInv ==
  /\ call \in Calls /\ next \in 0 .. Len(call)
  /\ stage # "format" => next # 0
  /\ AllAsC(next) => Standing

(* The next piece is one of them.                                          *)
LEMMA AllAsCNext ==
  ASSUME NEW n \in Nat, AllAsC(n + 1)
  PROVE  AllAsC(n) /\ AsC(call[n + 1])
BY DEF AllAsC

(* A piece that is printed at once.                                        *)
LEMMA PieceStands ==
  ASSUME PInv, stage = "format", next < Len(call),
         call' = call, next' = next + 1, stage' = stage,
         AllAsC(next + 1) => used' = Taken(next + 1) /\ out' = out \o Printed(call[next + 1])
  PROVE  PInv'
<1>1. call \in Calls /\ next \in Nat /\ next + 1 \in 0 .. Len(call)
  <2>1. Len(call) \in Nat
    BY CallIs DEF PInv
  <2>2. QED
    BY <2>1 DEF PInv
<1>2. ASSUME AllAsC(next + 1) PROVE used' = Taken(next + 1) /\ out' = SoFar(next + 1)
  <2>1. AllAsC(next)
    BY <1>1, <1>2, AllAsCNext
  <2>2. out = SoFar(next)
    BY <2>1 DEF PInv, Standing
  <2>3. SoFar(next + 1) = SoFar(next) \o Printed(call[next + 1])
    BY <1>1, <1>2, SoFarNext
  <2>4. QED
    BY <1>2, <2>2, <2>3, Zenon
<1>3. Standing' <=> /\ used' = Taken(next + 1)
                    /\ stage' = "format" => out' = SoFar(next + 1)
                    /\ stage' # "format" => (out = SoFar(next - 1)
                         /\ IsPiece(call[next]) /\ IsInteger(call[next])
                         /\ Converts(call[next], stage, number, buf))'
  BY DEF Standing, Taken, SoFar
<1>4. AllAsC(next)' <=> AllAsC(next + 1)
  BY DEF AllAsC
<1>5. QED
  BY <1>1, <1>2, <1>3, <1>4 DEF PInv

(* What holds where the loop takes its next piece.                         *)
LEMMA NextPiece ==
  ASSUME PInv, stage = "format", next < Len(call), AllAsC(next + 1)
  PROVE  /\ call \in Calls /\ next \in Nat /\ used = Taken(next) /\ out = SoFar(next)
         /\ IsPiece(Piece) /\ Owns(Piece) /\ AsC(Piece) /\ Piece = call[next + 1]
         /\ Len(Piece.args) \in Nat /\ Taken(next) \in Nat
         /\ Taken(next + 1) = Taken(next) + Len(Piece.args)
<1>1. PICK N \in Nat : N = Len(call)
  BY CallIs DEF PInv
<1>2. call \in Calls /\ next \in 0 .. N - 1
  BY <1>1 DEF PInv
<1>3. AllAsC(next) /\ AsC(call[next + 1])
  BY <1>2, AllAsCNext
<1>4. used = Taken(next) /\ out = SoFar(next)
  BY <1>3 DEF PInv, Standing
<1>5. PICK d : d = call[next + 1]
  OBVIOUS
<1>6. IsPiece(d) /\ Owns(d)
  BY <1>1, <1>2, <1>4, <1>5, ArgIs
<1>7. Len(d.args) \in Nat
  BY <1>6, ArgsAre
<1>8. PICK n \in 0 .. N - 1 : n = next
  BY <1>2
<1>9. Taken(n) \in Nat /\ Taken(n + 1) = Taken(n) + Len(call[n + 1].args)
  BY <1>1, <1>2, TakenIs
<1>10. Piece = d
  BY <1>5 DEF Piece
<1>11. Taken(next) \in Nat /\ Taken(next + 1) = Taken(next) + Len(d.args)
  BY <1>5, <1>8, <1>9, Zenon
<1>12. next \in Nat
  BY <1>2
<1>13. QED
  BY <1>2, <1>3, <1>4, <1>5, <1>6, <1>7, <1>10, <1>11, <1>12, Zenon

(* Text between directives, and '%%'.                                      *)
LEMMA TextStands == PInv /\ Text => PInv'
<1> SUFFICES ASSUME PInv, Text PROVE PInv'
  OBVIOUS
<1>1. /\ stage = "format" /\ next < Len(call) /\ Piece.conv = "text" /\ out' = out \o Piece.text
      /\ next' = next + 1 /\ call' = call /\ used' = used /\ stage' = stage
  BY DEF Text, More, Put
<1>2. ASSUME AllAsC(next + 1) PROVE used' = Taken(next + 1) /\ out' = out \o Printed(call[next + 1])
  <2>1. PICK d : d = Piece
    OBVIOUS
  <2>2. /\ used = Taken(next) /\ Taken(next) \in Nat /\ IsPiece(d) /\ d = call[next + 1]
        /\ Taken(next + 1) = Taken(next) + Len(d.args)
    BY <1>1, <1>2, <2>1, NextPiece, Zenon
  <2>3. d.args = <<>>
    <3>1. d.conv = "text"
      BY <1>1, <2>1
    <3>2. QED
      BY <2>2, <3>1, BaseIs DEF IsPiece
  <2>4. Len(d.args) = 0
    BY <2>3, NothingIs
  <2>5. Taken(next + 1) = used
    BY <2>2, <2>4
  <2>6. Printed(d) = d.text
    BY <1>1, <2>1, Zenon DEF Printed, Body
  <2>7. QED
    BY <1>1, <2>1, <2>2, <2>5, <2>6, Zenon
<1>3. QED
  BY <1>1, <1>2, PieceStands

(* A character or a string (printf.c:776-820).                             *)
LEMMA PrintTextStands == PInv /\ PrintText => PInv'
<1> SUFFICES ASSUME PInv, PrintText PROVE PInv'
  OBVIOUS
<1>1. /\ stage = "format" /\ next < Len(call) /\ Piece.conv \in {"c", "s"}
      /\ out' = out \o Padded(Piece, Shown(Piece)) /\ used' = used + Stars(Piece) + 1
      /\ next' = next + 1 /\ call' = call /\ stage' = stage
  BY DEF PrintText, More, Put
<1>2. ASSUME AllAsC(next + 1) PROVE used' = Taken(next + 1) /\ out' = out \o Printed(call[next + 1])
  <2>1. PICK d : d = Piece
    OBVIOUS
  <2>2. /\ used = Taken(next) /\ Taken(next) \in Nat /\ IsPiece(d) /\ d = call[next + 1]
        /\ Owns(d) /\ AsC(d)
        /\ Taken(next + 1) = Taken(next) + Len(d.args)
    BY <1>1, <1>2, <2>1, NextPiece, Zenon
  <2>3. d.conv \in {"c", "s"} /\ d.conv # "text"
    BY <1>1, <2>1
  <2>4. Stars(d) \in 0 .. 2 /\ Len(d.args) = Stars(d) + 1
    BY <2>2, <2>3, StarsAre
  <2>5. PICK k \in Nat : k = Stars(d)
    BY <2>4
  <2>6. used' = used + k + 1 /\ Len(d.args) = k + 1
    BY <1>1, <2>1, <2>4, <2>5
  <2>7. used' = Taken(next + 1)
    BY <2>2, <2>6
  <2>8. Padded(d, Shown(d)) = Printed(d)
    BY <2>2, <2>3, PrintedText
  <2>9. QED
    BY <1>1, <2>1, <2>2, <2>7, <2>8, Zenon
<1>3. QED
  BY <1>1, <1>2, PieceStands

(* A long long, in a build without it: not as AsC describes.               *)
LEMMA SkipStands == PInv /\ SkipLongLong => PInv'
<1> SUFFICES ASSUME PInv, SkipLongLong PROVE PInv'
  OBVIOUS
<1>1. /\ stage = "format" /\ next < Len(call) /\ Piece.conv \in DOMAIN Base
      /\ Piece.size = "longlong"
      /\ next' = next + 1 /\ call' = call /\ stage' = stage
  BY DEF SkipLongLong, More
<1>2. ~ AllAsC(next + 1)
  <2>1. ASSUME AllAsC(next + 1) PROVE FALSE
    <3>1. PICK d : d = Piece
      OBVIOUS
    <3>2. AsC(d)
      BY <1>1, <2>1, <3>1, NextPiece, Zenon
    <3>3. d.conv # "text" /\ d.conv \in DOMAIN Base
      BY <1>1, <3>1, BaseIs
    <3>4. AsCNumber(d)
      BY <3>2, <3>3, AsCIs
    <3>5. QED
      BY <1>1, <3>1, <3>4 DEF AsCNumber
  <2>2. QED
    BY <2>1
<1>3. QED
  BY <1>1, <1>2, PieceStands

(* An integer (printf.c:682-756).                                          *)
LEMMA StartStands == PInv /\ StartNumber => PInv'
<1> SUFFICES ASSUME PInv, StartNumber PROVE PInv'
  OBVIOUS
<1>1. stage = "format" /\ next < Len(call) /\ next' = next + 1 /\ call' = call /\ out' = out
      /\ buf' = <<>> /\ stage' \in {"zeros", "digits"}
  BY DEF StartNumber, More
<1>2. PICK N \in Nat : N = Len(call)
  BY CallIs DEF PInv
<1>3. PICK n \in 0 .. N - 1 : n = next
  BY <1>1, <1>2 DEF PInv
<1>4. PICK m \in Nat : m = n + 1
  OBVIOUS
<1>5. next' = m /\ m \in 0 .. N /\ m # 0 /\ m - 1 = n
  BY <1>1, <1>3, <1>4
<1>6. ASSUME AllAsC(m)
      PROVE  used' = Taken(m) /\ out' = SoFar(n) /\ IsPiece(call[m]) /\ IsInteger(call[m])
             /\ Converts(call[m], stage', number', buf')
  <2>1. PICK d : d = call[m]
    OBVIOUS
  <2>2. call \in Calls /\ next \in Nat /\ used = Taken(next) /\ out = SoFar(next) /\ AsC(d)
        /\ d = call[next + 1]
    <3>1. AllAsC(next + 1)
      BY <1>3, <1>4, <1>6
    <3>2. Piece = d
      BY <1>3, <1>4, <2>1, Zenon DEF Piece
    <3>3. QED
      BY <1>1, <3>1, <3>2, NextPiece, Zenon
  <2>3. /\ IsPiece(d) /\ IsInteger(d)
        /\ NumberFor(d, number') /\ number'.rest = Magnitude(ValueOf(d))
        /\ stage' = IF ValueOf(d) = 0 /\ HasPrecision(d) THEN "zeros" ELSE "digits"
        /\ used' = Taken(next + 1)
    BY <1>1, <2>2, StartIs
  <2>4. Converts(d, stage', number', <<>>)
    <3>1. PICK s, r : s = stage' /\ r = number'
      OBVIOUS
    <3>2. Converts(d, s, r, <<>>)
      BY <2>2, <2>3, <3>1, StartConverts
    <3>3. QED
      BY <3>1, <3>2
  <2>5. QED
    BY <1>1, <1>3, <1>4, <2>1, <2>2, <2>3, <2>4, Zenon
<1>7. AllAsC(next)' <=> AllAsC(m)
  BY <1>1, <1>5 DEF AllAsC
<1>8. ASSUME AllAsC(m) PROVE Standing'
  <2>1. Taken(next)' = Taken(m) /\ SoFar(next - 1)' = SoFar(n)
    BY <1>1, <1>5, Zenon DEF Taken, SoFar
  <2>2. (IsPiece(call[next]) /\ IsInteger(call[next]))' <=> IsPiece(call[m]) /\ IsInteger(call[m])
    BY <1>1, <1>5, Zenon
  <2>3. Converts(call[next], stage, number, buf)' <=> Converts(call[m], stage', number', buf')
    BY <1>1, <1>5, Zenon
  <2>4. stage' # "format"
    BY <1>1
  <2>5. QED
    BY <1>6, <1>8, <2>1, <2>2, <2>3, <2>4, Zenon DEF Standing
<1>9. call' \in Calls /\ next' \in 0 .. Len(call') /\ next' # 0
  BY <1>1, <1>2, <1>5 DEF PInv
<1>10. QED
  BY <1>7, <1>8, <1>9 DEF PInv

(* A step of the conversion of a number.                                   *)
LEMMA StageIs ==
  ASSUME PInv, stage # "format", AllAsC(next)
  PROVE  /\ IsPiece(call[next]) /\ IsInteger(call[next]) /\ AsC(call[next])
         /\ Converts(call[next], stage, number, buf)
         /\ next \in Nat \ {0} /\ used = Taken(next) /\ out = SoFar(next - 1)
<1>1. Len(call) \in Nat
  BY CallIs DEF PInv
<1>2. next \in Nat \ {0}
  BY <1>1 DEF PInv
<1>3. next \in 1 .. next
  BY <1>2
<1>4. AsC(call[next])
  BY <1>3 DEF AllAsC
<1>5. Standing
  BY DEF PInv
<1>6. QED
  BY <1>2, <1>4, <1>5, Zenon DEF Standing

(* A step that keeps the piece and the output.                             *)
LEMMA StageStands ==
  ASSUME PInv, stage # "format", stage' # "format",
         call' = call, next' = next, used' = used, out' = out,
         AllAsC(next) => Converts(call[next], stage', number', buf')
  PROVE  PInv'
<1>1. AllAsC(next)' <=> AllAsC(next)
  BY DEF AllAsC
<1>2. ASSUME AllAsC(next) PROVE Standing'
  <2>1. /\ IsPiece(call[next]) /\ IsInteger(call[next])
        /\ used = Taken(next) /\ out = SoFar(next - 1)
    BY <1>2, StageIs
  <2>2. Taken(next)' = Taken(next) /\ SoFar(next - 1)' = SoFar(next - 1)
    BY Zenon DEF Taken, SoFar
  <2>3. (IsPiece(call[next]) /\ IsInteger(call[next]))' <=> IsPiece(call[next]) /\ IsInteger(call[next])
    BY Zenon
  <2>4. Converts(call[next], stage, number, buf)' <=> Converts(call[next], stage', number', buf')
    BY Zenon
  <2>5. QED
    BY <1>2, <2>1, <2>2, <2>3, <2>4, Zenon DEF Standing
<1>3. call' \in Calls /\ next' \in 0 .. Len(call') /\ next' # 0
  BY DEF PInv
<1>4. QED
  BY <1>1, <1>2, <1>3 DEF PInv

(* One step of _ntoa_long's loop (printf.c:293-297).                       *)
LEMMA DigitStands == PInv /\ Digit => PInv'
<1> SUFFICES ASSUME PInv, Digit PROVE PInv'
  OBVIOUS
<1>1. /\ stage = "digits" /\ stage' \in {"digits", "zeros"}
      /\ call' = call /\ next' = next /\ used' = used /\ out' = out
  BY DEF Digit
<1>2. ASSUME AllAsC(next) PROVE Converts(call[next], stage', number', buf')
  <2>1. PICK d : d = call[next]
    OBVIOUS
  <2>2. IsPiece(d) /\ IsInteger(d) /\ AsC(d) /\ Converts(d, stage, number, buf)
    BY <1>1, <1>2, <2>1, StageIs, Zenon
  <2>3. NumberFor(d, number) /\ InDigits(d, number, buf)
    BY <1>1, <2>2 DEF Converts
  <2>4. QED
    BY <2>1, <2>2, <2>3, DigitConverts
<1>3. QED
  BY <1>1, <1>2, StageStands

(* One zero (printf.c:233-238).                                            *)
LEMMA ZeroStands == PInv /\ PadZero => PInv'
<1> SUFFICES ASSUME PInv, PadZero PROVE PInv'
  OBVIOUS
<1>1. /\ stage = "zeros" /\ stage' = "zeros"
      /\ call' = call /\ next' = next /\ used' = used /\ out' = out
  BY DEF PadZero
<1>2. ASSUME AllAsC(next) PROVE Converts(call[next], stage', number', buf')
  <2>1. PICK d : d = call[next]
    OBVIOUS
  <2>2. IsPiece(d) /\ IsInteger(d) /\ AsC(d) /\ Converts(d, stage, number, buf)
    BY <1>1, <1>2, <2>1, StageIs, Zenon
  <2>3. NumberFor(d, number) /\ InZeros(d, buf)
    BY <1>1, <2>2 DEF Converts
  <2>4. QED
    BY <2>1, <2>2, <2>3, ZeroConverts
<1>3. QED
  BY <1>1, <1>2, StageStands

(* Prefix and sign (printf.c:242-274).                                     *)
LEMMA PrefixStands == PInv /\ Prefix => PInv'
<1> SUFFICES ASSUME PInv, Prefix PROVE PInv'
  OBVIOUS
<1>1. /\ stage = "zeros" /\ stage' = "reverse"
      /\ call' = call /\ next' = next /\ used' = used /\ out' = out
  BY DEF Prefix
<1>2. ASSUME AllAsC(next) PROVE Converts(call[next], stage', number', buf')
  <2>1. PICK d : d = call[next]
    OBVIOUS
  <2>2. IsPiece(d) /\ IsInteger(d) /\ AsC(d) /\ Converts(d, stage, number, buf)
    BY <1>1, <1>2, <2>1, StageIs, Zenon
  <2>3. NumberFor(d, number) /\ InZeros(d, buf)
    BY <1>1, <2>2 DEF Converts
  <2>4. QED
    BY <2>1, <2>2, <2>3, PrefixConverts
<1>3. QED
  BY <1>1, <1>2, StageStands

(* _out_rev, which ends the piece (printf.c:199-226).                      *)
LEMMA RevStands == PInv /\ out_rev => PInv'
<1> SUFFICES ASSUME PInv, out_rev PROVE PInv'
  OBVIOUS
<1>1. /\ stage = "reverse" /\ stage' = "format"
      /\ call' = call /\ next' = next /\ used' = used
  BY DEF out_rev
<1>2. PICK N \in Nat : N = Len(call)
  BY CallIs DEF PInv
<1>3. PICK n \in 0 .. N : n = next /\ n # 0
  BY <1>1, <1>2 DEF PInv
<1>4. PICK m \in Nat : m = n - 1
  BY <1>3
<1>5. m + 1 = n /\ m < Len(call)
  BY <1>2, <1>3, <1>4
<1>6. ASSUME AllAsC(next) PROVE used = Taken(n) /\ out' = SoFar(n)
  <2>1. PICK d : d = call[next]
    OBVIOUS
  <2>2. IsPiece(d) /\ IsInteger(d) /\ AsC(d) /\ Converts(d, stage, number, buf)
        /\ used = Taken(next) /\ out = SoFar(next - 1)
    BY <1>1, <1>6, <2>1, StageIs, Zenon
  <2>3. NumberFor(d, number) /\ IsSeq(buf) /\ Reverse(buf) = Body(d)
    BY <1>1, <2>2 DEF Converts
  <2>4. out' = out \o Printed(d)
    BY <2>2, <2>3, PrintedNumber
  <2>5. SoFar(m + 1) = SoFar(m) \o Printed(call[m + 1])
    <3>1. AllAsC(m + 1)
      BY <1>3, <1>5, <1>6
    <3>2. call \in Calls
      BY DEF PInv
    <3>3. QED
      BY <1>5, <3>1, <3>2, SoFarNext
  <2>6. QED
    BY <1>3, <1>4, <1>5, <2>1, <2>2, <2>4, <2>5, Zenon
<1>7. AllAsC(next)' <=> AllAsC(next)
  BY <1>1 DEF AllAsC
<1>8. ASSUME AllAsC(next) PROVE Standing'
  <2>1. Taken(next)' = Taken(n) /\ SoFar(next)' = SoFar(n)
    BY <1>1, <1>3, Zenon DEF Taken, SoFar
  <2>2. used' = Taken(next)' /\ out' = SoFar(next)' /\ stage' = "format"
    BY <1>1, <1>6, <1>8, <2>1, Zenon
  <2>3. QED
    BY <2>2, Zenon DEF Standing
<1>9. call' \in Calls /\ next' \in 0 .. Len(call')
  BY <1>1 DEF PInv
<1>10. QED
  BY <1>1, <1>7, <1>8, <1>9 DEF PInv

(* And no step.                                                            *)
LEMMA StutterStands == PInv /\ UNCHANGED vars => PInv'
<1> SUFFICES ASSUME PInv, UNCHANGED vars PROVE PInv'
  OBVIOUS
<1>1. /\ call' = call /\ next' = next /\ used' = used /\ stage' = stage /\ number' = number
      /\ buf' = buf /\ out' = out
  BY DEF vars
<1>2. AllAsC(next)' <=> AllAsC(next)
  BY <1>1, Zenon DEF AllAsC
<1>3. Taken(next)' = Taken(next) /\ SoFar(next)' = SoFar(next) /\ SoFar(next - 1)' = SoFar(next - 1)
  BY <1>1, Zenon DEF Taken, SoFar
<1>4. (IsPiece(call[next]) /\ IsInteger(call[next]) /\ Converts(call[next], stage, number, buf))'
        <=> IsPiece(call[next]) /\ IsInteger(call[next]) /\ Converts(call[next], stage, number, buf)
  BY <1>1, Zenon
<1>5. Standing' <=> Standing
  BY <1>1, <1>3, <1>4, Zenon DEF Standing
<1>6. QED
  BY <1>1, <1>2, <1>5, Zenon DEF PInv

(* printf_ prints what C's printf would (printf.c:578-850), each directive *)
(* with its own argument, for every call whose pieces are as AsC describes.*)
THEOREM AlwaysAsC == Spec => []PrintsAsC
<1>1. Init => PInv
  <2> SUFFICES ASSUME Init PROVE PInv
    OBVIOUS
  <2>2. call \in Calls /\ next = 0 /\ used = 0 /\ stage = "format" /\ out = <<>>
    BY DEF Init
  <2>3. Len(call) \in Nat
    BY <2>2, CallIs
  <2>4. Taken(0) = 0
    BY <2>2, TakenIs
  <2>5. SoFar(0) = <<>>
    BY SoFarNone
  <2>6. Standing
    BY <2>2, <2>4, <2>5 DEF Standing
  <2>7. QED
    BY <2>2, <2>3, <2>6 DEF PInv
<1>2. PInv /\ [Next]_vars => PInv'
  BY TextStands, PrintTextStands, SkipStands, StartStands, DigitStands, ZeroStands,
     PrefixStands, RevStands, StutterStands DEF Next
<1>3. PInv => PrintsAsC
  BY Zenon DEF PInv, Standing, PrintsAsC, AllAsC, SoFar
<1>4. QED
  BY <1>1, <1>2, <1>3, PTL DEF Spec
=============================================================================

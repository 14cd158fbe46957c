------------------------------- MODULE Printf -------------------------------
(***************************************************************************)
(* printf_ as the kernel is built (no floats, no long long): the loop of   *)
(* _vsnprintf over a format, and the conversion of an integer in a buffer  *)
(* of fixed size, least significant digit first.  A format is given as     *)
(* what its scanner recognises: runs of text and directives.               *)
(***************************************************************************)
EXTENDS Format, Sequences, SequencesExt

CONSTANTS
  BufferSize,    \* PRINTF_NTOA_BUFFER_SIZE
  Bits,          \* the width of a "char", a "short", an "int" and a "pointer"
  Calls          \* the calls made: pieces of format, each with its arguments

ASSUME BufferAssumption == BufferSize \in Nat \ {0}

Flags == {"ZEROPAD", "LEFT", "PLUS", "SPACE", "HASH", "UPPERCASE",
          "PRECISION"}

VARIABLES
  call,   \* given: the pieces of the format
  next,   \* how many of them are done
  used,   \* how many arguments have been taken off va
  stage,  \* where in the loop the code is
  number, \* the number being converted: what is left of it, and how
  buf,    \* its characters so far, the last first
  out     \* what has been given to _putchar

vars == <<call, next, used, stage, number, buf, out>>

va == FlattenSeq([i \in DOMAIN call |-> call[i].args])
Arg(n) == va[used + n]

More == stage = "format" /\ next < Len(call)
Piece == call[next + 1]

Put(chars) == out' = out \o chars

-----------------------------------------------------------------------------
(* The fields of a directive.                                              *)
Magnitude(n) == IF n > 0 THEN n ELSE -n
Positive(n)  == IF n > 0 THEN n ELSE 0

(* Arguments taken by stars, ahead of the one that is printed.             *)
Stars(d) ==
  (IF d.width = Star THEN 1 ELSE 0) + (IF d.precision = Star THEN 1 ELSE 0)

width(d) == IF d.width = Star THEN Magnitude(Arg(1).value) ELSE d.width

precision(d) ==
  CASE d.precision = None -> 0
    [] d.precision = Star -> Positive(Arg(Stars(d)).value)
    [] OTHER              -> d.precision

flags(d) ==
  d.flags \cup (IF d.width = Star /\ Arg(1).value < 0 THEN {"LEFT"} ELSE {})
          \cup (IF d.precision # None THEN {"PRECISION"} ELSE {})

Spaces(n) == [i \in 1 .. n |-> " "]

(* Text, padded to the width of d on the side its flags ask for.           *)
Padded(d, chars) ==
  LET fill == Spaces(width(d) - Len(chars))
  IN  IF "LEFT" \in flags(d) THEN chars \o fill ELSE fill \o chars

-----------------------------------------------------------------------------
(* Integers.                                                               *)
Base == [c \in {"d", "i", "u", "x", "X", "o", "b", "p"} |->
           CASE c \in {"x", "X", "p"} -> 16
             [] c = "o"               -> 8
             [] c = "b"               -> 2
             [] OTHER                 -> 10]

Signed(d) == d.conv \in {"d", "i"}

(* The argument cut to the size of the directive, sign kept or not.        *)
Cast(d, v) ==
  LET m == Power(2)[Bits[d.size]]
  IN  IF Signed(d) /\ v % m >= m \div 2 THEN (v % m) - m ELSE v % m

(* The flags a conversion adds, and those it takes away.                   *)
Added(d) ==
  CASE d.conv = "p" -> {"ZEROPAD", "UPPERCASE"}
    [] d.conv = "X" -> {"UPPERCASE"}
    [] OTHER        -> {}

Ignored(d, v) ==
  (IF v = 0 \/ Base[d.conv] = 10 THEN {"HASH"} ELSE {})
    \cup (IF d.conv # "p" /\ ~ Signed(d) THEN {"PLUS", "SPACE"} ELSE {})
    \cup (IF d.conv # "p" /\ "PRECISION" \in flags(d) THEN {"ZEROPAD"} ELSE {})

number_flags(d, v) == (flags(d) \cup Added(d)) \ Ignored(d, v)

SignBeforeZeros(f, negative) ==
  /\ {"LEFT", "ZEROPAD"} \cap f = {"ZEROPAD"}
  /\ negative \/ {"PLUS", "SPACE"} \cap f # {}

(* Mutant of number_width: no room is left for the sign before the zeros.  *)
number_width_no_sign(w, f, negative) == w

number_width(w, f, negative) ==
  IF SignBeforeZeros(f, negative) /\ w > 0 THEN w - 1 ELSE w

StartNumber ==
  /\ More /\ Piece.conv \in DOMAIN Base /\ Piece.size # "longlong"
  /\ LET d == Piece
         v == Cast(d, Arg(Stars(d) + 1).value)
         f == number_flags(d, v)
         w == IF d.conv = "p" THEN Bits["pointer"] \div 4 ELSE width(d)
     IN  /\ number' = [rest |-> Magnitude(v), negative |-> v < 0,
                       base |-> Base[d.conv], flags |-> f,
                       width |-> number_width(w, f, v < 0), prec |-> precision(d)]
         /\ stage' = IF v = 0 /\ "PRECISION" \in f THEN "zeros" ELSE "digits"
         /\ used' = used + Stars(d) + 1
  /\ buf' = <<>>
  /\ next' = next + 1
  /\ UNCHANGED <<call, out>>

(* This build has no long long: nothing is printed, and the argument stays *)
(* where it is.                                                            *)
SkipLongLong ==
  /\ More /\ Piece.conv \in DOMAIN Base /\ Piece.size = "longlong"
  /\ used' = used + Stars(Piece)
  /\ next' = next + 1
  /\ UNCHANGED <<call, stage, number, buf, out>>

Numeral(n, upper) ==
  (IF upper /\ n > 9 THEN <<"A", "B", "C", "D", "E", "F">>[n - 9]
   ELSE <<"0", "1", "2", "3", "4", "5", "6", "7", "8", "9",
          "a", "b", "c", "d", "e", "f">>[n + 1])

(* One round of _ntoa_long's loop, which looks at the number only after a  *)
(* digit is written: 0 is one digit long.                                  *)
Digit ==
  /\ stage = "digits"
  /\ LET rest == number.rest \div number.base
     IN  /\ number' = [number EXCEPT !.rest = rest]
         /\ buf' = Append(buf, Numeral(number.rest % number.base,
                                       "UPPERCASE" \in number.flags))
         /\ stage' = IF rest # 0 /\ Len(buf) + 1 < BufferSize
                       THEN "digits" ELSE "zeros"
  /\ UNCHANGED <<call, next, used, out>>

(* The two loops that pad with zeros, to the precision and to the width.   *)
WantsZero ==
  /\ "LEFT" \notin number.flags
  /\ Len(buf) < BufferSize
  /\ \/ Len(buf) < number.prec
     \/ "ZEROPAD" \in number.flags /\ Len(buf) < number.width

PadZero ==
  /\ stage = "zeros" /\ WantsZero
  /\ buf' = Append(buf, "0")
  /\ UNCHANGED <<call, next, used, stage, number, out>>

(* Mutant of Room: one character more than the buffer has.                 *)
Room_one_more(b) == Len(b) <= BufferSize

Room(b) == Len(b) < BufferSize

Letter ==
  [b \in {2, 16} |->
     IF b = 2 THEN "b" ELSE IF "UPPERCASE" \in number.flags THEN "X" ELSE "x"]

(* The prefix, in the place of zeros if the buffer is as long as the width *)
(* or, whatever they are, of its leading digits.                           *)
WithHash(b) ==
  LET eats == /\ "PRECISION" \notin number.flags /\ b # <<>>
              /\ Len(b) = number.prec \/ Len(b) = number.width
      cut  == IF ~ eats THEN 0 ELSE IF number.base = 16 /\ Len(b) > 1 THEN 2 ELSE 1
      kept == SubSeq(b, 1, Len(b) - cut)
      mark == IF number.base \in DOMAIN Letter /\ Room(kept)
                THEN Append(kept, Letter[number.base]) ELSE kept
  IN  IF "HASH" \notin number.flags THEN b
      ELSE IF Room(mark) THEN Append(mark, "0") ELSE mark

WithSign(b) ==
  LET sign == IF number.negative THEN "-"
              ELSE IF "PLUS" \in number.flags THEN "+" ELSE " "
  IN  IF Room(b) /\ (number.negative \/ {"PLUS", "SPACE"} \cap number.flags # {})
        THEN Append(b, sign) ELSE b

Prefix ==
  /\ stage = "zeros" /\ ~ WantsZero
  /\ buf' = WithSign(WithHash(buf))
  /\ stage' = "reverse"
  /\ UNCHANGED <<call, next, used, number, out>>

out_rev ==
  /\ stage = "reverse"
  /\ LET fill == Spaces(number.width - Len(buf))
     IN  Put((IF {"LEFT", "ZEROPAD"} \cap number.flags = {} THEN fill ELSE <<>>)
               \o Reverse(buf)
               \o (IF "LEFT" \in number.flags THEN fill ELSE <<>>))
  /\ stage' = "format"
  /\ UNCHANGED <<call, next, used, number, buf>>

-----------------------------------------------------------------------------
Text ==
  /\ More /\ Piece.conv = "text"
  /\ Put(Piece.text)
  /\ next' = next + 1
  /\ UNCHANGED <<call, used, stage, number, buf>>

(* %c, whose precision changes nothing, and %s, cut to its precision.      *)
Shown(d) ==
  LET text == Arg(Stars(d) + 1).text
  IN  IF d.conv = "s" /\ "PRECISION" \in flags(d) /\ precision(d) < Len(text)
        THEN SubSeq(text, 1, precision(d)) ELSE text

PrintText ==
  /\ More /\ Piece.conv \in {"c", "s"}
  /\ Put(Padded(Piece, Shown(Piece)))
  /\ used' = used + Stars(Piece) + 1
  /\ next' = next + 1
  /\ UNCHANGED <<call, stage, number, buf>>

NoNumber ==
  [rest |-> 0, negative |-> FALSE, base |-> 10, flags |-> {}, width |-> 0,
   prec |-> 0]

Init ==
  /\ call \in Calls
  /\ next = 0 /\ used = 0
  /\ stage = "format"
  /\ number = NoNumber
  /\ buf = <<>>
  /\ out = <<>>

Next ==
  \/ Text \/ PrintText
  \/ StartNumber \/ SkipLongLong \/ Digit \/ PadZero \/ Prefix \/ out_rev

Spec == Init /\ [][Next]_vars

-----------------------------------------------------------------------------
(* Calls as C has them: the flags are those one can write, every directive *)
(* has its arguments and of the types it names, and an integer has a size. *)
IsPiece(d) ==
  \/ d.conv = "text" /\ d.text \in Seq(STRING) /\ d.args = <<>>
  \/ /\ d.conv \in {"c", "s"} \cup DOMAIN Base
     /\ d.flags \subseteq Flags \ {"UPPERCASE", "PRECISION"}
     /\ d.width \in Nat \cup {Star} /\ d.precision \in Nat \cup {Star, None}
     /\ d.args \in Seq([value : Int] \cup [text : Seq(STRING)])
     /\ Len(d.args) = Stars(d) + 1
     /\ \A i \in 1 .. Stars(d) : d.args[i] \in [value : Int]
     /\ IF d.conv \in DOMAIN Base
          THEN d.args[Stars(d) + 1] \in [value : Int] /\ d.size \in DOMAIN Bits \cup {"longlong"}
          ELSE d.args[Stars(d) + 1] \in [text : Seq(STRING)]

ASSUME CallsAssumption ==
  /\ "pointer" \in DOMAIN Bits /\ \A s \in DOMAIN Bits : Bits[s] \in Nat \ {0}
  /\ \A c \in Calls :
       Len(c) \in Nat /\ DOMAIN c = 1 .. Len(c) /\ \A i \in DOMAIN c : IsPiece(c[i])

-----------------------------------------------------------------------------
(* The conversion writes nowhere but into its buffer, for every number,    *)
(* base, width and precision.                                              *)
BufferHolds ==
  /\ Len(buf) <= BufferSize
  /\ stage = "digits" => Len(buf) < BufferSize

-----------------------------------------------------------------------------
(* What a directive should print, by positional notation and the rules of  *)
(* C, from its own argument: "args" of a piece ends with it.               *)
StarredWidth(d) == IF d.width = Star THEN d.args[1].value ELSE d.width
LeftSide(d) == "LEFT" \in d.flags \/ StarredWidth(d) < 0
WidthOf(d) == Magnitude(StarredWidth(d))
PrecisionOf(d) ==
  IF d.precision = Star THEN d.args[Len(d.args) - 1].value ELSE d.precision
HasPrecision(d) == PrecisionOf(d) >= 0

ValueOf(d) ==
  LET m == Power(2)[Bits[d.size]]
      range == IF Signed(d) THEN -(m \div 2) .. m \div 2 - 1 ELSE 0 .. m - 1
  IN  CHOOSE n \in range : (n - d.args[Len(d.args)].value) % m = 0

Digits(d) ==
  LET v    == Magnitude(ValueOf(d))
      b    == Base[d.conv]
      size == CHOOSE n \in 1 .. Bits[d.size] :
                v < Power(b)[n] /\ (n = 1 \/ Power(b)[n - 1] <= v)
  IN  IF v = 0 /\ HasPrecision(d) THEN <<>>
      ELSE [i \in 1 .. size |->
              Numeral((v \div Power(b)[size - i]) % b, d.conv \in {"X", "p"})]

Repeat(c, n) == [i \in 1 .. n |-> c]

SignOf(d) ==
  IF ~ Signed(d)              THEN <<>>
  ELSE IF ValueOf(d) < 0      THEN <<"-">>
  ELSE IF "PLUS" \in d.flags  THEN <<"+">>
  ELSE IF "SPACE" \in d.flags THEN <<" ">>
  ELSE <<>>

PrefixOf(d) ==
  IF "HASH" \in d.flags /\ d.conv \in {"x", "X"} /\ ValueOf(d) # 0
    THEN <<"0", d.conv>> ELSE <<>>

ZeroFilled(d) == "ZEROPAD" \in d.flags /\ ~ LeftSide(d)

(* Sign, prefix, zeros and digits.                                         *)
Numeric(d) ==
  LET mark  == SignOf(d) \o PrefixOf(d)
      room  == IF d.conv = "p"         THEN Bits["pointer"] \div 4
               ELSE IF HasPrecision(d) THEN PrecisionOf(d)
               ELSE IF ZeroFilled(d)   THEN WidthOf(d) - Len(mark)
               ELSE 0
  IN  mark \o Repeat("0", room - Len(Digits(d))) \o Digits(d)

TextOf(d) ==
  LET text == d.args[Len(d.args)].text
  IN  IF d.conv = "s" /\ HasPrecision(d) /\ PrecisionOf(d) < Len(text)
        THEN SubSeq(text, 1, PrecisionOf(d)) ELSE text

Body(d) ==
  CASE d.conv = "text"       -> d.text
    [] d.conv \in {"c", "s"} -> TextOf(d)
    [] OTHER                 -> Numeric(d)

Printed(d) ==
  IF d.conv \in {"text", "p"} THEN Body(d)
  ELSE LET fill == Spaces(WidthOf(d) - Len(Body(d)))
       IN  IF LeftSide(d) THEN Body(d) \o fill ELSE fill \o Body(d)

(* Where the code does as C does: the number fits the buffer, and it is    *)
(* none of these: a long long; a precision together with a minus; a        *)
(* negative one for a star; a pointer with a flag, a minus or a precision; *)
(* a "#" with base 2 or 8, or whose digits alone are as long as the width  *)
(* or, padded with zeros, one shorter.                                     *)
AsCNumber(d) ==
  /\ d.size # "longlong"
  /\ Len(Body(d)) <= BufferSize
  /\ ~ (LeftSide(d) /\ HasPrecision(d))
  /\ d.conv = "p" => d.flags = {} /\ ~ LeftSide(d) /\ ~ HasPrecision(d)
  /\ "HASH" \in d.flags => d.conv \notin {"o", "b"}
  /\ "HASH" \in d.flags /\ d.conv \in {"x", "X"} /\ ~ HasPrecision(d) =>
       Len(Digits(d)) \notin
         {WidthOf(d), IF "ZEROPAD" \in d.flags THEN WidthOf(d) - 1 ELSE 0}

AsC(d) ==
  d.conv # "text" =>
    /\ d.precision = Star => HasPrecision(d)
    /\ d.conv \in DOMAIN Base => AsCNumber(d)

(* printf_ prints what C's printf would, each directive with its own       *)
(* argument, as long as the pieces are such as AsC describes.              *)
PrintsAsC ==
  stage = "format" /\ (\A i \in 1 .. next : AsC(call[i])) =>
    out = FlattenSeq([i \in 1 .. next |-> Printed(call[i])])
=============================================================================

------------------------------ MODULE Scanner ------------------------------
(***************************************************************************)
(* How _vsnprintf reads a format: characters that are printed as they are, *)
(* and directives, whose flags, width, precision and size it takes off one *)
(* after the other.  What it makes of a directive is module Printf, whose  *)
(* calls are given as what this module finds.                              *)
(***************************************************************************)
EXTENDS Format, Sequences, SequencesExt

CONSTANTS
  Formats,   \* formats, each a sequence of pieces as they were written
  IntValues  \* how many values an unsigned int has

VARIABLES
  given,    \* the format, piece by piece
  pos,      \* how many of its characters are read
  pieces    \* what has been found

scanvars == <<given, pos, pieces>>

(* A piece is written as its conversion with what stands before it, and    *)
(* without a "%" if it is plain text; a 0 ends the format.                 *)
Written(d) ==
  IF d.plain THEN <<d.conv>>
  ELSE <<"%">> \o d.flags \o d.width.chars \o d.precision.chars \o d.size.chars \o <<d.conv>>

format == FlattenSeq([i \in DOMAIN given |-> Written(given[i])]) \o <<"NUL">>
At(p)  == format[p + 1]

-----------------------------------------------------------------------------
DigitValue == [c \in {"0", "1", "2", "3", "4", "5", "6", "7", "8", "9"} |->
                 CHOOSE n \in 0 .. 9 : <<"0", "1", "2", "3", "4", "5", "6", "7", "8", "9">>[n + 1] = c]

Flag == [c \in {"0", "-", "+", " ", "#"} |->
           CASE c = "0" -> "ZEROPAD" [] c = "-" -> "LEFT" [] c = "+" -> "PLUS"
             [] c = " " -> "SPACE"   [] c = "#" -> "HASH"]

(* The first place from p on where none of these characters is. *)
After(p, chars) ==
  CHOOSE q \in p .. Len(format) - 1 :
    At(q) \notin chars /\ \A i \in p .. q - 1 : At(i) \in chars

(* The number read from p on, digit by digit, and where it ends.           *)
atoi(p) ==
  LET q == After(p, DOMAIN DigitValue)
      i[k \in p .. q] == IF k = p THEN 0 ELSE (i[k - 1] * 10 + DigitValue[At(k - 1)]) % IntValues
  IN  [value |-> i[q], next |-> q]

(* A width, or a precision after its ".": a number, a star or nothing.     *)
Field(p) == IF At(p) = "*" THEN [value |-> Star, next |-> p + 1] ELSE atoi(p)

(* Mutant of Precision: a "." is one only with a number or star after it.  *)
Precision_if_given(p) ==
  IF At(p) = "." /\ At(p + 1) \in DOMAIN DigitValue \cup {"*"}
    THEN Field(p + 1) ELSE [value |-> None, next |-> p]

Precision(p) ==
  IF At(p) = "." THEN Field(p + 1) ELSE [value |-> None, next |-> p]

(* On this target ptrdiff_t and size_t are long, intmax_t is long long.    *)
Length(p) ==
  LET twice == At(p) \in {"h", "l"} /\ At(p + 1) = At(p)
  IN  CASE twice /\ At(p) = "h"                 -> [size |-> "CHAR", next |-> p + 2]
        [] twice /\ At(p) = "l"                 -> [size |-> "LONG_LONG", next |-> p + 2]
        [] ~ twice /\ At(p) = "h"               -> [size |-> "SHORT", next |-> p + 1]
        [] ~ twice /\ At(p) \in {"l", "t", "z"} -> [size |-> "LONG", next |-> p + 1]
        [] At(p) = "j"                          -> [size |-> "LONG_LONG", next |-> p + 1]
        [] OTHER                                -> [size |-> "int", next |-> p]

-----------------------------------------------------------------------------
ScanInit == given \in Formats /\ pos = 0 /\ pieces = <<>>

ReadCharacter ==
  /\ At(pos) \notin {"%", "NUL"}
  /\ pieces' = Append(pieces, [conv |-> At(pos), flags |-> {}, width |-> 0,
                               precision |-> None, size |-> "text"])
  /\ pos' = pos + 1
  /\ UNCHANGED given

(* The conversion is whatever character comes next; one that is none, "%"  *)
(* too, is printed itself.                                                 *)
ReadDirective ==
  /\ At(pos) = "%"
  /\ LET q == After(pos + 1, DOMAIN Flag)
         w == Field(q)
         p == Precision(w.next)
         s == Length(p.next)
     IN  /\ pieces' = Append(pieces, [conv |-> At(s.next), flags |-> {Flag[At(i)] : i \in pos + 1 .. q - 1},
                                      width |-> w.value, precision |-> p.value, size |-> s.size])
         /\ pos' = s.next + 1
  /\ UNCHANGED given

ScanNext == ReadCharacter \/ ReadDirective
ScanSpec == ScanInit /\ [][ScanNext]_scanvars

-----------------------------------------------------------------------------
(* Formats as C has them: what a part means is in the way it is written,   *)
(* and a conversion is no character that a directive may hold before it.   *)
Sizes == {[chars |-> <<>>, value |-> "int"],
          [chars |-> <<"h">>, value |-> "SHORT"], [chars |-> <<"h", "h">>, value |-> "CHAR"],
          [chars |-> <<"l">>, value |-> "LONG"],  [chars |-> <<"l", "l">>, value |-> "LONG_LONG"],
          [chars |-> <<"t">>, value |-> "LONG"],  [chars |-> <<"z">>, value |-> "LONG"],
          [chars |-> <<"j">>, value |-> "LONG_LONG"]}

IsNumeral(chars, n) ==
  /\ chars \in Seq(DOMAIN DigitValue)
  /\ n \in Nat /\ n < IntValues /\ n < Power(10)[Len(chars)]
  /\ \A k \in 1 .. Len(chars) : (n \div Power(10)[Len(chars) - k]) % 10 = DigitValue[chars[k]]

IsField(chars, n) == IF chars = <<"*">> THEN n = Star ELSE IsNumeral(chars, n)

IsPlain(d) ==
  /\ d.conv \notin {"%", "NUL"}
  /\ d.flags = <<>> /\ d.width.value = 0 /\ d.precision.value = None /\ d.size.value = "text"

IsDirective(d) ==
  /\ d.flags \in Seq(DOMAIN Flag)
  /\ IsField(d.width.chars, d.width.value)
  /\ d.width.chars # <<>> => d.width.chars[1] # "0"
  /\ LET chars == d.precision.chars
     IN  IF chars = <<>> THEN d.precision.value = None
         ELSE chars = <<".">> \o Tail(chars) /\ IsField(Tail(chars), d.precision.value)
  /\ d.size \in Sizes
  /\ d.conv \notin DOMAIN Flag \cup DOMAIN DigitValue \cup {"*", ".", "h", "l", "t", "z", "j", "NUL"}

ASSUME FormatAssumption ==
  /\ IntValues \in Nat \ {0}
  /\ \A f \in Formats :
       /\ Len(f) \in Nat /\ DOMAIN f = 1 .. Len(f)
       /\ \A i \in DOMAIN f :
            f[i].plain \in BOOLEAN /\ IF f[i].plain THEN IsPlain(f[i]) ELSE IsDirective(f[i])

Means(d) ==
  [conv |-> d.conv, flags |-> {Flag[d.flags[i]] : i \in DOMAIN d.flags},
   width |-> d.width.value, precision |-> d.precision.value, size |-> d.size.value]

(* Between two pieces the scanner has found what was written, each part as *)
(* the part it is, and stands at the first character of the next piece: a  *)
(* 0 is a flag or a digit, an l one of two or alone, by what is before it. *)
FindsWhatIsWritten ==
  LET n == Len(pieces)
  IN  /\ n <= Len(given)
      /\ pieces = [i \in 1 .. n |-> Means(given[i])]
      /\ pos = Len(FlattenSeq([i \in 1 .. n |-> Written(given[i])]))
=============================================================================

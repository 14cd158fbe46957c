------------------------------- MODULE Output -------------------------------
(***************************************************************************)
(* Where _vsnprintf's characters go: the five out functions, the functions *)
(* that choose one and its limit, and the 0 at the end.  What the format   *)
(* turns into is module Printf; here it is any text, with the 0 that %c    *)
(* can put into it.                                                        *)
(***************************************************************************)
EXTENDS Integers, Sequences, FiniteSets

CONSTANTS
  Char,    \* the characters
  Texts,   \* what formats turn into: sequences of characters
  Counts,  \* the counts given to snprintf_
  Space,   \* bytes from the buffer on
  NUL,     \* the character 0
  Old,     \* what a byte was before the call
  SizeMax  \* the greatest size_t

ASSUME OutputAssumption ==
  /\ Space \in Nat /\ SizeMax \in Nat /\ SizeMax > Space
  /\ Counts \subseteq 0 .. Space
  /\ Texts \subseteq Seq(Char)
  /\ NUL \in Char /\ Old \notin Char

VARIABLES
  request, \* given: the out function, its maxlen, the text
  idx,     \* how many characters _vsnprintf has put out
  buffer,  \* the bytes there
  sent,    \* what _putchar or the caller's function has been given
  over     \* _vsnprintf has returned

outvars == <<request, idx, buffer, sent, over>>

-----------------------------------------------------------------------------
(* The functions of printf.h: a buffer of the caller's with its count, or  *)
(* one he vouches for, no buffer, and none needed.                         *)
snprintf  == {<<"buffer", n>> : n \in Counts} \cup {<<"null", n>> : n \in Counts}
sprintf   == {<<"buffer", SizeMax>>}
printf    == {<<"char", SizeMax>>}
fctprintf == {<<"fct", SizeMax>>}

OutInit ==
  /\ \E to \in snprintf \cup sprintf \cup printf \cup fctprintf, text \in Texts :
       /\ to \in sprintf => Len(text) < Space
       /\ request = [out |-> to[1], maxlen |-> to[2], text |-> text]
  /\ idx = 0 /\ over = FALSE
  /\ buffer = [i \in 0 .. Space - 1 |-> Old]
  /\ sent = <<>>

(* Mutant of Below: one byte more than the count. *)
Below_inclusive(i) == i <= request.maxlen

Below(i) == i < request.maxlen

out_buffer(char, i) ==
  /\ buffer' = IF Below(i) THEN [buffer EXCEPT ![i] = char] ELSE buffer
  /\ UNCHANGED sent

out_null(char, i) == UNCHANGED <<buffer, sent>>

(* Mutant of Passed: the 0 goes to the device as well. *)
Passed_all(char) == <<char>>

(* A 0 is not passed on, be it the end of the text or a character of it.   *)
Passed(char) == IF char = NUL THEN <<>> ELSE <<char>>

out_char(char, i) == sent' = sent \o Passed(char) /\ UNCHANGED buffer

put(char, i) ==
  CASE request.out = "buffer" -> out_buffer(char, i)
    [] request.out = "null"   -> out_null(char, i)
    [] OTHER               -> out_char(char, i)

Character ==
  /\ ~ over /\ idx < Len(request.text)
  /\ put(request.text[idx + 1], idx)
  /\ idx' = idx + 1
  /\ UNCHANGED <<request, over>>

(* Where the 0 at the end goes; with a count of 0, to no place at all.     *)
LastPlace ==
  IF idx < request.maxlen THEN idx
  ELSE IF request.maxlen = 0 THEN SizeMax ELSE request.maxlen - 1

(* Mutant of Terminate: what is returned is the number of characters kept. *)
Terminate_kept ==
  /\ ~ over /\ idx = Len(request.text)
  /\ put(NUL, LastPlace)
  /\ over' = TRUE
  /\ idx' = LastPlace
  /\ UNCHANGED request

Terminate ==
  /\ ~ over /\ idx = Len(request.text)
  /\ put(NUL, LastPlace)
  /\ over' = TRUE
  /\ UNCHANGED <<request, idx>>

OutNext == Character \/ Terminate
OutSpec == OutInit /\ [][OutNext]_outvars

-----------------------------------------------------------------------------
(* A buffer never holds anything but a beginning of the text, shorter than *)
(* the count once it is over, and the 0 after it; nothing from the count   *)
(* on is touched, nor any byte for a count of 0.                           *)
Cut == IF request.maxlen = 0 \/ idx < request.maxlen THEN idx ELSE request.maxlen - 1

BufferKeepsCount ==
  /\ \A i \in DOMAIN buffer :
       i >= request.maxlen \/ i > idx \/ request.out # "buffer" => buffer[i] = Old
  /\ over /\ request.out = "buffer" /\ request.maxlen > 0 =>
       /\ Cut < request.maxlen
       /\ \A i \in 0 .. Cut - 1 : buffer[i] = request.text[i + 1]
       /\ buffer[Cut] = NUL

(* "Only when the returned value is non-negative and less than count, the  *)
(* string has been completely written" (printf.h:82-83), and then it has.  *)
ReturnTellsCut ==
  over /\ request.out = "buffer" =>
    (idx < request.maxlen <=>
       /\ Len(request.text) < Space /\ buffer[Len(request.text)] = NUL
       /\ \A i \in 1 .. Len(request.text) : buffer[i - 1] = request.text[i])

(* Whatever passes through printf_ and fctprintf is the text without its   *)
(* zeros, in order, the end's included: each character comes after those   *)
(* before it that are not 0.  (What they return counts those zeros;        *)
(* printf.h:107 speaks of the characters sent.)                            *)
Passing(n) == {i \in 1 .. n : request.text[i] # NUL}

DeviceGetsText ==
  /\ request.out \notin {"char", "fct"} => sent = <<>>
  /\ request.out \in {"char", "fct"} =>
       /\ Len(sent) = Cardinality(Passing(idx))
       /\ \A i \in Passing(idx) : sent[Cardinality(Passing(i))] = request.text[i]
=============================================================================

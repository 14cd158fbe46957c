------------------------------ MODULE Copying ------------------------------
(***************************************************************************)
(* The routines of utils/string.c that write, byte by byte, because what   *)
(* they read may be what they have just written.  Calls are those C        *)
(* allows: what is written fits in the memory, and only memmove's regions  *)
(* overlap.                                                                *)
(***************************************************************************)
EXTENDS Strings

VARIABLES
  mem, before,  \* the memory, and as it was when the call began
  call,         \* the routine and its arguments
  to, from,     \* where it writes and reads next,
  left, loop    \* the n it has left, and the loop it is in

pointers == <<to, from, left>>
vars     == <<mem, before, call, pointers, loop>>

Idle == [fn |-> "none", s1 |-> 0, s2 |-> 0, n |-> 0, c |-> 0]

Init ==
  /\ mem \in [Addr -> Char] /\ before = mem
  /\ call = Idle /\ loop = "done"
  /\ to = 0 /\ from = 0 /\ left = 0

-----------------------------------------------------------------------------
(* Calls come one after the other. *)
Returned == loop = "done" \/ (left = 0 /\ loop \in {"back", "forward", "fill", "pad"})

Call(fn, s1, s2, n, c, to_, from_, loop_) ==
  /\ call' = [fn |-> fn, s1 |-> s1, s2 |-> s2, n |-> n, c |-> c]
  /\ to' = to_ /\ from' = from_ /\ left' = n /\ loop' = loop_
  /\ UNCHANGED <<mem, before>>

Return ==
  /\ Returned /\ call # Idle
  /\ call' = Idle /\ before' = mem
  /\ to' = 0 /\ from' = 0 /\ left' = 0 /\ loop' = "done"
  /\ UNCHANGED mem

Fits(s, n) == s + n <= Size
Disjoint(s, n, t, k) == s + n <= t \/ t + k <= s

(* Mutant of memmove: always forwards. *)
memmove_forward(s1, s2, n) ==
  Call("memmove", s1, s2, n, 0, s1, s2, "forward")

memmove(s1, s2, n) ==
  IF s2 < s1 /\ s1 < s2 + n
    THEN Call("memmove", s1, s2, n, 0, s1 + n, s2 + n, "back")
    ELSE Call("memmove", s1, s2, n, 0, s1, s2, "forward")

memcpy(s1, s2, n) ==
  /\ Disjoint(s1, n, s2, n)
  /\ Call("memcpy", s1, s2, n, 0, s1, s2, "forward")

memset(s, c, n) == Call("memset", s, 0, n, c, s, 0, "fill")

strcpy(s1, s2) ==
  LET n == strlen(mem)[s2] + 1
  IN  /\ Fits(s1, n) /\ Disjoint(s1, n, s2, n)
      /\ Call("strcpy", s1, s2, 0, 0, s1, s2, "string")

strcat(s1, s2) ==
  LET n == strlen(mem)[s2] + 1
      k == strlen(mem)[s1]
  IN  /\ Fits(s1, k + n) /\ Disjoint(s1, k + n, s2, n)
      /\ Call("strcat", s1, s2, 0, 0, s1 + k, s2, "string")

strncpy(s1, s2, n) ==
  /\ Disjoint(s1, n, s2, strlen(mem)[s2] + 1)
  /\ Call("strncpy", s1, s2, n, 0, s1, s2, "counted")

strncat(s1, s2, n) ==
  LET k == strlen(mem)[s1]
      r == IF n < strlen(mem)[s2] THEN n ELSE strlen(mem)[s2]
  IN  /\ Fits(s1, k + r + 1) /\ Disjoint(s1, k + r + 1, s2, strlen(mem)[s2] + 1)
      /\ Call("strncat", s1, s2, n, 0, s1 + k, s2, "counted")

Begin ==
  /\ call = Idle
  /\ \/ \E s1, s2, n \in Pointer :
          /\ Fits(s1, n) /\ Fits(s2, n)
          /\ memmove(s1, s2, n) \/ memcpy(s1, s2, n)
     \/ \E s, n \in Pointer, c \in 0 .. 2 * Base - 1 : Fits(s, n) /\ memset(s, c, n)
     \/ \E s1, s2 \in Addr, n \in Pointer :
          /\ IsString(mem, s2)
          /\ \/ strcpy(s1, s2)
             \/ Fits(s1, n) /\ strncpy(s1, s2, n)
             \/ IsString(mem, s1) /\ (strcat(s1, s2) \/ strncat(s1, s2, n))

-----------------------------------------------------------------------------
(* The loops, one round each; a round of all but one uses up a byte of n.  *)
Store(a, c) == mem' = [mem EXCEPT ![a] = c] /\ UNCHANGED <<before, call>>

CopyBack ==
  /\ loop = "back" /\ left > 0
  /\ Store(to - 1, mem[from - 1])
  /\ to' = to - 1 /\ from' = from - 1 /\ left' = left - 1
  /\ UNCHANGED loop

CopyForward ==
  /\ loop = "forward" /\ left > 0
  /\ Store(to, mem[from])
  /\ to' = to + 1 /\ from' = from + 1 /\ left' = left - 1
  /\ UNCHANGED loop

(* memset's loop and strncpy's second: a byte that does not change. *)
Fill ==
  /\ loop \in {"fill", "pad"} /\ left > 0
  /\ Store(to, IF loop = "fill" THEN call.c % Base ELSE 0)
  /\ to' = to + 1 /\ left' = left - 1
  /\ UNCHANGED <<from, loop>>

CopyString ==
  /\ loop = "string"
  /\ Store(to, mem[from])
  /\ to' = to + 1 /\ from' = from + 1
  /\ loop' = IF mem[from] = 0 THEN "done" ELSE "string"
  /\ UNCHANGED left

CopyCounted ==
  /\ loop = "counted" /\ left > 0 /\ mem[from] # 0
  /\ Store(to, mem[from])
  /\ to' = to + 1 /\ from' = from + 1 /\ left' = left - 1
  /\ UNCHANGED loop

(* Mutant of EndCounted: a count used up leaves strncat's string open. *)
EndCounted_open ==
  /\ loop = "counted" /\ (left = 0 \/ mem[from] = 0)
  /\ IF call.fn = "strncat" /\ left > 0
       THEN Store(to, 0) /\ loop' = "done"
       ELSE loop' = "pad" /\ UNCHANGED <<mem, before, call>>
  /\ UNCHANGED pointers

EndCounted ==
  /\ loop = "counted" /\ (left = 0 \/ mem[from] = 0)
  /\ IF call.fn = "strncat"
       THEN Store(to, 0) /\ loop' = "done"
       ELSE loop' = "pad" /\ UNCHANGED <<mem, before, call>>
  /\ UNCHANGED pointers

Next ==
  \/ Begin \/ Return
  \/ CopyBack \/ CopyForward \/ Fill \/ CopyString \/ CopyCounted \/ EndCounted

Spec == Init /\ [][Next]_vars

-----------------------------------------------------------------------------
(* memmove leaves at s1 what was at s2 when it was called, though each     *)
(* byte it writes may be one it has yet to read, and touches nothing else. *)
MemmoveMoves ==
  Returned /\ call.fn = "memmove" =>
    \A a \in Addr :
      mem[a] = IF a \in call.s1 .. call.s1 + call.n - 1
                 THEN before[a - call.s1 + call.s2] ELSE before[a]

(* What each of the others leaves: a string or a run of bytes at a place.  *)
Run(m, s, n) == [i \in 1 .. n |-> m[s + i - 1]]
Zeros(n)     == [i \in 1 .. n |-> 0]
Left(str, n) == SubSeq(str, 1, IF n < Len(str) THEN n ELSE Len(str))
End(m, s)    == s + Len(Str(m, s))

Written(m, a, bytes) ==
  [i \in Addr |-> IF i \in a .. a + Len(bytes) - 1 THEN bytes[i - a + 1] ELSE m[i]]

Expected ==
  CASE call.fn = "memcpy"  -> Written(before, call.s1, Run(before, call.s2, call.n))
    [] call.fn = "memset"  -> Written(before, call.s1, [i \in 1 .. call.n |-> call.c % Base])
    [] call.fn = "strcpy"  -> Written(before, call.s1, Str(before, call.s2) \o <<0>>)
    [] call.fn = "strcat"  -> Written(before, End(before, call.s1), Str(before, call.s2) \o <<0>>)
    [] call.fn = "strncpy" -> Written(before, call.s1, Left(Str(before, call.s2) \o Zeros(call.n), call.n))
    [] call.fn = "strncat" -> Written(before, End(before, call.s1),
                                     Left(Str(before, call.s2), call.n) \o <<0>>)

(* The other routines write what C says and not a byte more: copies end    *)
(* with their 0, strncpy fills up with 0 and may leave none, strncat always *)
(* leaves one.                                                             *)
OthersWrite == Returned /\ call.fn \notin {"none", "memmove"} => mem = Expected

(* Between the calls, whatever they left: what the routines that read find *)
(* in the memory is what C says of the strings in it.                      *)
ScansFind == call = Idle => ScansAgree(mem)
=============================================================================

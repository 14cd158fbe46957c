------------------------------ MODULE Strings ------------------------------
(***************************************************************************)
(* The routines of utils/string.c that only read, as functions of a memory *)
(* m of bytes.  Strings end inside the memory and counts stay inside it,   *)
(* as C demands of the caller; an int given for a character is cut to a    *)
(* byte.                                                                   *)
(***************************************************************************)
EXTENDS Integers, Sequences

CONSTANTS
  Size,   \* bytes of memory
  Base    \* how many values a byte has, 256

ASSUME MemoryAssumption == Size \in Nat \ {0} /\ Base \in Nat \ {0}

Addr    == 0 .. Size - 1
Pointer == 0 .. Size          \* one past the end is a pointer too
Char    == 0 .. Base - 1
NULL    == -1

StringsIn(m)   == {s \in Addr : \E i \in s .. Size - 1 : m[i] = 0}
IsString(m, s) == s \in StringsIn(m)

-----------------------------------------------------------------------------
strlen(m) ==
  LET f[s \in StringsIn(m)] == IF m[s] = 0 THEN 0 ELSE 1 + f[s + 1] IN f

(* A loop that counts up: the place in stop at which it ends.              *)
Until(places, stop) ==
  LET f[a \in places] == IF a \in stop THEN a ELSE f[a + 1] IN f

(* strspn and strcspn count the characters of s1 that are among those of   *)
(* s2, or are not, and strpbrk stops where strcspn does.                   *)
Among(m, s2) == {m[i] : i \in s2 .. s2 + strlen(m)[s2] - 1}

strspn(m, s1, s2) ==
  LET chars == Among(m, s2)
  IN  Until(StringsIn(m), {a \in StringsIn(m) : m[a] = 0 \/ m[a] \notin chars})[s1] - s1

strcspn(m, s1, s2) ==
  LET chars == Among(m, s2)
  IN  Until(StringsIn(m), {a \in StringsIn(m) : m[a] = 0 \/ m[a] \in chars})[s1] - s1

strpbrk(m, s1, s2) ==
  LET s == s1 + strcspn(m, s1, s2) IN IF m[s] = 0 THEN NULL ELSE s

memchr(m, s, c, n) ==
  LET su == Until(s .. s + n, {s + n} \cup {a \in s .. s + n - 1 : m[a] = c % Base})[s]
  IN  IF su = s + n THEN NULL ELSE su

strchr(m, s, c) ==
  LET a == Until(StringsIn(m), {a \in StringsIn(m) : m[a] = c % Base \/ m[a] = 0})[s]
  IN  IF m[a] = c % Base THEN a ELSE NULL

(* Mutant of strrchr: the end of the string is not compared with c. *)
strrchr_misses_end(m, s, c) ==
  LET sc[a \in s - 1 .. s + strlen(m)[s]] ==
        IF a = s - 1 THEN NULL ELSE IF m[a] = c % Base THEN a ELSE sc[a - 1]
  IN  sc[s + strlen(m)[s] - 1]

(* sc after each round, the last of which is at the end of the string.     *)
strrchr(m, s, c) ==
  LET sc[a \in s - 1 .. s + strlen(m)[s]] ==
        IF a = s - 1 THEN NULL ELSE IF m[a] = c % Base THEN a ELSE sc[a - 1]
  IN  sc[s + strlen(m)[s]]

Order(x, y) == IF x < y THEN -1 ELSE 1

memcmp(m, s1, s2, n) ==
  LET i == Until(0 .. n, {n} \cup {k \in 0 .. n - 1 : m[s1 + k] # m[s2 + k]})[0]
  IN  IF i = n THEN 0 ELSE Order(m[s1 + i], m[s2 + i])

(* Where a loop over two strings at once can come, and those places where  *)
(* it goes no further.                                                     *)
InBoth(m, s1, s2) == (0 .. strlen(m)[s1]) \cap (0 .. strlen(m)[s2])
Differ(m, s1, s2) == {i \in InBoth(m, s1, s2) : m[s1 + i] # m[s2 + i]}
Ended(m, s1, s2)  == {i \in InBoth(m, s1, s2) : m[s1 + i] = 0}

strncmpy(m, s1, s2, n) ==
  LET i == Until(InBoth(m, s1, s2) \cup {n}, Differ(m, s1, s2) \cup Ended(m, s1, s2) \cup {n})[0]
  IN  IF i = n \/ m[s1 + i] = m[s2 + i] THEN 0 ELSE Order(m[s1 + i], m[s2 + i])

strcmp(m, s1, s2) ==
  LET i == Until(InBoth(m, s1, s2), Differ(m, s1, s2) \cup Ended(m, s1, s2))[0]
  IN  IF m[s1 + i] = m[s2 + i] THEN 0 ELSE Order(m[s1 + i], m[s2 + i])

(* strstr's inner loop, entered with the first characters equal: whether   *)
(* s2 ends before they differ.                                             *)
RestFound(m, s1, s2) ==
  LET i == Until(InBoth(m, s1, s2), Differ(m, s1, s2) \cup Ended(m, s2, s1))[1]
  IN  m[s2 + i] = 0

strstr(m, s1, s2) ==
  LET f[a \in StringsIn(m)] ==
        LET s == strchr(m, a, m[s2])
        IN  IF s = NULL THEN NULL ELSE IF RestFound(m, s, s2) THEN s ELSE f[s + 1]
  IN  IF m[s2] = 0 THEN s1 ELSE f[s1]

-----------------------------------------------------------------------------
(* What C says of them, in terms of the string at an address.              *)
Str(m, s) == [i \in 1 .. (CHOOSE n \in Pointer : m[s + n] = 0 /\ \A k \in 0 .. n - 1 : m[s + k] # 0)
                |-> m[s + i - 1]]
Set(m, s) == {Str(m, s)[i] : i \in DOMAIN Str(m, s)}

First(places, default) ==
  IF places = {} THEN default ELSE CHOOSE p \in places : \A q \in places : p <= q
Final(places, default) ==
  IF places = {} THEN default ELSE CHOOSE p \in places : \A q \in places : p >= q

Compared(a, b) ==
  LET d == First({i \in DOMAIN a : a[i] # b[i]}, 0)
  IN  IF d = 0 THEN 0 ELSE IF a[d] < b[d] THEN -1 ELSE 1

(* A string with zeros behind it, to n characters, and whether one begins  *)
(* with another.                                                           *)
Padded(m, s, n) == [i \in 1 .. n |-> IF i <= Len(Str(m, s)) THEN Str(m, s)[i] ELSE 0]
Match(m, s, t) ==
  Len(Str(m, s)) >= Len(Str(m, t)) /\ SubSeq(Str(m, s), 1, Len(Str(m, t))) = Str(m, t)

BlocksAgree(m) ==
  /\ \A s, n \in Pointer, c \in 0 .. 2 * Base - 1 :
       s + n <= Size =>
         memchr(m, s, c, n) = First({a \in s .. s + n - 1 : m[a] = c % Base}, NULL)
  /\ \A s1, s2, n \in Pointer :
       s1 + n <= Size /\ s2 + n <= Size =>
         memcmp(m, s1, s2, n) = Compared([i \in 1 .. n |-> m[s1 + i - 1]], [i \in 1 .. n |-> m[s2 + i - 1]])

StringAgrees(m, s) ==
  LET all == s .. s + Len(Str(m, s))
  IN  /\ strlen(m)[s] = Len(Str(m, s))
      /\ \A c \in 0 .. 2 * Base - 1 :
           /\ strchr(m, s, c) = First({a \in all : m[a] = c % Base}, NULL)
           /\ strrchr(m, s, c) = Final({a \in all : m[a] = c % Base}, NULL)

PairAgrees(m, s, t) ==
  LET all  == s .. s + Len(Str(m, s))
      hits == {a \in all : m[a] \in Set(m, t)}
      long == Len(Str(m, s)) + Len(Str(m, t)) + 1
  IN  /\ strspn(m, s, t) = First({a \in all : m[a] \notin Set(m, t)}, NULL) - s
      /\ strcspn(m, s, t) = First(hits, s + Len(Str(m, s))) - s
      /\ strpbrk(m, s, t) = First(hits, NULL)
      /\ strcmp(m, s, t) = Compared(Padded(m, s, long), Padded(m, t, long))
      /\ \A n \in Pointer : strncmpy(m, s, t, n) = Compared(Padded(m, s, n), Padded(m, t, n))
      /\ strstr(m, s, t) = First({a \in all : Match(m, a, t)}, NULL)

ScansAgree(m) ==
  /\ BlocksAgree(m)
  /\ \A s \in StringsIn(m) : StringAgrees(m, s) /\ \A t \in StringsIn(m) : PairAgrees(m, s, t)
=============================================================================

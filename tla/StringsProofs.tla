--------------------------- MODULE StringsProofs ----------------------------
(***************************************************************************)
(* The routines of utils/string.c that write leave what C says, and those  *)
(* that read find what C says, whatever the size of the memory, its bytes, *)
(* the values of a byte, the pointers and the count: memmove whatever the  *)
(* overlap, the others on the calls C allows; and the calls of strtok, one *)
(* after the other, return the fields of the string they are given.        *)
(***************************************************************************)
EXTENDS MCStrings, SequenceTheorems, FiniteSetTheorems, TLAPS

(* How much of memmove is done: its pointers follow from the count left,   *)
(* the bytes written so far are those that were to move, and every other   *)
(* byte, the ones still to be read among them, is as it was.               *)
Moving(done) ==
  \A a \in Addr : mem[a] = IF a \in done THEN before[a - call.s1 + call.s2] ELSE before[a]

Bounds ==
  /\ call.s1 \in Nat /\ call.s2 \in Nat /\ call.n \in Nat
  /\ call.s1 + call.n <= Size /\ call.s2 + call.n <= Size
  /\ left \in Nat /\ left <= call.n

Back ==
  /\ call.s2 < call.s1
  /\ to = call.s1 + left /\ from = call.s2 + left
  /\ Moving(call.s1 + left .. call.s1 + call.n - 1)

Forward ==
  /\ ~ (call.s2 < call.s1 /\ call.s1 < call.s2 + call.n)
  /\ to = call.s1 + (call.n - left) /\ from = call.s2 + (call.n - left)
  /\ Moving(call.s1 .. call.s1 + (call.n - left) - 1)

Shape ==
  /\ mem = [a \in Addr |-> mem[a]] /\ before = [a \in Addr |-> before[a]]
  /\ call.fn = "none" => mem = before /\ loop = "done"

Memmove ==
  call.fn = "memmove" =>
    /\ Bounds
    /\ loop \in {"back", "forward"}
    /\ loop = "back" => Back
    /\ loop = "forward" => Forward

Inv == Shape /\ Memmove

-----------------------------------------------------------------------------
LEMMA InitInv == Init => Inv
BY DEF Init, Inv, Shape, Memmove, Idle

(* A call finds the memory as it is before it, and memmove chooses the     *)
(* direction in which no byte is written that has yet to be read.          *)
LEMMA OtherCall ==
  ASSUME Inv, call = Idle, NEW fn, NEW s1, NEW s2, NEW n, NEW c, NEW t, NEW f, NEW l,
         Call(fn, s1, s2, n, c, t, f, l), fn # "none", fn # "memmove"
  PROVE  Inv'
<1>1. call'.fn = fn BY DEF Call
<1>2. mem' = before' /\ UNCHANGED <<mem, before>> BY DEF Inv, Shape, Idle, Call
<1> QED BY <1>1, <1>2 DEF Inv, Shape, Memmove

LEMMA MemmoveCall ==
  ASSUME Inv, call = Idle, NEW s1 \in Pointer, NEW s2 \in Pointer, NEW n \in Pointer,
         Fits(s1, n), Fits(s2, n), memmove(s1, s2, n)
  PROVE  Inv'
<1> USE MemoryAssumption
<1>1. /\ call'.fn = "memmove" /\ call'.s1 = s1 /\ call'.s2 = s2 /\ call'.n = n /\ left' = n
      /\ UNCHANGED <<mem, before>>
  BY DEF memmove, Call
<1>2. mem = before /\ mem = [a \in Addr |-> mem[a]] BY DEF Inv, Shape, Idle
<1>3. Shape' BY <1>1, <1>2 DEF Shape
<1>4. Bounds' BY <1>1 DEF Bounds, Fits, Pointer
<1>5. ASSUME NEW done, done = {} PROVE \A a \in Addr :
        mem'[a] = IF a \in done THEN before'[a - s1 + s2] ELSE before'[a]
  BY <1>1, <1>2, <1>5
<1>6. CASE s2 < s1 /\ s1 < s2 + n
  <2>1. loop' = "back" /\ to' = s1 + n /\ from' = s2 + n BY <1>6 DEF memmove, Call
  <2>2. s1 + n .. s1 + n - 1 = {} BY DEF Pointer
  <2>3. Back' BY <1>1, <1>5, <1>6, <2>1, <2>2 DEF Back, Moving
  <2> QED BY <1>3, <1>4, <2>1, <2>3 DEF Inv, Memmove
<1>7. CASE ~ (s2 < s1 /\ s1 < s2 + n)
  <2>1. loop' = "forward" /\ to' = s1 /\ from' = s2 BY <1>7 DEF memmove, Call
  <2>2. s1 .. s1 + (n - n) - 1 = {} /\ s1 + (n - n) = s1 /\ s2 + (n - n) = s2 BY DEF Pointer
  <2>3. Forward' BY <1>1, <1>5, <1>7, <2>1, <2>2 DEF Forward, Moving
  <2> QED BY <1>3, <1>4, <2>1, <2>3 DEF Inv, Memmove
<1> QED BY <1>6, <1>7

LEMMA BeginInv == Inv /\ Begin => Inv'
<1> SUFFICES ASSUME Inv, Begin PROVE Inv' OBVIOUS
<1>1. call = Idle BY DEF Begin
<1>2. CASE \E s1, s2, n \in Pointer : Fits(s1, n) /\ Fits(s2, n) /\ memmove(s1, s2, n)
  BY <1>1, <1>2, MemmoveCall
<1>3. CASE \E s1, s2, n \in Pointer : memcpy(s1, s2, n) BY <1>1, <1>3, OtherCall DEF memcpy
<1>4. CASE \E s, n \in Pointer, c \in 0 .. 2 * Base - 1 : memset(s, c, n)
  BY <1>1, <1>4, OtherCall DEF memset
<1>5. CASE \E s1, s2 \in Addr : strcpy(s1, s2) BY <1>1, <1>5, OtherCall DEF strcpy
<1>6. CASE \E s1, s2 \in Addr, n \in Pointer : strncpy(s1, s2, n) BY <1>1, <1>6, OtherCall DEF strncpy
<1>7. CASE \E s1, s2 \in Addr : strcat(s1, s2) BY <1>1, <1>7, OtherCall DEF strcat
<1>8. CASE \E s1, s2 \in Addr, n \in Pointer : strncat(s1, s2, n) BY <1>1, <1>8, OtherCall DEF strncat
<1> QED BY <1>2, <1>3, <1>4, <1>5, <1>6, <1>7, <1>8 DEF Begin

-----------------------------------------------------------------------------
(* The byte read has not been written: it is what it was at the call.      *)
LEMMA CopyBackInv == Inv /\ CopyBack => Inv'
<1> SUFFICES ASSUME Inv, CopyBack PROVE Inv' OBVIOUS
<1> USE MemoryAssumption
<1>1. Shape' BY DEF Inv, Shape, CopyBack, Store
<1>2. ASSUME call.fn = "memmove" PROVE Memmove'
  <2>1. Bounds /\ Back BY <1>2 DEF Inv, Memmove, CopyBack
  <2>2. /\ call'.s1 = call.s1 /\ call'.s2 = call.s2 /\ call'.n = call.n /\ loop' = loop
        /\ left' = left - 1 /\ to' = to - 1 /\ from' = from - 1
    BY DEF CopyBack, Store
  <2>3. Bounds' BY <2>1, <2>2 DEF Bounds, CopyBack
  <2>4. ASSUME NEW a \in Addr
        PROVE  mem'[a] = IF a \in call.s1 + (left - 1) .. call.s1 + call.n - 1
                           THEN before[a - call.s1 + call.s2] ELSE before[a]
    <3>1. from - 1 \in Addr /\ mem[from - 1] = before[from - 1]
      BY <2>1 DEF Bounds, Back, Moving, Addr, CopyBack
    <3>2. CASE a = to - 1
      <4>1. mem'[a] = mem[from - 1] BY <3>2 DEF Inv, Shape, CopyBack, Store
      <4>2. to = call.s1 + left /\ from = call.s2 + left BY <2>1 DEF Back
      <4>3. a - call.s1 + call.s2 = from - 1 BY <3>2, <4>2, <2>1 DEF Bounds
      <4>4. a \in call.s1 + (left - 1) .. call.s1 + call.n - 1
        BY <3>2, <4>2, <2>1 DEF Bounds, CopyBack
      <4> QED BY <3>1, <4>1, <4>3, <4>4
    <3>3. CASE a # to - 1
      <4>1. mem'[a] = mem[a] BY <3>3 DEF Inv, Shape, CopyBack, Store
      <4> QED BY <2>1, <3>3, <4>1 DEF Bounds, Back, Moving, Addr, CopyBack
    <3> QED BY <3>2, <3>3
  <2>5. Back' BY <2>1, <2>2, <2>4 DEF Bounds, Back, Moving, CopyBack, Store
  <2> QED BY <2>2, <2>3, <2>5 DEF Memmove, CopyBack
<1> QED BY <1>1, <1>2 DEF Inv, Memmove, CopyBack, Store

LEMMA CopyForwardInv == Inv /\ CopyForward => Inv'
<1> SUFFICES ASSUME Inv, CopyForward PROVE Inv' OBVIOUS
<1> USE MemoryAssumption
<1>1. Shape' BY DEF Inv, Shape, CopyForward, Store
<1>2. ASSUME call.fn = "memmove" PROVE Memmove'
  <2>1. Bounds /\ Forward BY <1>2 DEF Inv, Memmove, CopyForward
  <2>2. /\ call'.s1 = call.s1 /\ call'.s2 = call.s2 /\ call'.n = call.n /\ loop' = loop
        /\ left' = left - 1 /\ to' = to + 1 /\ from' = from + 1
    BY DEF CopyForward, Store
  <2>3. Bounds' BY <2>1, <2>2 DEF Bounds, CopyForward
  <2>4. ASSUME NEW a \in Addr
        PROVE  mem'[a] = IF a \in call.s1 .. call.s1 + (call.n - (left - 1)) - 1
                           THEN before[a - call.s1 + call.s2] ELSE before[a]
    <3>1. from \in Addr /\ mem[from] = before[from]
      BY <2>1 DEF Bounds, Forward, Moving, Addr, CopyForward
    <3>2. CASE a = to
      <4>1. mem'[a] = mem[from] BY <3>2 DEF Inv, Shape, CopyForward, Store
      <4>2. to = call.s1 + (call.n - left) /\ from = call.s2 + (call.n - left) BY <2>1 DEF Forward
      <4>3. a - call.s1 + call.s2 = from BY <3>2, <4>2, <2>1 DEF Bounds
      <4>4. a \in call.s1 .. call.s1 + (call.n - (left - 1)) - 1
        BY <3>2, <4>2, <2>1 DEF Bounds, CopyForward
      <4> QED BY <3>1, <4>1, <4>3, <4>4
    <3>3. CASE a # to
      <4>1. mem'[a] = mem[a] BY <3>3 DEF Inv, Shape, CopyForward, Store
      <4> QED BY <2>1, <3>3, <4>1 DEF Bounds, Forward, Moving, Addr, CopyForward
    <3> QED BY <3>2, <3>3
  <2>5. Forward' BY <2>1, <2>2, <2>4 DEF Bounds, Forward, Moving, CopyForward, Store
  <2> QED BY <2>2, <2>3, <2>5 DEF Memmove, CopyForward
<1> QED BY <1>1, <1>2 DEF Inv, Memmove, CopyForward, Store

-----------------------------------------------------------------------------
(* The loops of the other routines leave memmove's call alone: it is not   *)
(* the one that runs.                                                      *)
LEMMA StepInv == Inv /\ [Next]_vars => Inv'
<1> SUFFICES ASSUME Inv, [Next]_vars PROVE Inv' OBVIOUS
<1>1. CASE Begin BY <1>1, BeginInv
<1>2. CASE CopyBack BY <1>2, CopyBackInv
<1>3. CASE CopyForward BY <1>3, CopyForwardInv
<1>4. CASE Return BY <1>4 DEF Return, Inv, Shape, Memmove, Idle
<1>5. CASE Fill BY <1>5 DEF Fill, Store, Inv, Shape, Memmove, Idle
<1>6. CASE CopyString BY <1>6 DEF CopyString, Store, Inv, Shape, Memmove, Idle
<1>7. CASE CopyCounted BY <1>7 DEF CopyCounted, Store, Inv, Shape, Memmove, Idle
<1>8. CASE EndCounted BY <1>8 DEF EndCounted, Store, Inv, Shape, Memmove, Idle
<1>9. CASE UNCHANGED vars
  BY <1>9 DEF vars, pointers, Inv, Shape, Memmove, Bounds, Back, Forward, Moving
<1> QED BY <1>1, <1>2, <1>3, <1>4, <1>5, <1>6, <1>7, <1>8, <1>9 DEF Next

LEMMA InvMoves == Inv => MemmoveMoves
<1> SUFFICES ASSUME Inv, Returned, call.fn = "memmove", NEW a \in Addr
             PROVE  mem[a] = IF a \in call.s1 .. call.s1 + call.n - 1
                               THEN before[a - call.s1 + call.s2] ELSE before[a]
  BY DEF MemmoveMoves
<1>1. left = 0 /\ Bounds /\ (Back \/ Forward) BY DEF Inv, Memmove, Returned
<1>2. call.s1 + 0 = call.s1 /\ call.n - 0 = call.n BY <1>1 DEF Bounds
<1> QED BY <1>1, <1>2 DEF Back, Forward, Moving

(* Whatever the regions, the count and the memory, when memmove returns    *)
(* (string.c:36-49) its bytes have moved and no other has changed.         *)
THEOREM MemmoveAlwaysMoves == Spec => []MemmoveMoves
<1>1. Inv /\ [Next]_vars => Inv' BY StepInv
<1> QED BY InitInv, <1>1, InvMoves, PTL DEF Spec

-----------------------------------------------------------------------------
(* A set of naturals has a least element; so a fact that holds of a place  *)
(* if it holds of all the places above holds of all places.                *)
LEMMA Least ==
  ASSUME NEW T, T \subseteq Nat, T # {}
  PROVE  \E x \in T : \A y \in T : x <= y
<1> DEFINE Seg(n) == 1 .. n
           Segs   == {Seg(n) : n \in T}
           R      == StrictSubsetOrdering(Nat)
<1>1. Segs \subseteq FiniteSubsetsOf(Nat)
  BY FS_Interval DEF FiniteSubsetsOf
<1>2. Segs # {}
  OBVIOUS
<1>3. \E X \in Segs : \A Y \in Segs : ~ (<<Y, X>> \in R)
  <2> HIDE DEF Segs, R
  <2> QED BY <1>1, <1>2, WFMin, FS_StrictSubsetOrderingWellFounded DEF R
<1>4. PICK x \in T : \A Y \in Segs : ~ (<<Y, Seg(x)>> \in R)
  BY <1>3
<1>5. ASSUME NEW y \in T, y < x PROVE FALSE
  <2>1. Seg(y) \in SUBSET Nat /\ Seg(x) \in SUBSET Nat /\ Seg(y) \subseteq Seg(x)
    BY <1>5
  <2>2. x \in Seg(x) /\ x \notin Seg(y)
    BY <1>5
  <2>3. <<Seg(y), Seg(x)>> \in R
    BY <2>1, <2>2 DEF StrictSubsetOrdering
  <2> QED BY <2>3, <1>4
<1> QED BY <1>5

LEMMA Backwards ==
  ASSUME NEW hi \in Nat, NEW D, D \subseteq 0 .. hi, NEW G,
         \A a \in D : (\A b \in D : a < b => b \in G) => a \in G
  PROVE  D \subseteq G
<1> SUFFICES ASSUME D \ G # {} PROVE FALSE
  OBVIOUS
<1> DEFINE T == {hi - a : a \in D \ G}
<1>1. (\A t \in T : t \in Nat) /\ T # {}
  <2>1. ASSUME NEW a \in D PROVE hi - a \in Nat
    <3>1. a \in 0 .. hi
      OBVIOUS
    <3>2. a \in Int /\ a <= hi
      BY <3>1
    <3>3. QED
      BY <3>2
  <2>2. \E a \in D \ G : hi - a \in T
    OBVIOUS
  <2>3. QED
    BY <2>1, <2>2
<1>2. PICK x \in T : \A y \in T : x <= y
  <2> HIDE DEF T
  <2>1. QED
    BY <1>1, Least
<1>3. PICK a \in D \ G : x = hi - a
  BY <1>2
<1>4. ASSUME NEW b \in D, a < b PROVE b \in G
  <2>1. b \notin G => hi - a <= hi - b
    BY <1>2, <1>3
  <2>2. a \in 0 .. hi /\ b \in 0 .. hi
    OBVIOUS
  <2>3. QED
    BY <1>4, <2>1, <2>2
<1>5. QED
  BY <1>3, <1>4

-----------------------------------------------------------------------------
(* What a loop that counts up computes: the first place of stop from where *)
(* it begins.                                                              *)
Ending(D, P, a, u) == u \in D \cap P /\ a <= u /\ \A k \in a .. u - 1 : k \notin P

Closed(D, P) == \E hi \in Nat : D \subseteq 0 .. hi /\ \A a \in D : a \in P \/ a + 1 \in D

LEMMA EndingIs ==
  ASSUME NEW D, D \subseteq Nat, NEW P, NEW a \in D, NEW u, Ending(D, P, a, u)
  PROVE  /\ a \in Nat /\ u \in Nat /\ u \in D /\ u \in P /\ a <= u /\ u - a \in Nat
         /\ \A k \in Nat : a <= k /\ k < u => k \notin P
<1>1. u \in D /\ u \in P /\ a <= u
  BY DEF Ending
<1>2. a \in Nat /\ u \in Nat
  BY <1>1
<1>3. ASSUME NEW k \in Nat, a <= k, k < u PROVE k \notin P
  <2>1. k \in a .. u - 1
    BY <1>2, <1>3
  <2>2. QED
    BY <2>1 DEF Ending
<1>4. QED
  BY <1>1, <1>2, <1>3

LEMMA EndingUnique ==
  ASSUME NEW D, D \subseteq Nat, NEW P, NEW a \in D, NEW u, NEW v,
         Ending(D, P, a, u), Ending(D, P, a, v)
  PROVE  u = v
<1>1. u \in Nat /\ v \in Nat /\ a \in Nat /\ a <= u /\ a <= v
  BY DEF Ending
<1>2. u < v => u \in a .. v - 1
  BY <1>1
<1>3. v < u => v \in a .. u - 1
  BY <1>1
<1>4. QED
  BY <1>1, <1>2, <1>3 DEF Ending

LEMMA EndingStep ==
  ASSUME NEW D, D \subseteq Nat, NEW P, NEW a \in D, NEW u
  PROVE  /\ a \in P => Ending(D, P, a, a)
         /\ a \notin P /\ Ending(D, P, a + 1, u) => Ending(D, P, a, u)
<1>1. a \in Nat /\ a .. a - 1 = {}
  OBVIOUS
<1>2. a \in P => Ending(D, P, a, a)
  BY <1>1 DEF Ending
<1>3. ASSUME a \notin P, Ending(D, P, a + 1, u) PROVE Ending(D, P, a, u)
  <2>1. u \in D \cap P /\ a + 1 <= u /\ \A k \in a + 1 .. u - 1 : k \notin P
    BY <1>3 DEF Ending
  <2>2. u \in Nat /\ a <= u
    BY <1>1, <2>1
  <2>3. \A k \in a .. u - 1 : k = a \/ k \in a + 1 .. u - 1
    BY <1>1, <2>2
  <2>4. QED
    BY <1>3, <2>1, <2>2, <2>3 DEF Ending
<1>4. QED
  BY <1>2, <1>3

LEMMA EndingExists ==
  ASSUME NEW D, NEW P, Closed(D, P)
  PROVE  D \subseteq Nat /\ \A a \in D : \E u : Ending(D, P, a, u)
<1>1. PICK hi \in Nat : D \subseteq 0 .. hi /\ \A a \in D : a \in P \/ a + 1 \in D
  BY DEF Closed
<1>2. D \subseteq Nat
  BY <1>1
<1> DEFINE G == {a \in D : \E u : Ending(D, P, a, u)}
<1>3. ASSUME NEW a \in D, \A b \in D : a < b => b \in G PROVE a \in G
  <2>1. a \in P => a \in G
    BY <1>2, EndingStep
  <2>2. a < a + 1
    BY <1>2
  <2>3. a \notin P => a + 1 \in G
    BY <1>1, <1>3, <2>2
  <2>4. QED
    BY <1>2, <2>1, <2>3, EndingStep
<1>4. D \subseteq G
  <2> HIDE DEF G
  <2>1. QED
    BY <1>1, <1>3, Backwards
<1>5. QED
  BY <1>2, <1>4

LEMMA UntilEnds ==
  ASSUME NEW D, NEW P, Closed(D, P), NEW s \in D
  PROVE  Ending(D, P, s, Until(D, P)[s])
<1>1. PICK hi \in Nat : D \subseteq 0 .. hi /\ \A a \in D : a \in P \/ a + 1 \in D
  BY DEF Closed
<1>2. D \subseteq Nat /\ \A a \in D : \E u : Ending(D, P, a, u)
  BY EndingExists
<1> DEFINE IsIt(f) == f = [a \in D |-> IF a \in P THEN a ELSE f[a + 1]]
<1>3. \E f : IsIt(f)
  <2> DEFINE g == [a \in D |-> CHOOSE u : Ending(D, P, a, u)]
  <2>1. ASSUME NEW a \in D PROVE g[a] = IF a \in P THEN a ELSE g[a + 1]
    <3>1. Ending(D, P, a, g[a])
      BY <1>2
    <3>2. CASE a \in P
      BY <1>2, <3>1, <3>2, EndingStep, EndingUnique
    <3>3. CASE a \notin P
      <4>1. a + 1 \in D
        BY <1>1, <3>3
      <4>2. Ending(D, P, a + 1, g[a + 1])
        BY <1>2, <4>1
      <4>3. Ending(D, P, a, g[a + 1])
        BY <1>2, <3>3, <4>2, EndingStep
      <4> HIDE DEF g
      <4>4. g[a] = g[a + 1]
        BY <1>2, <3>1, <4>3, EndingUnique
      <4>5. QED
        BY <3>3, <4>4
    <3>4. QED
      BY <3>2, <3>3
  <2>2. g = [a \in D |-> g[a]]
    OBVIOUS
  <2> HIDE DEF g
  <2>3. IsIt(g)
    BY <2>1, <2>2
  <2>4. QED
    BY <2>3
<1>4. IsIt(Until(D, P))
  <2>1. Until(D, P) = CHOOSE f : IsIt(f)
    BY DEF Until
  <2>2. QED
    BY <1>3, <2>1
<1>5. PICK f : f = Until(D, P)
  OBVIOUS
<1>6. \A a \in D : f[a] = IF a \in P THEN a ELSE f[a + 1]
  BY <1>4, <1>5
<1> DEFINE G == {a \in D : Ending(D, P, a, f[a])}
<1>7. ASSUME NEW a \in D, \A b \in D : a < b => b \in G PROVE a \in G
  <2>1. CASE a \in P
    BY <1>2, <1>6, <2>1, EndingStep
  <2>2. CASE a \notin P
    <3>1. a + 1 \in D /\ a < a + 1
      BY <1>1, <1>2, <2>2
    <3>2. Ending(D, P, a + 1, f[a + 1]) /\ f[a] = f[a + 1]
      BY <1>6, <1>7, <2>2, <3>1
    <3>3. QED
      BY <1>2, <2>2, <3>2, EndingStep
  <2>3. QED
    BY <2>1, <2>2
<1>8. D \subseteq G
  <2> HIDE DEF G
  <2>1. QED
    BY <1>1, <1>7, Backwards
<1>9. QED
  BY <1>5, <1>8

-----------------------------------------------------------------------------
(* strlen counts to the 0, and a string is as long as that.                *)
LEMMA NextPlace ==
  ASSUME NEW m, NEW s \in StringsIn(m)
  PROVE  s \in Nat /\ s < Size /\ (m[s] # 0 => s + 1 \in StringsIn(m))
<1> USE MemoryAssumption
<1>1. s \in Nat /\ s < Size
  BY DEF StringsIn, Addr
<1>2. PICK z \in s .. Size - 1 : m[z] = 0
  BY DEF StringsIn
<1>3. m[s] # 0 => s + 1 \in Addr /\ z \in s + 1 .. Size - 1
  BY <1>1, <1>2 DEF Addr
<1>4. QED
  BY <1>1, <1>2, <1>3 DEF StringsIn

LEMMA StringsClosed ==
  ASSUME NEW m, NEW P, \A a \in StringsIn(m) : m[a] = 0 => a \in P
  PROVE  Closed(StringsIn(m), P)
<1>1. Size - 1 \in Nat /\ StringsIn(m) \subseteq 0 .. Size - 1
  BY MemoryAssumption DEF StringsIn, Addr
<1>2. QED
  BY <1>1, NextPlace DEF Closed

Nuls(m) == {a \in StringsIn(m) : m[a] = 0}

LEMMA StrlenEnds ==
  ASSUME NEW m, NEW s \in StringsIn(m)
  PROVE  strlen(m)[s] \in Nat /\ Ending(StringsIn(m), Nuls(m), s, s + strlen(m)[s])
<1> DEFINE D == StringsIn(m)
           P == Nuls(m)
           IsIt(f) == f = [a \in D |-> IF m[a] = 0 THEN 0 ELSE 1 + f[a + 1]]
           u == Until(D, P)
<1>1. Closed(D, P) /\ \A a \in D : m[a] = 0 <=> a \in P
  BY StringsClosed DEF Nuls
<1>2. D \subseteq Nat /\ Size - 1 \in Nat /\ D \subseteq 0 .. Size - 1
  BY MemoryAssumption DEF StringsIn, Addr
<1>3. \A a \in D : m[a] # 0 => a + 1 \in D
  BY NextPlace
<1> HIDE DEF D, P
<1>4. \A a \in D : Ending(D, P, a, u[a])
  BY <1>1, UntilEnds
<1> HIDE DEF u
<1>5. ASSUME NEW a \in D PROVE a \in Nat /\ u[a] \in Nat /\ u[a] - a \in Nat
  <2>1. Ending(D, P, a, u[a])
    BY <1>4
  <2>2. PICK v : v = u[a]
    OBVIOUS
  <2>3. Ending(D, P, a, v)
    BY <2>1, <2>2
  <2>4. a \in Nat /\ v \in Nat /\ v - a \in Nat
    BY <1>2, <2>3, EndingIs
  <2>5. QED
    BY <2>2, <2>4
<1>6. ASSUME NEW a \in D PROVE u[a] = IF m[a] = 0 THEN a ELSE u[a + 1]
  <2>1. CASE m[a] = 0
    <3>1. Ending(D, P, a, a)
      BY <1>1, <1>2, <2>1, EndingStep
    <3>2. QED
      BY <1>2, <1>4, <2>1, <3>1, EndingUnique
  <2>2. CASE m[a] # 0
    <3>1. Ending(D, P, a, u[a + 1])
      BY <1>1, <1>2, <1>3, <1>4, <2>2, EndingStep
    <3>2. QED
      BY <1>2, <1>4, <2>2, <3>1, EndingUnique
  <2>3. QED
    BY <2>1, <2>2
<1>7. \E f : IsIt(f)
  <2> DEFINE g == [a \in D |-> u[a] - a]
  <2>1. ASSUME NEW a \in D PROVE g[a] = IF m[a] = 0 THEN 0 ELSE 1 + g[a + 1]
    <3>1. a \in Nat /\ u[a] - a \in Nat /\ u[a] \in Nat
      BY <1>5
    <3>2. CASE m[a] = 0
      BY <1>6, <3>1, <3>2
    <3>3. CASE m[a] # 0
      <4>1. a + 1 \in D /\ u[a] = u[a + 1]
        BY <1>3, <1>6, <3>3
      <4>2. g[a] = u[a] - a /\ g[a + 1] = u[a] - (a + 1)
        BY <4>1
      <4> HIDE DEF g
      <4>3. QED
        BY <3>1, <3>3, <4>2
    <3>4. QED
      BY <3>2, <3>3
  <2>2. g = [a \in D |-> g[a]]
    OBVIOUS
  <2> HIDE DEF g
  <2>3. IsIt(g)
    BY <2>1, <2>2
  <2>4. QED
    BY <2>3
<1>8. IsIt(strlen(m))
  <2>1. strlen(m) = CHOOSE f : IsIt(f)
    BY DEF strlen, D
  <2>2. QED
    BY <1>7, <2>1
<1>9. PICK f : f = strlen(m)
  OBVIOUS
<1>10. \A a \in D : f[a] = IF m[a] = 0 THEN 0 ELSE 1 + f[a + 1]
  BY <1>8, <1>9
<1> DEFINE G == {a \in D : f[a] = u[a] - a}
<1>11. ASSUME NEW a \in D, \A b \in D : a < b => b \in G PROVE a \in G
  <2>1. a \in Nat /\ u[a] \in Nat
    BY <1>5
  <2>2. CASE m[a] = 0
    BY <1>6, <1>10, <2>1, <2>2
  <2>3. CASE m[a] # 0
    <3>1. a + 1 \in D /\ u[a] = u[a + 1] /\ f[a] = 1 + f[a + 1] /\ a < a + 1
      BY <1>3, <1>6, <1>10, <2>1, <2>3
    <3>2. f[a + 1] = u[a] - (a + 1)
      BY <1>11, <3>1
    <3>3. QED
      BY <2>1, <3>1, <3>2
  <2>4. QED
    BY <2>2, <2>3
<1>12. D \subseteq G
  <2> HIDE DEF G
  <2>1. QED
    BY <1>2, <1>11, Backwards
<1>13. s \in D /\ f[s] = u[s] - s
  BY <1>12 DEF D
<1>14. f[s] \in Nat /\ s + f[s] = u[s]
  BY <1>5, <1>13
<1>15. QED
  BY <1>4, <1>9, <1>13, <1>14 DEF D, P

LEMMA StringIs ==
  ASSUME NEW m, NEW s \in StringsIn(m)
  PROVE  /\ s \in Nat /\ strlen(m)[s] \in Nat /\ s + strlen(m)[s] < Size
         /\ m[s + strlen(m)[s]] = 0
         /\ \A k \in 0 .. strlen(m)[s] - 1 : m[s + k] # 0
         /\ Str(m, s) = [i \in 1 .. strlen(m)[s] |-> m[s + i - 1]]
         /\ Len(Str(m, s)) = strlen(m)[s]
<1> DEFINE n == strlen(m)[s]
<1>1. n \in Nat /\ Ending(StringsIn(m), Nuls(m), s, s + n)
  BY StrlenEnds
<1>2. s \in Nat
  BY NextPlace
<1> HIDE DEF n
<1> DEFINE D == StringsIn(m)
           P == Nuls(m)
<1>3. s + n \in D /\ m[s + n] = 0 /\ \A k \in Nat : s <= k /\ k < s + n => k \notin P
  <2>1. D \subseteq Nat /\ s \in D
    BY NextPlace
  <2>2. Ending(D, P, s, s + n)
    BY <1>1
  <2> HIDE DEF D, P
  <2>3. PICK u : u = s + n
    OBVIOUS
  <2>4. Ending(D, P, s, u)
    BY <2>2, <2>3
  <2>5. u \in D /\ u \in P /\ \A k \in Nat : s <= k /\ k < u => k \notin P
    BY <2>1, <2>4, EndingIs
  <2>6. QED
    BY <2>3, <2>5 DEF P, Nuls
<1>4. s + n \in Addr
  BY <1>3 DEF StringsIn
<1>5. n \in Pointer /\ s + n < Size
  BY <1>1, <1>2, <1>4, MemoryAssumption DEF Pointer, Addr
<1>6. ASSUME NEW k \in 0 .. n - 1 PROVE m[s + k] # 0
  <2>1. s + k \in Nat /\ s <= s + k /\ s + k < s + n /\ s + k \in Addr /\ s + n \in s + k .. Size - 1
    BY <1>1, <1>2, <1>5, MemoryAssumption DEF Addr
  <2>2. s + k \in StringsIn(m)
    BY <1>3, <2>1 DEF StringsIn
  <2>3. QED
    BY <1>3, <2>1, <2>2 DEF Nuls
<1> DEFINE IsEnd(k) == m[s + k] = 0 /\ \A j \in 0 .. k - 1 : m[s + j] # 0
<1>7. ASSUME NEW k \in Pointer, IsEnd(k) PROVE k = n
  <2>1. k \in Nat
    BY MemoryAssumption DEF Pointer
  <2>2. k < n => k \in 0 .. n - 1
    BY <1>1, <2>1
  <2>3. n < k => n \in 0 .. k - 1
    BY <1>1, <2>1
  <2>4. QED
    BY <1>1, <1>3, <1>6, <1>7, <2>1, <2>2, <2>3
<1>8. (CHOOSE k \in Pointer : IsEnd(k)) = n
  <2>1. IsEnd(n)
    BY <1>3, <1>6
  <2> HIDE DEF IsEnd
  <2>2. QED
    BY <1>5, <1>7, <2>1
<1>9. Str(m, s) = [i \in 1 .. n |-> m[s + i - 1]]
  BY <1>8 DEF Str
<1>10. Len(Str(m, s)) = n
  BY <1>1, <1>9
<1>11. QED
  BY <1>1, <1>2, <1>3, <1>5, <1>6, <1>9, <1>10 DEF n

-----------------------------------------------------------------------------
(* The routines that write, but memmove: where a call c on the memory b    *)
(* writes, how many bytes, and which.                                      *)
Others == {"memcpy", "memset", "strcpy", "strcat", "strncpy", "strncat"}
OnStrings == {"strcpy", "strcat", "strncpy", "strncat"}
AtTheEnd == {"strcat", "strncat"}

Start(c, b) == IF c.fn \in AtTheEnd THEN c.s1 + strlen(b)[c.s1] ELSE c.s1

Taken(c, b) ==
  IF c.fn = "strncat" /\ c.n < strlen(b)[c.s2] THEN c.n ELSE strlen(b)[c.s2]

Total(c, b) ==
  IF c.fn \in {"memcpy", "memset", "strncpy"} THEN c.n ELSE Taken(c, b) + 1

Byte(c, b, i) ==
  IF c.fn = "memset" THEN c.c % Base
  ELSE IF c.fn = "memcpy" \/ i < Taken(c, b) THEN b[c.s2 + i] ELSE 0

(* The bytes it may read.                                                  *)
Read(c, b) == IF c.fn = "memcpy" THEN c.n ELSE strlen(b)[c.s2] + 1

(* The memory when k bytes are written.                                    *)
After(c, b, k) ==
  [a \in Addr |-> IF a \in Start(c, b) .. Start(c, b) + k - 1
                    THEN Byte(c, b, a - Start(c, b)) ELSE b[a]]

Legal(c, b) ==
  /\ c.fn \in Others
  /\ c.s1 \in Nat /\ c.s2 \in Nat /\ c.n \in Nat
  /\ c.fn \in OnStrings => c.s2 \in StringsIn(b)
  /\ c.fn \in AtTheEnd => c.s1 \in StringsIn(b)
  /\ Start(c, b) + Total(c, b) <= Size
  /\ c.fn = "memcpy" => c.s2 + c.n <= Size
  /\ c.fn # "memset" => Disjoint(Start(c, b), Total(c, b), c.s2, Read(c, b))

LEMMA LegalTypes ==
  ASSUME NEW c, NEW b, Legal(c, b)
  PROVE  /\ Start(c, b) \in Nat /\ Total(c, b) \in Nat
         /\ c.fn \in OnStrings => strlen(b)[c.s2] \in Nat /\ Taken(c, b) \in Nat
                                    /\ c.s2 + strlen(b)[c.s2] < Size
         /\ c.fn # "memset" => Read(c, b) \in Nat /\ c.s2 + Read(c, b) <= Size
<1>1. c.fn \in OnStrings => strlen(b)[c.s2] \in Nat /\ c.s2 + strlen(b)[c.s2] < Size
  BY StringIs DEF Legal
<1>2. c.fn \in AtTheEnd => strlen(b)[c.s1] \in Nat
  BY StringIs DEF Legal
<1>3. c.fn \in OnStrings => Taken(c, b) \in Nat
  BY <1>1 DEF Taken, Legal
<1>4. Start(c, b) \in Nat
  BY <1>2 DEF Start, Legal
<1>5. c.fn \in OnStrings \/ c.fn \in {"memcpy", "memset"}
  BY DEF Legal, Others, OnStrings
<1>6. Total(c, b) \in Nat
  BY <1>3, <1>5 DEF Total, Legal
<1>7. c.fn # "memset" => Read(c, b) \in Nat /\ c.s2 + Read(c, b) <= Size
  BY <1>1, <1>5, MemoryAssumption DEF Read, Legal
<1>8. QED
  BY <1>1, <1>3, <1>4, <1>6, <1>7

LEMMA OneMore ==
  ASSUME NEW c, NEW b, Legal(c, b), NEW k \in Nat, k < Total(c, b)
  PROVE  [After(c, b, k) EXCEPT ![Start(c, b) + k] = Byte(c, b, k)] = After(c, b, k + 1)
<1> DEFINE s == Start(c, b)
<1>1. s \in Nat /\ Total(c, b) \in Nat /\ s + Total(c, b) <= Size
  BY LegalTypes DEF Legal
<1> HIDE DEF s
<1>2. s + k - s = k /\ s + k \in Addr
  BY <1>1, MemoryAssumption DEF Addr
<1>3. ASSUME NEW a \in Addr
      PROVE  a \in s .. s + (k + 1) - 1 <=> a \in s .. s + k - 1 \/ a = s + k
  BY <1>1, MemoryAssumption DEF Addr
<1>4. s + k \notin s .. s + k - 1
  BY <1>1
<1> DEFINE x == After(c, b, k)
           z == After(c, b, k + 1)
<1>5. /\ x = [a \in Addr |-> IF a \in s .. s + k - 1 THEN Byte(c, b, a - s) ELSE b[a]]
      /\ z = [a \in Addr |-> IF a \in s .. s + (k + 1) - 1 THEN Byte(c, b, a - s) ELSE b[a]]
  BY DEF After, s
<1> HIDE DEF x, z
<1>6. [x EXCEPT ![s + k] = Byte(c, b, k)] =
        [a \in Addr |-> IF a = s + k THEN Byte(c, b, k) ELSE x[a]]
  BY <1>5
<1>7. ASSUME NEW a \in Addr
      PROVE  z[a] = IF a = s + k THEN Byte(c, b, k) ELSE x[a]
  <2>1. z[a] = IF a \in s .. s + (k + 1) - 1 THEN Byte(c, b, a - s) ELSE b[a]
    BY <1>5
  <2>2. x[a] = IF a \in s .. s + k - 1 THEN Byte(c, b, a - s) ELSE b[a]
    BY <1>5
  <2>3. CASE a = s + k
    <3>1. z[a] = Byte(c, b, a - s)
      BY <1>3, <2>1, <2>3
    <3>2. a - s = k
      BY <1>1, <2>3
    <3>3. QED
      BY <2>3, <3>1, <3>2, Zenon
  <2>4. CASE a # s + k
    BY <1>3, <2>1, <2>2, <2>4
  <2>5. QED
    BY <2>3, <2>4
<1>8. z = [a \in Addr |-> z[a]]
  BY <1>5
<1>9. z = [a \in Addr |-> IF a = s + k THEN Byte(c, b, k) ELSE x[a]]
  BY <1>7, <1>8
<1>10. [x EXCEPT ![s + k] = Byte(c, b, k)] = z
  BY <1>6, <1>9
<1>11. QED
  BY <1>10 DEF x, z, s

(* What is read has not been written.                                      *)
LEMMA ReadsBefore ==
  ASSUME NEW c, NEW b, Legal(c, b), NEW k \in Nat, k <= Total(c, b), c.fn # "memset",
         NEW i \in Nat, i < Read(c, b)
  PROVE  After(c, b, k)[c.s2 + i] = b[c.s2 + i]
<1> DEFINE s == Start(c, b)
           t == Total(c, b)
           r == Read(c, b)
<1>1. /\ s \in Nat /\ t \in Nat /\ s + t <= Size /\ r \in Nat /\ c.s2 \in Nat
      /\ c.s2 + r <= Size /\ Disjoint(s, t, c.s2, r)
  BY LegalTypes DEF Legal
<1> HIDE DEF s, t, r
<1>2. c.s2 + i \in Addr /\ c.s2 + i \notin s .. s + k - 1
  BY <1>1, MemoryAssumption DEF Addr, Disjoint, t, r
<1>3. QED
  BY <1>2 DEF After, s

-----------------------------------------------------------------------------
(* What C says each of them leaves is what it leaves after its last byte.  *)
LEMMA WrittenIs ==
  ASSUME NEW c, NEW b, Legal(c, b), NEW bytes,
         Len(bytes) = Total(c, b),
         \A i \in 1 .. Total(c, b) : bytes[i] = Byte(c, b, i - 1)
  PROVE  Written(b, Start(c, b), bytes) = After(c, b, Total(c, b))
<1> DEFINE s == Start(c, b)
           t == Total(c, b)
<1>1. s \in Nat /\ t \in Nat
  BY LegalTypes
<1> HIDE DEF s, t
<1>2. ASSUME NEW a \in Addr, a \in s .. s + t - 1
      PROVE  bytes[a - s + 1] = Byte(c, b, a - s)
  <2>1. PICK j \in 1 .. t : j = a - s + 1 /\ j - 1 = a - s
    <3>1. a - s + 1 \in 1 .. t /\ a - s + 1 - 1 = a - s
      BY <1>1, <1>2
    <3>2. QED
      BY <1>1, <1>2, <3>1
  <2>2. bytes[j] = Byte(c, b, j - 1)
    BY DEF t
  <2>3. QED
    BY <2>1, <2>2
<1>3. QED
  BY <1>2 DEF Written, After, s, t

LEMMA Joined ==
  ASSUME NEW n \in Nat, NEW x, DOMAIN x = 1 .. n, x = [i \in 1 .. n |-> x[i]],
         NEW k \in Nat, NEW y, y = [i \in 1 .. k |-> 0]
  PROVE  /\ Len(x) = n /\ Len(x \o y) = n + k
         /\ \A i \in 1 .. n + k : (x \o y)[i] = IF i <= n THEN x[i] ELSE 0
<1> DEFINE T == {x[i] : i \in 1 .. n} \cup {0}
<1>1. x \in Seq(T) /\ Len(x) = n
  OBVIOUS
<1>2. y \in Seq(T) /\ Len(y) = k
  OBVIOUS
<1> HIDE DEF T
<1>3. /\ Len(x \o y) = n + k
      /\ \A i \in 1 .. n + k : (x \o y)[i] = IF i <= n THEN x[i] ELSE y[i - n]
  BY <1>1, <1>2, ConcatProperties
<1>4. \A i \in 1 .. n + k : ~ (i <= n) => i - n \in 1 .. k
  OBVIOUS
<1>5. QED
  BY <1>1, <1>3, <1>4

LEMMA CutTyped ==
  ASSUME NEW T, NEW x, NEW k \in Nat, \A i \in 1 .. k : x[i] \in T
  PROVE  SubSeq(x, 1, k) \in Seq(T) /\ \A i \in 1 .. k : SubSeq(x, 1, k)[i] = x[i]
<1>1. /\ SubSeq(x, 1, k) \in Seq(T)
      /\ \A i \in 1 .. k - 1 + 1 : SubSeq(x, 1, k)[i] = x[1 + i - 1]
  BY SubSeqProperties
<1>2. QED
  BY <1>1

LEMMA Cut ==
  ASSUME NEW n \in Nat, NEW x, x = [i \in 1 .. n |-> x[i]], NEW k \in Nat, k <= n
  PROVE  /\ Len(SubSeq(x, 1, k)) = k
         /\ SubSeq(x, 1, k) = [i \in 1 .. k |-> x[i]]
<1> DEFINE T == {x[i] : i \in 1 .. n}
           z == SubSeq(x, 1, k)
<1>1. \A i \in 1 .. k : i \in 1 .. n /\ x[i] \in T
  OBVIOUS
<1>2. Len(z) = IF 1 <= k THEN k - 1 + 1 ELSE 0
  <2> HIDE DEF T
  <2>1. QED
    BY <1>1, SubSeqProperties
<1>3. z \in Seq(T) /\ \A i \in 1 .. k : z[i] = x[i]
  <2> HIDE DEF T
  <2>1. QED
    BY <1>1, CutTyped
<1>4. Len(z) = k
  BY <1>2
<1>5. z = [i \in 1 .. Len(z) |-> z[i]]
  BY <1>3
<1>6. QED
  BY <1>3, <1>4, <1>5

-----------------------------------------------------------------------------
LEMMA RunLeaves ==
  ASSUME NEW c, NEW b, Legal(c, b), c.fn \in {"memcpy", "memset"}
  PROVE  /\ Start(c, b) = c.s1
         /\ c.fn = "memcpy" =>
              Written(b, c.s1, Run(b, c.s2, c.n)) = After(c, b, Total(c, b))
         /\ c.fn = "memset" =>
              Written(b, c.s1, [i \in 1 .. c.n |-> c.c % Base]) = After(c, b, Total(c, b))
<1>1. Start(c, b) = c.s1 /\ Total(c, b) = c.n
  BY DEF Start, Total, AtTheEnd
<1>2. c.n \in Nat /\ c.s2 \in Nat
  BY DEF Legal
<1>3. ASSUME c.fn = "memcpy"
      PROVE  Written(b, c.s1, Run(b, c.s2, c.n)) = After(c, b, Total(c, b))
  <2> DEFINE r == Run(b, c.s2, c.n)
  <2>1. Len(r) = c.n /\ \A i \in 1 .. c.n : r[i] = b[c.s2 + i - 1]
    BY <1>2 DEF Run
  <2>2. \A i \in 1 .. c.n : c.s2 + i - 1 = c.s2 + (i - 1)
    BY <1>2
  <2>3. \A i \in 1 .. c.n : Byte(c, b, i - 1) = b[c.s2 + (i - 1)]
    BY <1>3 DEF Byte
  <2> HIDE DEF r
  <2>4. \A i \in 1 .. Total(c, b) : r[i] = Byte(c, b, i - 1)
    BY <1>1, <2>1, <2>2, <2>3
  <2>5. Written(b, Start(c, b), r) = After(c, b, Total(c, b))
    BY <1>1, <2>1, <2>4, WrittenIs
  <2>6. QED
    BY <1>1, <2>5 DEF r
<1>4. ASSUME c.fn = "memset"
      PROVE  Written(b, c.s1, [i \in 1 .. c.n |-> c.c % Base]) = After(c, b, Total(c, b))
  <2> DEFINE r == [i \in 1 .. c.n |-> c.c % Base]
  <2>1. Len(r) = c.n /\ \A i \in 1 .. c.n : r[i] = c.c % Base
    BY <1>2
  <2>2. \A i \in 1 .. c.n : Byte(c, b, i - 1) = c.c % Base
    BY <1>4 DEF Byte
  <2> HIDE DEF r
  <2>3. \A i \in 1 .. Total(c, b) : r[i] = Byte(c, b, i - 1)
    BY <1>1, <2>1, <2>2
  <2>4. Written(b, Start(c, b), r) = After(c, b, Total(c, b))
    BY <1>1, <2>1, <2>3, WrittenIs
  <2>5. QED
    BY <1>1, <2>4 DEF r
<1>5. QED
  BY <1>1, <1>3, <1>4

LEMMA EndIs ==
  ASSUME NEW c, NEW b, Legal(c, b), c.fn \in OnStrings
  PROVE  Start(c, b) = IF c.fn \in AtTheEnd THEN End(b, c.s1) ELSE c.s1
<1>1. c.fn \in AtTheEnd => Len(Str(b, c.s1)) = strlen(b)[c.s1]
  BY StringIs DEF Legal
<1>2. QED
  BY <1>1 DEF Start, End

(* The characters of the string it copies, and the bytes they end in.      *)
LEMMA StringBytes ==
  ASSUME NEW c, NEW b, Legal(c, b), c.fn \in OnStrings
  PROVE  LET str == Str(b, c.s2)
             l   == strlen(b)[c.s2]
         IN  /\ l \in Nat /\ Len(str) = l /\ str = [i \in 1 .. l |-> str[i]]
             /\ \A i \in 1 .. l : str[i] = b[c.s2 + (i - 1)]
<1> DEFINE str == Str(b, c.s2)
           l == strlen(b)[c.s2]
<1>1. c.s2 \in StringsIn(b)
  BY DEF Legal
<1>2. l \in Nat /\ Len(str) = l /\ str = [i \in 1 .. l |-> b[c.s2 + i - 1]] /\ c.s2 \in Nat
  <2>1. l \in Nat /\ c.s2 \in Nat
    BY <1>1, StringIs
  <2>2. Len(str) = l
    BY <1>1, StringIs, Zenon
  <2>3. str = [i \in 1 .. l |-> b[c.s2 + i - 1]]
    BY <1>1, StringIs
  <2>4. QED
    BY <2>1, <2>2, <2>3
<1> HIDE DEF str, l
<1>3. ASSUME NEW i \in 1 .. l PROVE str[i] = b[c.s2 + (i - 1)]
  <2>1. c.s2 + i - 1 = c.s2 + (i - 1)
    BY <1>2
  <2>2. QED
    BY <1>2, <2>1
<1>4. str = [i \in 1 .. l |-> str[i]]
  BY <1>2
<1>5. QED
  BY <1>2, <1>3, <1>4 DEF str, l

LEMMA CopyLeaves ==
  ASSUME NEW c, NEW b, Legal(c, b), c.fn \in {"strcpy", "strcat"}
  PROVE  Written(b, Start(c, b), Str(b, c.s2) \o <<0>>) = After(c, b, Total(c, b))
<1> DEFINE str == Str(b, c.s2)
           l == strlen(b)[c.s2]
           r == str \o <<0>>
<1>1. /\ l \in Nat /\ Len(str) = l /\ str = [i \in 1 .. l |-> str[i]]
      /\ \A i \in 1 .. l : str[i] = b[c.s2 + (i - 1)]
  BY StringBytes DEF OnStrings
<1>2. Total(c, b) = l + 1 /\ Taken(c, b) = l
  BY DEF Total, Taken
<1>3. \A i \in 1 .. l + 1 : Byte(c, b, i - 1) = IF i - 1 < l THEN b[c.s2 + (i - 1)] ELSE 0
  BY <1>2 DEF Byte
<1> HIDE DEF str, l
<1>4. Len(r) = l + 1 /\ \A i \in 1 .. l + 1 : r[i] = IF i <= l THEN str[i] ELSE 0
  <2>1. <<0>> = [i \in 1 .. 1 |-> 0]
    OBVIOUS
  <2>2. DOMAIN str = 1 .. l
    BY <1>1
  <2>3. QED
    BY <1>1, <2>1, <2>2, Joined
<1> HIDE DEF r
<1>5. ASSUME NEW i \in 1 .. l + 1 PROVE r[i] = Byte(c, b, i - 1)
  <2>1. (i <= l <=> i - 1 < l) /\ (i <= l => i \in 1 .. l)
    BY <1>1
  <2>2. QED
    BY <1>1, <1>3, <1>4, <2>1
<1>6. Written(b, Start(c, b), r) = After(c, b, Total(c, b))
  BY <1>2, <1>4, <1>5, WrittenIs
<1>7. QED
  BY <1>6 DEF r, str

LEMMA PaddedLeaves ==
  ASSUME NEW c, NEW b, Legal(c, b), c.fn = "strncpy"
  PROVE  Written(b, c.s1, Left(Str(b, c.s2) \o Zeros(c.n), c.n)) = After(c, b, Total(c, b))
<1> DEFINE str == Str(b, c.s2)
           l == strlen(b)[c.s2]
           n == c.n
           x == str \o Zeros(n)
           r == Left(x, n)
<1>1. /\ l \in Nat /\ Len(str) = l /\ str = [i \in 1 .. l |-> str[i]]
      /\ \A i \in 1 .. l : str[i] = b[c.s2 + (i - 1)]
  BY StringBytes DEF OnStrings
<1>2. Total(c, b) = n /\ Taken(c, b) = l /\ Start(c, b) = c.s1 /\ n \in Nat
  BY DEF Total, Taken, Start, AtTheEnd, Legal
<1>3. \A i \in 1 .. n : Byte(c, b, i - 1) = IF i - 1 < l THEN b[c.s2 + (i - 1)] ELSE 0
  BY <1>2 DEF Byte
<1>4. Zeros(n) = [i \in 1 .. n |-> 0]
  BY DEF Zeros
<1> HIDE DEF str, l, n
<1>5. Len(x) = l + n /\ \A i \in 1 .. l + n : x[i] = IF i <= l THEN str[i] ELSE 0
  <2>1. DOMAIN str = 1 .. l
    BY <1>1
  <2>2. QED
    BY <1>1, <1>2, <1>4, <2>1, Joined
<1>6. x = [i \in 1 .. l + n |-> x[i]]
  <2> DEFINE T == {str[i] : i \in 1 .. l} \cup {0}
             zs == Zeros(n)
  <2>1. str \in Seq(T)
    BY <1>1
  <2>2. zs \in Seq(T)
    BY <1>2, <1>4
  <2> HIDE DEF T, zs
  <2>3. str \o zs \in Seq(T)
    BY <2>1, <2>2, ConcatProperties
  <2>4. x \in Seq(T)
    BY <2>3 DEF zs
  <2> HIDE DEF x
  <2>5. QED
    BY <1>5, <2>4
<1> HIDE DEF x
<1>7. r = SubSeq(x, 1, n)
  <2>1. (IF n < Len(x) THEN n ELSE Len(x)) = n
    BY <1>1, <1>2, <1>5
  <2>2. QED
    BY <2>1 DEF Left
<1>8. l + n \in Nat /\ n <= l + n
  BY <1>1, <1>2
<1>9. Len(r) = n /\ \A i \in 1 .. n : r[i] = x[i]
  BY <1>2, <1>6, <1>7, <1>8, Cut
<1> HIDE DEF r
<1>10. ASSUME NEW i \in 1 .. n PROVE r[i] = Byte(c, b, i - 1)
  <2>1. (i <= l <=> i - 1 < l) /\ (i <= l => i \in 1 .. l) /\ i \in 1 .. l + n
    BY <1>1, <1>2
  <2>2. QED
    BY <1>1, <1>3, <1>5, <1>9, <2>1
<1>11. Written(b, Start(c, b), r) = After(c, b, Total(c, b))
  BY <1>2, <1>9, <1>10, WrittenIs
<1>12. QED
  BY <1>2, <1>11 DEF r, x, str, n

LEMMA CountedLeaves ==
  ASSUME NEW c, NEW b, Legal(c, b), c.fn = "strncat"
  PROVE  Written(b, Start(c, b), Left(Str(b, c.s2), c.n) \o <<0>>) = After(c, b, Total(c, b))
<1> DEFINE str == Str(b, c.s2)
           l == strlen(b)[c.s2]
           n == c.n
           t == Taken(c, b)
           x == Left(str, n)
           r == x \o <<0>>
<1>1. /\ l \in Nat /\ Len(str) = l /\ str = [i \in 1 .. l |-> str[i]]
      /\ \A i \in 1 .. l : str[i] = b[c.s2 + (i - 1)]
  BY StringBytes DEF OnStrings
<1>2. Total(c, b) = t + 1 /\ t = (IF n < l THEN n ELSE l) /\ n \in Nat
  BY DEF Total, Taken, Legal
<1>3. \A i \in 1 .. t + 1 : Byte(c, b, i - 1) = IF i - 1 < t THEN b[c.s2 + (i - 1)] ELSE 0
  BY DEF Byte
<1> HIDE DEF str, l, n, t
<1>4. x = SubSeq(str, 1, t)
  BY <1>1, <1>2 DEF Left
<1>5. t \in Nat /\ t <= l
  BY <1>1, <1>2
<1>6. Len(x) = t /\ x = [i \in 1 .. t |-> str[i]]
  <2>1. /\ Len(SubSeq(str, 1, t)) = t
        /\ SubSeq(str, 1, t) = [i \in 1 .. t |-> str[i]]
    BY <1>1, <1>5, Cut
  <2>2. QED
    BY <1>4, <2>1, Zenon
<1> HIDE DEF x
<1>7. Len(r) = t + 1 /\ \A i \in 1 .. t + 1 : r[i] = IF i <= t THEN x[i] ELSE 0
  <2>1. <<0>> = [i \in 1 .. 1 |-> 0]
    OBVIOUS
  <2>2. DOMAIN x = 1 .. t /\ x = [i \in 1 .. t |-> x[i]]
    BY <1>6
  <2>3. QED
    BY <1>5, <2>1, <2>2, Joined
<1> HIDE DEF r
<1>8. ASSUME NEW i \in 1 .. t + 1 PROVE r[i] = Byte(c, b, i - 1)
  <2>1. (i <= t <=> i - 1 < t) /\ (i <= t => i \in 1 .. t /\ i \in 1 .. l)
    BY <1>1, <1>5
  <2>2. QED
    BY <1>1, <1>3, <1>6, <1>7, <2>1
<1>9. Written(b, Start(c, b), r) = After(c, b, Total(c, b))
  BY <1>2, <1>7, <1>8, WrittenIs
<1>10. QED
  BY <1>9 DEF r, x, str, n

LEMMA ExpectedIs ==
  ASSUME Legal(call, before)
  PROVE  Expected = After(call, before, Total(call, before))
<1>1. call.fn \in Others
  BY DEF Legal
<1>2. CASE call.fn = "memcpy"
  BY <1>2, RunLeaves DEF Expected
<1>3. CASE call.fn = "memset"
  BY <1>3, RunLeaves DEF Expected
<1>4. CASE call.fn = "strcpy"
  BY <1>4, CopyLeaves, EndIs DEF Expected, OnStrings, AtTheEnd
<1>5. CASE call.fn = "strcat"
  BY <1>5, CopyLeaves, EndIs DEF Expected, OnStrings, AtTheEnd
<1>6. CASE call.fn = "strncpy"
  BY <1>6, PaddedLeaves DEF Expected
<1>7. CASE call.fn = "strncat"
  BY <1>7, CountedLeaves, EndIs DEF Expected, OnStrings, AtTheEnd
<1>8. QED
  BY <1>1, <1>2, <1>3, <1>4, <1>5, <1>6, <1>7 DEF Others

-----------------------------------------------------------------------------
(* Where such a call is: k bytes are written, and its pointers, its count  *)
(* and its loop say so.                                                    *)
LoopsOf(fn) ==
  CASE fn = "memcpy"  -> {"forward"}
    [] fn = "memset"  -> {"fill"}
    [] fn = "strcpy"  -> {"string", "done"}
    [] fn = "strcat"  -> {"string", "done"}
    [] fn = "strncpy" -> {"counted", "pad"}
    [] fn = "strncat" -> {"counted", "done"}

AtByte(c, b, k) ==
  /\ k \in Nat /\ k <= Total(c, b)
  /\ mem = After(c, b, k)
  /\ loop \in LoopsOf(c.fn)
  /\ loop # "done" => to = Start(c, b) + k
  /\ loop \in {"forward", "string", "counted"} => from = c.s2 + k
  /\ loop \in {"forward", "fill", "counted", "pad"} => left = c.n - k /\ k <= c.n
  /\ loop \in {"string", "counted"} => k <= strlen(b)[c.s2]
  /\ loop = "pad" => strlen(b)[c.s2] <= k \/ k = c.n
  /\ loop = "done" => k = Total(c, b)

Writing == call.fn \in Others => Legal(call, before) /\ \E k : AtByte(call, before, k)

LEMMA NothingYet ==
  ASSUME NEW c, NEW b, Legal(c, b), b = [a \in Addr |-> b[a]]
  PROVE  After(c, b, 0) = b
<1> DEFINE s == Start(c, b)
<1>1. s \in Nat
  BY LegalTypes
<1> HIDE DEF s
<1>2. \A a \in Addr : a \notin s .. s + 0 - 1
  BY <1>1, MemoryAssumption DEF Addr
<1>3. After(c, b, 0) = [a \in Addr |-> b[a]]
  BY <1>2 DEF After, s
<1>4. QED
  BY <1>3, Zenon

LEMMA Begun ==
  ASSUME Shape, call = Idle, UNCHANGED <<mem, before>>, NEW c, call' = c, Legal(c, mem),
         to' = Start(c, mem), from' = c.s2, left' = c.n, loop' \in LoopsOf(c.fn),
         loop' \notin {"done", "pad"}
  PROVE  Writing'
<1>1. mem = before /\ mem = [a \in Addr |-> mem[a]]
  BY DEF Shape, Idle
<1> DEFINE b == mem
<1>2. mem' = b /\ before' = b /\ call' = c
  BY <1>1
<1>3. After(c, b, 0) = b
  BY <1>1, NothingYet
<1>4. /\ Start(c, b) \in Nat /\ Total(c, b) \in Nat /\ c.s2 \in Nat /\ c.n \in Nat
      /\ loop' \in {"string", "counted"} => strlen(b)[c.s2] \in Nat
  <2>1. loop' \in {"string", "counted"} => c.fn \in OnStrings
    BY DEF LoopsOf, Legal, Others, OnStrings
  <2>2. QED
    BY <2>1, LegalTypes DEF Legal
<1>5. Start(c, b) + 0 = Start(c, b) /\ c.s2 + 0 = c.s2 /\ c.n - 0 = c.n /\ 0 <= c.n
      /\ 0 <= Total(c, b) /\ (loop' \in {"string", "counted"} => 0 <= strlen(b)[c.s2])
  BY <1>4
<1>6. PICK d : d = mem
  OBVIOUS
<1>7. AtByte(c, d, 0)'
  BY <1>2, <1>3, <1>5, <1>6 DEF AtByte
<1>8. QED
  BY <1>2, <1>6, <1>7 DEF Writing

(* A byte stored where the next one belongs.                               *)
LEMMA Stored ==
  ASSUME NEW c, NEW b, call = c, before = b, Legal(c, b), NEW k, AtByte(c, b, k),
         k < Total(c, b), NEW x, Store(Start(c, b) + k, x), x = Byte(c, b, k)
  PROVE  mem' = After(c, b, k + 1) /\ call' = c /\ before' = b
BY OneMore DEF AtByte, Store

(* What it finds to read is what was there when it was called.             *)
LEMMA Found ==
  ASSUME NEW c, NEW b, Legal(c, b), NEW k, AtByte(c, b, k),
         \/ loop = "forward" /\ k < c.n
         \/ loop \in {"string", "counted"}
  PROVE  mem[from] = b[c.s2 + k]
<1>1. loop = "forward" => c.fn = "memcpy"
  BY DEF AtByte, LoopsOf, Legal, Others
<1>2. loop \in {"string", "counted"} => c.fn \in OnStrings
  BY DEF AtByte, LoopsOf, Legal, Others, OnStrings
<1>3. k < Read(c, b) /\ c.fn # "memset"
  BY <1>1, <1>2, LegalTypes DEF AtByte, Read, OnStrings
<1>4. from = c.s2 + k /\ mem = After(c, b, k) /\ k \in Nat /\ k <= Total(c, b)
  BY DEF AtByte
<1>5. QED
  BY <1>3, <1>4, ReadsBefore

-----------------------------------------------------------------------------
(* The calls: each begins within what C allows.                            *)
LEMMA BeginWriting == Shape /\ Begin => Writing'
<1> SUFFICES ASSUME Shape, Begin PROVE Writing'
  OBVIOUS
<1>1. call = Idle
  BY DEF Begin
<1>2. ASSUME NEW s1 \in Pointer, NEW s2 \in Pointer, NEW n \in Pointer,
             Fits(s1, n), Fits(s2, n), memcpy(s1, s2, n)
      PROVE  Writing'
  <2> DEFINE c == [fn |-> "memcpy", s1 |-> s1, s2 |-> s2, n |-> n, c |-> 0]
  <2>1. /\ call' = c /\ to' = s1 /\ from' = s2 /\ left' = n /\ loop' = "forward"
        /\ UNCHANGED <<mem, before>> /\ Disjoint(s1, n, s2, n)
    BY <1>2 DEF memcpy, Call
  <2>2. /\ c.fn = "memcpy" /\ c.s1 = s1 /\ c.s2 = s2 /\ c.n = n
    OBVIOUS
  <2> HIDE DEF c
  <2>3. Start(c, mem) = s1 /\ Total(c, mem) = n /\ Read(c, mem) = n
    BY <2>2 DEF Start, Total, Read, AtTheEnd
  <2>4. s1 \in Nat /\ s2 \in Nat /\ n \in Nat
    BY MemoryAssumption DEF Pointer
  <2>5. Legal(c, mem)
    BY <1>2, <2>1, <2>2, <2>3, <2>4 DEF Legal, Others, OnStrings, AtTheEnd, Fits
  <2>6. QED
    BY <1>1, <2>1, <2>2, <2>3, <2>5, Begun DEF LoopsOf
<1>3. ASSUME NEW s1 \in Pointer, NEW n \in Pointer, NEW x, Fits(s1, n), memset(s1, x, n)
      PROVE  Writing'
  <2> DEFINE c == [fn |-> "memset", s1 |-> s1, s2 |-> 0, n |-> n, c |-> x]
  <2>1. /\ call' = c /\ to' = s1 /\ from' = 0 /\ left' = n /\ loop' = "fill"
        /\ UNCHANGED <<mem, before>>
    BY <1>3 DEF memset, Call
  <2>2. /\ c.fn = "memset" /\ c.s1 = s1 /\ c.s2 = 0 /\ c.n = n
    OBVIOUS
  <2> HIDE DEF c
  <2>3. Start(c, mem) = s1 /\ Total(c, mem) = n
    BY <2>2 DEF Start, Total, AtTheEnd
  <2>4. s1 \in Nat /\ n \in Nat
    BY MemoryAssumption DEF Pointer
  <2>5. Legal(c, mem)
    BY <1>3, <2>2, <2>3, <2>4 DEF Legal, Others, OnStrings, AtTheEnd, Fits
  <2>6. QED
    BY <1>1, <2>1, <2>2, <2>3, <2>5, Begun DEF LoopsOf
<1>4. ASSUME NEW s1 \in Addr, NEW s2 \in StringsIn(mem), strcpy(s1, s2)
      PROVE  Writing'
  <2> DEFINE c == [fn |-> "strcpy", s1 |-> s1, s2 |-> s2, n |-> 0, c |-> 0]
             l == strlen(mem)[s2]
  <2>1. /\ call' = c /\ to' = s1 /\ from' = s2 /\ left' = 0 /\ loop' = "string"
        /\ UNCHANGED <<mem, before>> /\ Fits(s1, l + 1) /\ Disjoint(s1, l + 1, s2, l + 1)
    BY <1>4 DEF strcpy, Call
  <2>2. /\ c.fn = "strcpy" /\ c.s1 = s1 /\ c.s2 = s2 /\ c.n = 0
    OBVIOUS
  <2> HIDE DEF c
  <2>3. Start(c, mem) = s1 /\ Total(c, mem) = l + 1 /\ Read(c, mem) = l + 1
    BY <2>2 DEF Start, Total, Taken, Read, AtTheEnd
  <2>4. s1 \in Nat /\ s2 \in Nat
    BY NextPlace, MemoryAssumption DEF Addr
  <2> HIDE DEF l
  <2>5. Legal(c, mem)
    BY <2>1, <2>2, <2>3, <2>4 DEF Legal, Others, OnStrings, AtTheEnd, Fits
  <2>6. QED
    BY <1>1, <2>1, <2>2, <2>3, <2>5, Begun DEF LoopsOf
<1>5. ASSUME NEW s1 \in StringsIn(mem), NEW s2 \in StringsIn(mem), strcat(s1, s2)
      PROVE  Writing'
  <2> DEFINE c == [fn |-> "strcat", s1 |-> s1, s2 |-> s2, n |-> 0, c |-> 0]
             l == strlen(mem)[s2]
             k == strlen(mem)[s1]
  <2>1. /\ call' = c /\ to' = s1 + k /\ from' = s2 /\ left' = 0 /\ loop' = "string"
        /\ UNCHANGED <<mem, before>>
        /\ Fits(s1, k + (l + 1)) /\ Disjoint(s1, k + (l + 1), s2, l + 1)
    BY <1>5 DEF strcat, Call
  <2>2. /\ c.fn = "strcat" /\ c.s1 = s1 /\ c.s2 = s2 /\ c.n = 0
    OBVIOUS
  <2> HIDE DEF c
  <2>3. Start(c, mem) = s1 + k /\ Total(c, mem) = l + 1 /\ Read(c, mem) = l + 1
    BY <2>2 DEF Start, Total, Taken, Read, AtTheEnd
  <2>4. s1 \in Nat /\ s2 \in Nat /\ k \in Nat /\ l \in Nat
    BY StringIs
  <2> HIDE DEF l, k
  <2>5. s1 + k + (l + 1) <= Size /\ Disjoint(s1 + k, l + 1, s2, l + 1)
    BY <2>1, <2>4, MemoryAssumption DEF Fits, Disjoint
  <2>6. Legal(c, mem)
    BY <2>2, <2>3, <2>4, <2>5 DEF Legal, Others, OnStrings, AtTheEnd
  <2>7. QED
    BY <1>1, <2>1, <2>2, <2>3, <2>6, Begun DEF LoopsOf
<1>6. ASSUME NEW s1 \in Addr, NEW s2 \in StringsIn(mem), NEW n \in Pointer, Fits(s1, n),
             strncpy(s1, s2, n)
      PROVE  Writing'
  <2> DEFINE c == [fn |-> "strncpy", s1 |-> s1, s2 |-> s2, n |-> n, c |-> 0]
             l == strlen(mem)[s2]
  <2>1. /\ call' = c /\ to' = s1 /\ from' = s2 /\ left' = n /\ loop' = "counted"
        /\ UNCHANGED <<mem, before>> /\ Disjoint(s1, n, s2, l + 1)
    BY <1>6 DEF strncpy, Call
  <2>2. /\ c.fn = "strncpy" /\ c.s1 = s1 /\ c.s2 = s2 /\ c.n = n
    OBVIOUS
  <2> HIDE DEF c
  <2>3. Start(c, mem) = s1 /\ Total(c, mem) = n /\ Read(c, mem) = l + 1
    BY <2>2 DEF Start, Total, Read, AtTheEnd
  <2>4. s1 \in Nat /\ s2 \in Nat /\ n \in Nat
    <3>1. s2 \in Nat
      BY StringIs
    <3>2. s1 \in Nat /\ n \in Nat
      BY <1>6, MemoryAssumption DEF Addr, Pointer
    <3>3. QED
      BY <3>1, <3>2
  <2> HIDE DEF l
  <2>5. Legal(c, mem)
    BY <1>6, <2>1, <2>2, <2>3, <2>4 DEF Legal, Others, OnStrings, AtTheEnd, Fits
  <2>6. QED
    BY <1>1, <2>1, <2>2, <2>3, <2>5, Begun DEF LoopsOf
<1>7. ASSUME NEW s1 \in StringsIn(mem), NEW s2 \in StringsIn(mem), NEW n \in Pointer,
             strncat(s1, s2, n)
      PROVE  Writing'
  <2> DEFINE c == [fn |-> "strncat", s1 |-> s1, s2 |-> s2, n |-> n, c |-> 0]
             l == strlen(mem)[s2]
             k == strlen(mem)[s1]
             r == IF n < l THEN n ELSE l
  <2>1. /\ call' = c /\ to' = s1 + k /\ from' = s2 /\ left' = n /\ loop' = "counted"
        /\ UNCHANGED <<mem, before>>
        /\ Fits(s1, k + r + 1) /\ Disjoint(s1, k + r + 1, s2, l + 1)
    BY <1>7 DEF strncat, Call
  <2>2. /\ c.fn = "strncat" /\ c.s1 = s1 /\ c.s2 = s2 /\ c.n = n
    OBVIOUS
  <2> HIDE DEF c
  <2>3. Start(c, mem) = s1 + k /\ Total(c, mem) = r + 1 /\ Read(c, mem) = l + 1
    BY <2>2 DEF Start, Total, Taken, Read, AtTheEnd
  <2>4. s1 \in Nat /\ s2 \in Nat /\ k \in Nat /\ l \in Nat /\ n \in Nat
    BY StringIs, MemoryAssumption DEF Pointer
  <2>5. r \in Nat
    BY <2>4
  <2> HIDE DEF l, k, r
  <2>6. s1 + k + (r + 1) <= Size /\ Disjoint(s1 + k, r + 1, s2, l + 1)
    BY <2>1, <2>4, <2>5, MemoryAssumption DEF Fits, Disjoint
  <2>7. Legal(c, mem)
    BY <2>2, <2>3, <2>4, <2>6 DEF Legal, Others, OnStrings, AtTheEnd
  <2>8. QED
    BY <1>1, <2>1, <2>2, <2>3, <2>7, Begun DEF LoopsOf
<1>8. ASSUME NEW s1, NEW s2, NEW n, memmove(s1, s2, n) PROVE Writing'
  BY <1>8 DEF memmove, Call, Writing, Others
<1>9. QED
  BY <1>2, <1>3, <1>4, <1>5, <1>6, <1>7, <1>8 DEF Begin, IsString

-----------------------------------------------------------------------------
(* The loops.                                                              *)
LEMMA RoundWriting ==
  ASSUME Writing, call.fn \in Others,
         CopyForward \/ Fill \/ CopyString \/ CopyCounted \/ EndCounted
  PROVE  Writing'
<1>1. PICK c : c = call
  OBVIOUS
<1>2. PICK b : b = before
  OBVIOUS
<1>3. PICK k : AtByte(c, b, k)
  BY <1>1, <1>2 DEF Writing
<1>4. Legal(c, b) /\ c.fn \in Others
  BY <1>1, <1>2 DEF Writing
<1>5. /\ k \in Nat /\ Start(c, b) \in Nat /\ Total(c, b) \in Nat /\ c.n \in Nat /\ c.s2 \in Nat
      /\ k <= Total(c, b) /\ mem = After(c, b, k)
      /\ c.fn \in OnStrings => strlen(b)[c.s2] \in Nat
  BY <1>3, <1>4, LegalTypes DEF AtByte, Legal
<1> DEFINE l == strlen(b)[c.s2]
           t == Total(c, b)
           s == Start(c, b)
<1>6. c.fn \in OnStrings => /\ b[c.s2 + l] = 0
                            /\ \A i \in 0 .. l - 1 : b[c.s2 + i] # 0
  BY <1>4, StringIs DEF Legal
<1>7. ASSUME call' = c, before' = b, NEW j, AtByte(c, b, j)'
      PROVE  Writing'
  BY <1>4, <1>7 DEF Writing
<1>8. CASE CopyForward
  <2>1. loop = "forward" /\ left > 0 /\ c.fn = "memcpy" /\ loop' = loop /\ from = c.s2 + k
        /\ to = s + k /\ left = c.n - k
    BY <1>3, <1>4, <1>8 DEF CopyForward, AtByte, LoopsOf, Others
  <2>2. k < c.n /\ t = c.n
    BY <1>5, <2>1 DEF Total
  <2>3. mem[from] = b[c.s2 + k] /\ Byte(c, b, k) = b[c.s2 + k]
    BY <1>3, <1>4, <2>1, <2>2, Found DEF Byte
  <2>4. mem' = After(c, b, k + 1) /\ call' = c /\ before' = b
    BY <1>1, <1>2, <1>3, <1>4, <1>8, <2>1, <2>2, <2>3, Stored DEF CopyForward
  <2>5. to' = s + (k + 1) /\ from' = c.s2 + (k + 1) /\ left' = c.n - (k + 1)
        /\ k + 1 <= t /\ k + 1 \in Nat
    BY <1>5, <1>8, <2>1, <2>2 DEF CopyForward
  <2>6. AtByte(c, b, k + 1)'
    BY <1>3, <2>1, <2>2, <2>4, <2>5 DEF AtByte
  <2>7. QED
    BY <1>7, <2>4, <2>6
<1>9. CASE Fill
  <2>1. loop \in {"fill", "pad"} /\ left > 0 /\ loop' = loop /\ to = s + k /\ left = c.n - k
        /\ k <= c.n /\ c.fn \in {"memset", "strncpy"} /\ loop \in LoopsOf(c.fn)
    BY <1>3, <1>4, <1>9 DEF Fill, AtByte, LoopsOf, Others
  <2>2. k < c.n /\ t = c.n
    BY <1>5, <2>1 DEF Total
  <2>3. (IF loop = "fill" THEN call.c % Base ELSE 0) = Byte(c, b, k)
    <3>1. CASE loop = "fill"
      BY <1>1, <2>1, <3>1 DEF Byte, LoopsOf
    <3>2. CASE loop = "pad"
      <4>1. c.fn = "strncpy" /\ l <= k
        BY <1>3, <1>5, <2>1, <2>2, <3>2 DEF AtByte, LoopsOf
      <4>2. ~ (k < Taken(c, b))
        BY <1>5, <4>1 DEF Taken, OnStrings
      <4>3. QED
        BY <3>2, <4>1, <4>2 DEF Byte
    <3>3. QED
      BY <2>1, <3>1, <3>2
  <2>4. mem' = After(c, b, k + 1) /\ call' = c /\ before' = b
    BY <1>1, <1>2, <1>3, <1>4, <1>9, <2>1, <2>2, <2>3, Stored DEF Fill
  <2>5. to' = s + (k + 1) /\ left' = c.n - (k + 1) /\ k + 1 <= t /\ k + 1 \in Nat
    BY <1>5, <1>9, <2>1, <2>2 DEF Fill
  <2>6. loop = "pad" => l <= k + 1 \/ k + 1 = c.n
    BY <1>3, <1>5, <2>1, <2>2 DEF AtByte, LoopsOf, OnStrings
  <2>7. AtByte(c, b, k + 1)'
    BY <1>3, <2>1, <2>2, <2>4, <2>5, <2>6 DEF AtByte
  <2>8. QED
    BY <1>7, <2>4, <2>7
<1>10. CASE CopyString
  <2>1. loop = "string" /\ c.fn \in {"strcpy", "strcat"} /\ from = c.s2 + k /\ to = s + k
        /\ k <= l
    BY <1>3, <1>4, <1>10 DEF CopyString, AtByte, LoopsOf, Others
  <2>2. t = l + 1 /\ Taken(c, b) = l /\ l \in Nat
    BY <1>5, <2>1 DEF Total, Taken, OnStrings
  <2>3. mem[from] = b[c.s2 + k]
    BY <1>3, <1>4, <2>1, Found
  <2>4. (mem[from] = 0 <=> k = l) /\ mem[from] = Byte(c, b, k)
    <3>1. CASE k = l
      BY <1>5, <1>6, <2>1, <2>2, <2>3, <3>1 DEF Byte, OnStrings
    <3>2. CASE k # l
      <4>1. k \in 0 .. l - 1 /\ k < l
        BY <1>5, <2>1, <2>2, <3>2
      <4>2. QED
        BY <1>6, <2>1, <2>2, <2>3, <3>2, <4>1 DEF Byte, OnStrings
    <3>3. QED
      BY <3>1, <3>2
  <2>5. k < t
    BY <1>5, <2>1, <2>2
  <2>6. mem' = After(c, b, k + 1) /\ call' = c /\ before' = b
    BY <1>1, <1>2, <1>3, <1>4, <1>10, <2>1, <2>4, <2>5, Stored DEF CopyString
  <2>7. to' = s + (k + 1) /\ from' = c.s2 + (k + 1) /\ k + 1 <= t /\ k + 1 \in Nat
        /\ loop' = (IF k = l THEN "done" ELSE "string")
        /\ (k # l => k + 1 <= l) /\ (k = l => k + 1 = t)
    BY <1>5, <1>10, <2>1, <2>2, <2>4, <2>5 DEF CopyString
  <2>8. loop' \in LoopsOf(c.fn)
    BY <2>1, <2>7 DEF LoopsOf
  <2>9. AtByte(c, b, k + 1)'
    BY <2>6, <2>7, <2>8 DEF AtByte
  <2>10. QED
    BY <1>7, <2>6, <2>9
<1>11. CASE CopyCounted
  <2>1. loop = "counted" /\ c.fn \in {"strncpy", "strncat"} /\ from = c.s2 + k /\ to = s + k
        /\ k <= l /\ left > 0 /\ mem[from] # 0 /\ left = c.n - k /\ loop' = loop
        /\ loop \in LoopsOf(c.fn)
    BY <1>3, <1>4, <1>11 DEF CopyCounted, AtByte, LoopsOf, Others
  <2>2. l \in Nat /\ k < c.n
    BY <1>5, <2>1 DEF OnStrings
  <2>3. mem[from] = b[c.s2 + k]
    BY <1>3, <1>4, <2>1, Found
  <2>4. k < l
    <3>1. k # l
      BY <1>6, <2>1, <2>3 DEF OnStrings
    <3>2. QED
      BY <1>5, <2>1, <2>2, <3>1
  <2>5. k < Taken(c, b) /\ k + 1 <= t /\ k < t /\ Taken(c, b) \in Nat
    BY <1>5, <2>1, <2>2, <2>4 DEF Taken, Total
  <2>6. mem[from] = Byte(c, b, k)
    BY <2>1, <2>3, <2>5 DEF Byte
  <2>7. mem' = After(c, b, k + 1) /\ call' = c /\ before' = b
    BY <1>1, <1>2, <1>3, <1>4, <1>11, <2>1, <2>5, <2>6, Stored DEF CopyCounted
  <2>8. to' = s + (k + 1) /\ from' = c.s2 + (k + 1) /\ left' = c.n - (k + 1) /\ k + 1 \in Nat
        /\ k + 1 <= l /\ k + 1 <= c.n
    BY <1>5, <1>11, <2>1, <2>2, <2>4 DEF CopyCounted
  <2>9. AtByte(c, b, k + 1)'
    BY <2>1, <2>5, <2>7, <2>8 DEF AtByte
  <2>10. QED
    BY <1>7, <2>7, <2>9
<1>12. CASE EndCounted
  <2>1. loop = "counted" /\ c.fn \in {"strncpy", "strncat"} /\ from = c.s2 + k /\ to = s + k
        /\ k <= l /\ k <= c.n /\ left = c.n - k /\ (left = 0 \/ mem[from] = 0)
        /\ UNCHANGED pointers
    BY <1>3, <1>4, <1>12 DEF EndCounted, AtByte, LoopsOf, Others
  <2>2. l \in Nat
    BY <1>5, <2>1 DEF OnStrings
  <2>3. mem[from] = b[c.s2 + k]
    BY <1>3, <1>4, <2>1, Found
  <2>4. k = c.n \/ k = l
    <3>1. CASE left = 0
      BY <1>5, <2>1, <3>1
    <3>2. CASE mem[from] = 0
      <4>1. k \notin 0 .. l - 1
        BY <1>6, <2>1, <2>3, <3>2 DEF OnStrings
      <4>2. QED
        BY <1>5, <2>1, <2>2, <4>1
    <3>3. QED
      BY <2>1, <3>1, <3>2
  <2>5. CASE c.fn = "strncat"
    <3>1. Taken(c, b) = k /\ t = k + 1
      BY <1>5, <2>1, <2>2, <2>4, <2>5 DEF Taken, Total
    <3>2. Store(to, 0) /\ loop' = "done"
      BY <1>1, <1>12, <2>5 DEF EndCounted
    <3>3. Byte(c, b, k) = 0 /\ k < t /\ t = k + 1 /\ k + 1 \in Nat
      BY <1>5, <2>5, <3>1 DEF Byte
    <3>4. mem' = After(c, b, k + 1) /\ call' = c /\ before' = b
      BY <1>1, <1>2, <1>3, <1>4, <2>1, <3>2, <3>3, Stored
    <3>5. AtByte(c, b, k + 1)'
      BY <1>5, <2>5, <3>2, <3>3, <3>4 DEF AtByte, LoopsOf
    <3>6. QED
      BY <1>7, <3>4, <3>5
  <2>6. CASE c.fn = "strncpy"
    <3>1. loop' = "pad" /\ UNCHANGED <<mem, before, call>>
      BY <1>1, <1>12, <2>6 DEF EndCounted
    <3>2. to' = s + k /\ left' = c.n - k
      BY <2>1 DEF pointers
    <3>3. l <= k \/ k = c.n
      BY <2>2, <2>4
    <3>4. AtByte(c, b, k)'
      BY <1>5, <2>1, <2>6, <3>1, <3>2, <3>3 DEF AtByte, LoopsOf
    <3>5. QED
      BY <1>1, <1>2, <1>7, <3>1, <3>4
  <2>7. QED
    BY <2>1, <2>5, <2>6
<1>13. QED
  BY <1>8, <1>9, <1>10, <1>11, <1>12

LEMMA WritingStep == Shape /\ Writing /\ [Next]_vars => Writing'
<1> SUFFICES ASSUME Shape, Writing, [Next]_vars PROVE Writing'
  OBVIOUS
<1>1. CASE Begin
  BY <1>1, BeginWriting
<1>2. CASE Return
  BY <1>2 DEF Return, Idle, Writing, Others
<1>3. CASE CopyForward \/ Fill \/ CopyString \/ CopyCounted \/ EndCounted
  <2>1. CASE call.fn \in Others
    BY <1>3, <2>1, RoundWriting
  <2>2. CASE call.fn \notin Others
    BY <1>3, <2>2 DEF Writing, CopyForward, Fill, CopyString, CopyCounted, EndCounted, Store
  <2>3. QED
    BY <2>1, <2>2
<1>4. CASE CopyBack
  <2>1. call.fn \notin Others
    BY <1>4 DEF CopyBack, Writing, AtByte, LoopsOf, Others
  <2>2. QED
    BY <1>4, <2>1 DEF Writing, CopyBack, Store
<1>5. CASE UNCHANGED vars
  BY <1>5 DEF vars, pointers, Writing, AtByte
<1>6. QED
  BY <1>1, <1>2, <1>3, <1>4, <1>5 DEF Next

-----------------------------------------------------------------------------
Known == call.fn \in Others \cup {"none", "memmove"}

LEMMA KnownStep == Known /\ [Next]_vars => Known'
<1> SUFFICES ASSUME Known, [Next]_vars PROVE Known'
  OBVIOUS
<1>1. CASE Begin
  BY <1>1 DEF Begin, memmove, memcpy, memset, strcpy, strcat, strncpy, strncat, Call,
              Known, Others
<1>2. CASE Return
  BY <1>2 DEF Return, Idle, Known
<1>3. CASE CopyBack \/ CopyForward \/ Fill \/ CopyString \/ CopyCounted \/ EndCounted
  BY <1>3 DEF CopyBack, CopyForward, Fill, CopyString, CopyCounted, EndCounted, Store, Known
<1>4. CASE UNCHANGED vars
  BY <1>4 DEF vars, Known
<1>5. QED
  BY <1>1, <1>2, <1>3, <1>4 DEF Next

(* A routine that has returned has written all its bytes.                  *)
LEMMA WritingDone == Writing /\ Known => OthersWrite
<1> SUFFICES ASSUME Writing, Known, Returned, call.fn \notin {"none", "memmove"}
             PROVE  mem = Expected
  BY DEF OthersWrite
<1>1. call.fn \in Others
  BY DEF Known
<1>2. Legal(call, before)
  BY <1>1 DEF Writing
<1>3. PICK k : AtByte(call, before, k)
  BY <1>1 DEF Writing
<1>4. k = Total(call, before)
  <2>1. CASE loop = "done"
    BY <1>3, <2>1 DEF AtByte
  <2>2. CASE loop # "done"
    <3>1. loop \in {"forward", "fill", "pad"} /\ left = 0
      BY <1>1, <1>3, <2>2 DEF Returned, AtByte, LoopsOf, Others
    <3>2. call.fn \in {"memcpy", "memset", "strncpy"}
      BY <1>1, <1>3, <3>1 DEF AtByte, LoopsOf, Others
    <3>3. k \in Nat /\ left = call.n - k /\ call.n \in Nat
      BY <1>2, <1>3, <3>1 DEF AtByte, Legal
    <3>4. k = call.n
      BY <3>1, <3>3
    <3>5. QED
      BY <3>2, <3>4 DEF Total
  <2>3. QED
    BY <2>1, <2>2
<1>5. QED
  BY <1>2, <1>3, <1>4, ExpectedIs DEF AtByte

(* Whatever the memory, the strings in it and the count, when memcpy,      *)
(* memset, strcpy, strcat, strncpy or strncat returns (string.c:27-34,     *)
(* 51-68, 87-93, 113-122, 134-142) it has written what C says and no other *)
(* byte.                                                                   *)
THEOREM OthersAlwaysWrite == Spec => []OthersWrite
<1>1. Init => Inv /\ Writing /\ Known
  BY InitInv DEF Init, Idle, Writing, Known, Others
<1>2. Inv /\ Writing /\ Known /\ [Next]_vars => Inv' /\ Writing' /\ Known'
  BY StepInv, WritingStep, KnownStep DEF Inv
<1>3. Writing /\ Known => OthersWrite
  BY WritingDone
<1>4. QED
  BY <1>1, <1>2, <1>3, PTL DEF Spec

-----------------------------------------------------------------------------
(* The routines that read a string: where their loops stop is the first    *)
(* place C speaks of, or its end.                                          *)
LEMMA UntilPlace ==
  ASSUME NEW D, NEW P, Closed(D, P), NEW s \in D, NEW u, u = Until(D, P)[s]
  PROVE  /\ s \in Nat /\ u \in Nat /\ u \in D /\ u \in P /\ s <= u
         /\ \A k \in Nat : s <= k /\ k < u => k \notin P
<1>1. PICK v : v = Until(D, P)[s]
  OBVIOUS
<1>2. Ending(D, P, s, v)
  BY <1>1, UntilEnds
<1>3. D \subseteq Nat
  BY EndingExists
<1>4. /\ s \in Nat /\ v \in Nat /\ v \in D /\ v \in P /\ s <= v
      /\ \A k \in Nat : s <= k /\ k < v => k \notin P
  BY <1>2, <1>3, EndingIs
<1>5. u = v
  BY <1>1
<1>6. QED
  BY <1>4, <1>5, Zenon

LEMMA InString ==
  ASSUME NEW m, NEW s \in StringsIn(m), NEW a \in s .. s + strlen(m)[s]
  PROVE  /\ a \in StringsIn(m) /\ (m[a] = 0 <=> a = s + strlen(m)[s])
         /\ a + strlen(m)[a] = s + strlen(m)[s]
<1> DEFINE l == strlen(m)[s]
<1>1. s \in Nat /\ l \in Nat /\ s + l < Size /\ m[s + l] = 0 /\ \A k \in 0 .. l - 1 : m[s + k] # 0
  BY StringIs
<1> HIDE DEF l
<1>2. a \in Nat /\ s <= a /\ a <= s + l
  BY <1>1 DEF l
<1>3. a # s + l => a - s \in 0 .. l - 1 /\ s + (a - s) = a
  BY <1>1, <1>2
<1>4. m[a] = 0 <=> a = s + l
  BY <1>1, <1>3
<1>5. a \in StringsIn(m)
  <2>1. a \in Addr /\ s + l \in a .. Size - 1
    BY <1>1, <1>2, MemoryAssumption DEF Addr
  <2>2. QED
    BY <1>1, <2>1 DEF StringsIn
<1>6. a + strlen(m)[a] = s + l
  <2> DEFINE k == strlen(m)[a]
  <2>1. k \in Nat /\ m[a + k] = 0 /\ \A j \in 0 .. k - 1 : m[a + j] # 0
    BY <1>5, StringIs
  <2> HIDE DEF k
  <2>2. ASSUME a + k < s + l PROVE FALSE
    <3>1. a + k - s \in 0 .. l - 1 /\ s + (a + k - s) = a + k
      BY <1>1, <1>2, <2>1, <2>2
    <3>2. QED
      BY <1>1, <2>1, <3>1
  <2>3. ASSUME s + l < a + k PROVE FALSE
    <3>1. s + l - a \in 0 .. k - 1 /\ a + (s + l - a) = s + l
      BY <1>1, <1>2, <2>1, <2>3
    <3>2. QED
      BY <1>1, <2>1, <3>1
  <2>4. QED
    BY <1>1, <1>2, <2>1, <2>2, <2>3 DEF k
<1>7. QED
  BY <1>4, <1>5, <1>6 DEF l

LEMMA StringUntil ==
  ASSUME NEW m, NEW s \in StringsIn(m), NEW P, \A a \in StringsIn(m) : m[a] = 0 => a \in P,
         NEW u, u = Until(StringsIn(m), P)[s]
  PROVE  /\ u \in s .. s + strlen(m)[s] /\ u \in P
         /\ \A k \in s .. u - 1 : k \notin P
<1>1. /\ s \in Nat /\ u \in Nat /\ u \in P /\ s <= u
      /\ \A k \in Nat : s <= k /\ k < u => k \notin P
  BY StringsClosed, UntilPlace
<1>2. PICK e : e = s + strlen(m)[s]
  OBVIOUS
<1>3. e \in Nat /\ s <= e
  BY <1>2, StringIs
<1>4. e \in s .. s + strlen(m)[s]
  BY <1>1, <1>2, <1>3
<1>5. e \in P
  BY <1>2, <1>4, InString
<1>6. u <= e
  BY <1>1, <1>3, <1>5
<1>7. QED
  BY <1>1, <1>2, <1>3, <1>6

LEMMA FirstStop ==
  ASSUME NEW s \in Nat, NEW e \in Nat, NEW T \in SUBSET (s .. e), NEW u \in T,
         \A k \in s .. u - 1 : k \notin T, NEW d
  PROVE  First(T, d) = u
<1>1. ASSUME NEW k \in T PROVE k \in Nat /\ u <= k
  <2>1. k \in s .. e /\ u \in s .. e /\ k \notin s .. u - 1
    OBVIOUS
  <2>2. QED
    BY <2>1
<1>2. \A p \in T : (\A q \in T : p <= q) => p = u
  BY <1>1
<1>3. (CHOOSE p \in T : \A q \in T : p <= q) = u
  BY <1>1, <1>2
<1>4. QED
  BY <1>3 DEF First

LEMMA FirstNone ==
  ASSUME NEW s \in Nat, NEW e \in Nat, NEW T \in SUBSET (s .. e),
         \A k \in s .. e - 1 : k \notin T, e \notin T, NEW d
  PROVE  First(T, d) = d
<1>1. T = {}
  OBVIOUS
<1>2. QED
  BY <1>1 DEF First

LEMMA StrchrFinds ==
  ASSUME NEW m, NEW s \in StringsIn(m), NEW c
  PROVE  strchr(m, s, c) = First({a \in s .. s + strlen(m)[s] : m[a] = c % Base}, NULL)
<1>1. PICK x : x = c % Base
  OBVIOUS
<1> DEFINE P == {a \in StringsIn(m) : m[a] = x \/ m[a] = 0}
           T == {a \in s .. s + strlen(m)[s] : m[a] = x}
<1>2. PICK u : u = Until(StringsIn(m), P)[s]
  OBVIOUS
<1>3. PICK e : e = s + strlen(m)[s]
  OBVIOUS
<1>4. s \in Nat /\ e \in Nat
  BY <1>3, StringIs
<1>5. u \in s .. e /\ u \in P /\ \A k \in s .. u - 1 : k \notin P
  BY <1>2, <1>3, StringUntil
<1>6. \A a \in s .. e : a \in StringsIn(m) /\ (m[a] = 0 <=> a = e)
  BY <1>3, InString
<1>7. \A k \in s .. u - 1 : k \notin T
  BY <1>3, <1>5, <1>6
<1>8. T \in SUBSET (s .. e)
  BY <1>3
<1>9. strchr(m, s, c) = IF m[u] = x THEN u ELSE NULL
  BY <1>1, <1>2 DEF strchr
<1>10. (u \in T <=> m[u] = x) /\ (u \notin T => u = e)
  BY <1>3, <1>5, <1>6
<1> HIDE DEF T, P
<1>11. strchr(m, s, c) = First(T, NULL)
  <2>1. CASE u \in T
    BY <1>4, <1>7, <1>8, <1>9, <1>10, <2>1, FirstStop
  <2>2. CASE u \notin T
    BY <1>4, <1>7, <1>8, <1>9, <1>10, <2>2, FirstNone
  <2>3. QED
    BY <2>1, <2>2
<1>12. QED
  BY <1>1, <1>11 DEF T

LEMMA AmongIs ==
  ASSUME NEW m, NEW t \in StringsIn(m)
  PROVE  Among(m, t) = Set(m, t) /\ 0 \notin Set(m, t)
<1> DEFINE l == strlen(m)[t]
<1>1. /\ t \in Nat /\ l \in Nat /\ \A k \in 0 .. l - 1 : m[t + k] # 0
      /\ Str(m, t) = [i \in 1 .. l |-> m[t + i - 1]]
  BY StringIs
<1> HIDE DEF l
<1>2. Set(m, t) = {m[t + i - 1] : i \in 1 .. l}
  BY <1>1 DEF Set
<1>3. ASSUME NEW i \in 1 .. l PROVE m[t + i - 1] \in Among(m, t) /\ m[t + i - 1] # 0
  <2>1. t + i - 1 \in t .. t + l - 1 /\ i - 1 \in 0 .. l - 1 /\ t + i - 1 = t + (i - 1)
    BY <1>1
  <2>2. QED
    BY <1>1, <2>1 DEF Among, l
<1>4. ASSUME NEW k \in t .. t + l - 1 PROVE m[k] \in Set(m, t)
  <2>1. k - t + 1 \in 1 .. l /\ t + (k - t + 1) - 1 = k
    BY <1>1
  <2>2. QED
    BY <1>2, <2>1
<1>5. QED
  BY <1>2, <1>3, <1>4 DEF Among, l

-----------------------------------------------------------------------------
LEMMA StrspnFinds ==
  ASSUME NEW m, NEW s \in StringsIn(m), NEW t \in StringsIn(m)
  PROVE  strspn(m, s, t)
           = First({a \in s .. s + strlen(m)[s] : m[a] \notin Set(m, t)}, NULL) - s
<1> DEFINE P == {a \in StringsIn(m) : m[a] = 0 \/ m[a] \notin Set(m, t)}
           T == {a \in s .. s + strlen(m)[s] : m[a] \notin Set(m, t)}
<1>1. PICK u : u = Until(StringsIn(m), P)[s]
  OBVIOUS
<1>2. PICK e : e = s + strlen(m)[s]
  OBVIOUS
<1>3. s \in Nat /\ e \in Nat
  BY <1>2, StringIs
<1>4. u \in s .. e /\ u \in P /\ \A k \in s .. u - 1 : k \notin P
  BY <1>1, <1>2, StringUntil
<1>5. \A a \in s .. e : a \in StringsIn(m)
  BY <1>2, InString
<1>6. \A k \in s .. u - 1 : k \notin T
  BY <1>2, <1>4, <1>5
<1>7. u \in T /\ T \in SUBSET (s .. e)
  BY <1>2, <1>4, AmongIs
<1>8. strspn(m, s, t) = u - s
  BY <1>1, AmongIs DEF strspn
<1> HIDE DEF T, P
<1>9. First(T, NULL) = u
  BY <1>3, <1>6, <1>7, FirstStop
<1>10. QED
  BY <1>8, <1>9 DEF T

LEMMA StrcspnFinds ==
  ASSUME NEW m, NEW s \in StringsIn(m), NEW t \in StringsIn(m)
  PROVE  LET all  == s .. s + strlen(m)[s]
             hits == {a \in all : m[a] \in Set(m, t)}
         IN  /\ strcspn(m, s, t) = First(hits, s + strlen(m)[s]) - s
             /\ strpbrk(m, s, t) = First(hits, NULL)
<1> DEFINE P == {a \in StringsIn(m) : m[a] = 0 \/ m[a] \in Set(m, t)}
           T == {a \in s .. s + strlen(m)[s] : m[a] \in Set(m, t)}
<1>1. PICK u : u = Until(StringsIn(m), P)[s]
  OBVIOUS
<1>2. PICK e : e = s + strlen(m)[s]
  OBVIOUS
<1>3. s \in Nat /\ e \in Nat
  BY <1>2, StringIs
<1>4. u \in s .. e /\ u \in P /\ \A k \in s .. u - 1 : k \notin P
  BY <1>1, <1>2, StringUntil
<1>5. \A a \in s .. e : a \in StringsIn(m) /\ (m[a] = 0 <=> a = e)
  BY <1>2, InString
<1>6. \A k \in s .. u - 1 : k \notin T
  BY <1>2, <1>4, <1>5
<1>7. T \in SUBSET (s .. e) /\ (u \notin T => u = e) /\ (u \in T <=> m[u] # 0)
  BY <1>2, <1>4, <1>5, AmongIs
<1>8. strcspn(m, s, t) = u - s
  BY <1>1, AmongIs DEF strcspn
<1>9. s + (u - s) = u
  BY <1>3, <1>4
<1>10. strpbrk(m, s, t) = IF m[u] = 0 THEN NULL ELSE u
  BY <1>8, <1>9 DEF strpbrk
<1> HIDE DEF T, P
<1>11. First(T, e) = u
  <2>1. CASE u \in T
    BY <1>3, <1>6, <1>7, <2>1, FirstStop
  <2>2. CASE u \notin T
    BY <1>3, <1>6, <1>7, <2>2, FirstNone
  <2>3. QED
    BY <2>1, <2>2
<1>12. First(T, NULL) = IF u \in T THEN u ELSE NULL
  <2>1. CASE u \in T
    BY <1>3, <1>6, <1>7, <2>1, FirstStop
  <2>2. CASE u \notin T
    BY <1>3, <1>6, <1>7, <2>2, FirstNone
  <2>3. QED
    BY <2>1, <2>2
<1>13. QED
  BY <1>2, <1>7, <1>8, <1>10, <1>11, <1>12 DEF T

LEMMA MemchrFinds ==
  ASSUME NEW m, NEW s \in Nat, NEW n \in Nat, NEW c
  PROVE  memchr(m, s, c, n) = First({a \in s .. s + n - 1 : m[a] = c % Base}, NULL)
<1>1. PICK x : x = c % Base
  OBVIOUS
<1>2. PICK e : e = s + n
  OBVIOUS
<1> DEFINE D == s .. e
           T == {a \in s .. e - 1 : m[a] = x}
           P == {e} \cup T
<1>3. e \in Nat /\ s \in D
  BY <1>2
<1>4. Closed(D, P)
  <2>1. D \subseteq 0 .. e /\ \A a \in D : a = e \/ a + 1 \in D
    BY <1>3
  <2>2. QED
    BY <1>3, <2>1 DEF Closed
<1>5. PICK u : u = Until(D, P)[s]
  OBVIOUS
<1>6. memchr(m, s, c, n) = IF u = e THEN NULL ELSE u
  BY <1>1, <1>2, <1>5 DEF memchr
<1> HIDE DEF D, P
<1>7. /\ u \in Nat /\ u \in D /\ u \in P /\ s <= u
      /\ \A k \in Nat : s <= k /\ k < u => k \notin P
  BY <1>3, <1>4, <1>5, UntilPlace
<1>8. \A k \in s .. u - 1 : k \notin T
  <2>1. ASSUME NEW k \in s .. u - 1 PROVE k \notin P
    BY <1>7, <2>1
  <2>2. QED
    BY <2>1 DEF P
<1>9. T \in SUBSET (s .. e) /\ e \notin T /\ (u = e \/ u \in T)
  BY <1>3, <1>7 DEF P
<1> HIDE DEF T
<1>10. First(T, NULL) = IF u = e THEN NULL ELSE u
  <2>1. CASE u \in T
    BY <1>3, <1>8, <1>9, <2>1, FirstStop
  <2>2. CASE u \notin T
    BY <1>3, <1>8, <1>9, <2>2, FirstNone
  <2>3. QED
    BY <2>1, <2>2
<1>11. QED
  BY <1>1, <1>2, <1>6, <1>10 DEF T

-----------------------------------------------------------------------------
(* strrchr's sc is, after each round, the last place found so far.         *)
LEMMA Forwards ==
  ASSUME NEW lo \in Int, NEW D, \A a \in D : a \in Int /\ lo <= a, NEW G,
         \A a \in D : (\A b \in D : b < a => b \in G) => a \in G
  PROVE  D \subseteq G
<1> SUFFICES ASSUME D \ G # {} PROVE FALSE
  OBVIOUS
<1> DEFINE T == {a - lo : a \in D \ G}
<1>1. T \subseteq Nat /\ T # {}
  OBVIOUS
<1>2. PICK x \in T : \A y \in T : x <= y
  <2> HIDE DEF T
  <2>1. QED
    BY <1>1, Least
<1>3. PICK a \in D \ G : x = a - lo
  BY <1>2
<1>4. ASSUME NEW b \in D, b < a PROVE b \in G
  <2>1. b \notin G => a - lo <= b - lo
    BY <1>2, <1>3
  <2>2. a \in Int /\ b \in Int
    OBVIOUS
  <2>3. QED
    BY <1>4, <2>1, <2>2
<1>5. QED
  BY <1>3, <1>4

LEMMA FinalStop ==
  ASSUME NEW T, NEW u \in T, \A k \in T : k \in Int /\ k <= u, NEW d
  PROVE  Final(T, d) = u
<1>1. \A p \in T : (\A q \in T : p >= q) => p = u
  OBVIOUS
<1>2. (CHOOSE p \in T : \A q \in T : p >= q) = u
  BY <1>1
<1>3. QED
  BY <1>2 DEF Final

LEMMA StrrchrFinds ==
  ASSUME NEW m, NEW s \in StringsIn(m), NEW c
  PROVE  strrchr(m, s, c) = Final({a \in s .. s + strlen(m)[s] : m[a] = c % Base}, NULL)
<1>1. PICK x : x = c % Base
  OBVIOUS
<1>2. PICK e : e = s + strlen(m)[s]
  OBVIOUS
<1> DEFINE D == s - 1 .. e
           T(a) == {b \in s .. a : m[b] = x}
           IsIt(f) == f = [a \in D |-> IF a = s - 1 THEN NULL
                                       ELSE IF m[a] = x THEN a ELSE f[a - 1]]
           Last(a) == Final(T(a), NULL)
<1>3. s \in Nat /\ e \in Nat /\ s <= e /\ e \in D
  BY <1>2, StringIs
<1>4. ASSUME NEW a \in D
      PROVE  Last(a) = IF a = s - 1 THEN NULL ELSE IF m[a] = x THEN a ELSE Last(a - 1)
  <2>1. a \in Int /\ s - 1 <= a
    BY <1>3
  <2>2. CASE a = s - 1
    <3>1. T(a) = {}
      BY <1>3, <2>2
    <3>2. QED
      BY <2>2, <3>1 DEF Final
  <2>3. CASE a # s - 1 /\ m[a] = x
    <3>1. a \in T(a) /\ \A k \in T(a) : k \in Int /\ k <= a
      BY <1>3, <2>1, <2>3
    <3> HIDE DEF T
    <3>2. Last(a) = a
      BY <3>1, FinalStop
    <3>3. QED
      BY <2>3, <3>2
  <2>4. CASE a # s - 1 /\ m[a] # x
    <3>1. \A b \in s .. a : b = a \/ b \in s .. a - 1
      BY <1>3, <2>1
    <3>2. \A b \in s .. a - 1 : b \in s .. a
      BY <1>3, <2>1
    <3>3. T(a) = T(a - 1)
      BY <2>4, <3>1, <3>2
    <3> HIDE DEF T
    <3>4. QED
      BY <2>4, <3>3
  <2>5. QED
    BY <2>2, <2>3, <2>4
<1> HIDE DEF Last
<1>5. \E f : IsIt(f)
  <2> DEFINE g == [a \in D |-> Last(a)]
  <2>1. ASSUME NEW a \in D
        PROVE  g[a] = IF a = s - 1 THEN NULL ELSE IF m[a] = x THEN a ELSE g[a - 1]
    <3>1. a # s - 1 => a - 1 \in D
      BY <1>3
    <3> HIDE DEF D
    <3>2. g[a] = Last(a) /\ (a # s - 1 => g[a - 1] = Last(a - 1))
      BY <3>1
    <3> HIDE DEF g
    <3>3. QED
      BY <1>4, <3>2
  <2>2. g = [a \in D |-> g[a]]
    OBVIOUS
  <2> HIDE DEF g
  <2>3. IsIt(g)
    BY <2>1, <2>2
  <2>4. QED
    BY <2>3
<1>6. PICK f : f = CHOOSE h : IsIt(h)
  OBVIOUS
<1>7. strrchr(m, s, c) = f[e]
  BY <1>1, <1>2, <1>6 DEF strrchr
<1>8. IsIt(f)
  BY <1>5, <1>6
<1>9. \A a \in D : f[a] = IF a = s - 1 THEN NULL ELSE IF m[a] = x THEN a ELSE f[a - 1]
  BY <1>8
<1> DEFINE G == {a \in D : f[a] = Last(a)}
<1>10. ASSUME NEW a \in D, \A b \in D : b < a => b \in G PROVE a \in G
  <2>1. CASE a = s - 1
    BY <1>4, <1>9, <2>1
  <2>2. CASE a # s - 1
    <3>1. a - 1 \in D /\ a - 1 < a
      BY <1>3, <2>2
    <3>2. f[a - 1] = Last(a - 1)
      BY <1>10, <3>1
    <3>3. QED
      BY <1>4, <1>9, <2>2, <3>2
  <2>3. QED
    BY <2>1, <2>2
<1>11. \A a \in D : a \in Int /\ s - 1 <= a
  BY <1>3
<1>12. D \subseteq G
  <2>1. s - 1 \in Int
    BY <1>3
  <2> HIDE DEF G, D
  <2>2. QED
    BY <1>10, <1>11, <2>1, Forwards
<1>13. f[e] = Last(e)
  BY <1>3, <1>12
<1>14. QED
  BY <1>1, <1>2, <1>7, <1>13 DEF Last

-----------------------------------------------------------------------------
(* The routines that compare: the first place where they differ, within    *)
(* the count, and within both strings.                                     *)
LEMMA ComparedIs ==
  ASSUME NEW N \in Nat, NEW A, NEW B, DOMAIN A = 1 .. N, NEW i \in 0 .. N,
         \A k \in 0 .. i - 1 : A[k + 1] = B[k + 1]
  PROVE  /\ i # N /\ A[i + 1] # B[i + 1] => Compared(A, B) = Order(A[i + 1], B[i + 1])
         /\ i = N => Compared(A, B) = 0
<1> DEFINE T == {k \in DOMAIN A : A[k] # B[k]}
<1>1. ASSUME NEW k \in T PROVE i + 1 <= k /\ k \in 1 .. N /\ A[k] # B[k]
  <2>1. k \in 1 .. N /\ A[k] # B[k]
    OBVIOUS
  <2>2. k <= i => k - 1 \in 0 .. i - 1 /\ k - 1 + 1 = k
    BY <2>1
  <2>3. QED
    BY <2>1, <2>2
<1>2. ASSUME i # N, A[i + 1] # B[i + 1]
      PROVE  Compared(A, B) = Order(A[i + 1], B[i + 1])
  <2>1. i + 1 \in 1 .. N
    BY <1>2
  <2>2. i + 1 \in T
    BY <1>2, <2>1
  <2>3. T \in SUBSET (0 .. N) /\ \A k \in 0 .. i + 1 - 1 : k \notin T
    BY <1>1
  <2>4. PICK j : j = i + 1
    OBVIOUS
  <2>5. First(T, 0) = j
    <3> HIDE DEF T
    <3>1. j \in T /\ \A k \in 0 .. j - 1 : k \notin T
      BY <2>2, <2>3, <2>4
    <3>2. QED
      BY <2>3, <3>1, FirstStop
  <2>6. j # 0
    BY <2>4
  <2>7. QED
    BY <2>4, <2>5, <2>6 DEF Compared, Order
<1>3. ASSUME i = N PROVE Compared(A, B) = 0
  <2>1. T = {}
    BY <1>1, <1>3
  <2>2. First(T, 0) = 0
    BY <2>1 DEF First
  <2>3. QED
    BY <2>2 DEF Compared
<1>4. QED
  BY <1>2, <1>3

LEMMA MemcmpFinds ==
  ASSUME NEW m, NEW s \in Nat, NEW t \in Nat, NEW n \in Nat
  PROVE  memcmp(m, s, t, n)
           = Compared([i \in 1 .. n |-> m[s + i - 1]], [i \in 1 .. n |-> m[t + i - 1]])
<1> DEFINE D == 0 .. n
           P == {n} \cup {k \in 0 .. n - 1 : m[s + k] # m[t + k]}
           A == [i \in 1 .. n |-> m[s + i - 1]]
           B == [i \in 1 .. n |-> m[t + i - 1]]
<1>1. Closed(D, P) /\ 0 \in D
  <2>1. D \subseteq 0 .. n /\ \A a \in D : a \in P \/ a + 1 \in D
    OBVIOUS
  <2>2. QED
    BY <2>1 DEF Closed
<1>2. PICK i : i = Until(D, P)[0]
  OBVIOUS
<1>3. memcmp(m, s, t, n) = IF i = n THEN 0 ELSE Order(m[s + i], m[t + i])
  BY <1>2 DEF memcmp
<1>4. i \in Nat /\ i \in D /\ i \in P /\ \A k \in Nat : 0 <= k /\ k < i => k \notin P
  <2> HIDE DEF D, P
  <2>1. QED
    BY <1>1, <1>2, UntilPlace
<1>5. ASSUME NEW k \in 0 .. n - 1 PROVE A[k + 1] = m[s + k] /\ B[k + 1] = m[t + k]
  <2>1. k + 1 \in 1 .. n /\ s + (k + 1) - 1 = s + k /\ t + (k + 1) - 1 = t + k
    OBVIOUS
  <2>2. A[k + 1] = m[s + (k + 1) - 1] /\ B[k + 1] = m[t + (k + 1) - 1]
    BY <2>1
  <2>3. QED
    BY <2>1, <2>2, Zenon
<1>6. ASSUME NEW k \in 0 .. i - 1 PROVE A[k + 1] = B[k + 1]
  <2>1. k \in 0 .. n - 1 /\ k \notin P
    BY <1>4
  <2>2. m[s + k] = m[t + k]
    BY <2>1
  <2>3. QED
    BY <1>5, <2>1, <2>2
<1>7. i # n => m[s + i] # m[t + i] /\ A[i + 1] = m[s + i] /\ B[i + 1] = m[t + i]
  BY <1>4, <1>5
<1>8. DOMAIN A = 1 .. n /\ i \in 0 .. n
  BY <1>4
<1> HIDE DEF A, B
<1>9. (i # n => Compared(A, B) = Order(A[i + 1], B[i + 1])) /\ (i = n => Compared(A, B) = 0)
  BY <1>6, <1>7, <1>8, ComparedIs
<1>10. QED
  BY <1>3, <1>7, <1>9 DEF A, B

-----------------------------------------------------------------------------
LEMMA PaddedIs ==
  ASSUME NEW m, NEW s \in StringsIn(m), NEW N \in Nat, NEW k \in 0 .. N - 1
  PROVE  /\ k <= strlen(m)[s] => Padded(m, s, N)[k + 1] = m[s + k]
         /\ strlen(m)[s] <= k => Padded(m, s, N)[k + 1] = 0
<1> DEFINE l == strlen(m)[s]
<1>1. /\ s \in Nat /\ l \in Nat /\ m[s + l] = 0 /\ Len(Str(m, s)) = l
      /\ Str(m, s) = [i \in 1 .. l |-> m[s + i - 1]]
  BY StringIs
<1> HIDE DEF l
<1>2. k + 1 \in 1 .. N /\ s + (k + 1) - 1 = s + k
  BY <1>1
<1>3. Padded(m, s, N)[k + 1] = IF k + 1 <= l THEN Str(m, s)[k + 1] ELSE 0
  BY <1>1, <1>2 DEF Padded
<1>4. ASSUME k < l PROVE Str(m, s)[k + 1] = m[s + k]
  <2>1. k + 1 \in 1 .. l
    BY <1>1, <1>4
  <2>2. Str(m, s)[k + 1] = m[s + (k + 1) - 1]
    BY <1>1, <2>1
  <2>3. QED
    BY <1>2, <2>2, Zenon
<1>5. k < l <=> k + 1 <= l
  BY <1>1
<1>6. CASE k < l
  <2>1. ~ l <= k
    BY <1>1, <1>6
  <2>2. QED
    BY <1>3, <1>4, <1>5, <1>6, <2>1 DEF l
<1>7. CASE ~ k < l
  <2>1. k <= l => k = l
    BY <1>1, <1>7
  <2>2. QED
    BY <1>1, <1>3, <1>5, <1>7, <2>1 DEF l
<1>8. QED
  BY <1>6, <1>7

LEMMA BothAre ==
  ASSUME NEW m, NEW s \in StringsIn(m), NEW t \in StringsIn(m)
  PROVE  \E h \in Nat :
           /\ InBoth(m, s, t) = 0 .. h /\ InBoth(m, t, s) = 0 .. h
           /\ h <= strlen(m)[s] /\ h <= strlen(m)[t]
           /\ h = strlen(m)[s] \/ h = strlen(m)[t]
<1> DEFINE l == strlen(m)[s]
           k == strlen(m)[t]
<1>1. l \in Nat /\ k \in Nat
  BY StringIs
<1>2. InBoth(m, s, t) = (0 .. l) \cap (0 .. k) /\ InBoth(m, t, s) = (0 .. k) \cap (0 .. l)
  BY DEF InBoth
<1> HIDE DEF l, k
<1>3. PICK h \in Nat : h <= l /\ h <= k /\ (h = l \/ h = k)
  BY <1>1
<1>4. (0 .. l) \cap (0 .. k) = 0 .. h /\ (0 .. k) \cap (0 .. l) = 0 .. h
  BY <1>1, <1>3
<1>5. QED
  BY <1>2, <1>3, <1>4 DEF l, k

LEMMA PaddedCompared ==
  ASSUME NEW m, NEW s \in StringsIn(m), NEW t \in StringsIn(m), NEW N \in Nat,
         NEW i \in 0 .. N, i <= strlen(m)[s], i <= strlen(m)[t],
         \A k \in 0 .. i - 1 : m[s + k] = m[t + k],
         i = N \/ m[s + i] # m[t + i] \/ m[s + i] = 0
  PROVE  /\ i = N \/ m[s + i] = m[t + i] => Compared(Padded(m, s, N), Padded(m, t, N)) = 0
         /\ i # N /\ m[s + i] # m[t + i]
              => Compared(Padded(m, s, N), Padded(m, t, N)) = Order(m[s + i], m[t + i])
<1> DEFINE A == Padded(m, s, N)
           B == Padded(m, t, N)
           l == strlen(m)[s]
           k == strlen(m)[t]
<1>1. /\ l \in Nat /\ k \in Nat /\ i \in Nat /\ i <= l /\ i <= k
      /\ \A j \in 0 .. l - 1 : m[s + j] # 0
      /\ \A j \in 0 .. k - 1 : m[t + j] # 0
  BY StringIs
<1>2. ASSUME NEW j \in 0 .. N - 1
      PROVE  /\ j <= l => A[j + 1] = m[s + j]
             /\ l <= j => A[j + 1] = 0
             /\ j <= k => B[j + 1] = m[t + j]
             /\ k <= j => B[j + 1] = 0
  BY PaddedIs
<1>3. DOMAIN A = 1 .. N
  BY DEF Padded
<1> HIDE DEF A, B, l, k
<1>4. ASSUME NEW j \in 0 .. i - 1 PROVE A[j + 1] = B[j + 1]
  <2>1. j \in 0 .. N - 1 /\ j <= l /\ j <= k
    BY <1>1
  <2>2. QED
    BY <1>2, <2>1
<1>5. CASE i = N
  BY <1>3, <1>4, <1>5, ComparedIs DEF A, B
<1>6. CASE i # N /\ m[s + i] # m[t + i]
  <2>1. i \in 0 .. N - 1
    BY <1>6
  <2>2. A[i + 1] = m[s + i] /\ B[i + 1] = m[t + i]
    BY <1>1, <1>2, <2>1
  <2>3. Compared(A, B) = Order(A[i + 1], B[i + 1])
    BY <1>3, <1>4, <1>6, <2>2, ComparedIs
  <2>4. QED
    BY <1>6, <2>2, <2>3 DEF A, B
<1>7. CASE i # N /\ m[s + i] = m[t + i]
  <2>1. m[s + i] = 0 /\ m[t + i] = 0
    BY <1>7
  <2>2. i = l /\ i = k
    BY <1>1, <2>1
  <2>3. ASSUME NEW j \in 0 .. N - 1 PROVE A[j + 1] = B[j + 1]
    <3>1. CASE j < i
      <4>1. j \in 0 .. i - 1
        BY <1>1, <3>1
      <4>2. QED
        BY <1>4, <4>1
    <3>2. CASE ~ j < i
      <4>1. l <= j /\ k <= j
        BY <1>1, <2>2, <3>2
      <4>2. QED
        BY <1>2, <4>1
    <3>3. QED
      BY <3>1, <3>2
  <2>4. N \in 0 .. N
    OBVIOUS
  <2>5. Compared(A, B) = 0
    BY <1>3, <2>3, <2>4, ComparedIs
  <2>6. QED
    BY <1>7, <2>5 DEF A, B
<1>8. QED
  BY <1>5, <1>6, <1>7

(* N is the count of strncmpy, and for strcmp one neither string reaches.  *)
LEMMA BothStop ==
  ASSUME NEW m, NEW s \in StringsIn(m), NEW t \in StringsIn(m), NEW N \in Nat,
         NEW n \in SUBSET {N},
         NEW D, D = InBoth(m, s, t) \cup n,
         NEW P, P = Differ(m, s, t) \cup Ended(m, s, t) \cup n,
         NEW i, i = Until(D, P)[0]
  PROVE  /\ i \in Nat /\ i <= strlen(m)[s] /\ i <= strlen(m)[t]
         /\ \A k \in 0 .. i - 1 : m[s + k] = m[t + k] /\ k \notin n
         /\ i \in n \/ m[s + i] # m[t + i] \/ m[s + i] = 0
<1>1. PICK h \in Nat : /\ InBoth(m, s, t) = 0 .. h
                       /\ h <= strlen(m)[s] /\ h <= strlen(m)[t]
                       /\ h = strlen(m)[s] \/ h = strlen(m)[t]
  BY BothAre
<1>2. strlen(m)[s] \in Nat /\ strlen(m)[t] \in Nat
      /\ m[s + strlen(m)[s]] = 0 /\ m[t + strlen(m)[t]] = 0
  BY StringIs
<1>3. \A k \in 0 .. h : k \in P <=> m[s + k] # m[t + k] \/ m[s + k] = 0 \/ k \in n
  BY <1>1 DEF Differ, Ended
<1>4. h \in P /\ h \in D /\ 0 \in D
  <2>1. m[s + h] # m[t + h] \/ m[s + h] = 0
    BY <1>1, <1>2
  <2>2. QED
    BY <1>1, <1>3, <2>1
<1>5. Closed(D, P)
  <2>1. \A a \in n : a = N
    OBVIOUS
  <2>2. h + N \in Nat /\ D \subseteq 0 .. h + N
    BY <1>1, <2>1
  <2>3. ASSUME NEW a \in D PROVE a \in P \/ a + 1 \in D
    <3>1. CASE a \in n
      BY <3>1
    <3>2. CASE a = h
      BY <1>4, <3>2
    <3>3. CASE a \notin n /\ a # h
      <4>1. a \in 0 .. h
        BY <1>1, <3>3
      <4>2. a + 1 \in 0 .. h
        BY <3>3, <4>1
      <4>3. QED
        BY <1>1, <4>2
    <3>4. QED
      BY <3>1, <3>2, <3>3
  <2>4. QED
    BY <2>2, <2>3 DEF Closed
<1>6. i \in Nat /\ i \in D /\ i \in P /\ \A k \in Nat : 0 <= k /\ k < i => k \notin P
  <2>1. PICK E, Q : E = D /\ Q = P
    OBVIOUS
  <2>2. PICK u : u = Until(E, Q)[0]
    OBVIOUS
  <2>3. 0 \in E /\ Closed(E, Q)
    BY <1>4, <1>5, <2>1
  <2>4. u \in Nat /\ u \in E /\ u \in Q /\ \A k \in Nat : 0 <= k /\ k < u => k \notin Q
    BY <2>2, <2>3, UntilPlace
  <2>5. u = i
    BY <2>1, <2>2
  <2>6. QED
    BY <2>1, <2>4, <2>5, Zenon
<1>7. i <= h
  BY <1>4, <1>6
<1>8. ASSUME NEW k \in 0 .. i - 1 PROVE m[s + k] = m[t + k] /\ k \notin n
  <2>1. k \in Nat /\ 0 <= k /\ k < i /\ k \in 0 .. h
    BY <1>6, <1>7
  <2>2. k \notin P
    BY <1>6, <2>1, Zenon
  <2>3. QED
    BY <1>3, <2>1, <2>2
<1>9. i \in n \/ m[s + i] # m[t + i] \/ m[s + i] = 0
  BY <1>3, <1>6, <1>7
<1>10. i <= strlen(m)[s] /\ i <= strlen(m)[t]
  BY <1>1, <1>2, <1>6, <1>7
<1>11. QED
  BY <1>6, <1>8, <1>9, <1>10

LEMMA StrcmpFinds ==
  ASSUME NEW m, NEW s \in StringsIn(m), NEW t \in StringsIn(m), NEW N \in Nat,
         strlen(m)[s] < N
  PROVE  strcmp(m, s, t) = Compared(Padded(m, s, N), Padded(m, t, N))
<1>1. PICK D : D = InBoth(m, s, t)
  OBVIOUS
<1>2. PICK P : P = Differ(m, s, t) \cup Ended(m, s, t)
  OBVIOUS
<1>3. PICK i : i = Until(D, P)[0]
  OBVIOUS
<1>4. PICK none : none = {}
  OBVIOUS
<1>5. /\ D = InBoth(m, s, t) \cup none
      /\ P = Differ(m, s, t) \cup Ended(m, s, t) \cup none
      /\ none \in SUBSET {N}
  BY <1>1, <1>2, <1>4
<1>6. /\ i \in Nat /\ i <= strlen(m)[s] /\ i <= strlen(m)[t]
      /\ \A k \in 0 .. i - 1 : m[s + k] = m[t + k]
      /\ m[s + i] # m[t + i] \/ m[s + i] = 0
  <2>1. /\ i \in Nat /\ i <= strlen(m)[s] /\ i <= strlen(m)[t]
        /\ \A k \in 0 .. i - 1 : m[s + k] = m[t + k] /\ k \notin none
        /\ i \in none \/ m[s + i] # m[t + i] \/ m[s + i] = 0
    BY <1>3, <1>5, BothStop
  <2>2. QED
    BY <1>4, <2>1
<1>7. i \in 0 .. N /\ i # N
  BY <1>6, StringIs
<1>8. strcmp(m, s, t) = IF m[s + i] = m[t + i] THEN 0 ELSE Order(m[s + i], m[t + i])
  BY <1>1, <1>2, <1>3 DEF strcmp
<1> DEFINE R == Compared(Padded(m, s, N), Padded(m, t, N))
<1>9. /\ i \in 0 .. N /\ i <= strlen(m)[s] /\ i <= strlen(m)[t]
      /\ i = N \/ m[s + i] # m[t + i] \/ m[s + i] = 0
  BY <1>6, <1>7
<1>10. \A k \in 0 .. i - 1 : m[s + k] = m[t + k]
  BY <1>6
<1>11. /\ i = N \/ m[s + i] = m[t + i] => R = 0
       /\ i # N /\ m[s + i] # m[t + i] => R = Order(m[s + i], m[t + i])
  BY <1>9, <1>10, PaddedCompared, Zenon
<1> HIDE DEF R
<1>12. CASE m[s + i] = m[t + i]
  BY <1>8, <1>11, <1>12 DEF R
<1>13. CASE m[s + i] # m[t + i]
  BY <1>7, <1>8, <1>11, <1>13 DEF R
<1>14. QED
  BY <1>12, <1>13

LEMMA StrncmpyFinds ==
  ASSUME NEW m, NEW s \in StringsIn(m), NEW t \in StringsIn(m), NEW n \in Nat
  PROVE  strncmpy(m, s, t, n) = Compared(Padded(m, s, n), Padded(m, t, n))
<1>1. PICK D : D = InBoth(m, s, t) \cup {n}
  OBVIOUS
<1>2. PICK P : P = Differ(m, s, t) \cup Ended(m, s, t) \cup {n}
  OBVIOUS
<1>3. PICK i : i = Until(D, P)[0]
  OBVIOUS
<1>4. /\ i \in Nat /\ i <= strlen(m)[s] /\ i <= strlen(m)[t]
      /\ \A k \in 0 .. i - 1 : m[s + k] = m[t + k] /\ k \notin {n}
      /\ i \in {n} \/ m[s + i] # m[t + i] \/ m[s + i] = 0
  <2>1. PICK q : q = {n}
    OBVIOUS
  <2>2. /\ D = InBoth(m, s, t) \cup q
        /\ P = Differ(m, s, t) \cup Ended(m, s, t) \cup q
        /\ q \in SUBSET {n}
    BY <1>1, <1>2, <2>1
  <2>3. /\ i \in Nat /\ i <= strlen(m)[s] /\ i <= strlen(m)[t]
        /\ \A k \in 0 .. i - 1 : m[s + k] = m[t + k] /\ k \notin q
        /\ i \in q \/ m[s + i] # m[t + i] \/ m[s + i] = 0
    BY <1>3, <2>2, BothStop
  <2>4. QED
    BY <2>1, <2>3
<1>5. i \in 0 .. n
  BY <1>4
<1>6. strncmpy(m, s, t, n)
        = IF i = n \/ m[s + i] = m[t + i] THEN 0 ELSE Order(m[s + i], m[t + i])
  BY <1>1, <1>2, <1>3 DEF strncmpy
<1>7. /\ i \in 0 .. n /\ i <= strlen(m)[s] /\ i <= strlen(m)[t]
      /\ i = n \/ m[s + i] # m[t + i] \/ m[s + i] = 0
  BY <1>4, <1>5
<1>8. \A k \in 0 .. i - 1 : m[s + k] = m[t + k]
  BY <1>4
<1> DEFINE R == Compared(Padded(m, s, n), Padded(m, t, n))
<1>9. /\ i = n \/ m[s + i] = m[t + i] => R = 0
      /\ i # n /\ m[s + i] # m[t + i] => R = Order(m[s + i], m[t + i])
  BY <1>7, <1>8, PaddedCompared, Zenon
<1> HIDE DEF R
<1>10. CASE i = n \/ m[s + i] = m[t + i]
  BY <1>6, <1>9, <1>10 DEF R
<1>11. CASE i # n /\ m[s + i] # m[t + i]
  BY <1>6, <1>9, <1>11 DEF R
<1>12. QED
  BY <1>10, <1>11

-----------------------------------------------------------------------------
(* strstr goes from one place that holds the first character to the next,  *)
(* and the places it passes are none where the string is.                  *)
LEMMA MatchIs ==
  ASSUME NEW m, NEW a \in StringsIn(m), NEW t \in StringsIn(m)
  PROVE  Match(m, a, t) <=> /\ strlen(m)[t] <= strlen(m)[a]
                            /\ \A k \in 0 .. strlen(m)[t] - 1 : m[a + k] = m[t + k]
<1> DEFINE l == strlen(m)[a]
           n == strlen(m)[t]
           x == Str(m, a)
           y == Str(m, t)
<1>1. /\ a \in Nat /\ t \in Nat /\ l \in Nat /\ n \in Nat /\ Len(x) = l /\ Len(y) = n
      /\ x = [i \in 1 .. l |-> m[a + i - 1]] /\ y = [i \in 1 .. n |-> m[t + i - 1]]
  BY StringIs
<1> HIDE DEF l, n, x, y
<1>2. Match(m, a, t) <=> n <= l /\ SubSeq(x, 1, n) = y
  BY <1>1 DEF Match, x, y
<1>3. ASSUME n <= l
      PROVE  SubSeq(x, 1, n) = y <=> \A k \in 0 .. n - 1 : m[a + k] = m[t + k]
  <2>1. x = [i \in 1 .. l |-> x[i]]
    BY <1>1
  <2>2. SubSeq(x, 1, n) = [i \in 1 .. n |-> x[i]]
    BY <1>1, <1>3, <2>1, Cut
  <2>3. ASSUME NEW i \in 1 .. n PROVE x[i] = m[a + i - 1] /\ y[i] = m[t + i - 1]
    <3>1. i \in 1 .. l
      BY <1>1, <1>3
    <3>2. QED
      BY <1>1, <3>1
  <2>4. SubSeq(x, 1, n) = y <=> \A i \in 1 .. n : m[a + i - 1] = m[t + i - 1]
    <3>1. y = [i \in 1 .. n |-> y[i]]
      BY <1>1
    <3>2. QED
      BY <2>2, <2>3, <3>1
  <2>5. ASSUME \A i \in 1 .. n : m[a + i - 1] = m[t + i - 1], NEW k \in 0 .. n - 1
        PROVE  m[a + k] = m[t + k]
    <3>1. k + 1 \in 1 .. n /\ a + (k + 1) - 1 = a + k /\ t + (k + 1) - 1 = t + k
      BY <1>1
    <3>2. m[a + (k + 1) - 1] = m[t + (k + 1) - 1]
      BY <2>5, <3>1
    <3>3. QED
      BY <3>1, <3>2, Zenon
  <2>6. ASSUME \A k \in 0 .. n - 1 : m[a + k] = m[t + k], NEW i \in 1 .. n
        PROVE  m[a + i - 1] = m[t + i - 1]
    <3>1. i - 1 \in 0 .. n - 1 /\ a + i - 1 = a + (i - 1) /\ t + i - 1 = t + (i - 1)
      BY <1>1
    <3>2. QED
      BY <2>6, <3>1
  <2>7. QED
    BY <2>4, <2>5, <2>6
<1>4. QED
  BY <1>2, <1>3 DEF l, n

LEMMA RestFoundIs ==
  ASSUME NEW m, NEW a \in StringsIn(m), NEW t \in StringsIn(m), m[t] # 0, m[a] = m[t]
  PROVE  RestFound(m, a, t) <=> Match(m, a, t)
<1> DEFINE l == strlen(m)[a]
           n == strlen(m)[t]
<1>1. /\ a \in Nat /\ t \in Nat /\ l \in Nat /\ n \in Nat /\ m[a + l] = 0 /\ m[t + n] = 0
      /\ a + 0 = a /\ t + 0 = t
      /\ \A k \in 0 .. l - 1 : m[a + k] # 0
      /\ \A k \in 0 .. n - 1 : m[t + k] # 0
  BY StringIs
<1>2. PICK h \in Nat : /\ InBoth(m, a, t) = 0 .. h /\ InBoth(m, t, a) = 0 .. h
                       /\ h <= l /\ h <= n /\ (h = l \/ h = n)
  BY BothAre
<1>3. PICK D, P : D = InBoth(m, a, t) /\ P = Differ(m, a, t) \cup Ended(m, t, a)
  OBVIOUS
<1>4. PICK i : i = Until(D, P)[1]
  OBVIOUS
<1>5. RestFound(m, a, t) <=> m[t + i] = 0
  BY <1>3, <1>4 DEF RestFound
<1>6. Match(m, a, t) <=> n <= l /\ \A k \in 0 .. n - 1 : m[a + k] = m[t + k]
  BY MatchIs
<1> HIDE DEF l, n
<1>7. D = 0 .. h /\ \A k \in 0 .. h : k \in P <=> m[a + k] # m[t + k] \/ m[t + k] = 0
  BY <1>2, <1>3 DEF Differ, Ended
<1>8. h \in P
  BY <1>1, <1>2, <1>7
<1>9. 1 <= h
  <2>1. l # 0 /\ n # 0
    BY <1>1
  <2>2. QED
    BY <1>1, <1>2, <2>1
<1>10. Closed(D, P) /\ 1 \in D
  <2>1. \A k \in 0 .. h : k \in P \/ k + 1 \in 0 .. h
    BY <1>2, <1>8
  <2>2. D = 0 .. h
    BY <1>7
  <2>3. D \subseteq 0 .. h /\ \A k \in D : k \in P \/ k + 1 \in D
    BY <2>1, <2>2, Zenon
  <2>4. Closed(D, P)
    BY <2>3 DEF Closed
  <2>5. 1 \in D
    BY <1>2, <1>9, <2>2
  <2>6. QED
    BY <2>4, <2>5
<1>11. /\ i \in Nat /\ i \in D /\ i \in P /\ 1 <= i
       /\ \A k \in Nat : 1 <= k /\ k < i => k \notin P
  BY <1>4, <1>10, UntilPlace
<1>12. i <= h /\ i <= n /\ i <= l /\ (m[t + i] = 0 <=> i = n)
  <2>1. i <= h /\ i <= n
    BY <1>1, <1>2, <1>7, <1>11
  <2>2. i # n => i \in 0 .. n - 1
    BY <1>1, <1>11, <2>1
  <2>3. QED
    BY <1>1, <1>2, <1>11, <2>1, <2>2
<1>13. ASSUME NEW k \in 0 .. i - 1 PROVE m[a + k] = m[t + k]
  <2>1. CASE k = 0
    BY <1>1, <2>1
  <2>2. CASE k # 0
    <3>1. k \in Nat /\ 1 <= k /\ k < i /\ k \in 0 .. h
      BY <1>11, <1>12, <2>2
    <3>2. QED
      BY <1>7, <1>11, <3>1
  <2>3. QED
    BY <2>1, <2>2
<1>14. CASE i = n
  BY <1>5, <1>6, <1>12, <1>13, <1>14
<1>15. CASE i # n
  <2>1. i \in 0 .. n - 1 /\ i \in 0 .. h
    BY <1>1, <1>11, <1>12, <1>15
  <2>2. m[a + i] # m[t + i]
    BY <1>7, <1>11, <1>12, <1>15, <2>1
  <2>3. QED
    BY <1>5, <1>6, <1>12, <1>15, <2>1, <2>2
<1>16. QED
  BY <1>14, <1>15

-----------------------------------------------------------------------------
LEMMA FirstIs ==
  ASSUME NEW T \in SUBSET Nat, NEW d
  PROVE  /\ T = {} => First(T, d) = d
         /\ T # {} => First(T, d) \in T /\ \A b \in T : First(T, d) <= b
<1>1. ASSUME T # {} PROVE First(T, d) \in T /\ \A b \in T : First(T, d) <= b
  <2>1. \E p \in T : \A q \in T : p <= q
    BY <1>1, Least
  <2>2. QED
    BY <1>1, <2>1 DEF First
<1>2. QED
  BY <1>1 DEF First

Hits(m, t, a) == {b \in a .. a + strlen(m)[a] : Match(m, b, t)}

(* One round of strstr: the next first character, and the string there or  *)
(* a search behind it.                                                     *)
LEMMA StrstrRound ==
  ASSUME NEW m \in [Addr -> Char], NEW t \in StringsIn(m), m[t] # 0, NEW a \in StringsIn(m),
         NEW c, c = strchr(m, a, m[t])
  PROVE  /\ c = NULL => Hits(m, t, a) = {}
         /\ c # NULL => /\ c \in StringsIn(m) /\ c + 1 \in StringsIn(m) /\ a < c + 1
                        /\ RestFound(m, c, t) => First(Hits(m, t, a), NULL) = c
                        /\ ~ RestFound(m, c, t) => Hits(m, t, a) = Hits(m, t, c + 1)
<1>1. PICK x : x = m[t]
  OBVIOUS
<1>2. PICK e : e = a + strlen(m)[a]
  OBVIOUS
<1>3. PICK n : n = strlen(m)[t]
  OBVIOUS
<1>4. a \in Nat /\ e \in Nat /\ a <= e
  BY <1>2, StringIs
<1>5. \A b \in a .. e : b \in StringsIn(m) /\ (m[b] = 0 <=> b = e) /\ b + strlen(m)[b] = e
  BY <1>2, InString
<1>6. x % Base = x /\ x # 0
  <2>1. t \in Addr
    BY DEF StringsIn
  <2>2. x \in Char
    BY <1>1, <2>1
  <2>3. QED
    BY <1>1, <2>2, MemoryAssumption DEF Char
<1>7. t \in Nat /\ n \in Nat /\ n # 0
  BY <1>1, <1>3, <1>6, StringIs
<1>8. ASSUME NEW b \in a .. e, Match(m, b, t) PROVE m[b] = x
  <2>1. \A k \in 0 .. strlen(m)[t] - 1 : m[b + k] = m[t + k]
    BY <1>5, <1>8, MatchIs
  <2>2. 0 \in 0 .. n - 1 /\ b + 0 = b /\ t + 0 = t
    BY <1>4, <1>7
  <2>3. m[b + 0] = m[t + 0]
    BY <1>3, <2>1, <2>2
  <2>4. QED
    BY <1>1, <2>2, <2>3, Zenon
<1> DEFINE T == {b \in a .. e : m[b] = x}
           H == Hits(m, t, a)
<1>9. c = First(T, NULL)
  <2>1. strchr(m, a, x) = First({b \in a .. a + strlen(m)[a] : m[b] = x % Base}, NULL)
    BY StrchrFinds
  <2>2. QED
    BY <1>1, <1>2, <1>6, <2>1, Zenon
<1>10. T \in SUBSET Nat
  BY <1>4
<1>11. H \in SUBSET (a .. e) /\ \A b \in a .. e : b \in H <=> Match(m, b, t)
  BY <1>2 DEF Hits
<1>12. \A b \in H : b \in T
  BY <1>8, <1>11
<1>13. \A b \in T : b \in a .. e /\ m[b] = x
  OBVIOUS
<1> HIDE DEF T, H
<1>14. /\ T = {} => c = NULL
       /\ T # {} => c \in T /\ \A b \in T : c <= b
  BY <1>9, <1>10, FirstIs
<1>15. ASSUME c = NULL PROVE H = {}
  <2>1. NULL \notin Nat
    BY DEF NULL
  <2>2. QED
    BY <1>10, <1>12, <1>14, <1>15, <2>1
<1>16. ASSUME c # NULL PROVE c \in T /\ \A b \in T : c <= b
  BY <1>14, <1>16
<1>17. ASSUME c # NULL
       PROVE  /\ c \in Nat /\ c \in a .. e /\ c \in StringsIn(m) /\ c < e /\ m[c] = x
              /\ c + 1 \in a .. e /\ a < c + 1
  <2>1. c \in a .. e /\ m[c] = x
    BY <1>13, <1>16, <1>17
  <2>2. c # e /\ c \in StringsIn(m)
    BY <1>5, <1>6, <2>1
  <2>3. QED
    BY <1>4, <2>1, <2>2
<1>18. ASSUME c # NULL PROVE RestFound(m, c, t) <=> Match(m, c, t)
  BY <1>1, <1>6, <1>17, <1>18, RestFoundIs
<1>19. ASSUME c # NULL, Match(m, c, t) PROVE First(H, NULL) = c
  <2>1. c \in H
    BY <1>11, <1>17, <1>19
  <2>2. \A k \in a .. c - 1 : k \notin H
    <3>1. \A k \in T : c <= k /\ k \in Nat
      BY <1>10, <1>16, <1>19
    <3>2. QED
      BY <1>12, <1>17, <1>19, <3>1
  <2>3. QED
    BY <1>4, <1>11, <2>1, <2>2, FirstStop
<1>20. ASSUME c # NULL, ~ Match(m, c, t) PROVE H = Hits(m, t, c + 1)
  <2>1. PICK d : d = c + 1
    OBVIOUS
  <2>2. d \in a .. e /\ d + strlen(m)[d] = e
    BY <1>5, <1>17, <1>20, <2>1
  <2>3. Hits(m, t, d) = {b \in d .. e : Match(m, b, t)}
    BY <2>2 DEF Hits
  <2>4. ASSUME NEW b \in H PROVE b \in d .. e
    <3>1. b \in T /\ b \in a .. e /\ b # c
      BY <1>11, <1>12, <1>20
    <3>2. c <= b
      BY <1>16, <1>20, <3>1
    <3>3. QED
      BY <1>4, <1>17, <1>20, <2>1, <3>1, <3>2
  <2>5. \A b \in d .. e : b \in a .. e
    BY <1>4, <2>2
  <2>6. H = {b \in d .. e : Match(m, b, t)}
    BY <1>11, <2>4, <2>5
  <2>7. QED
    BY <2>1, <2>3, <2>6
<1>21. ASSUME c # NULL PROVE c + 1 \in StringsIn(m)
  BY <1>5, <1>17, <1>21
<1>22. QED
  BY <1>15, <1>17, <1>18, <1>19, <1>20, <1>21 DEF H

LEMMA StrstrFinds ==
  ASSUME NEW m \in [Addr -> Char], NEW s \in StringsIn(m), NEW t \in StringsIn(m)
  PROVE  strstr(m, s, t) = First(Hits(m, t, s), NULL)
<1>1. CASE m[t] = 0
  <2>1. PICK n : n = strlen(m)[t]
    OBVIOUS
  <2>2. PICK l : l = strlen(m)[s]
    OBVIOUS
  <2>3. s \in Nat /\ l \in Nat
    BY <2>2, StringIs
  <2>4. n = 0
    <3>1. n \in Nat /\ t \in Nat /\ \A k \in 0 .. n - 1 : m[t + k] # 0
      BY <2>1, StringIs
    <3>2. n # 0 => 0 \in 0 .. n - 1 /\ t + 0 = t
      BY <3>1
    <3>3. n # 0 => m[t + 0] # 0 /\ m[t + 0] = m[t]
      BY <3>1, <3>2
    <3>4. QED
      BY <1>1, <3>3
  <2>5. Match(m, s, t)
    <3>1. 0 <= l /\ \A k \in 0 .. 0 - 1 : m[s + k] = m[t + k]
      BY <2>3
    <3>2. Match(m, s, t) <=> /\ strlen(m)[t] <= strlen(m)[s]
                             /\ \A k \in 0 .. strlen(m)[t] - 1 : m[s + k] = m[t + k]
      BY MatchIs
    <3>3. strlen(m)[t] = 0 /\ strlen(m)[s] = l
      BY <2>1, <2>2, <2>4
    <3>4. QED
      BY <3>1, <3>2, <3>3, Zenon
  <2>6. PICK e : e = s + l
    OBVIOUS
  <2>7. PICK H : H = Hits(m, t, s)
    OBVIOUS
  <2>8. e \in Nat /\ H \in SUBSET (s .. e) /\ s \in H /\ \A k \in s .. s - 1 : k \notin H
    BY <2>2, <2>3, <2>5, <2>6, <2>7 DEF Hits
  <2>9. First(H, NULL) = s
    BY <2>3, <2>8, FirstStop
  <2>10. QED
    BY <1>1, <2>7, <2>9 DEF strstr
<1>2. CASE m[t] # 0
  <2> DEFINE D == StringsIn(m)
             c(a) == strchr(m, a, m[t])
             r(a) == First(Hits(m, t, a), NULL)
             found(a) == RestFound(m, a, t)
             IsIt(f) == f = [a \in D |-> IF c(a) = NULL THEN NULL
                                         ELSE IF found(c(a)) THEN c(a) ELSE f[c(a) + 1]]
  <2>1. ASSUME NEW a \in D, c(a) # NULL PROVE c(a) + 1 \in D /\ a < c(a) + 1
    BY <1>2, <2>1, StrstrRound
  <2>2. ASSUME NEW a \in D
        PROVE  r(a) = IF c(a) = NULL THEN NULL ELSE IF found(c(a)) THEN c(a) ELSE r(c(a) + 1)
    <3>1. CASE c(a) = NULL
      <4>1. Hits(m, t, a) = {}
        BY <1>2, <3>1, StrstrRound
      <4>2. QED
        BY <3>1, <4>1 DEF First
    <3>2. CASE c(a) # NULL
      <4>1. /\ found(c(a)) => r(a) = c(a)
            /\ ~ found(c(a)) => Hits(m, t, a) = Hits(m, t, c(a) + 1)
        BY <1>2, <3>2, StrstrRound
      <4>2. QED
        BY <3>2, <4>1
    <3>3. QED
      BY <3>1, <3>2
  <2>3. Size - 1 \in Nat /\ D \subseteq 0 .. Size - 1
    BY MemoryAssumption DEF StringsIn, Addr
  <2>4. strstr(m, s, t) = (CHOOSE f : IsIt(f))[s]
    BY <1>2 DEF strstr
  <2>5. s \in D
    OBVIOUS
  <2> HIDE DEF D, c, r, found
  <2>6. \E f : IsIt(f)
    <3> DEFINE g == [a \in D |-> r(a)]
    <3>1. ASSUME NEW a \in D
          PROVE  g[a] = IF c(a) = NULL THEN NULL ELSE IF found(c(a)) THEN c(a) ELSE g[c(a) + 1]
      <4>1. c(a) # NULL => g[c(a) + 1] = r(c(a) + 1)
        BY <2>1
      <4>2. QED
        BY <2>2, <4>1
    <3>2. g = [a \in D |-> g[a]]
      OBVIOUS
    <3> HIDE DEF g
    <3>3. IsIt(g)
      BY <3>1, <3>2
    <3>4. QED
      BY <3>3
  <2>7. PICK f : f = CHOOSE h : IsIt(h)
    OBVIOUS
  <2>8. IsIt(f)
    <3> HIDE DEF IsIt
    <3>1. QED
      BY <2>6, <2>7
  <2>9. \A a \in D : f[a] = IF c(a) = NULL THEN NULL
                           ELSE IF found(c(a)) THEN c(a) ELSE f[c(a) + 1]
    BY <2>8
  <2> DEFINE G == {a \in D : f[a] = r(a)}
  <2>10. ASSUME NEW a \in D, \A b \in D : a < b => b \in G PROVE a \in G
    <3>1. c(a) # NULL => f[c(a) + 1] = r(c(a) + 1)
      BY <2>1, <2>10
    <3>2. QED
      BY <2>2, <2>9, <3>1
  <2>11. D \subseteq G
    <3> HIDE DEF G
    <3>1. QED
      BY <2>3, <2>10, Backwards
  <2>12. f[s] = r(s)
    BY <2>5, <2>11
  <2>13. QED
    BY <2>4, <2>7, <2>12 DEF r
<1>3. QED
  BY <1>1, <1>2

-----------------------------------------------------------------------------
LEMMA MemoryScans ==
  ASSUME NEW m \in [Addr -> Char]
  PROVE  ScansAgree(m)
<1>1. BlocksAgree(m)
  <2>1. \A n \in Pointer : n \in Nat
    BY MemoryAssumption DEF Pointer
  <2>2. \A s, n \in Pointer, c \in 0 .. 2 * Base - 1 :
          memchr(m, s, c, n) = First({a \in s .. s + n - 1 : m[a] = c % Base}, NULL)
    BY <2>1, MemchrFinds
  <2>3. \A s1, s2, n \in Pointer :
          memcmp(m, s1, s2, n)
            = Compared([i \in 1 .. n |-> m[s1 + i - 1]], [i \in 1 .. n |-> m[s2 + i - 1]])
    <3>1. ASSUME NEW s1 \in Pointer, NEW s2 \in Pointer, NEW n \in Pointer
          PROVE  memcmp(m, s1, s2, n)
                   = Compared([i \in 1 .. n |-> m[s1 + i - 1]], [i \in 1 .. n |-> m[s2 + i - 1]])
      <4>1. s1 \in Nat /\ s2 \in Nat /\ n \in Nat
        BY <2>1
      <4>2. QED
        BY <4>1, MemcmpFinds
    <3>2. QED
      BY <3>1, Zenon
  <2>4. QED
    BY <2>2, <2>3 DEF BlocksAgree
<1>2. ASSUME NEW s \in StringsIn(m) PROVE StringAgrees(m, s)
  <2>1. Len(Str(m, s)) = strlen(m)[s]
    BY StringIs
  <2>2. ASSUME NEW c
        PROVE  /\ strchr(m, s, c) = First({a \in s .. s + Len(Str(m, s)) : m[a] = c % Base}, NULL)
               /\ strrchr(m, s, c) = Final({a \in s .. s + Len(Str(m, s)) : m[a] = c % Base}, NULL)
    <3>1. /\ strchr(m, s, c) = First({a \in s .. s + strlen(m)[s] : m[a] = c % Base}, NULL)
          /\ strrchr(m, s, c) = Final({a \in s .. s + strlen(m)[s] : m[a] = c % Base}, NULL)
      BY StrchrFinds, StrrchrFinds
    <3>2. QED
      BY <2>1, <3>1, Zenon
  <2>3. QED
    BY <2>1, <2>2 DEF StringAgrees
<1>3. ASSUME NEW s \in StringsIn(m), NEW t \in StringsIn(m) PROVE PairAgrees(m, s, t)
  <2>1. PICK l : l = strlen(m)[s]
    OBVIOUS
  <2>2. PICK k : k = strlen(m)[t]
    OBVIOUS
  <2>3. Len(Str(m, s)) = l /\ Len(Str(m, t)) = k /\ l \in Nat /\ k \in Nat /\ strlen(m)[s] = l
    BY <2>1, <2>2, StringIs
  <2>4. strspn(m, s, t) = First({a \in s .. s + l : m[a] \notin Set(m, t)}, NULL) - s
    BY <2>1, StrspnFinds
  <2>5. /\ strcspn(m, s, t) = First({a \in s .. s + l : m[a] \in Set(m, t)}, s + l) - s
        /\ strpbrk(m, s, t) = First({a \in s .. s + l : m[a] \in Set(m, t)}, NULL)
    BY <2>1, StrcspnFinds
  <2>6. strcmp(m, s, t) = Compared(Padded(m, s, l + k + 1), Padded(m, t, l + k + 1))
    <3>1. PICK long : long = l + k + 1
      OBVIOUS
    <3>2. long \in Nat /\ l < long
      BY <2>3, <3>1
    <3>3. strcmp(m, s, t) = Compared(Padded(m, s, long), Padded(m, t, long))
      BY <2>1, <3>2, StrcmpFinds
    <3>4. QED
      BY <3>1, <3>3
  <2>7. \A n \in Pointer : strncmpy(m, s, t, n) = Compared(Padded(m, s, n), Padded(m, t, n))
    <3>1. \A n \in Pointer : n \in Nat
      BY MemoryAssumption DEF Pointer
    <3>2. QED
      BY <3>1, StrncmpyFinds
  <2>8. strstr(m, s, t) = First({a \in s .. s + l : Match(m, a, t)}, NULL)
    <3>1. strstr(m, s, t) = First(Hits(m, t, s), NULL)
      BY StrstrFinds
    <3>2. QED
      BY <2>1, <3>1 DEF Hits
  <2> DEFINE hits == {a \in s .. s + l : m[a] \in Set(m, t)}
             long == l + k + 1
             Agree == /\ strspn(m, s, t) = First({a \in s .. s + l : m[a] \notin Set(m, t)}, NULL) - s
                      /\ strcspn(m, s, t) = First(hits, s + l) - s
                      /\ strpbrk(m, s, t) = First(hits, NULL)
                      /\ strcmp(m, s, t) = Compared(Padded(m, s, long), Padded(m, t, long))
                      /\ \A n \in Pointer :
                           strncmpy(m, s, t, n) = Compared(Padded(m, s, n), Padded(m, t, n))
                      /\ strstr(m, s, t) = First({a \in s .. s + l : Match(m, a, t)}, NULL)
  <2>9. Agree
    BY <2>4, <2>5, <2>6, <2>7, <2>8, Zenon
  <2>10. QED
    BY <2>3, <2>9, Zenon DEF PairAgrees
<1>4. QED
  BY <1>1, <1>2, <1>3 DEF ScansAgree

-----------------------------------------------------------------------------
(* The memory holds bytes, and keeps to them in every call.                *)
Bytes == before \in [Addr -> Char] /\ call.c \in Nat

LEMMA MovedBytes ==
  ASSUME Inv, Bytes, call.fn = "memmove"
  PROVE  mem \in [Addr -> Char]
<1>1. PICK s1, s2, n : s1 = call.s1 /\ s2 = call.s2 /\ n = call.n
  OBVIOUS
<1>2. /\ s1 \in Nat /\ s2 \in Nat /\ n \in Nat /\ s1 + n <= Size /\ s2 + n <= Size
      /\ left \in Nat /\ left <= n
  BY <1>1 DEF Inv, Memmove, Bounds
<1>3. PICK lo \in Nat, hi \in Nat : s1 <= lo /\ hi <= s1 + n /\ Moving(lo .. hi - 1)
  <2>1. CASE loop = "back"
    <3>1. Moving(s1 + left .. s1 + n - 1)
      BY <1>1, <2>1 DEF Inv, Memmove, Back
    <3>2. s1 + left \in Nat /\ s1 + n \in Nat /\ s1 <= s1 + left /\ s1 + n <= s1 + n
      BY <1>2
    <3>3. PICK lo, hi : lo = s1 + left /\ hi = s1 + n
      OBVIOUS
    <3>4. lo \in Nat /\ hi \in Nat /\ s1 <= lo /\ hi <= s1 + n
      BY <3>2, <3>3
    <3>5. lo .. hi - 1 = s1 + left .. s1 + n - 1
      BY <1>2, <3>3, <3>4
    <3>6. Moving(lo .. hi - 1)
      BY <3>1, <3>5, Zenon
    <3>7. QED
      BY <3>4, <3>6
  <2>2. CASE loop = "forward"
    <3>1. Moving(s1 .. s1 + (n - left) - 1)
      BY <1>1, <2>2 DEF Inv, Memmove, Forward
    <3>2. s1 + (n - left) \in Nat /\ s1 <= s1 /\ s1 + (n - left) <= s1 + n
      BY <1>2
    <3>3. QED
      BY <1>2, <3>1, <3>2
  <2>3. QED
    BY <2>1, <2>2 DEF Inv, Memmove
<1>4. ASSUME NEW a \in Addr PROVE mem[a] \in Char
  <2>1. a \in lo .. hi - 1 => a - s1 + s2 \in Addr
    BY <1>2, <1>3, MemoryAssumption DEF Addr
  <2>2. mem[a] = IF a \in lo .. hi - 1 THEN before[a - s1 + s2] ELSE before[a]
    BY <1>1, <1>3 DEF Moving
  <2>3. QED
    BY <2>1, <2>2 DEF Bytes
<1>5. mem = [a \in Addr |-> mem[a]]
  BY DEF Inv, Shape
<1>6. QED
  BY <1>4, <1>5

LEMMA WrittenBytes ==
  ASSUME Writing, Bytes, call.fn \in Others
  PROVE  mem \in [Addr -> Char]
<1>1. PICK c : c = call
  OBVIOUS
<1>2. PICK b : b = before
  OBVIOUS
<1>3. Legal(c, b) /\ b \in [Addr -> Char] /\ c.c \in Nat
  BY <1>1, <1>2 DEF Writing, Bytes
<1>4. PICK k \in Nat : k <= Total(c, b) /\ mem = After(c, b, k)
  BY <1>1, <1>2 DEF Writing, AtByte
<1>5. c.s2 \in Nat /\ Start(c, b) \in Nat /\ Total(c, b) \in Nat
  BY <1>3, LegalTypes DEF Legal
<1>6. 0 \in Char /\ c.c % Base \in Char
  BY <1>3, MemoryAssumption DEF Char
<1>7. ASSUME NEW i \in Nat, i < Total(c, b) PROVE Byte(c, b, i) \in Char
  <2>1. CASE c.fn = "memset"
    BY <1>6, <2>1 DEF Byte
  <2>2. CASE c.fn = "memcpy"
    <3>1. Total(c, b) = c.n /\ c.s2 + c.n <= Size /\ c.n \in Nat
      BY <1>3, <2>2 DEF Total, Legal
    <3>2. c.s2 + i \in Addr
      BY <1>5, <1>7, <3>1, MemoryAssumption DEF Addr
    <3>3. QED
      BY <1>3, <2>2, <3>2 DEF Byte
  <2>3. CASE c.fn \in OnStrings
    <3>1. PICK l : l = strlen(b)[c.s2]
      OBVIOUS
    <3>2. PICK t : t = Taken(c, b)
      OBVIOUS
    <3>3. l \in Nat /\ c.s2 + l < Size /\ t \in Nat /\ c.n \in Nat
      BY <1>3, <2>3, <3>1, <3>2, LegalTypes DEF Legal
    <3>4. t <= l
      BY <3>1, <3>2, <3>3 DEF Taken
    <3>5. i < t => c.s2 + i \in Addr
      BY <1>5, <3>3, <3>4, MemoryAssumption DEF Addr
    <3>6. Byte(c, b, i) = IF i < t THEN b[c.s2 + i] ELSE 0
      BY <2>3, <3>2 DEF Byte, OnStrings
    <3>7. QED
      BY <1>3, <1>6, <3>5, <3>6
  <2>4. QED
    BY <1>3, <2>1, <2>2, <2>3 DEF Legal, Others, OnStrings
<1>8. ASSUME NEW a \in Addr PROVE mem[a] \in Char
  <2>1. PICK s : s = Start(c, b)
    OBVIOUS
  <2>2. mem[a] = IF a \in s .. s + k - 1 THEN Byte(c, b, a - s) ELSE b[a]
    BY <1>4, <2>1 DEF After
  <2>3. a \in s .. s + k - 1 => a - s \in Nat /\ a - s < Total(c, b)
    BY <1>4, <1>5, <2>1
  <2>4. PICK i : i = a - s
    OBVIOUS
  <2>5. a \in s .. s + k - 1 => Byte(c, b, i) \in Char
    BY <1>7, <2>3, <2>4
  <2>6. QED
    BY <1>3, <2>2, <2>4, <2>5
<1>9. mem = [a \in Addr |-> mem[a]]
  BY <1>4 DEF After
<1>10. QED
  BY <1>8, <1>9

LEMMA MemoryBytes ==
  ASSUME Inv, Writing, Known, Bytes
  PROVE  mem \in [Addr -> Char]
<1>1. CASE call.fn = "none"
  BY <1>1 DEF Inv, Shape, Bytes
<1>2. QED
  BY <1>1, MovedBytes, WrittenBytes DEF Known

LEMMA BytesStep == Inv /\ Writing /\ Known /\ Bytes /\ [Next]_vars => Bytes'
<1> SUFFICES ASSUME Inv, Writing, Known, Bytes, [Next]_vars PROVE Bytes'
  OBVIOUS
<1>1. CASE Begin
  <2>1. 0 \in Nat /\ \A c \in 0 .. 2 * Base - 1 : c \in Nat
    OBVIOUS
  <2>2. call'.c \in Nat
    BY <1>1, <2>1 DEF Begin, memmove, memcpy, memset, strcpy, strcat, strncpy, strncat, Call
  <2>3. before' = before
    BY <1>1 DEF Begin, memmove, memcpy, memset, strcpy, strcat, strncpy, strncat, Call
  <2>4. QED
    BY <2>2, <2>3 DEF Bytes
<1>2. CASE Return
  BY <1>2, MemoryBytes DEF Return, Idle, Bytes
<1>3. CASE CopyBack \/ CopyForward \/ Fill \/ CopyString \/ CopyCounted \/ EndCounted
  BY <1>3 DEF CopyBack, CopyForward, Fill, CopyString, CopyCounted, EndCounted, Store, Bytes
<1>4. CASE UNCHANGED vars
  BY <1>4 DEF vars, Bytes
<1>5. QED
  BY <1>1, <1>2, <1>3, <1>4 DEF Next

(* Whatever the memory holds, and whatever the calls before it wrote, what *)
(* strlen, strspn, strcspn, strpbrk, memchr, strchr, strrchr, memcmp,      *)
(* strcmp, strncmpy and strstr find in it (string.c:2-24, 71-85, 97-110,   *)
(* 124-131, 144-180) is what C says of the strings there: the first or     *)
(* the last place, the order at the first difference, a null pointer.      *)
THEOREM ScansAlwaysFind == Spec => []ScansFind
<1>1. Init => Inv /\ Writing /\ Known /\ Bytes
  BY InitInv DEF Init, Idle, Writing, Known, Others, Bytes
<1>2. Inv /\ Writing /\ Known /\ Bytes /\ [Next]_vars
        => Inv' /\ Writing' /\ Known' /\ Bytes'
  BY StepInv, WritingStep, KnownStep, BytesStep DEF Inv
<1>3. Inv /\ Writing /\ Known /\ Bytes => ScansFind
  BY MemoryBytes, MemoryScans DEF ScansFind
<1>4. QED
  BY <1>1, <1>2, <1>3, PTL DEF Spec

-----------------------------------------------------------------------------
(* strtok: what its module names is what is named above.                   *)
LEMMA SameMemory == Tok!Addr = Addr /\ Tok!Char = Char
BY DEF Tok!Addr, Addr, Tok!Char, Char

LEMMA SameStrings ==
  ASSUME NEW m
  PROVE  Tok!StringsIn(m) = StringsIn(m) /\ Tok!strlen(m) = strlen(m)
<1>1. Tok!StringsIn(m) = StringsIn(m)
  BY DEF Tok!StringsIn, StringsIn, Tok!Addr, Addr
<1>2. Tok!strlen(m) = strlen(m)
  BY <1>1, Zenon DEF Tok!strlen, strlen
<1>3. QED
  BY <1>1, <1>2

LEMMA SameCharacters ==
  ASSUME NEW m, NEW s
  PROVE  Tok!Str(m, s) = Str(m, s) /\ Tok!Set(m, s) = Set(m, s)
<1>1. Tok!Str(m, s) = Str(m, s)
  BY Zenon DEF Tok!Str, Str, Tok!Pointer, Pointer
<1>2. Tok!Set(m, s) = Set(m, s)
  BY <1>1, Zenon DEF Tok!Set, Set
<1>3. QED
  BY <1>1, <1>2

LEMMA SameCount == \A S : Tok!Cardinality(S) = Cardinality(S)
BY Zenon DEF Tok!Cardinality, Cardinality, Tok!IsFiniteSet, IsFiniteSet

LEMMA SameScans ==
  ASSUME NEW m, NEW s, NEW t
  PROVE  Tok!strspn(m, s, t) = strspn(m, s, t) /\ Tok!strcspn(m, s, t) = strcspn(m, s, t)
<1>1. Tok!StringsIn(m) = StringsIn(m) /\ Tok!strlen(m) = strlen(m)
  BY SameStrings
<1>2. Tok!Among(m, t) = Among(m, t)
  BY <1>1, Zenon DEF Tok!Among, Among
<1>3. \A places, stop : Tok!Until(places, stop) = Until(places, stop)
  BY Zenon DEF Tok!Until, Until
<1>4. QED
  BY <1>1, <1>2, <1>3, Zenon DEF Tok!strspn, strspn, Tok!strcspn, strcspn

(* strtok: a token in the memory m, whose string at s1 was that of b.      *)
EndsAfter(m, s, n) == s + n < Size /\ m[s + n] = 0 /\ \A k \in 0 .. n - 1 : m[s + k] # 0

LEMMA StrlenIs ==
  ASSUME NEW m, NEW s \in Nat, NEW n \in Nat, EndsAfter(m, s, n)
  PROVE  s \in StringsIn(m) /\ strlen(m)[s] = n
<1>1. s + n < Size /\ m[s + n] = 0 /\ \A k \in 0 .. n - 1 : m[s + k] # 0
  BY DEF EndsAfter
<1>2. s \in Addr /\ s + n \in s .. Size - 1
  BY <1>1, MemoryAssumption DEF Addr
<1>3. s \in StringsIn(m)
  BY <1>1, <1>2 DEF StringsIn
<1>4. PICK l : l = strlen(m)[s]
  OBVIOUS
<1>5. l \in Nat /\ m[s + l] = 0 /\ \A k \in 0 .. l - 1 : m[s + k] # 0
  BY <1>3, <1>4, StringIs
<1>6. l < n => l \in 0 .. n - 1
  BY <1>5
<1>7. n < l => n \in 0 .. l - 1
  BY <1>5
<1>8. l = n
  BY <1>1, <1>5, <1>6, <1>7
<1>9. QED
  BY <1>3, <1>4, <1>8

LEMMA SameString ==
  ASSUME NEW m, NEW b, NEW s \in StringsIn(b), \A a \in s .. Size - 1 : m[a] = b[a]
  PROVE  s \in StringsIn(m) /\ strlen(m)[s] = strlen(b)[s] /\ Set(m, s) = Set(b, s)
<1>1. PICK n : n = strlen(b)[s]
  OBVIOUS
<1>2. /\ s \in Nat /\ n \in Nat /\ s + n < Size /\ b[s + n] = 0
      /\ \A k \in 0 .. n - 1 : b[s + k] # 0
      /\ Str(b, s) = [i \in 1 .. n |-> b[s + i - 1]]
  BY <1>1, StringIs
<1>3. ASSUME NEW k \in 0 .. n PROVE m[s + k] = b[s + k]
  <2>1. s + k \in s .. Size - 1
    <3>1. k \in Nat /\ k <= n /\ Size \in Nat
      BY <1>2, MemoryAssumption
    <3>2. QED
      BY <1>2, <3>1
  <2>2. QED
    BY <2>1
<1>4. m[s + n] = 0 /\ \A k \in 0 .. n - 1 : m[s + k] # 0
  <2>1. n \in 0 .. n /\ \A k \in 0 .. n - 1 : k \in 0 .. n
    BY <1>2
  <2>2. m[s + n] = b[s + n]
    BY <1>3, <2>1
  <2>3. ASSUME NEW k \in 0 .. n - 1 PROVE m[s + k] # 0
    <3>1. m[s + k] = b[s + k] /\ b[s + k] # 0
      BY <1>2, <1>3, <2>1
    <3>2. QED
      BY <3>1
  <2>4. QED
    BY <1>2, <2>2, <2>3
<1>5. s \in StringsIn(m) /\ strlen(m)[s] = n
  <2>1. EndsAfter(m, s, n)
    BY <1>2, <1>4 DEF EndsAfter
  <2>2. QED
    BY <1>2, <2>1, StrlenIs
<1>6. Str(m, s) = [i \in 1 .. n |-> m[s + i - 1]]
  BY <1>5, StringIs
<1>7. ASSUME NEW i \in 1 .. n PROVE m[s + i - 1] = b[s + i - 1]
  <2>1. s + i - 1 \in s .. Size - 1
    BY <1>2, MemoryAssumption
  <2>2. QED
    BY <2>1
<1>8. Str(m, s) = Str(b, s)
  BY <1>2, <1>6, <1>7
<1>9. QED
  BY <1>1, <1>5, <1>8 DEF Set

(* A string and separators behind it, and what strtok may do to them.      *)
Given(b, s1, s2) ==
  /\ b \in [Addr -> Char]
  /\ s1 \in StringsIn(b) /\ s2 \in StringsIn(b) /\ s1 + strlen(b)[s1] < s2

OnlyCut(b, m, s1, s2) ==
  /\ m \in [Addr -> Char]
  /\ \A a \in Addr :
       \/ m[a] = b[a]
       \/ a \in s1 .. s1 + strlen(b)[s1] /\ b[a] \in Set(b, s2) /\ m[a] = 0

(* A place in the string up to which it is cut and from which it is whole. *)
Ahead(b, m, s1, s2, s) ==
  /\ s \in s1 .. s1 + strlen(b)[s1]
  /\ \A a \in s .. Size - 1 : m[a] = b[a]
  /\ s = s1 \/ b[s - 1] \in Set(b, s2) \/ s = s1 + strlen(b)[s1]

LEMMA Whole ==
  ASSUME NEW b, NEW m, NEW s1, NEW s2, NEW s,
         Given(b, s1, s2), OnlyCut(b, m, s1, s2), Ahead(b, m, s1, s2, s)
  PROVE  /\ s \in StringsIn(m) /\ s + strlen(m)[s] = s1 + strlen(b)[s1]
         /\ s2 \in StringsIn(m) /\ Set(m, s2) = Set(b, s2) /\ 0 \notin Set(b, s2)
<1>1. s1 \in StringsIn(b) /\ s2 \in StringsIn(b) /\ s1 + strlen(b)[s1] < s2
  BY DEF Given
<1>2. s \in s1 .. s1 + strlen(b)[s1] /\ \A a \in s .. Size - 1 : m[a] = b[a]
  BY DEF Ahead
<1>3. s \in StringsIn(b) /\ s + strlen(b)[s] = s1 + strlen(b)[s1]
  BY <1>1, <1>2, InString
<1>4. s \in StringsIn(m) /\ strlen(m)[s] = strlen(b)[s]
  BY <1>2, <1>3, SameString
<1>5. \A a \in s2 .. Size - 1 : a \in s .. Size - 1
  <2>1. PICK e : e = s1 + strlen(b)[s1]
    OBVIOUS
  <2>2. s1 \in Nat /\ e \in Nat /\ s2 \in Nat
    BY <1>1, <2>1, StringIs
  <2>3. s \in Nat /\ s <= e /\ e < s2
    BY <1>1, <1>2, <2>1, <2>2
  <2>4. QED
    BY <2>2, <2>3, MemoryAssumption
<1>6. s2 \in StringsIn(m) /\ Set(m, s2) = Set(b, s2)
  BY <1>1, <1>2, <1>5, SameString
<1>7. 0 \notin Set(b, s2)
  BY <1>1, AmongIs
<1>8. QED
  BY <1>3, <1>4, <1>6, <1>7

(* What it steps over, and the token it finds, up to the end e.            *)
Skipped(b, seps, s, sb, e) ==
  sb \in s .. e /\ b[sb] \notin seps /\ \A k \in s .. sb - 1 : b[k] \in seps

Spanned(b, seps, sb, se, e) ==
  /\ se \in sb .. e /\ (se = e \/ b[se] \in seps)
  /\ \A k \in sb .. se - 1 : b[k] \notin seps

LEMMA Skips ==
  ASSUME NEW b, NEW m, NEW s1, NEW s2, NEW s,
         Given(b, s1, s2), OnlyCut(b, m, s1, s2), Ahead(b, m, s1, s2, s),
         NEW e, e = s1 + strlen(b)[s1], NEW sb, sb = s + strspn(m, s, s2)
  PROVE  /\ s \in Nat /\ e \in Nat /\ e < Size
         /\ Skipped(b, Set(b, s2), s, sb, e)
         /\ \A a \in s .. e : a \in StringsIn(m) /\ m[a] = b[a] /\ (m[a] = 0 <=> a = e)
<1>1. PICK seps : seps = Set(b, s2)
  OBVIOUS
<1>2. /\ s \in StringsIn(m) /\ s + strlen(m)[s] = e
      /\ s2 \in StringsIn(m) /\ Set(m, s2) = seps /\ 0 \notin seps
  BY <1>1, Whole
<1>3. s \in Nat /\ e \in Nat /\ e < Size /\ s <= e
  <2>1. PICK l : l = strlen(m)[s]
    OBVIOUS
  <2>2. s \in Nat /\ l \in Nat /\ s + l < Size
    BY <1>2, <2>1, StringIs
  <2>3. QED
    BY <1>2, <2>1, <2>2
<1>4. \A a \in s .. e : a \in StringsIn(m) /\ (m[a] = 0 <=> a = e)
  <2>1. ASSUME NEW a \in s .. s + strlen(m)[s]
        PROVE  a \in StringsIn(m) /\ (m[a] = 0 <=> a = s + strlen(m)[s])
    BY <1>2, InString
  <2>2. QED
    BY <1>2, <2>1
<1>5. \A a \in s .. e : m[a] = b[a]
  <2>1. \A a \in s .. e : a \in s .. Size - 1
    BY <1>3, MemoryAssumption
  <2>2. QED
    BY <2>1 DEF Ahead
<1> DEFINE T == {a \in s .. e : m[a] \notin seps}
<1>6. strspn(m, s, s2) = First(T, NULL) - s
  BY <1>2, StrspnFinds
<1>7. T \in SUBSET Nat /\ e \in T
  BY <1>2, <1>3, <1>4
<1>8. \A a : a \in T <=> a \in s .. e /\ m[a] \notin seps
  OBVIOUS
<1> HIDE DEF T
<1>9. PICK u : u = First(T, NULL)
  OBVIOUS
<1>10. u \in T /\ \A a \in T : u <= a
  BY <1>7, <1>9, FirstIs
<1>11. u \in Nat /\ sb = u
  BY <1>3, <1>6, <1>7, <1>9, <1>10
<1>12. u \in s .. e /\ b[u] \notin seps
  BY <1>5, <1>8, <1>10
<1>13. ASSUME NEW k \in s .. u - 1 PROVE b[k] \in seps
  <2>1. k \in s .. e /\ ~ u <= k
    BY <1>3, <1>12
  <2>2. QED
    BY <1>5, <1>8, <1>10, <2>1
<1>14. Skipped(b, seps, s, sb, e)
  BY <1>11, <1>12, <1>13 DEF Skipped
<1>15. QED
  BY <1>1, <1>3, <1>4, <1>5, <1>14

LEMMA Takes ==
  ASSUME NEW b, NEW m, NEW s1, NEW s2, NEW s,
         Given(b, s1, s2), OnlyCut(b, m, s1, s2), Ahead(b, m, s1, s2, s),
         NEW e, e = s1 + strlen(b)[s1],
         NEW sb \in s .. e, NEW se, se = sb + strcspn(m, sb, s2)
  PROVE  Spanned(b, Set(b, s2), sb, se, e)
<1>1. PICK seps : seps = Set(b, s2)
  OBVIOUS
<1>2. /\ s \in StringsIn(m) /\ s + strlen(m)[s] = e
      /\ s2 \in StringsIn(m) /\ Set(m, s2) = seps /\ 0 \notin seps
  BY <1>1, Whole
<1>3. s \in Nat /\ e \in Nat /\ e < Size /\ s <= e
      /\ \A a \in s .. e : a \in StringsIn(m) /\ m[a] = b[a]
  <2>1. PICK v : v = s + strspn(m, s, s2)
    OBVIOUS
  <2>2. s \in Nat /\ e \in Nat /\ e < Size /\ \A a \in s .. e : a \in StringsIn(m) /\ m[a] = b[a]
    BY <2>1, Skips
  <2>3. QED
    BY <2>2
<1>4. sb \in Nat /\ s <= sb /\ sb <= e
  BY <1>3
<1>5. sb \in StringsIn(m) /\ sb + strlen(m)[sb] = e
  <2>1. sb \in s .. s + strlen(m)[s]
    BY <1>2
  <2>2. QED
    BY <1>2, <2>1, InString
<1> DEFINE T == {a \in sb .. e : m[a] \in seps}
<1>6. strcspn(m, sb, s2) = First(T, e) - sb
  BY <1>2, <1>5, StrcspnFinds
<1>7. T \in SUBSET Nat
  BY <1>4
<1>8. \A a : a \in T <=> a \in sb .. e /\ m[a] \in seps
  OBVIOUS
<1> HIDE DEF T
<1>9. PICK u : u = First(T, e)
  OBVIOUS
<1>10. (T = {} => u = e) /\ (T # {} => u \in T /\ \A a \in T : u <= a)
  BY <1>7, <1>9, FirstIs
<1>11. u \in sb .. e /\ u \in Nat /\ (u = e \/ u \in T)
  BY <1>3, <1>4, <1>8, <1>10
<1>12. se = u
  BY <1>4, <1>6, <1>9, <1>11
<1>13. \A a \in sb .. e : a \in s .. e
  BY <1>3, <1>4
<1>14. u = e \/ b[u] \in seps
  BY <1>3, <1>8, <1>11, <1>13
<1>15. ASSUME NEW k \in sb .. u - 1 PROVE b[k] \notin seps
  <2>1. k \in sb .. e /\ ~ u <= k
    BY <1>3, <1>4, <1>11
  <2>2. k \notin T
    BY <1>10, <2>1
  <2>3. QED
    BY <1>3, <1>8, <1>13, <2>1, <2>2
<1>16. QED
  BY <1>1, <1>11, <1>12, <1>14, <1>15 DEF Spanned

(* The fields that begin between one call and the next are the one found,  *)
(* or none.                                                                *)
Begins(b, seps, s1, e, a) ==
  a \in s1 .. e - 1 /\ b[a] \notin seps /\ (a = s1 \/ b[a - 1] \in seps)

LEMMA FieldStartIs ==
  ASSUME NEW b, NEW s1 \in StringsIn(b), NEW seps,
         NEW e, e = s1 + strlen(b)[s1], NEW j \in Int
  PROVE  j \in Tok!FieldStarts(Str(b, s1), seps) <=> Begins(b, seps, s1, e, s1 + j - 1)
<1>1. PICK l : l = strlen(b)[s1]
  OBVIOUS
<1>2. PICK str : str = Str(b, s1)
  OBVIOUS
<1>3. s1 \in Nat /\ l \in Nat /\ e = s1 + l /\ str = [i \in 1 .. l |-> b[s1 + i - 1]]
  BY <1>1, <1>2, StringIs
<1>4. j \in 1 .. l <=> s1 + j - 1 \in s1 .. e - 1
  BY <1>3
<1>5. ASSUME j \in 1 .. l
      PROVE  /\ str[j] = b[s1 + j - 1] /\ (j = 1 <=> s1 + j - 1 = s1)
             /\ j # 1 => str[j - 1] = b[s1 + j - 1 - 1]
  <2>1. j = 1 <=> s1 + j - 1 = s1
    BY <1>3
  <2>2. str[j] = b[s1 + j - 1]
    BY <1>3, <1>5
  <2>3. ASSUME j # 1 PROVE str[j - 1] = b[s1 + j - 1 - 1]
    <3>1. j - 1 \in 1 .. l /\ s1 + (j - 1) - 1 = s1 + j - 1 - 1
      BY <1>3, <1>5, <2>3
    <3>2. str[j - 1] = b[s1 + (j - 1) - 1]
      BY <1>3, <3>1
    <3>3. QED
      BY <3>1, <3>2, Zenon
  <2>4. QED
    BY <2>1, <2>2, <2>3
<1>6. j \in Tok!FieldStarts(str, seps)
        <=> j \in 1 .. l /\ str[j] \notin seps /\ (j = 1 \/ str[j - 1] \in seps)
  BY <1>3 DEF Tok!FieldStarts
<1>7. CASE j \in 1 .. l
  <2>1. j \in Tok!FieldStarts(str, seps) <=> str[j] \notin seps /\ (j = 1 \/ str[j - 1] \in seps)
    BY <1>6, <1>7
  <2>2. PICK a : a = s1 + j - 1
    OBVIOUS
  <2>3. /\ str[j] = b[a] /\ (j = 1 <=> a = s1)
        /\ j # 1 => str[j - 1] = b[a - 1]
    <3>1. a - 1 = s1 + j - 1 - 1
      BY <1>3, <2>2
    <3>2. QED
      BY <1>5, <1>7, <2>2, <3>1, Zenon
  <2>4. Begins(b, seps, s1, e, a) <=> b[a] \notin seps /\ (a = s1 \/ b[a - 1] \in seps)
    <3>1. a \in s1 .. e - 1
      BY <1>4, <1>7, <2>2, Zenon
    <3>2. QED
      BY <3>1 DEF Begins
  <2>5. j \in Tok!FieldStarts(str, seps) <=> Begins(b, seps, s1, e, a)
    <3>1. CASE j = 1
      BY <2>1, <2>3, <2>4, <3>1
    <3>2. CASE j # 1
      BY <2>1, <2>3, <2>4, <3>2
    <3>3. QED
      BY <3>1, <3>2
  <2>6. QED
    BY <1>2, <2>2, <2>5, Zenon
<1>8. CASE j \notin 1 .. l
  BY <1>2, <1>4, <1>6, <1>8 DEF Begins
<1>9. QED
  BY <1>7, <1>8

FieldsIn(str, seps, x) == {j \in Tok!FieldStarts(str, seps) : j <= x}

LEMMA FieldsFinite ==
  ASSUME NEW n \in Nat, NEW str, DOMAIN str = 1 .. n, NEW seps, NEW x
  PROVE  /\ IsFiniteSet(FieldsIn(str, seps, x)) /\ Tok!FieldStarts(str, seps) \in SUBSET Int
         /\ Tok!FieldsTo(str, seps, x) = Cardinality(FieldsIn(str, seps, x))
         /\ Tok!FieldsTo(str, seps, x) \in Nat
         /\ Tok!FieldsTo(str, seps, x) <= Cardinality(Tok!FieldStarts(str, seps))
<1> DEFINE F == Tok!FieldStarts(str, seps)
           S == FieldsIn(str, seps, x)
<1>1. F \in SUBSET (1 .. n)
  BY DEF Tok!FieldStarts
<1>2. S \in SUBSET F /\ Tok!FieldsTo(str, seps, x) = Cardinality(S)
  BY SameCount DEF FieldsIn, Tok!FieldsTo
<1> HIDE DEF F, S
<1>3. IsFiniteSet(F)
  <2>1. IsFiniteSet(1 .. n)
    BY FS_Interval
  <2>2. QED
    BY <1>1, <2>1, FS_Subset
<1>4. IsFiniteSet(S) /\ Cardinality(S) <= Cardinality(F)
  BY <1>2, <1>3, FS_Subset
<1>5. Cardinality(S) \in Nat
  BY <1>4, FS_CardinalityType
<1>6. F \in SUBSET Int
  BY <1>1
<1>7. QED
  BY <1>2, <1>4, <1>5, <1>6 DEF F, S

LEMMA NextField ==
  ASSUME NEW b, NEW s1 \in StringsIn(b), NEW seps, NEW e, e = s1 + strlen(b)[s1],
         NEW s \in s1 .. e, s = s1 \/ b[s - 1] \in seps \/ s = e,
         NEW sb, Skipped(b, seps, s, sb, e), NEW str, str = Str(b, s1)
  PROVE  /\ sb = e => Tok!FieldsTo(str, seps, s - s1) = Cardinality(Tok!FieldStarts(str, seps))
         /\ sb # e => /\ sb - s1 + 1 \in Tok!FieldStarts(str, seps)
                      /\ Tok!FieldsTo(str, seps, sb - s1 + 1) = Tok!FieldsTo(str, seps, s - s1) + 1
<1>1. s1 \in Nat /\ e \in Nat
  <2>1. PICK l : l = strlen(b)[s1]
    OBVIOUS
  <2>2. s1 \in Nat /\ l \in Nat /\ e = s1 + l
    BY <2>1, StringIs
  <2>3. QED
    BY <2>2
<1>2. s \in Nat /\ s1 <= s /\ s <= e
  BY <1>1
<1>3. sb \in Nat /\ s <= sb /\ sb <= e /\ b[sb] \notin seps /\ \A k \in s .. sb - 1 : b[k] \in seps
  BY <1>1, <1>2 DEF Skipped
<1> DEFINE F == Tok!FieldStarts(str, seps)
           B(a) == Begins(b, seps, s1, e, a)
           lo == s - s1
           i == sb - s1 + 1
           S == FieldsIn(str, seps, lo)
           T == FieldsIn(str, seps, i)
<1>4. /\ IsFiniteSet(S) /\ Tok!FieldsTo(str, seps, lo) = Cardinality(S)
      /\ Tok!FieldsTo(str, seps, i) = Cardinality(T) /\ F \in SUBSET Int
  <2>1. PICK l : l = strlen(b)[s1]
    OBVIOUS
  <2>2. l \in Nat /\ DOMAIN str = 1 .. l
    BY <2>1, StringIs
  <2>3. QED
    BY <2>2, FieldsFinite
<1>5. \A j \in Int : j \in F <=> B(s1 + j - 1)
  BY FieldStartIs
<1>6. \A a \in Int : B(a) => s1 <= a /\ a < e /\ b[a] \notin seps
  BY <1>1 DEF Begins
<1>7. sb # e => B(sb)
  <2>1. ASSUME sb # e PROVE sb = s1 \/ b[sb - 1] \in seps
    <3>1. CASE sb = s
      BY <1>2, <2>1, <3>1
    <3>2. CASE sb # s
      <4>1. sb - 1 \in s .. sb - 1
        BY <1>2, <1>3, <3>2
      <4>2. QED
        BY <1>3, <4>1
    <3>3. QED
      BY <3>1, <3>2
  <2>2. sb # e => sb \in s1 .. e - 1
    BY <1>1, <1>2, <1>3
  <2>3. QED
    BY <1>3, <2>1, <2>2 DEF Begins
<1>8. \A a \in Int : B(a) => ~ (s <= a /\ a < sb)
  <2>1. \A a \in Int : s <= a /\ a < sb => a \in s .. sb - 1
    BY <1>2, <1>3
  <2>2. QED
    BY <1>3, <1>6, <2>1
<1>9. (\A j : j \in S <=> j \in F /\ j <= lo) /\ (\A j : j \in T <=> j \in F /\ j <= i)
  BY DEF FieldsIn
<1> HIDE DEF F, B, S, T
<1>10. ASSUME sb = e, NEW j \in F PROVE j <= lo
  <2>1. j \in Int /\ B(s1 + j - 1)
    BY <1>4, <1>5
  <2>2. s1 + j - 1 \in Int /\ s1 + j - 1 < e /\ ~ (s <= s1 + j - 1 /\ s1 + j - 1 < sb)
    BY <1>1, <1>6, <1>8, <2>1
  <2>3. QED
    BY <1>1, <1>2, <1>10, <2>1, <2>2
<1>11. ASSUME sb # e PROVE i \in F /\ i \notin S /\ T = S \cup {i}
  <2>1. i \in Int /\ s1 + i - 1 = sb /\ ~ (i <= lo)
    BY <1>1, <1>2, <1>3
  <2>2. i \in F
    BY <1>5, <1>7, <1>11, <2>1
  <2>3. ASSUME NEW j \in F, j <= i, j # i PROVE j <= lo
    <3>1. j \in Int /\ B(s1 + j - 1)
      BY <1>4, <1>5
    <3>2. s1 + j - 1 \in Int /\ ~ (s <= s1 + j - 1 /\ s1 + j - 1 < sb)
      BY <1>1, <1>8, <3>1
    <3>3. QED
      BY <1>1, <1>2, <1>3, <2>3, <3>1, <3>2
  <2>4. ASSUME NEW j \in F, j <= lo PROVE j <= i
    BY <1>1, <1>2, <1>3, <1>4, <2>4
  <2>5. QED
    BY <1>9, <2>1, <2>2, <2>3, <2>4
<1>12. CASE sb = e
  <2>1. S = F
    BY <1>9, <1>10, <1>12
  <2>2. QED
    BY <1>4, <1>12, <2>1 DEF F
<1>13. CASE sb # e
  <2>1. PICK p : p = i
    OBVIOUS
  <2>2. T = S \cup {p} /\ p \notin S
    BY <1>11, <1>13, <2>1
  <2> HIDE DEF S, T, i, lo
  <2>3. Cardinality(T) = Cardinality(S) + 1
    BY <1>4, <2>2, FS_AddElement
  <2>4. Tok!FieldsTo(str, seps, i) = Tok!FieldsTo(str, seps, lo) + 1
    BY <1>4, <2>3
  <2>5. QED
    BY <1>11, <1>13, <2>4 DEF F, i, lo
<1>14. QED
  BY <1>12, <1>13

(* The place kept for the next call: behind the separator cut, or at the   *)
(* string's own end.                                                       *)
Kept(se, e) == IF se = e THEN se ELSE se + 1

LEMMA NoFieldMissed ==
  ASSUME NEW b, NEW s1 \in StringsIn(b), NEW seps, NEW e, e = s1 + strlen(b)[s1],
         NEW sb \in s1 .. e, sb # e, b[sb] \notin seps,
         NEW se, Spanned(b, seps, sb, se, e), NEW str, str = Str(b, s1)
  PROVE  Tok!FieldsTo(str, seps, Kept(se, e) - s1) = Tok!FieldsTo(str, seps, sb - s1 + 1)
<1>1. s1 \in Nat /\ e \in Nat /\ Tok!FieldStarts(str, seps) \in SUBSET Int
  <2>1. PICK l : l = strlen(b)[s1]
    OBVIOUS
  <2>2. s1 \in Nat /\ l \in Nat /\ e = s1 + l /\ DOMAIN str = 1 .. l
    BY <2>1, StringIs
  <2>3. Tok!FieldStarts(str, seps) \in SUBSET Int
    BY <2>2, FieldsFinite
  <2>4. QED
    BY <2>2, <2>3
<1>2. sb \in Nat /\ s1 <= sb /\ sb <= e
  BY <1>1
<1>3. /\ se \in Nat /\ sb <= se /\ se <= e /\ (se = e \/ b[se] \in seps)
      /\ \A k \in sb .. se - 1 : b[k] \notin seps
  BY <1>1, <1>2 DEF Spanned
<1>4. sb < se
  BY <1>2, <1>3
<1> DEFINE B(a) == Begins(b, seps, s1, e, a)
<1>5. \A j \in Int : j \in Tok!FieldStarts(str, seps) <=> B(s1 + j - 1)
  BY FieldStartIs
<1>6. ASSUME NEW a \in Int, B(a) PROVE a < e /\ ~ (sb < a /\ a <= se)
  <2>1. a < e /\ a # se /\ a \in s1 .. e - 1 /\ (a = s1 \/ b[a - 1] \in seps)
    BY <1>1, <1>3, <1>6 DEF Begins
  <2>2. sb < a /\ a < se => a - 1 \in sb .. se - 1 /\ a # s1
    BY <1>2, <1>3
  <2>3. QED
    BY <1>3, <2>1, <2>2
<1> HIDE DEF B
<1>7. ASSUME NEW j \in Tok!FieldStarts(str, seps)
      PROVE  j <= Kept(se, e) - s1 <=> j <= sb - s1 + 1
  <2>1. j \in Int /\ B(s1 + j - 1)
    BY <1>1, <1>5
  <2>2. s1 + j - 1 \in Int /\ s1 + j - 1 < e /\ ~ (sb < s1 + j - 1 /\ s1 + j - 1 <= se)
    BY <1>1, <1>6, <2>1
  <2>3. QED
    BY <1>1, <1>2, <1>3, <1>4, <2>1, <2>2 DEF Kept
<1>8. QED
  BY <1>7 DEF Tok!FieldsTo

LEMMA Subsequence ==
  ASSUME NEW x, NEW i \in Nat, NEW j \in Nat, i <= j
  PROVE  SubSeq(x, i, j) = [k \in 1 .. j - i + 1 |-> x[i + k - 1]]
<1> DEFINE T == {x[k] : k \in i .. j}
           z == SubSeq(x, i, j)
<1>1. \A k \in i .. j : x[k] \in T
  OBVIOUS
<1> HIDE DEF T
<1>2. z \in Seq(T)
  BY <1>1, SubSeqProperties
<1>3. Len(z) = j - i + 1
  <2>1. Len(z) = IF i <= j THEN j - i + 1 ELSE 0
    BY <1>1, SubSeqProperties
  <2>2. QED
    BY <2>1
<1>4. \A k \in 1 .. j - i + 1 : z[k] = x[i + k - 1]
  BY <1>1, SubSeqProperties
<1> HIDE DEF z
<1>5. z = [k \in 1 .. Len(z) |-> z[k]]
  BY <1>2
<1>6. z = [k \in 1 .. j - i + 1 |-> x[i + k - 1]]
  BY <1>3, <1>4, <1>5
<1>7. QED
  BY <1>6 DEF z

LEMMA FieldIs ==
  ASSUME NEW b, NEW s1 \in StringsIn(b), NEW seps, NEW e, e = s1 + strlen(b)[s1],
         NEW sb \in s1 .. e, sb # e, b[sb] \notin seps,
         NEW se, Spanned(b, seps, sb, se, e), NEW str, str = Str(b, s1),
         NEW i, i = sb - s1 + 1, i \in Tok!FieldStarts(str, seps),
         NEW field, field = [k \in 1 .. se - sb |-> b[sb + k - 1]]
  PROVE  Tok!IsField(str, seps, Tok!FieldsTo(str, seps, i), field)
<1>1. PICK l : l = strlen(b)[s1]
  OBVIOUS
<1>2. /\ s1 \in Nat /\ l \in Nat /\ e = s1 + l /\ str = [k \in 1 .. l |-> b[s1 + k - 1]]
      /\ Len(str) = l
  BY <1>1, StringIs
<1>3. sb \in Nat /\ s1 <= sb /\ sb <= e
  BY <1>2
<1>4. /\ se \in Nat /\ sb <= se /\ se <= e /\ (se = e \/ b[se] \in seps)
      /\ \A k \in sb .. se - 1 : b[k] \notin seps
  BY <1>2, <1>3 DEF Spanned
<1>5. sb < se
  BY <1>3, <1>4
<1>6. PICK n : n = se - s1
  OBVIOUS
<1>7. i \in Nat /\ n \in Nat /\ 1 <= i /\ i <= n /\ n <= l /\ n \in 1 .. l
  BY <1>2, <1>3, <1>4, <1>5, <1>6
<1>8. \A k \in 1 .. l : str[k] = b[s1 + k - 1]
  BY <1>2
<1>9. field = SubSeq(str, i, n)
  <2>1. SubSeq(str, i, n) = [k \in 1 .. n - i + 1 |-> str[i + k - 1]]
    BY <1>7, Subsequence
  <2>2. n - i + 1 = se - sb
    BY <1>2, <1>3, <1>4, <1>6
  <2>3. ASSUME NEW k \in 1 .. se - sb PROVE str[i + k - 1] = b[sb + k - 1]
    <3>1. i + k - 1 \in 1 .. l /\ s1 + (i + k - 1) - 1 = sb + k - 1
      BY <1>2, <1>3, <1>4, <1>6, <1>7
    <3>2. str[i + k - 1] = b[s1 + (i + k - 1) - 1]
      BY <1>8, <3>1
    <3>3. QED
      BY <3>1, <3>2, Zenon
  <2>4. QED
    BY <2>1, <2>2, <2>3
<1>10. ASSUME NEW j \in i .. n PROVE str[j] \notin seps
  <2>1. j \in 1 .. l /\ s1 + j - 1 \in sb .. se - 1
    BY <1>2, <1>3, <1>4, <1>6, <1>7
  <2>2. QED
    BY <1>4, <1>8, <2>1
<1>11. n = Len(str) \/ str[n + 1] \in seps
  <2>1. CASE se = e
    BY <1>2, <1>6, <2>1
  <2>2. CASE se # e
    <3>1. PICK q : q = n + 1
      OBVIOUS
    <3>2. q \in 1 .. l /\ s1 + q - 1 = se
      <4>1. s1 \in Nat /\ l \in Nat /\ e = s1 + l /\ se \in Nat /\ se <= e /\ n \in Nat
        BY <1>2, <1>4, <1>7
      <4>2. QED
        BY <1>6, <2>2, <3>1, <4>1
    <3>3. str[q] = b[s1 + q - 1]
      BY <1>8, <3>2
    <3>4. b[se] \in seps
      BY <1>4, <2>2
    <3>5. QED
      BY <3>1, <3>2, <3>3, <3>4, Zenon
  <2>3. QED
    BY <2>1, <2>2
<1>12. n \in DOMAIN str
  BY <1>2, <1>7
<1>13. QED
  BY <1>9, <1>10, <1>11, <1>12 DEF Tok!IsField

(* The memory a token is cut in.                                           *)
CutAt(m, m2, se) ==
  m2 \in [Addr -> Char] /\ m2[se] = 0 /\ \A a \in Addr : a # se => m2[a] = m[a]

LEMMA CutMemory ==
  ASSUME NEW b, NEW m, NEW s1, NEW s2, NEW s,
         Given(b, s1, s2), OnlyCut(b, m, s1, s2), Ahead(b, m, s1, s2, s),
         NEW e, e = s1 + strlen(b)[s1], NEW sb \in s .. e, sb # e, b[sb] \notin Set(b, s2),
         NEW se, Spanned(b, Set(b, s2), sb, se, e),
         NEW m2, CutAt(m, m2, se)
  PROVE  /\ OnlyCut(b, m2, s1, s2) /\ Ahead(b, m2, s1, s2, Kept(se, e))
         /\ Str(m2, sb) = [k \in 1 .. se - sb |-> b[sb + k - 1]]
         /\ Str(m2, sb) \in Seq(Char)
<1>1. PICK seps : seps = Set(b, s2)
  OBVIOUS
<1>2. s1 \in Nat /\ e \in Nat /\ e < Size /\ b[e] = 0 /\ 0 \in Char
  <2>1. PICK l : l = strlen(b)[s1]
    OBVIOUS
  <2>2. s1 \in StringsIn(b)
    BY DEF Given
  <2>3. s1 \in Nat /\ l \in Nat /\ s1 + l < Size /\ b[s1 + l] = 0
    BY <2>1, <2>2, StringIs
  <2>4. QED
    BY <2>1, <2>3, MemoryAssumption DEF Char
<1>3. m \in [Addr -> Char] /\ b \in [Addr -> Char]
  BY DEF OnlyCut, Given
<1>4. s \in s1 .. e /\ \A a \in s .. Size - 1 : m[a] = b[a]
  BY DEF Ahead
<1>5. sb \in Nat /\ s \in Nat /\ s1 <= s /\ s <= sb /\ sb <= e
  BY <1>2, <1>4
<1>6. /\ se \in Nat /\ sb <= se /\ se <= e /\ (se = e \/ b[se] \in seps)
      /\ \A k \in sb .. se - 1 : b[k] \notin seps
  BY <1>1, <1>2, <1>5 DEF Spanned
<1>7. sb < se
  BY <1>1, <1>5, <1>6
<1>8. se \in Addr
  BY <1>2, <1>6, MemoryAssumption DEF Addr
<1>9. m2 \in [Addr -> Char] /\ m2[se] = 0 /\ \A a \in Addr : a # se => m2[a] = m[a]
  BY DEF CutAt
<1>10. OnlyCut(b, m2, s1, s2)
  <2>1. ASSUME NEW a \in Addr
        PROVE  \/ m2[a] = b[a]
               \/ a \in s1 .. e /\ b[a] \in seps /\ m2[a] = 0
    <3>1. CASE a # se
      BY <1>1, <1>9, <3>1 DEF OnlyCut
    <3>2. CASE a = se /\ se = e
      BY <1>2, <1>9, <3>2
    <3>3. CASE a = se /\ se # e
      <4>1. se \in s1 .. e
        BY <1>2, <1>5, <1>6, <3>3
      <4>2. QED
        BY <1>6, <1>9, <3>3, <4>1
    <3>4. QED
      BY <3>1, <3>2, <3>3
  <2>2. QED
    BY <1>1, <1>9, <2>1 DEF OnlyCut
<1>11. Ahead(b, m2, s1, s2, Kept(se, e))
  <2>1. PICK t : t = Kept(se, e)
    OBVIOUS
  <2>2. t \in Nat /\ se <= t /\ t \in s1 .. e /\ (t # se => t - 1 = se /\ b[se] \in seps)
        /\ (t = se => se = e)
    BY <1>2, <1>5, <1>6, <2>1 DEF Kept
  <2>3. ASSUME NEW a \in t .. Size - 1 PROVE m2[a] = b[a]
    <3>1. a \in Addr /\ a \in s .. Size - 1 /\ (a = se => se = e)
      BY <1>2, <1>5, <1>6, <2>2, MemoryAssumption DEF Addr
    <3>2. m[a] = b[a]
      BY <1>4, <3>1
    <3>3. CASE a = se
      BY <1>2, <1>9, <3>1, <3>3
    <3>4. CASE a # se
      BY <1>9, <3>1, <3>2, <3>4
    <3>5. QED
      BY <3>3, <3>4
  <2>4. t = s1 \/ b[t - 1] \in seps \/ t = e
    BY <2>2
  <2>5. Ahead(b, m2, s1, s2, t)
    BY <1>1, <2>2, <2>3, <2>4 DEF Ahead
  <2>6. QED
    BY <2>1, <2>5, Zenon
<1>12. PICK n : n = se - sb
  OBVIOUS
<1>13. n \in Nat /\ sb + n = se
  BY <1>5, <1>6, <1>12
<1>14. ASSUME NEW a \in sb .. se - 1 PROVE m2[a] = b[a] /\ b[a] # 0 /\ m2[a] \in Char
  <2>1. a \in Addr /\ a # se /\ a \in s .. Size - 1 /\ a \in s .. e /\ a # e
    BY <1>2, <1>5, <1>6, MemoryAssumption DEF Addr
  <2>2. PICK v : v = s + strspn(m, s, s2)
    OBVIOUS
  <2>3. m[a] = b[a] /\ m[a] # 0
    BY <2>1, <2>2, Skips
  <2>4. QED
    BY <1>9, <2>1, <2>3
<1>15. EndsAfter(m2, sb, n)
  <2>1. ASSUME NEW k \in 0 .. n - 1 PROVE m2[sb + k] # 0
    <3>1. PICK a : a = sb + k
      OBVIOUS
    <3>2. a \in sb .. se - 1
      BY <1>5, <1>13, <3>1
    <3>3. m2[a] # 0
      BY <1>14, <3>2
    <3>4. QED
      BY <3>1, <3>3
  <2>2. m2[sb + n] = 0 /\ sb + n < Size
    <3>1. m2[se] = 0 /\ se < Size
      BY <1>2, <1>6, <1>9, MemoryAssumption
    <3>2. QED
      BY <1>13, <3>1, Zenon
  <2>3. QED
    BY <2>1, <2>2 DEF EndsAfter
<1>16. sb \in StringsIn(m2) /\ strlen(m2)[sb] = n
  BY <1>5, <1>13, <1>15, StrlenIs
<1>17. Str(m2, sb) = [k \in 1 .. n |-> m2[sb + k - 1]]
  BY <1>16, StringIs
<1>18. ASSUME NEW k \in 1 .. n
       PROVE  m2[sb + k - 1] = b[sb + k - 1] /\ m2[sb + k - 1] \in Char
  <2>1. PICK a : a = sb + k - 1
    OBVIOUS
  <2>2. a \in sb .. se - 1
    BY <1>5, <1>13, <2>1
  <2>3. m2[a] = b[a] /\ m2[a] \in Char
    BY <1>14, <2>2
  <2>4. QED
    BY <2>1, <2>3
<1>19. Str(m2, sb) = [k \in 1 .. n |-> b[sb + k - 1]]
  BY <1>17, <1>18
<1>20. Str(m2, sb) \in Seq(Char)
  <2>1. PICK f : f = Str(m2, sb)
    OBVIOUS
  <2>2. f = [k \in 1 .. n |-> f[k]] /\ \A k \in 1 .. n : f[k] = m2[sb + k - 1]
    BY <1>17, <2>1
  <2>3. \A k \in 1 .. n : f[k] \in Char
    BY <1>18, <2>2
  <2>4. f \in Seq(Char)
    BY <1>13, <2>2, <2>3
  <2>5. QED
    BY <2>1, <2>4
<1>21. QED
  BY <1>10, <1>11, <1>12, <1>19, <1>20

(* The tokens found: the first n fields of the string.                     *)
FoundFields(b, s1, s2, toks, n) ==
  /\ toks \in Seq(Seq(Char)) /\ Len(toks) = n
  /\ \A k \in 1 .. Len(toks) : Tok!IsField(Str(b, s1), Set(b, s2), k, toks[k])

FieldsBefore(b, s1, s2, s) == Tok!FieldsTo(Str(b, s1), Set(b, s2), s - s1)

LEMMA OneMoreFound ==
  ASSUME NEW b, NEW s1, NEW s2, NEW toks, NEW n, FoundFields(b, s1, s2, toks, n),
         NEW field \in Seq(Char), Tok!IsField(Str(b, s1), Set(b, s2), n + 1, field)
  PROVE  FoundFields(b, s1, s2, Append(toks, field), n + 1)
<1> DEFINE I(k, f) == Tok!IsField(Str(b, s1), Set(b, s2), k, f)
<1>1. /\ toks \in Seq(Seq(Char)) /\ Len(toks) = n /\ n \in Nat
      /\ \A k \in 1 .. n : I(k, toks[k])
  BY DEF FoundFields
<1>2. I(n + 1, field)
  OBVIOUS
<1> HIDE DEF I
<1>3. PICK more : more = Append(toks, field)
  OBVIOUS
<1>4. PICK S : S = Seq(Char)
  OBVIOUS
<1>5. toks \in Seq(S) /\ field \in S
  BY <1>1, <1>4
<1>6. /\ more \in Seq(S) /\ Len(more) = n + 1 /\ more[n + 1] = field
      /\ \A k \in 1 .. n : more[k] = toks[k]
  BY <1>1, <1>3, <1>5
<1>7. ASSUME NEW k \in 1 .. n + 1 PROVE I(k, more[k])
  <2>1. CASE k = n + 1
    BY <1>2, <1>6, <2>1
  <2>2. CASE k # n + 1
    <3>1. k \in 1 .. n
      BY <1>1, <2>2
    <3>2. QED
      BY <1>1, <1>6, <3>1
  <2>3. QED
    BY <2>1, <2>2
<1>8. FoundFields(b, s1, s2, more, n + 1)
  BY <1>4, <1>6, <1>7 DEF FoundFields, I
<1>9. QED
  BY <1>3, <1>8

(* A call: no field is left, or the next one is cut out.                   *)
LEMMA Called ==
  ASSUME NEW b, NEW m, NEW s1, NEW s2, NEW s,
         Given(b, s1, s2), OnlyCut(b, m, s1, s2), Ahead(b, m, s1, s2, s),
         NEW toks, FoundFields(b, s1, s2, toks, FieldsBefore(b, s1, s2, s)),
         NEW e, e = s1 + strlen(b)[s1],
         NEW sb, sb = s + strspn(m, s, s2), NEW se, se = sb + strcspn(m, sb, s2)
  PROVE  /\ sb \in Nat
         /\ m[sb] = 0 => FoundFields(b, s1, s2, toks, Cardinality(Tok!FieldStarts(Str(b, s1), Set(b, s2))))
         /\ m[sb] # 0 =>
              /\ se \in Addr /\ (m[se] = 0 <=> se = e)
              /\ \A m2 : CutAt(m, m2, se) =>
                   /\ OnlyCut(b, m2, s1, s2) /\ Ahead(b, m2, s1, s2, Kept(se, e))
                   /\ FoundFields(b, s1, s2, Append(toks, Str(m2, sb)), FieldsBefore(b, s1, s2, Kept(se, e)))
<1>1. PICK seps : seps = Set(b, s2)
  OBVIOUS
<1>2. PICK str : str = Str(b, s1)
  OBVIOUS
<1>3. /\ s \in Nat /\ e \in Nat /\ e < Size /\ Skipped(b, seps, s, sb, e)
      /\ \A a \in s .. e : m[a] = b[a] /\ (m[a] = 0 <=> a = e)
  BY <1>1, Skips
<1>4. sb \in s .. e /\ b[sb] \notin seps
  BY <1>3 DEF Skipped
<1>5. Spanned(b, seps, sb, se, e)
  BY <1>1, <1>4, Takes
<1>6. se \in sb .. e
  BY <1>5 DEF Spanned
<1>7. s1 \in StringsIn(b)
  BY DEF Given
<1>8. s \in s1 .. e /\ (s = s1 \/ b[s - 1] \in seps \/ s = e)
  BY <1>1 DEF Ahead
<1>9. PICK i : i = sb - s1 + 1
  OBVIOUS
<1>10. PICK n : n = Tok!FieldsTo(str, seps, s - s1)
  OBVIOUS
<1>11. /\ sb = e => n = Cardinality(Tok!FieldStarts(str, seps))
       /\ sb # e => i \in Tok!FieldStarts(str, seps) /\ Tok!FieldsTo(str, seps, i) = n + 1
  BY <1>2, <1>3, <1>7, <1>8, <1>9, <1>10, NextField
<1>12. FoundFields(b, s1, s2, toks, n)
  BY <1>1, <1>2, <1>10 DEF FieldsBefore
<1>13. m[sb] = 0 <=> sb = e
  BY <1>3, <1>4
<1>14. se \in Addr /\ (m[se] = 0 <=> se = e)
  <2>1. se \in s .. e /\ se \in Addr
    BY <1>3, <1>4, <1>6, MemoryAssumption DEF Addr
  <2>2. QED
    BY <1>3, <2>1
<1>15. ASSUME sb # e, NEW m2, CutAt(m, m2, se)
       PROVE  /\ OnlyCut(b, m2, s1, s2) /\ Ahead(b, m2, s1, s2, Kept(se, e))
              /\ FoundFields(b, s1, s2, Append(toks, Str(m2, sb)), FieldsBefore(b, s1, s2, Kept(se, e)))
  <2>1. PICK field : field = [k \in 1 .. se - sb |-> b[sb + k - 1]]
    OBVIOUS
  <2>2. /\ OnlyCut(b, m2, s1, s2) /\ Ahead(b, m2, s1, s2, Kept(se, e))
        /\ Str(m2, sb) = field /\ field \in Seq(Char)
    BY <1>1, <1>4, <1>5, <1>15, <2>1, CutMemory
  <2>3. sb \in s1 .. e
    <3>1. PICK l : l = strlen(b)[s1]
      OBVIOUS
    <3>2. s1 \in Nat
      BY <1>7, StringIs
    <3>3. QED
      BY <1>3, <1>4, <1>8, <3>2
  <2>4. Tok!IsField(str, seps, Tok!FieldsTo(str, seps, i), field)
    BY <1>2, <1>4, <1>5, <1>7, <1>9, <1>11, <1>15, <2>1, <2>3, FieldIs
  <2>5. Tok!IsField(Str(b, s1), Set(b, s2), n + 1, field)
    BY <1>1, <1>2, <1>11, <1>15, <2>4
  <2>6. FoundFields(b, s1, s2, Append(toks, field), n + 1)
    BY <1>12, <2>2, <2>5, OneMoreFound
  <2>7. Tok!FieldsTo(str, seps, Kept(se, e) - s1) = Tok!FieldsTo(str, seps, sb - s1 + 1)
    <3>1. b[sb] \notin seps
      BY <1>4
    <3>2. sb # e
      BY <1>15
    <3>3. QED
      BY <1>2, <1>5, <1>7, <2>3, <3>1, <3>2, NoFieldMissed
  <2>8. FieldsBefore(b, s1, s2, Kept(se, e)) = n + 1
    BY <1>1, <1>2, <1>9, <1>11, <1>15, <2>7 DEF FieldsBefore
  <2>9. QED
    BY <2>2, <2>6, <2>8, Zenon
<1>16. sb \in Nat
  BY <1>3, <1>4
<1>17. QED
  BY <1>1, <1>2, <1>11, <1>12, <1>13, <1>14, <1>15, <1>16

(* Between two calls: the fields before the place kept are found, or all   *)
(* of them if none is kept.                                                *)
Between(b, m, s1, s2, s, toks) ==
  /\ Given(b, s1, s2) /\ OnlyCut(b, m, s1, s2)
  /\ s = Tok!Literal => FoundFields(b, s1, s2, toks, Cardinality(Tok!FieldStarts(Str(b, s1), Set(b, s2))))
  /\ s # Tok!Literal => /\ Ahead(b, m, s1, s2, s)
                    /\ FoundFields(b, s1, s2, toks, FieldsBefore(b, s1, s2, s))

LEMMA CallFinds ==
  ASSUME NEW b, NEW s1, NEW s2, NEW s, s # Tok!Literal, NEW found,
         Between(b, text, s1, s2, s, found), Tok!strtok(s, s2, found)
  PROVE  Between(b, text', s1, s2, ssave', tokens') /\ (ended' => ssave' = Tok!Literal)
<1>1. PICK e : e = s1 + strlen(b)[s1]
  OBVIOUS
<1>2. PICK sb : sb = s + strspn(text, s, s2)
  OBVIOUS
<1>3. PICK se : se = sb + strcspn(text, sb, s2)
  OBVIOUS
<1>4. /\ Given(b, s1, s2) /\ OnlyCut(b, text, s1, s2) /\ Ahead(b, text, s1, s2, s)
      /\ FoundFields(b, s1, s2, found, FieldsBefore(b, s1, s2, s))
  BY DEF Between
<1>5. PICK all : all = Cardinality(Tok!FieldStarts(Str(b, s1), Set(b, s2)))
  OBVIOUS
<1>6. /\ sb \in Nat
      /\ text[sb] = 0 => FoundFields(b, s1, s2, found, all)
      /\ text[sb] # 0 =>
           /\ se \in Addr /\ (text[se] = 0 <=> se = e)
           /\ \A m2 : CutAt(text, m2, se) =>
                /\ OnlyCut(b, m2, s1, s2) /\ Ahead(b, m2, s1, s2, Kept(se, e))
                /\ FoundFields(b, s1, s2, Append(found, Str(m2, sb)), FieldsBefore(b, s1, s2, Kept(se, e)))
  BY <1>1, <1>2, <1>3, <1>4, <1>5, Called
<1>7. sb # Tok!Literal
  BY <1>6 DEF Tok!Literal
<1>8. /\ Tok!strspn(text, s, s2) = strspn(text, s, s2)
      /\ Tok!strcspn(text, sb, s2) = strcspn(text, sb, s2)
  BY SameScans
<1>9. CASE text[sb] = 0
  <2>1. Tok!NoToken(found)
    BY <1>2, <1>8, <1>9 DEF Tok!strtok
  <2>2. text' = text /\ ssave' = Tok!Literal /\ tokens' = found
    BY <2>1 DEF Tok!NoToken
  <2>3. FoundFields(b, s1, s2, tokens', all)
    BY <1>6, <1>9, <2>2
  <2>4. QED
    BY <1>4, <1>5, <2>2, <2>3 DEF Between
<1>10. CASE text[sb] # 0
  <2>1. Tok!Token(found, sb, se)
    BY <1>2, <1>3, <1>7, <1>8, <1>10 DEF Tok!strtok
  <2>2. PICK m2 : m2 = text'
    OBVIOUS
  <2>3. /\ m2 = [text EXCEPT ![se] = 0] /\ tokens' = Append(found, Str(m2, sb)) /\ ended' = FALSE
        /\ ssave' = IF text[se] # 0 THEN se + 1 ELSE se
    <3>1. Tok!Str(m2, sb) = Str(m2, sb)
      BY SameCharacters
    <3>2. QED
      BY <2>1, <2>2, <3>1 DEF Tok!Token
  <2>4. text \in [Addr -> Char] /\ 0 \in Char /\ se \in Addr
    BY <1>4, <1>6, <1>10, MemoryAssumption DEF OnlyCut, Char
  <2>5. CutAt(text, m2, se)
    BY <2>3, <2>4 DEF CutAt
  <2>6. ssave' = Kept(se, e) /\ ssave' # Tok!Literal
    BY <1>6, <1>10, <2>3, <2>4, MemoryAssumption DEF Kept, Addr, Tok!Literal
  <2>7. /\ OnlyCut(b, m2, s1, s2) /\ Ahead(b, m2, s1, s2, Kept(se, e))
        /\ FoundFields(b, s1, s2, Append(found, Str(m2, sb)), FieldsBefore(b, s1, s2, Kept(se, e)))
    BY <1>6, <1>10, <2>5
  <2>8. /\ OnlyCut(b, text', s1, s2) /\ Ahead(b, text', s1, s2, ssave')
        /\ FoundFields(b, s1, s2, tokens', FieldsBefore(b, s1, s2, ssave'))
    BY <2>2, <2>3, <2>6, <2>7, Zenon
  <2>9. QED
    BY <1>4, <2>3, <2>6, <2>8 DEF Between
<1>11. QED
  BY <1>9, <1>10

(* A new string, from its start: no field lies before it.                  *)
LEMMA FromTheStart ==
  ASSUME NEW b \in [Addr -> Char], NEW s1 \in StringsIn(b), NEW s2 \in StringsIn(b),
         s1 + strlen(b)[s1] < s2
  PROVE  Between(b, b, s1, s2, s1, <<>>) /\ s1 # Tok!Literal
<1>1. PICK e : e = s1 + strlen(b)[s1]
  OBVIOUS
<1>2. s1 \in Nat /\ s1 \in s1 .. e
  <2>1. PICK l : l = strlen(b)[s1]
    OBVIOUS
  <2>2. s1 \in Nat /\ l \in Nat
    BY <2>1, StringIs
  <2>3. QED
    BY <1>1, <2>1, <2>2
<1>3. s1 # Tok!Literal
  BY <1>2 DEF Tok!Literal
<1>4. Given(b, s1, s2)
  BY DEF Given
<1>5. OnlyCut(b, b, s1, s2)
  BY DEF OnlyCut
<1>6. Ahead(b, b, s1, s2, s1)
  BY <1>1, <1>2 DEF Ahead
<1>7. FieldsBefore(b, s1, s2, s1) = 0
  <2>1. PICK str : str = Str(b, s1)
    OBVIOUS
  <2>2. PICK l : l = strlen(b)[s1]
    OBVIOUS
  <2>3. l \in Nat /\ DOMAIN str = 1 .. l
    BY <2>1, <2>2, StringIs
  <2>4. PICK seps : seps = Set(b, s2)
    OBVIOUS
  <2>5. {j \in Tok!FieldStarts(str, seps) : j <= 0} = {}
    BY <2>3 DEF Tok!FieldStarts
  <2>6. Tok!FieldsTo(str, seps, 0) = 0
    BY <2>5, FS_EmptySet, SameCount DEF Tok!FieldsTo
  <2>7. s1 - s1 = 0
    BY <1>2
  <2>8. QED
    BY <2>1, <2>4, <2>6, <2>7 DEF FieldsBefore
<1>8. FoundFields(b, s1, s2, <<>>, 0)
  BY DEF FoundFields
<1>9. QED
  BY <1>3, <1>4, <1>5, <1>6, <1>7, <1>8 DEF Between

(* What the state is between two calls.                                    *)
StrtokInv ==
  /\ text \in [Addr -> Char]
  /\ ended => ssave = Tok!Literal
  /\ ~ Tok!Active => ssave = Tok!Literal
  /\ Tok!Active => Between(session.text, text, session.s1, session.s2, ssave, tokens)

LEMMA StrtokStarts == Tok!Init => StrtokInv
BY SameMemory DEF Tok!Init, StrtokInv, Tok!Active

LEMMA StrtokSteps ==
  ASSUME StrtokInv, Tok!Next
  PROVE  StrtokInv'
<1>1. CASE Tok!Start
  <2>1. PICK s1 \in Addr, s2 \in Addr :
          /\ Tok!IsString(text, s1) /\ Tok!IsString(text, s2)
          /\ Tok!End(text, s1) < s2
          /\ session' = [text |-> text, s1 |-> s1, s2 |-> s2]
          /\ Tok!strtok(s1, s2, <<>>)
    BY <1>1, SameMemory DEF Tok!Start
  <2>2. PICK b : b = text
    OBVIOUS
  <2>3. /\ b \in [Addr -> Char] /\ s1 \in StringsIn(b) /\ s2 \in StringsIn(b)
        /\ s1 + strlen(b)[s1] < s2
    BY <2>1, <2>2, SameStrings DEF Tok!IsString, Tok!End, StrtokInv
  <2>4. Between(b, b, s1, s2, s1, <<>>) /\ s1 # Tok!Literal
    BY <2>3, FromTheStart
  <2>5. Between(b, text, s1, s2, s1, <<>>)
    BY <2>2, <2>4, Zenon
  <2>6. Tok!strtok(s1, s2, <<>>)
    BY <2>1
  <2>7. Between(b, text', s1, s2, ssave', tokens') /\ (ended' => ssave' = Tok!Literal)
    BY <2>4, <2>5, <2>6, CallFinds
  <2>8. session'.text = b /\ session'.s1 = s1 /\ session'.s2 = s2
    BY <2>1, <2>2
  <2>9. text' \in [Addr -> Char]
    BY <2>7 DEF Between, OnlyCut
  <2>10. QED
    BY <2>4, <2>7, <2>8, <2>9 DEF StrtokInv, Tok!Active
<1>2. CASE Tok!Continue /\ ssave = Tok!Literal
  <2>1. session' = session /\ Tok!NoToken(tokens)
    BY <1>2 DEF Tok!Continue, Tok!strtok
  <2>2. /\ text' = text /\ ssave' = Tok!Literal /\ ssave' = ssave /\ tokens' = tokens
        /\ session' = session
    BY <1>2, <2>1 DEF Tok!NoToken
  <2>3. QED
    BY <2>2 DEF StrtokInv, Tok!Active
<1>3. CASE Tok!Continue /\ ssave # Tok!Literal
  <2>1. Tok!Active /\ Between(session.text, text, session.s1, session.s2, ssave, tokens)
    BY <1>3 DEF StrtokInv
  <2>2. Tok!strtok(ssave, session.s2, tokens) /\ session' = session
    BY <1>3 DEF Tok!Continue
  <2>3. /\ Between(session.text, text', session.s1, session.s2, ssave', tokens')
        /\ ended' => ssave' = Tok!Literal
    BY <1>3, <2>1, <2>2, CallFinds
  <2>4. text' \in [Addr -> Char]
    BY <2>3 DEF Between, OnlyCut
  <2>5. QED
    BY <2>1, <2>2, <2>3, <2>4 DEF StrtokInv, Tok!Active
<1>4. QED
  BY <1>1, <1>2, <1>3 DEF Tok!Next

LEMMA FieldsFound == StrtokInv => Tok!TokensAreFields
<1> SUFFICES ASSUME StrtokInv, Tok!Active PROVE Tok!TokensAreFields
  BY DEF Tok!TokensAreFields
<1>1. PICK b : b = session.text
  OBVIOUS
<1>2. PICK s1 : s1 = session.s1
  OBVIOUS
<1>3. PICK s2 : s2 = session.s2
  OBVIOUS
<1>4. Between(b, text, s1, s2, ssave, tokens) /\ (ended => ssave = Tok!Literal)
  BY <1>1, <1>2, <1>3 DEF StrtokInv
<1>5. PICK str : str = Str(b, s1)
  OBVIOUS
<1>6. PICK seps : seps = Set(b, s2)
  OBVIOUS
<1>7. PICK all : all = Cardinality(Tok!FieldStarts(str, seps))
  OBVIOUS
<1>8. PICK n : FoundFields(b, s1, s2, tokens, n) /\ (ended => n = all) /\ n <= all
  <2>1. PICK past : past = Tok!FieldsTo(str, seps, ssave - s1)
    OBVIOUS
  <2>2. PICK l : l = strlen(b)[s1]
    OBVIOUS
  <2>3. s1 \in StringsIn(b)
    BY <1>4 DEF Between, Given
  <2>4. l \in Nat /\ DOMAIN str = 1 .. l
    BY <1>5, <2>2, <2>3, StringIs
  <2>5. past <= all
    BY <1>7, <2>1, <2>4, FieldsFinite
  <2>6. CASE ssave = Tok!Literal
    <3>1. FoundFields(b, s1, s2, tokens, all)
      BY <1>4, <1>5, <1>6, <1>7, <2>6 DEF Between
    <3>2. all \in Int
      BY <3>1 DEF FoundFields
    <3>3. QED
      BY <3>1, <3>2
  <2>7. CASE ssave # Tok!Literal
    <3>1. FoundFields(b, s1, s2, tokens, past)
      BY <1>4, <1>5, <1>6, <2>1, <2>7 DEF Between, FieldsBefore
    <3>2. QED
      BY <1>4, <2>5, <2>7, <3>1
  <2>8. QED
    BY <2>6, <2>7
<1>9. /\ tokens \in Seq(Seq(Char)) /\ Len(tokens) = n
      /\ \A k \in 1 .. Len(tokens) : Tok!IsField(str, seps, k, tokens[k])
  BY <1>5, <1>6, <1>8 DEF FoundFields
<1>10. DOMAIN tokens = 1 .. Len(tokens)
  <2>1. PICK S : S = Seq(Char)
    OBVIOUS
  <2>2. tokens \in Seq(S)
    BY <1>9, <2>1
  <2>3. QED
    BY <2>2
<1>11. str = Tok!text /\ seps = Tok!Separators
  BY <1>1, <1>2, <1>3, <1>5, <1>6, SameCharacters DEF Tok!text, Tok!Separators
<1>12. \A k \in DOMAIN tokens : Tok!IsField(Tok!text, Tok!Separators, k, tokens[k])
  BY <1>9, <1>10, <1>11, Zenon
<1>13. Len(tokens) <= Cardinality(Tok!FieldStarts(Tok!text, Tok!Separators))
  BY <1>7, <1>8, <1>9, <1>11
<1>14. ended => Len(tokens) = Cardinality(Tok!FieldStarts(Tok!text, Tok!Separators))
  BY <1>7, <1>8, <1>9, <1>11, Zenon
<1>15. QED
  BY <1>12, <1>13, <1>14, SameCount DEF Tok!TokensAreFields

LEMMA OnlySeparatorsCut == StrtokInv => Tok!CutsSeparators
<1> SUFFICES ASSUME StrtokInv, Tok!Active PROVE Tok!CutsSeparators
  BY DEF Tok!CutsSeparators
<1>1. PICK b : b = session.text
  OBVIOUS
<1>2. PICK s1 : s1 = session.s1
  OBVIOUS
<1>3. PICK s2 : s2 = session.s2
  OBVIOUS
<1>4. Given(b, s1, s2) /\ OnlyCut(b, text, s1, s2)
  BY <1>1, <1>2, <1>3 DEF StrtokInv, Between
<1>5. PICK l : l = strlen(b)[s1]
  OBVIOUS
<1>6. s1 \in Nat /\ l \in Nat /\ b[s1 + l] = 0 /\ Len(Str(b, s1)) = l
  BY <1>4, <1>5, StringIs DEF Given
<1>7. 0 \notin Set(b, s2)
  BY <1>4, AmongIs DEF Given
<1>8. ASSUME NEW a \in Addr, text[a] # b[a]
      PROVE  a \in s1 .. s1 + l - 1 /\ b[a] \in Set(b, s2) /\ text[a] = 0
  <2>1. a \in s1 .. s1 + l /\ b[a] \in Set(b, s2) /\ text[a] = 0
    BY <1>4, <1>5, <1>8 DEF OnlyCut
  <2>2. a # s1 + l
    BY <1>6, <1>7, <2>1
  <2>3. a \in s1 .. s1 + l - 1
    BY <1>6, <2>1, <2>2
  <2>4. QED
    BY <2>1, <2>3
<1>9. Tok!Separators = Set(b, s2) /\ Len(Tok!text) = l
  BY <1>1, <1>2, <1>3, <1>6, SameCharacters DEF Tok!text, Tok!Separators
<1>10. QED
  BY <1>1, <1>2, <1>8, <1>9, SameMemory, Zenon DEF Tok!CutsSeparators

LEMMA StrtokAlways ==
  /\ MCInit => (part = "strtok" => StrtokInv)
  /\ (part = "strtok" => StrtokInv) /\ [MCNext]_<<part, vars, strtokvars>>
       => (part = "strtok" => StrtokInv)'
<1>1. MCInit => (part = "strtok" => StrtokInv)
  BY StrtokStarts DEF MCInit
<1>2. ASSUME part = "strtok" => StrtokInv, [MCNext]_<<part, vars, strtokvars>>, part' = "strtok"
      PROVE  StrtokInv'
  <2>1. CASE part = "strtok" /\ Tok!Next
    BY <1>2, <2>1, StrtokSteps
  <2>2. CASE UNCHANGED <<part, vars, strtokvars>>
    <3>1. part = "strtok" /\ StrtokInv
      BY <1>2, <2>2
    <3>2. QED
      BY <2>2, <3>1 DEF strtokvars, StrtokInv, Tok!Active
  <2>3. QED
    BY <1>2, <2>1, <2>2 DEF MCNext
<1>3. QED
  BY <1>1, <1>2

(* The calls of strtok (string.c:194-212) return the fields of the string, *)
(* in order, none left out and none empty, and then NULL, although each    *)
(* call changes the string.                                                *)
THEOREM TokensAlwaysFields == MCSpec => []TokensAreFields
<1>1. (part = "strtok" => StrtokInv) => TokensAreFields
  BY FieldsFound DEF TokensAreFields
<1>2. QED
  BY <1>1, StrtokAlways, PTL DEF MCSpec

(* They write nothing but a 0 over separators of that string, and leave    *)
(* the separators themselves and all other memory alone.                   *)
THEOREM AlwaysOnlySeparators == MCSpec => []CutsSeparators
<1>1. (part = "strtok" => StrtokInv) => CutsSeparators
  BY OnlySeparatorsCut DEF CutsSeparators
<1>2. QED
  BY <1>1, StrtokAlways, PTL DEF MCSpec
=============================================================================

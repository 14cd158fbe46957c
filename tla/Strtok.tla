------------------------------- MODULE Strtok -------------------------------
(***************************************************************************)
(* strtok of utils/string.c: one call a step, its place in the string kept *)
(* in a static from call to call.  A caller gives a string, then NULL as   *)
(* often as it likes, with the same separators; it may turn to another     *)
(* string at any time, or call with NULL before there is one.              *)
(***************************************************************************)
EXTENDS Strings, FiniteSets

VARIABLES
  mem,      \* the memory
  ssave,    \* the static: where the next token is looked for
  session,  \* the string last given: the memory as it was, where, separators
  tokens,   \* the tokens returned for it, as strings
  ended     \* whether NULL was returned

vars == <<mem, ssave, session, tokens, ended>>

Literal == -2   \* the address of the literal ""

End(m, s) == s + strlen(m)[s]

Init ==
  /\ mem \in [Addr -> Char]
  /\ ssave = Literal
  /\ session = [text |-> mem, s1 |-> Literal, s2 |-> Literal]
  /\ tokens = <<>> /\ ended = FALSE

(* Nothing left but separators: NULL is returned. *)
NoToken(found) ==
  /\ ssave' = Literal
  /\ tokens' = found /\ ended' = TRUE
  /\ UNCHANGED mem

(* Mutants of Token: the place kept is that of the 0 written; the 0 is     *)
(* stepped over even where it was there before.                            *)
Token_stays(found, sbegin, send) ==
  /\ mem' = [mem EXCEPT ![send] = 0]
  /\ ssave' = send
  /\ tokens' = Append(found, Str(mem', sbegin)) /\ ended' = FALSE

Token_oversteps(found, sbegin, send) ==
  /\ mem' = [mem EXCEPT ![send] = 0]
  /\ ssave' = IF IsString(mem, send + 1) THEN send + 1 ELSE send
  /\ tokens' = Append(found, Str(mem', sbegin)) /\ ended' = FALSE

Token(found, sbegin, send) ==
  /\ mem' = [mem EXCEPT ![send] = 0]
  /\ ssave' = IF mem[send] # 0 THEN send + 1 ELSE send
  /\ tokens' = Append(found, Str(mem', sbegin)) /\ ended' = FALSE

strtok(s, s2, found) ==
  LET sbegin == IF s = Literal THEN Literal ELSE s + strspn(mem, s, s2)
  IN  IF sbegin = Literal \/ mem[sbegin] = 0 THEN NoToken(found)
      ELSE Token(found, sbegin, sbegin + strcspn(mem, sbegin, s2))

(* strtok(s1, s2) turns to a new string, which lies before its separators; *)
(* strtok(NULL, s2) goes on.                                               *)
Start ==
  \E s1, s2 \in Addr :
    /\ IsString(mem, s1) /\ IsString(mem, s2)
    /\ End(mem, s1) < s2
    /\ session' = [text |-> mem, s1 |-> s1, s2 |-> s2]
    /\ strtok(s1, s2, <<>>)

Continue ==
  /\ strtok(ssave, session.s2, tokens)
  /\ UNCHANGED session

Next == Start \/ Continue

Spec == Init /\ [][Next]_vars

-----------------------------------------------------------------------------
Active     == session.s1 # Literal
text       == Str(session.text, session.s1)
Separators == Set(session.text, session.s2)

(* Where the fields of a string begin, the runs of characters that are no  *)
(* separators, and that a string is its k-th field.                        *)
FieldStarts(str, seps) ==
  {i \in DOMAIN str : str[i] \notin seps /\ (i = 1 \/ str[i - 1] \in seps)}

FieldsTo(str, seps, i) == Cardinality({j \in FieldStarts(str, seps) : j <= i})

IsField(str, seps, k, field) ==
  \E i \in FieldStarts(str, seps), n \in DOMAIN str :
    /\ FieldsTo(str, seps, i) = k
    /\ field = SubSeq(str, i, n)
    /\ \A j \in i .. n : str[j] \notin seps
    /\ n = Len(str) \/ str[n + 1] \in seps

(* Call by call strtok returns the fields of the string, in order, none    *)
(* left out and none empty, and then NULL, however often it is called      *)
(* again; what it writes into the string does not change what it finds.    *)
TokensAreFields ==
  Active =>
    /\ \A k \in DOMAIN tokens : IsField(text, Separators, k, tokens[k])
    /\ Len(tokens) <= Cardinality(FieldStarts(text, Separators))
    /\ ended => Len(tokens) = Cardinality(FieldStarts(text, Separators))

(* It writes only into the string it was given, and only a 0 over a        *)
(* separator: the separators themselves and all other memory stay.         *)
CutsSeparators ==
  Active =>
    \A a \in Addr : mem[a] # session.text[a] =>
      /\ a \in session.s1 .. session.s1 + Len(text) - 1
      /\ session.text[a] \in Separators /\ mem[a] = 0
=============================================================================

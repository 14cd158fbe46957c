----------------------------- MODULE MCStrings -----------------------------
(***************************************************************************)
(* The string routines: either calls of the routines that copy, one after  *)
(* the other on the same memory, or calls of strtok.                       *)
(***************************************************************************)
EXTENDS Copying

VARIABLES
  part,  \* which routines are called
  text, ssave, session, tokens, ended  \* of module Strtok, text its memory

Tok == INSTANCE Strtok WITH mem <- text

strtokvars == <<text, ssave, session, tokens, ended>>

MCInit ==
  \/ /\ part = "copying" /\ Init
     /\ text = <<>> /\ ssave = 0 /\ session = <<>> /\ tokens = <<>> /\ ended = FALSE
  \/ /\ part = "strtok" /\ Tok!Init
     /\ Init /\ mem = [a \in Addr |-> 0]

MCNext ==
  /\ UNCHANGED part
  /\ \/ part = "copying" /\ Next   /\ UNCHANGED strtokvars
     \/ part = "strtok"  /\ Tok!Next /\ UNCHANGED vars

MCSpec == MCInit /\ [][MCNext]_<<part, vars, strtokvars>>

-----------------------------------------------------------------------------
(* Strtok!TokensAreFields: call by call strtok returns the fields of the   *)
(* string, and then NULL, whatever it writes into the string.              *)
TokensAreFields == part = "strtok" => Tok!TokensAreFields

(* Strtok!CutsSeparators: strtok writes nothing but a 0 over separators of *)
(* the string it was given.                                                *)
CutsSeparators == part = "strtok" => Tok!CutsSeparators
=============================================================================

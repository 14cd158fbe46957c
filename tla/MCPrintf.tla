------------------------------ MODULE MCPrintf ------------------------------
(***************************************************************************)
(* printf.c in three parts: the reading of a format (Scanner), what its    *)
(* directives print (Printf), and where the characters go (Output).        *)
(***************************************************************************)
EXTENDS Printf, Output, Scanner

-----------------------------------------------------------------------------
(* Calls for Printf: single directives of every kind, and formats like     *)
(* those the kernel prints.                                                *)

MCBits == [char |-> 3, short |-> 4, int |-> 5, pointer |-> 8]

Num(n) == [value |-> n]
Str(s) == [text |-> s]

Directive(conv, fs, w, p, size, args) ==
  [conv |-> conv, flags |-> fs, width |-> w, precision |-> p, size |-> size,
   args |-> args]

Plain(conv, arg) == Directive(conv, {}, 0, None, "int", <<arg>>)

Words(s) == [conv |-> "text", text |-> s, args |-> <<>>]

McValues == {-16, -7, -1, 0, 1, 6, 15}

McFlags == SUBSET {"ZEROPAD", "LEFT", "PLUS", "SPACE", "HASH"}

(* Numbers with every set of flags, widths and precisions around the       *)
(* buffer's size.                                                          *)
McNumbers ==
  {Directive(c, fs, w, p, "int", <<Num(v)>>) :
     c \in {"d", "u", "x", "X", "o", "b"}, fs \in McFlags, w \in {0, 2, 3, 5, 6},
     p \in {None, 0, 3, 6}, v \in McValues}

(* Smaller sizes, pointers, and stars that give a width or a precision.    *)
McSized ==
  {Directive(c, {}, 0, None, size, <<Num(v)>>) :
     c \in {"i", "x", "u"}, size \in {"char", "short", "longlong"}, v \in McValues}
    \cup {Directive("p", fs, 0, None, "pointer", <<Num(v)>>) :
            fs \in {{}, {"PLUS"}, {"HASH"}}, v \in {0, 11, 200, 255}}

McStarred ==
  {Directive("d", fs, Star, None, "int", <<Num(w), Num(v)>>) :
     fs \in {{}, {"ZEROPAD"}}, w \in {-4, 0, 4}, v \in McValues}
    \cup {Directive("p", {}, Star, None, "pointer", <<Num(w), Num(v)>>) :
            w \in {-4, 4}, v \in {0, 11, 255}}
    \cup {Directive("d", {}, 3, Star, "int", <<Num(p), Num(v)>>) :
            p \in {-1, 0, 4}, v \in McValues}
    \cup {Directive("s", {}, Star, Star, "int", <<Num(4), Num(p), Str(<<"a", "b">>)>>) :
            p \in {-1, 0, 1, 3}}

McText ==
  {Directive(c, fs, w, p, "int", <<Str(<<"a">>)>>) :
     c \in {"c", "s"}, fs \in {{}, {"LEFT"}}, w \in {0, 3}, p \in {None, 0, 2}}
    \cup {Plain("s", Str(<<>>)), Plain("s", Str(<<"a", "b", "c">>))}

(* The line of the memory map, "0x%08x%08x | %s (%d)"; "%d minutes"; and   *)
(* a long long between two directives.                                     *)
McLines ==
  {<<Words(<<"0", "x">>),
     Directive("x", {"ZEROPAD"}, 3, None, "int", <<Num(a)>>),
     Directive("x", {"ZEROPAD"}, 3, None, "int", <<Num(b)>>),
     Words(<<"|">>), Plain("s", Str(<<"b", "a", "d">>)), Plain("d", Num(t))>> :
     a \in McValues, b \in McValues, t \in {1, 5}}
    \cup {<<Plain("d", Num(v)), Words(<<" ", "m">>)>> : v \in McValues}
    \cup {<<Plain("d", Num(v)), Directive("d", {}, 0, None, "longlong", <<Num(w)>>),
            Plain("x", Num(v))>> : v \in McValues, w \in {0, 1}}

MCCalls ==
  {<<d>> : d \in McNumbers} \cup {<<d>> : d \in McSized \cup McStarred \cup McText}
    \cup McLines

-----------------------------------------------------------------------------
(* Texts for Output: all those of up to MaxLen characters.                 *)
CONSTANT MaxLen

MCTexts == UNION {[1 .. n -> Char] : n \in 0 .. MaxLen}

-----------------------------------------------------------------------------
(* Formats for Scanner: two pieces, one of them any directive.             *)
As(chars, value) == [chars |-> chars, value |-> value]

ScWidths == {As(<<>>, 0), As(<<"1", "0">>, 10), As(<<"7">>, 7), As(<<"*">>, Star)}

ScPrecisions ==
  {As(<<>>, None), As(<<".">>, 0), As(<<".", "0", "2">>, 2), As(<<".", "*">>, Star)}

ScSizes ==
  {As(<<>>, "int"), As(<<"h">>, "SHORT"), As(<<"h", "h">>, "CHAR"), As(<<"l">>, "LONG"),
   As(<<"l", "l">>, "LONG_LONG"), As(<<"z">>, "LONG"), As(<<"j">>, "LONG_LONG")}

ScFlags == UNION {[1 .. n -> {"0", "-", "#"}] : n \in 0 .. 2}

ScDirectives ==
  [plain : {FALSE}, flags : ScFlags, width : ScWidths, precision : ScPrecisions,
   size : ScSizes, conv : {"d", "%"}]

Alone(c) ==
  [plain |-> TRUE, flags |-> <<>>, width |-> As(<<>>, 0), precision |-> As(<<>>, None),
   size |-> As(<<>>, "text"), conv |-> c]

(* A neighbour that could be taken for a part of the directive.            *)
ScNeighbours ==
  {Alone(c) : c \in {"d", "0", ".", "l"}}
    \cup {[Alone("s") EXCEPT !.plain = FALSE, !.size = As(<<>>, "int"), !.flags = <<"0">>]}

MCFormats == (ScDirectives \X ScNeighbours) \cup (ScNeighbours \X ScDirectives)

-----------------------------------------------------------------------------
VARIABLE part  \* what is looked at

NoScanner == given = <<>> /\ pos = 0 /\ pieces = <<>>

NoCall ==
  /\ call = <<>> /\ next = 0 /\ used = 0 /\ stage = "format"
  /\ number = NoNumber /\ buf = <<>> /\ out = <<>>

NoRequest ==
  /\ request = [out |-> "null", maxlen |-> 0, text |-> <<>>]
  /\ idx = 0 /\ over = FALSE /\ sent = <<>>
  /\ buffer = [i \in 0 .. Space - 1 |-> Old]

MCInit ==
  \/ part = "scanner" /\ ScanInit  /\ NoCall /\ NoRequest
  \/ part = "printf"  /\ NoScanner /\ Init   /\ NoRequest
  \/ part = "output"  /\ NoScanner /\ NoCall /\ OutInit

MCNext ==
  /\ UNCHANGED part
  /\ \/ part = "scanner" /\ ScanNext /\ UNCHANGED <<vars, outvars>>
     \/ part = "printf"  /\ Next     /\ UNCHANGED <<scanvars, outvars>>
     \/ part = "output"  /\ OutNext  /\ UNCHANGED <<scanvars, vars>>

MCSpec == MCInit /\ [][MCNext]_<<part, scanvars, vars, outvars>>
=============================================================================

------------------------------- MODULE Lexer --------------------------------
(***************************************************************************)
(* The layout part of lexer.cpp: how lines become tokens with Newline,     *)
(* Indent and Dedent among them.  The words of a line are given as tokens  *)
(* (reading the characters of one is left out); a line is                  *)
(*   [width |-> blanks before its first word, tabs |-> one was a tab,      *)
(*    toks  |-> its tokens, none for an empty or comment line].            *)
(***************************************************************************)
EXTENDS Integers, Sequences, SequencesExt

\* A token: its kind and, for names, literals and keywords, its text.
Tok(t, x) == [t |-> t, x |-> x]
Punct(t)  == Tok(t, "")
Newline   == Punct("Newline")
Indent    == Punct("Indent")
Dedent    == Punct("Dedent")
EndOfFile == Punct("EndOfFile")

Layout == {Newline, Indent, Dedent}
Opening == {"(", "[", "{"}
Closing == {")", "]", "}"}

\* A scan in progress: what has been pushed, the stack of indentations, the
\* brackets open, and whether something was reported.
Begin == [out |-> <<>>, indents |-> <<0>>, depth |-> 0, ok |-> TRUE]

PushTok(s, tok) == [s EXCEPT !.out = Append(@, tok)]

\* The Dedents of a line at `width`, one per level it closes.
RECURSIVE CloseTo(_, _)
CloseTo(s, width) ==
  IF width < Last(s.indents)
  THEN CloseTo([PushTok(s, Dedent) EXCEPT !.indents = Front(@)], width)
  ELSE s

\* handle_line_start(): a line that begins with '.' continues the one before
\* it, whose Newline is taken back; the others open or close levels.
HandleLineStart(s, line) ==
  LET t == [s EXCEPT !.ok = @ /\ ~line.tabs]
      closed == CloseTo(t, line.width)
  IN CASE line.toks[1].t = "." ->
            IF t.out # <<>> /\ Last(t.out) = Newline THEN [t EXCEPT !.out = Front(@)] ELSE t
       [] line.width > Last(t.indents) ->
            [PushTok(t, Indent) EXCEPT !.indents = Append(@, line.width)]
       [] OTHER ->
            IF line.width = Last(closed.indents) THEN closed
            ELSE [closed EXCEPT !.ok = FALSE, !.indents = Append(@, line.width)]

\* lex_token(): brackets are counted, and an unmatched closing one is not.
LexToken(s, tok) ==
  [PushTok(s, tok) EXCEPT !.depth = IF tok.t \in Opening THEN @ + 1
                                 ELSE IF tok.t \in Closing /\ @ > 0 THEN @ - 1 ELSE @]

\* The end of a line: a Newline if the line produced something and no bracket
\* is open.
EndLine(s) ==
  IF s.depth = 0 /\ s.out # <<>> /\ Last(s.out) \notin Layout THEN PushTok(s, Newline) ELSE s

RECURSIVE LexTokens(_, _)
LexTokens(s, toks) == IF toks = <<>> THEN s ELSE LexTokens(LexToken(s, Head(toks)), Tail(toks))

LexLine(s, line) ==
  CASE line.toks = <<>> -> EndLine(s)
    [] line.toks # <<>> /\ s.depth = 0 -> EndLine(LexTokens(HandleLineStart(s, line), line.toks))
    [] OTHER -> EndLine(LexTokens(s, line.toks))

RECURSIVE LexLines(_, _)
LexLines(s, lines) == IF lines = <<>> THEN s ELSE LexLines(LexLine(s, Head(lines)), Tail(lines))

\* tokenize(): the tokens of a file and whether the lexer reported nothing.
Tokenize(lines) ==
  LET s    == LexLines(Begin, lines)
      line == IF s.out # <<>> /\ Last(s.out) # Newline THEN PushTok(s, Newline) ELSE s
  IN [toks |-> CloseTo(line, 0).out \o <<EndOfFile>>, ok |-> s.ok /\ s.depth = 0]

(***************************************************************************)
(* sin_margen(): the indentation of a triple-quoted string.  Its lines are *)
(* given as [pad |-> leading spaces, tab |-> a tab follows them, blank |-> *)
(* nothing else], the first being what follows the opening quotes and the  *)
(* last what precedes the closing ones.                                    *)
(***************************************************************************)
SinMargen(lines) ==
  LET empty(l) == l.blank /\ l.pad = 0 /\ ~l.tab
      body == IF Len(lines) > 1 /\ empty(lines[1]) THEN Tail(lines) ELSE lines
      kept == IF Len(body) > 1 /\ Last(body).blank THEN Front(body) ELSE body
      pads == {kept[i].pad : i \in {j \in DOMAIN kept : ~kept[j].blank \/ kept[j].tab}}
      margin == IF pads = {} THEN 0 ELSE CHOOSE p \in pads : \A q \in pads : p <= q
      cut(pad) == IF pad < margin THEN 0 ELSE pad - margin
  IN [i \in DOMAIN kept |-> [kept[i] EXCEPT !.pad = cut(@)]]
=============================================================================

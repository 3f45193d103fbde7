------------------------------- MODULE TeaLex -------------------------------
(***************************************************************************)
(* The lexer (tea_lex.c): from a text, handed out in blocks by the reader  *)
(* function, to tokens.  A character is a string of length one.            *)
(*                                                                         *)
(* i is the index of the current character, ls->c; ls->p is behind it.     *)
(*                                                                         *)
(* Abstractions.  Hexadecimal numbers, signed exponents and the escapes    *)
(* \x, \u and \U are left out, and so is which names are reserved.  The    *)
(* character behind a block is any of Junk: what happens to be there.      *)
(***************************************************************************)
EXTENDS Integers, SequencesExt

CONSTANTS
    Texts,   \* what is read
    Blocks,  \* sizes of blocks
    Junk     \* characters that may be in memory behind a block

VARIABLES
    text, block,
    ls,  \* the state of the lexer
    out  \* the tokens so far

lexvars == <<text, block, ls, out>>

EOF == "EOF"
Digit == {"0", "1"}
XDigit == Digit \cup {"a"}
Ident == XDigit \cup {"g", "_"}
Eol == {"\n", "\r"}
Space == {" "}
Quote == {"\"", "'"}
Escape == Quote \cup {"\\", "$", "0"}
MaxBraces == 4

\* Each begins with a shorter one, or is a single character.
Operators ==
    {<<"/">>, <<"/", "=">>, <<"*">>, <<"*", "=">>, <<"*", "*">>, <<"*", "*", "=">>,
     <<"=">>, <<"=", "=">>, <<"=", ">">>, <<">">>, <<">", "=">>, <<">", ">">>, <<">", ">", "=">>,
     <<".">>, <<".", ".">>, <<".", ".", ".">>, <<"(">>}

At(i) == IF i \in DOMAIN text THEN text[i] ELSE EOF

\* ls->p = ls->pe
AtBlockEnd(i) == i % block = 0 \/ i >= Len(text)

\* The test for the end of the block comes one character late: what is behind it is
\* taken for the next character.
lex_lookahead(i, junk) == IF AtBlockEnd(i) THEN junk ELSE At(i + 1)

-----------------------------------------------------------------------------
(* Scanning: s.i is where the scan is, s.sb what it has saved; the result  *)
(* has the type of the token.  An error ends everything.                   *)

Scan(i, line, stray) == [i |-> i, line |-> line, sb |-> << >>, t |-> "", err |-> "", stray |-> stray]
Ends(s, t) == [s EXCEPT !.t = t]
Fails(s, err) == [s EXCEPT !.err = err]

\* lex_next: at the end of the text there is only its end.
Passed(s) == IF At(s.i) = EOF THEN s ELSE [s EXCEPT !.i = @ + 1]
Saved(s) == [s EXCEPT !.sb = Append(@, At(s.i)), !.i = @ + 1]
SavedAs(s, c, n) == [s EXCEPT !.sb = Append(@, c), !.i = @ + n]

\* Fault: "\r\n" is two line breaks.
NewlineTwice(s) == [s EXCEPT !.line = @ + 1, !.i = @ + 1]

\* "\n\r" and "\r\n" are one line break.
lex_newline(s) ==
    [s EXCEPT !.line = @ + 1,
              !.i = @ + (IF At(s.i + 1) \in Eol \ {At(s.i)} THEN 2 ELSE 1)]

\* tea_strscan_scan of a decimal number
IsNumber(sb) ==
    /\ sb # << >> /\ sb[1] \in Digit /\ Last(sb) \in Digit
    /\ \E p \in 1..Len(sb) + 1 : \A n \in DOMAIN sb : IF n = p THEN sb[n] = "." ELSE sb[n] \in Digit

NumberEnds(s, und) ==
    IF und \/ ~IsNumber(s.sb) THEN Fails(s, "XNUMBER") ELSE Ends(s, "number")

\* und: was the last character an underscore?  A period may begin an operator.
RECURSIVE lex_number(_, _, _)
lex_number(s, und, junk) ==
    LET c == At(s.i)
        d == lex_lookahead(s.i, junk)
        seen == [s EXCEPT !.stray = @ \/ AtBlockEnd(s.i)]
    IN  IF c \notin Ident \cup {"."} THEN NumberEnds(s, und)
        ELSE IF c = "_" THEN IF und THEN Fails(s, "XNUMBER") ELSE lex_number(Passed(s), TRUE, junk)
        ELSE IF c # "." THEN lex_number(Saved(s), FALSE, junk)
        ELSE IF d = "." THEN NumberEnds(seen, FALSE)
        ELSE IF d \notin XDigit THEN Fails(seen, "XNUMBER")
        ELSE lex_number(Saved(seen), FALSE, junk)

RECURSIVE lex_name(_)
lex_name(s) == IF At(s.i) \in Ident THEN lex_name(Saved(s)) ELSE Ends(s, "name")

\* A string in three quotes: it ends at the first quote, which must be three.
MultiEnds(s, sc) ==
    IF At(s.i + 1) = sc /\ At(s.i + 2) = sc THEN [Ends(s, "string") EXCEPT !.i = @ + 3]
    ELSE Fails(s, "XSTR")

RECURSIVE MultiFrom(_, _)
MultiFrom(s, sc) ==
    CASE At(s.i) = sc -> MultiEnds(s, sc)
      [] At(s.i) = EOF -> Fails(s, "XSTR")
      [] At(s.i) \in Eol -> MultiFrom(lex_newline([s EXCEPT !.sb = Append(@, "\n")]), sc)
      [] OTHER -> MultiFrom(Saved(s), sc)

\* From the second quote on; a line break that comes first is dropped.
lex_multistring(s, sc) ==
    MultiFrom(IF At(s.i + 2) \in Eol THEN lex_newline([s EXCEPT !.i = @ + 2]) ELSE [s EXCEPT !.i = @ + 2], sc)

\* An escape of up to three digits.
Decimals(i) == IF At(i + 1) \notin Digit THEN 1 ELSE IF At(i + 2) \notin Digit THEN 2 ELSE 3

EscapeSaved(s, c) ==
    CASE c = EOF -> Passed(s)
      [] c \in Escape -> SavedAs(s, c, 2)
      [] c \in Digit \ Escape -> SavedAs(s, "ddd", 1 + Decimals(s.i + 1))
      [] OTHER -> Fails(s, "XESC")

\* A part of a string: up to its quote, or to an expression in it.
RECURSIVE lex_string(_, _, _)
lex_string(s, sc, open) ==
    LET c == At(s.i)
    IN  CASE s.err # "" -> s
          [] c = sc -> Ends(Passed(s), "string")
          [] c = "$" /\ At(s.i + 1) # "{" -> lex_string(Saved(s), sc, open)
          [] c = "$" /\ At(s.i + 1) = "{" ->
               IF open >= MaxBraces THEN Fails(s, "XSFMT")
               ELSE [Ends(s, "interpolation") EXCEPT !.i = @ + 2]
          [] c \in Eol \cup {EOF} -> Fails(s, "XSTR")
          [] c = "\\" -> lex_string(EscapeSaved(s, At(s.i + 1)), sc, open)
          [] OTHER -> lex_string(Saved(s), sc, open)

\* The longest operator, found one character at a time.
RECURSIVE lex_operator(_)
lex_operator(s) ==
    IF Append(s.sb, At(s.i)) \in Operators THEN lex_operator(Saved(s)) ELSE Ends(s, "op")

\* Fault: a nested comment is not counted.
RECURSIVE CommentFlat(_, _)
CommentFlat(s, nesting) ==
    LET second == At(s.i + 1)
        over == IF At(s.i) \in {"/", "*"} THEN Passed(s) ELSE s
    IN  CASE nesting = 0 -> s
          [] At(s.i) = EOF -> Fails(s, "XLCOM")
          [] At(s.i) = "*" /\ second = "/" -> CommentFlat(Passed(Passed(s)), nesting - 1)
          [] OTHER -> CommentFlat([Passed(over) EXCEPT !.line = @ + (IF At(over.i) = "\n" THEN 1 ELSE 0)], nesting)

\* A comment in comments.  The character after a "/" or "*" that begins nothing is
\* skipped with it.
RECURSIVE Comment(_, _)
Comment(s, nesting) ==
    LET second == At(s.i + 1)
        over == IF At(s.i) \in {"/", "*"} THEN Passed(s) ELSE s
    IN  CASE nesting = 0 -> s
          [] At(s.i) = EOF -> Fails(s, "XLCOM")
          [] At(s.i) = "/" /\ second = "*" -> Comment(Passed(Passed(s)), nesting + 1)
          [] At(s.i) = "*" /\ second = "/" -> Comment(Passed(Passed(s)), nesting - 1)
          [] OTHER -> Comment([Passed(over) EXCEPT !.line = @ + (IF At(over.i) = "\n" THEN 1 ELSE 0)], nesting)

LineEnd(i) == Min({j \in i..Len(text) + 1 : At(j) \in {"\n", EOF}})

RECURSIVE Blank(_)
Blank(s) ==
    CASE s.err # "" -> s
      [] At(s.i) \in Eol -> Blank(lex_newline(s))
      [] At(s.i) \in Space -> Blank(Passed(s))
      [] At(s.i) = "/" /\ At(s.i + 1) = "/" -> Blank([s EXCEPT !.i = LineEnd(s.i)])
      [] At(s.i) = "/" /\ At(s.i + 1) = "*" -> Blank(Comment(Passed(Passed(s)), 1))
      [] OTHER -> s

-----------------------------------------------------------------------------
(* Tokens.  ls.braces holds, for each string whose expression is being     *)
(* read, its quote and the braces open in the expression.                  *)

Token(from, s, open) ==
    [t |-> s.t, from |-> from, to |-> s.i - 1, line |-> s.line, v |-> s.sb, by |-> open]

\* The state after a scan that began at from: the braces change with it.
Scanned(from, s, by, braces) ==
    IF s.err # ""
    THEN /\ ls' = [ls EXCEPT !.err = s.err, !.stray = s.stray, !.i = from]
         /\ UNCHANGED out
    ELSE /\ ls' = [ls EXCEPT !.i = s.i, !.line = s.line, !.stray = s.stray, !.braces = braces,
                             !.eof = s.t = "eof"]
         /\ out' = Append(out, Token(from, s, by))

\* A string's part that ends in an expression opens it.
PartScanned(from, s, sc, by, braces) ==
    Scanned(from, s, by,
            IF s.t = "interpolation" THEN Append(braces, [n |-> 1, sc |-> sc]) ELSE braces)

\* A quote: the delimiter of the string around is refused.
QuoteScanned(s, sc, junk) ==
    LET after == Passed(s)
        seen == [after EXCEPT !.stray = @ \/ AtBlockEnd(after.i)]
    IN  IF ls.braces # << >> /\ Last(ls.braces).sc = sc
        THEN Scanned(s.i, Fails(s, "XSTR"), sc, ls.braces)
        ELSE IF At(after.i) # sc
        THEN PartScanned(s.i, lex_string(after, sc, Len(ls.braces)), sc, sc, ls.braces)
        ELSE IF lex_lookahead(after.i, junk) = sc
        THEN Scanned(s.i, lex_multistring(seen, sc), sc, ls.braces)
        ELSE PartScanned(s.i, lex_string(seen, sc, Len(ls.braces)), sc, sc, ls.braces)

Counted(d) == [ls.braces EXCEPT ![Len(ls.braces)].n = @ + d]

\* Fault: braces in an expression are not counted.
OpenUncounted(s) == Scanned(s.i, Ends(Passed(s), "op"), "{", ls.braces)
OpenScanned(s) ==
    Scanned(s.i, Ends(Passed(s), "op"), "{", IF ls.braces = << >> THEN ls.braces ELSE Counted(1))

\* The brace that closes an expression continues its string.
CloseScanned(s) ==
    IF ls.braces = << >> THEN Scanned(s.i, Ends(Passed(s), "op"), "}", ls.braces)
    ELSE IF Last(ls.braces).n > 1 THEN Scanned(s.i, Ends(Passed(s), "op"), "}", Counted(-1))
    ELSE PartScanned(s.i, lex_string(Passed(s), Last(ls.braces).sc, Len(ls.braces) - 1),
                     Last(ls.braces).sc, "}", Front(ls.braces))

lex_scan(s, junk) ==
    LET c == At(s.i)
    IN  CASE s.err # "" -> Scanned(s.i, s, "", ls.braces)
          [] c = EOF -> Scanned(s.i, Ends(s, "eof"), "", ls.braces)
          [] c \in Digit -> Scanned(s.i, lex_number(s, FALSE, junk), "", ls.braces)
          [] c \in Ident \ Digit -> Scanned(s.i, lex_name(s), "", ls.braces)
          [] c \in Quote -> QuoteScanned(s, c, junk)
          [] c = "{" -> OpenScanned(s)
          [] c = "}" -> CloseScanned(s)
          [] <<c>> \in Operators -> Scanned(s.i, lex_operator(s), "", ls.braces)
          [] OTHER -> Scanned(s.i, Fails(s, "XCHAR"), "", ls.braces)

Init ==
    /\ text \in Texts
    /\ block \in Blocks
    /\ ls = [i |-> 0, line |-> 1, braces |-> << >>, eof |-> FALSE, err |-> "", stray |-> FALSE]
    /\ out = << >>

-----------------------------------------------------------------------------
(* The first character: a byte order mark that is whole in its block is    *)
(* skipped, then a line that begins with "#!".                             *)

BOM == <<"ef", "bb", "bf">>
Marked == Len(text) >= 3 /\ SubSeq(text, 1, 3) = BOM /\ block >= 3
First == IF Marked THEN 4 ELSE 1
ShellLine(i, junk) == At(i) = "#" /\ lex_lookahead(i, junk) = "!"

\* The line break, if there is one, is skipped too.
ShellEnd(s) ==
    LET end == Min({j \in s.i + 1..Len(text) + 1 : At(j) \in Eol \cup {EOF}})
    IN  IF At(end) = EOF THEN [s EXCEPT !.i = end] ELSE lex_newline([s EXCEPT !.i = end])

AfterHeader(junk) ==
    IF ShellLine(First, junk) THEN ShellEnd(Scan(First, 1, AtBlockEnd(First)))
    ELSE Scan(First, 1, At(First) = "#" /\ AtBlockEnd(First))

\* What begins with the signature of bytecode is not text; after a header it is refused.
tea_lex_setup ==
    /\ ls.i = 0 /\ ls.err = ""
    /\ \E junk \in Junk :
         LET s == AfterHeader(junk)
         IN  ls' = [ls EXCEPT !.i = s.i, !.line = s.line, !.stray = s.stray,
                              !.err = IF At(s.i) # "ESC" THEN "" ELSE IF s.i > 1 THEN "BCBAD" ELSE "bytecode"]
    /\ UNCHANGED <<text, block, out>>

\* After the end of the text there are no tokens.
tea_lex_next ==
    /\ ls.i > 0 /\ ls.err = "" /\ ~ls.eof
    /\ \E junk \in Junk : lex_scan(Blank(Scan(ls.i, ls.line, ls.stray)), junk)
    /\ UNCHANGED <<text, block>>

Closed == (ls.eof \/ ls.err # "") /\ UNCHANGED lexvars

Next == tea_lex_setup \/ tea_lex_next \/ Closed

Spec == Init /\ [][Next]_lexvars

-----------------------------------------------------------------------------
(* Properties                                                              *)

Segment(a, b) == SubSeq(text, a, b)

\* Behind a line for the shell.
TextBegin == IF At(First) = "#" THEN ShellEnd(Scan(First, 1, FALSE)).i ELSE First
Between(k) == Segment(IF k = 1 THEN TextBegin ELSE out[k - 1].to + 1, out[k].from - 1)

\* The lexer is in the text; no more expressions are open than there is room for.
LexTypeOK ==
    /\ ls.i \in 0..Len(text) + 1
    /\ Len(ls.braces) \in 0..MaxBraces
    /\ \A n \in DOMAIN ls.braces : ls.braces[n].n > 0 /\ ls.braces[n].sc \in Quote
    /\ \A k \in DOMAIN out : out[k].to >= out[k].from \/ out[k].t = "eof"

\* The text of a token is one of its type, the longest that begins where it does.
Longest(tok, S(_)) ==
    /\ S(Segment(tok.from, tok.to))
    /\ \A n \in tok.to + 1..Len(text) : ~S(Segment(tok.from, n))

IsName(s) == s[1] \notin Digit /\ \A n \in DOMAIN s : s[n] \in Ident
IsOperator(s) == s \in Operators
WithoutUnderscores(s) == SelectSeq(s, LAMBDA c : c # "_")

\* Where a comment ends whose first n characters have opened depth comments: comments
\* nest.  0 if it does not end.
RECURSIVE CommentEnd(_, _, _)
CommentEnd(s, n, depth) ==
    CASE depth = 0 -> n
      [] n + 2 > Len(s) -> 0
      [] s[n + 1] = "/" /\ s[n + 2] = "*" -> CommentEnd(s, n + 2, depth + 1)
      [] s[n + 1] = "*" /\ s[n + 2] = "/" -> CommentEnd(s, n + 2, depth - 1)
      [] OTHER -> CommentEnd(s, n + 1, depth)

\* Blanks and whole comments.
RECURSIVE IsBlank(_)
IsBlank(s) ==
    \/ s = << >>
    \/ Head(s) \in Space \cup Eol /\ IsBlank(Tail(s))
    \/ /\ Len(s) >= 3 /\ s[1] = "/" /\ s[2] = "/"
       /\ \E n \in 3..Len(s) : /\ s[n] = "\n" /\ \A b \in 3..n - 1 : s[b] # "\n"
                               /\ IsBlank(SubSeq(s, n + 1, Len(s)))
    \/ /\ Len(s) >= 4 /\ s[1] = "/" /\ s[2] = "*" /\ CommentEnd(s, 2, 1) > 0
       /\ IsBlank(SubSeq(s, CommentEnd(s, 2, 1) + 1, Len(s)))

\* In a comment the second of two stars or slashes is skipped, and what it begins.
Doubled(s) == \E n \in 1..Len(s) - 1 : s[n] = s[n + 1] /\ s[n] \in {"*", "/"}
Commented(s) == \E n \in 1..Len(s) - 1 : s[n] = "/" /\ s[n + 1] = "*"
Skips(s) == Doubled(s) /\ Commented(s)

\* The end of the text ends a line.
Gap(k) == IF out[k].t = "eof" THEN Append(Between(k), "\n") ELSE Between(k)

\* Names, numbers and operators are the longest there are where they begin.
RightToken(tok) ==
    /\ tok.t = "name" => Longest(tok, IsName)
    /\ tok.t = "op" /\ tok.by = "" => Longest(tok, IsOperator)
    /\ tok.t = "number" =>
         /\ tok.v = WithoutUnderscores(Segment(tok.from, tok.to)) /\ IsNumber(tok.v)
         /\ At(tok.to + 1) \notin Ident

\* Whatever blocks the text comes in, as long as no character behind one was looked at:
\* the tokens cover the text but for blanks and comments, and are the longest there are.
\* The exception: comments in which two stars or slashes come together.
TokensCoverText ==
    ~ls.stray => \A k \in DOMAIN out :
        /\ RightToken(out[k])
        /\ IsBlank(Gap(k)) \/ Skips(Gap(k))

\* A token that opens or closes a pair of braces, in text or around an expression.
Opens(tok) == tok.by = "{" \/ (tok.t = "interpolation" /\ tok.by # "}")
Closes(tok) == tok.by = "}" /\ tok.t # "interpolation"
Depth(k) == Cardinality({j \in 1..k : Opens(out[j])}) - Cardinality({j \in 1..k : Closes(out[j])})

\* The last token before k that left as many pairs open as k finds.
Opener(k) ==
    Max({j \in 1..k - 1 : /\ out[j].by = "{" \/ out[j].t = "interpolation"
                          /\ Depth(j) = Depth(k - 1)})

\* The quote of the string a token is a part of.
RECURSIVE QuoteOf(_)
QuoteOf(k) == IF out[k].by \in Quote THEN out[k].by ELSE QuoteOf(Opener(k))

\* Strings and braces nest: the brace that continues a string is the one that pairs with
\* the "${" of that string, every other closing brace pairs with an opening one if there
\* is one, and a string ends with the quote it began with.
StringsNest ==
    /\ LexTypeOK
    /\ \A k \in DOMAIN out : out[k].by = "}" /\ Depth(k - 1) > 0 =>
         (out[k].t = "op" <=> out[Opener(k)].by = "{")
    /\ \A k \in DOMAIN out : out[k].t = "string" => At(out[k].to) = QuoteOf(k)

\* Line breaks in the text up to position n; "\r\n" and "\n\r" are one.
RECURSIVE Breaks(_, _)
Breaks(i, n) ==
    IF i > n THEN 0
    ELSE IF At(i) \notin Eol THEN Breaks(i + 1, n)
    ELSE 1 + Breaks(i + (IF At(i + 1) \in Eol \ {At(i)} THEN 2 ELSE 1), n)

\* In a comment "\r" is no line break, unless "\n" follows.
Returned(s) ==
    /\ "/" \in Range(s)
    /\ \E n \in DOMAIN s : s[n] = "\r" /\ ~(n < Len(s) /\ s[n + 1] = "\n")

\* A token is on the line it ends on, however many comments and strings in three quotes
\* came before.  The exception: behind a comment with a "\r" of its own.
LinesCounted ==
    ~ls.stray => \A k \in DOMAIN out :
        \/ out[k].line = 1 + Breaks(1, out[k].to)
        \/ \E j \in 1..k : Returned(Between(j))

-----------------------------------------------------------------------------
(* What the code does not keep                                             *)

\* The character looked at is the next one of the text.
LooksAtNext == ~ls.stray

\* A comment ends where it ends.
CommentsNest == ~ls.stray => \A k \in DOMAIN out : IsBlank(Gap(k))

\* A line break in a comment is one.
ReturnsCounted == ~ls.stray => \A k \in DOMAIN out : out[k].line = 1 + Breaks(1, out[k].to)
=============================================================================

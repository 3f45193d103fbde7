------------------------------ MODULE TeaLoad ------------------------------
(***************************************************************************)
(* Loading (tea_load.c).  What a reader hands out is a dump if it begins   *)
(* with the signature, and goes to the reader of bytecode (TeaBytecode);   *)
(* anything else is text and goes to the lexer (TeaLex), also a dump that  *)
(* has lost its header.  The caller may allow only one of them.            *)
(*                                                                         *)
(* There is either a function that is dumped and loaded again or a text.   *)
(***************************************************************************)
EXTENDS TeaBytecode

CONSTANTS Texts, Blocks, Junk  \* of TeaLex

ASSUME LexConstantsOK == Blocks \subseteq Nat \ {0}

VARIABLES text, block, ls, toks

Lex == INSTANCE TeaLex WITH out <- toks

dumpvars == vars
textvars == <<text, block, ls, toks>>

\* The lexer has not been started.
NotText == "dump"

InitDump ==
    /\ Init
    /\ text = << >> /\ block = 1 /\ toks = << >>
    /\ ls = [i |-> 0, line |-> 1, braces |-> << >>, eof |-> FALSE, err |-> NotText, stray |-> FALSE]

InitText ==
    /\ Lex!Init
    /\ root = (CHOOSE pt \in Root : TRUE) /\ names = << >> /\ strip = FALSE /\ dump = << >>
    /\ out = [next |-> 3, status |-> FALSE] /\ file = << >> /\ cut = FALSE
    /\ in = NoInput /\ got = [names |-> << >>, stack |-> << >>]

LoadInit == InitDump \/ InitText

-----------------------------------------------------------------------------

Dumping == (WriteHead \/ WriteProto \/ WriteFooter \/ LoseEnd) /\ UNCHANGED textvars

\* parser_f: the signature decides.
OpenDump == OpenFile /\ in'.pc = "header" /\ UNCHANGED textvars

\* No byte of a dump is a letter, a digit or a blank here.
OpenText ==
    /\ OpenFile /\ in'.pc = "refused"
    /\ text' = [n \in DOMAIN file |-> "byte"]
    /\ block' = in'.piece
    /\ ls' = [ls EXCEPT !.err = ""]
    /\ UNCHANGED toks

\* A dump where text was asked for, or a text where a dump was.
WrongMode ==
    \/ /\ Stored /\ in.pc = "none" /\ ls.err = NotText
       /\ in' = [in EXCEPT !.pc = "wrong"]
       /\ UNCHANGED <<root, names, strip, dump, out, file, cut, got>> /\ UNCHANGED textvars
    \/ /\ ls.i > 0 /\ ls.err = "" /\ toks = << >>
       /\ ls' = [ls EXCEPT !.err = "XMODE"]
       /\ UNCHANGED <<text, block, toks>> /\ UNCHANGED dumpvars

Undumping ==
    /\ ReadHeader \/ ReadModule \/ ReadName \/ ReadProto \/ ReadFooter \/ EndRead
    /\ UNCHANGED textvars

Lexing == (Lex!tea_lex_setup \/ Lex!tea_lex_next) /\ UNCHANGED dumpvars

Loaded ==
    /\ in.pc \in {"loaded", "refused", "wrong"} \/ (Dumped /\ ~out.status)
    /\ ls.err # "" \/ ls.eof
    /\ UNCHANGED dumpvars /\ UNCHANGED textvars

LoadNext == Dumping \/ OpenDump \/ OpenText \/ WrongMode \/ Undumping \/ Lexing \/ Loaded

LoadSpec == LoadInit /\ [][LoadNext]_<<dumpvars, textvars>>

-----------------------------------------------------------------------------
(* Properties of the lexer, here                                           *)

\* See TeaLex.
TokensCoverText == Lex!TokensCoverText
StringsNest == Lex!StringsNest
LinesCounted == Lex!LinesCounted

\* What TeaLex says the code does not keep.
LooksAtNext == Lex!LooksAtNext
CommentsNest == Lex!CommentsNest
ReturnsCounted == Lex!ReturnsCounted

=============================================================================

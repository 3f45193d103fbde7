----------------------------- MODULE TeaBytecode -----------------------------
(***************************************************************************)
(* Dumping a function to a file and loading it again: tea_dump, the writer *)
(* and the reader of bytecode (tea_bcwrite.c, tea_bcread.c), and the       *)
(* readers that hand out a file in blocks or a string whole (tea_load.c).  *)
(*                                                                         *)
(* The writer passes each section to a callback that may fail (tea_Writer  *)
(* returns a status); whoever stores the file may lose its end.  The       *)
(* reader asks for more input when what it has is too short, and must not  *)
(* read behind it.                                                         *)
(***************************************************************************)
EXTENDS BytecodeFormat

CONSTANTS
    Root,     \* prototypes that are dumped
    Names,    \* variable names of their module
    Piece,    \* sizes of the blocks input comes in
    HeadSize  \* bytes for the counts of parameters in a prototype's header

ASSUME BytecodeConstantsOK ==
    /\ GroupBits \in Nat \ {0} /\ WordBits \in Nat
    /\ Piece \subseteq Nat \ {0}
    /\ HeadSize \in Nat
    \* (tea_fls(n) + 8) * 9 >> 6 is the number of seven bit groups
    /\ \A b \in 0..31 : ((b + 8) * 9) \div 64 = b \div 7 + 1

VARIABLES
    root, names,  \* what is dumped
    strip,        \* without its lines?
    dump,         \* the sections this makes
    out,          \* the writer: next section, status
    file,         \* the bytes stored
    cut,          \* has the file lost its end?
    in,           \* the reader
    got           \* what it has read: the names, and the prototypes without a parent

vars == <<root, names, strip, dump, out, file, cut, in, got>>

\* Header, module, prototypes and footer.
f_writer(pt, vs, s) ==
    <<bcwrite_header(s), bcwrite_module(vs)>>
      \o [i \in DOMAIN bcwrite_order(pt) |-> bcwrite_proto(bcwrite_order(pt)[i], s)] \o <<<<0>>>>

\* avail are the bytes from p to pe, rest those the reader function has not handed
\* out, eof says that it has no more (c < 0), over that something was read behind pe.
NoInput == [pc |-> "none", piece |-> 0, avail |-> << >>, rest |-> << >>,
            eof |-> FALSE, over |-> FALSE, strip |-> FALSE, left |-> 0]

Init ==
    /\ root \in Root
    /\ names \in Names
    /\ strip \in BOOLEAN
    /\ dump = f_writer(root, names, strip)
    /\ out = [next |-> 1, status |-> TRUE]
    /\ file = << >>
    /\ cut = FALSE
    /\ in = NoInput
    /\ got = [names |-> << >>, stack |-> << >>]

-----------------------------------------------------------------------------
(* Writing                                                                 *)

\* Passing a section to the callback, which may fail.
Write(ok) ==
    /\ file' = IF ok THEN file \o dump[out.next] ELSE file
    /\ out' = [next |-> out.next + 1, status |-> ok]
    /\ UNCHANGED <<root, names, strip, dump, cut, in, got>>

\* The header and the module are written whatever became of the section before.
WriteHead == out.next <= 2 /\ \E ok \in BOOLEAN : Write(ok)

WriteProto ==
    /\ out.next \in 3..Len(dump) - 1
    /\ IF out.status THEN \E ok \in BOOLEAN : Write(ok)
       ELSE out' = [out EXCEPT !.next = @ + 1] /\ UNCHANGED <<root, names, strip, dump, file, cut, in, got>>

\* Fault: the footer is written whatever became of the prototypes.
FooterAlways == out.next = Len(dump) /\ \E ok \in BOOLEAN : Write(ok)
WriteFooter ==
    /\ out.next = Len(dump)
    /\ IF out.status THEN \E ok \in BOOLEAN : Write(ok)
       ELSE out' = [out EXCEPT !.next = @ + 1] /\ UNCHANGED <<root, names, strip, dump, file, cut, in, got>>

\* tea_bcwrite has returned; a dump that failed is thrown away.
Dumped == out.next > Len(dump)
Stored == Dumped /\ out.status

\* The file is copied or stored, and its end is lost.
LoseEnd ==
    /\ Stored /\ in.pc = "none" /\ ~cut /\ file # << >>
    /\ \E n \in 0..Len(file) - 1 : file' = SubSeq(file, 1, n)
    /\ cut' = TRUE
    /\ UNCHANGED <<root, names, strip, dump, out, in, got>>

-----------------------------------------------------------------------------
(* Reading                                                                 *)

\* bcread_fill: blocks are asked for until there are len bytes or there is no more.
Taken(i, n, len) ==
    [i EXCEPT !.avail = @ \o SubSeq(i.rest, 1, n), !.rest = Skip(@, n),
              !.eof = Len(i.avail) + n < len]

bcread_fill(i, len) ==
    Taken(i, Least(((len - Len(i.avail) + i.piece - 1) \div i.piece) * i.piece, Len(i.rest)), len)

\* An input that has ended must not be asked again.
bcread_want(i, len) ==
    IF Len(i.avail) >= len THEN i
    ELSE IF i.eof THEN [i EXCEPT !.pc = "refused"]
    ELSE bcread_fill(i, len)

Enough(i, len) == IF Len(i.avail) < len THEN [i EXCEPT !.pc = "refused"] ELSE i
bcread_need(i, len) == Enough(bcread_want(i, len), len)

\* The format's readers are applied to what is there.
Start(i) == Reading(i.avail, got.stack)
Took(i, r, pc) ==
    IF i.pc = "refused" THEN i
    ELSE IF ~r.ok THEN [i EXCEPT !.over = TRUE, !.pc = "refused"]
    ELSE [i EXCEPT !.avail = r.s, !.pc = pc]

\* tea_lex_setup looks at the first character: a dump begins with the signature.
tea_lex_setup(i) ==
    IF i.avail = << >> \/ Head(i.avail) # BCDUMP_HEAD1 THEN [i EXCEPT !.pc = "refused"]
    ELSE [i EXCEPT !.avail = Tail(@), !.pc = "header"]

OpenFile ==
    /\ Stored /\ in.pc = "none"
    /\ \E n \in Piece :
         in' = tea_lex_setup(bcread_fill([NoInput EXCEPT !.piece = n, !.rest = file], 1))
    /\ UNCHANGED <<root, names, strip, dump, out, file, cut, got>>

\* The signature is compared byte by byte.
HeaderOf(i, r) ==
    IF r.ok /\ r.v[1] # BCDUMP_HEAD THEN [i EXCEPT !.pc = "refused"]
    ELSE [Took(i, r, "module") EXCEPT !.strip = Last(r.v) = BCDUMP_F_STRIP]

bcread_header(i) == HeaderOf(i, ReadUleb(ReadBlock(Start(i), Len(BCDUMP_HEAD))))

ReadHeader ==
    /\ in.pc = "header"
    /\ in' = bcread_header(bcread_want(in, Len(BCDUMP_HEAD) + MaxUleb))
    /\ UNCHANGED <<root, names, strip, dump, out, file, cut, got>>

ModuleOf(i, r) ==
    [Took(i, r, IF Last(r.v) = 0 THEN "protos" ELSE "names") EXCEPT !.left = Last(r.v)]

bcread_module(i) == ModuleOf(i, ReadUleb(Start(i)))

ReadModule ==
    /\ in.pc = "module"
    /\ in' = bcread_module(bcread_want(in, MaxUleb))
    /\ UNCHANGED <<root, names, strip, dump, out, file, cut, got>>

\* Only the length of a name is asked for, not the name.
NameOf(i, r) ==
    /\ in' = [Took(i, r, IF in.left = 1 THEN "protos" ELSE "names") EXCEPT !.left = @ - 1]
    /\ got' = IF i.pc = "refused" \/ ~r.ok THEN got ELSE [got EXCEPT !.names = Append(@, Last(r.v))]

ReadNameFrom(i) == NameOf(i, ReadSized(Start(i)))

ReadName ==
    /\ in.pc = "names"
    /\ ReadNameFrom(bcread_want(in, MaxUleb))
    /\ UNCHANGED <<root, names, strip, dump, out, file, cut>>

AtFooter(i) == i.avail # << >> /\ Head(i.avail) = 0

\* A prototype must take all its bytes, and find its children on the stack.
ProtoOf(i, r, size) ==
    IF Len(i.avail) - Len(r.s) # size \/ ~r.ok \/ r.under
    THEN in' = [i EXCEPT !.pc = "refused", !.over = ~r.ok] /\ UNCHANGED got
    ELSE /\ in' = [i EXCEPT !.avail = r.s]
         /\ got' = [got EXCEPT !.stack = Append(r.stack, Prototype(r))]

ReadBody(i, size) ==
    IF i.pc = "refused" THEN in' = i /\ UNCHANGED got
    ELSE ProtoOf(i, bcread_proto(Start(i), HeadSize, i.strip), size)

\* Fault: the prototype is not asked for.
SizeOnly(i, r) ==
    IF i.pc = "refused" \/ ~r.ok \/ Last(r.v) = 0 THEN in' = Took(i, r, "end") /\ UNCHANGED got
    ELSE ReadBody(Took(i, r, "protos"), Last(r.v))

\* Its size first; then all of it is asked for.
ReadSize(i, r) ==
    IF i.pc = "refused" \/ ~r.ok \/ Last(r.v) = 0 THEN in' = Took(i, r, "end") /\ UNCHANGED got
    ELSE ReadBody(bcread_need(Took(i, r, "protos"), Last(r.v)), Last(r.v))

ReadProtoFrom(i) == ReadSize(i, ReadUleb(Start(i)))

ReadProto ==
    /\ in.pc = "protos" /\ ~AtFooter(in)
    /\ ReadProtoFrom(bcread_want(in, MaxUleb))
    /\ UNCHANGED <<root, names, strip, dump, out, file, cut>>

\* Shortcut EOF
ReadFooter ==
    /\ in.pc = "protos" /\ AtFooter(in)
    /\ in' = [in EXCEPT !.avail = Tail(@), !.pc = "end"]
    /\ UNCHANGED <<root, names, strip, dump, out, file, cut, got>>

\* Nothing may follow, and one prototype must be left.
EndRead ==
    /\ in.pc = "end"
    /\ in' = [in EXCEPT !.pc = IF in.avail = << >> /\ Len(got.stack) = 1 THEN "loaded" ELSE "refused"]
    /\ UNCHANGED <<root, names, strip, dump, out, file, cut, got>>

Closed ==
    /\ in.pc \in {"loaded", "refused"} \/ (Dumped /\ ~out.status)
    /\ UNCHANGED vars

Next ==
    \/ WriteHead \/ WriteProto \/ WriteFooter
    \/ LoseEnd
    \/ OpenFile \/ ReadHeader \/ ReadModule \/ ReadName \/ ReadProto \/ ReadFooter \/ EndRead
    \/ Closed

Spec == Init /\ [][Next]_vars

-----------------------------------------------------------------------------
(* Properties                                                              *)

\* The writer and the reader are where they can be, and what is read are names and
\* prototypes.
TypeOK ==
    /\ dump # << >> => out.next \in 1..Len(dump) + 1
    /\ out.status \in BOOLEAN
    /\ in.pc \in {"none", "header", "module", "names", "protos", "end", "loaded", "refused", "wrong"}
    /\ {in.eof, in.over, in.strip, cut} \subseteq BOOLEAN
    /\ in.left \in 0..Len(names)
    /\ Len(got.names) <= Len(names)

Whole == FlattenSeq(dump)
Complete == file = Whole

\* What a dump keeps: of the slots a function asks for only the lower byte, not that it
\* is variadic, nor its lines if they are stripped.
RECURSIVE Kept(_, _)
Kept(pt, s) ==
    LET ks == [i \in DOMAIN pt.ks |-> IF pt.ks[i].type = BCDUMP_KGC_FUNC
                                      THEN [pt.ks[i] EXCEPT !.v = Kept(@, s)] ELSE pt.ks[i]]
        unlined == IF s THEN [pt EXCEPT !.lines = << >>, !.firstline = 0, !.numline = 0] ELSE pt
    IN  [unlined EXCEPT !.flags = @ % PROTO_VARARG, !.slots = @ % Byte, !.ks = ks]

\* A function that is loaded is the one that was dumped, but for what Kept names, with
\* its module's names; a file that is complete is not refused unless the reader read
\* past its input, and one that has lost a piece is never taken for another function.
LoadsWhatWasDumped ==
    /\ in.pc = "loaded" => Complete /\ got = [names |-> names, stack |-> <<Kept(root, strip)>>]
    /\ in.pc = "refused" /\ Complete => in.over

\* However the children of prototypes nest, those that have been read and not yet been
\* taken by their parent are, flattened, the prototypes read so far.
StackMatches ==
    /\ TypeOK
    /\ ~in.over =>
        LET flat == FlattenSeq([i \in DOMAIN got.stack |-> bcwrite_order(got.stack[i])])
        IN  flat = SubSeq(bcwrite_order(Kept(root, strip)), 1, Len(flat))

\* The reader takes nothing from behind its input.  The exceptions: the names of the
\* module, and files that end early.
StaysInInput == in.over => ~Complete \/ in.pc = "names" \/ Len(got.names) < Len(names)

\* A dump that reports success has written every section.  The exception: the result of
\* writing the header is overwritten by that of writing the module.
DumpReported == Stored /\ ~cut => file \in {Whole, FlattenSeq(Tail(dump))}

-----------------------------------------------------------------------------
(* What the code does not keep                                             *)

\* The assertions of bcread_mem and bcread_byte: buffer read overflow.
NeverOverreads == ~in.over

\* A function that is loaded and the one that was dumped, and those they contain.
LoadedPairs ==
    LET loaded == bcwrite_order(got.stack[1])
    IN  {<<loaded[i], bcwrite_order(root)[i]>> : i \in DOMAIN loaded}

\* A function that is dumped and loaded is still variadic if it was.
TakesTheSame == in.pc = "loaded" => \A p \in LoadedPairs : p[1].flags = p[2].flags

\* It makes sure of as much stack when it is called (tea_vm.c:84).
AsksForItsSlots == in.pc = "loaded" => \A p \in LoadedPairs : p[1].slots = p[2].slots

\* A dump that reports success can be loaded.
SuccessIsComplete == Stored /\ ~cut => Complete
=============================================================================

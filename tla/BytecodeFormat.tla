--------------------------- MODULE BytecodeFormat ---------------------------
(***************************************************************************)
(* The bytecode dump format: what the writer puts out for a prototype      *)
(* (tea_bcwrite.c) and what the reader makes of bytes that are all there   *)
(* (tea_bcread.c).  Bytes are numbers.                                     *)
(*                                                                         *)
(* A prototype is a record: name, bc, uv and lines are sequences of bytes, *)
(* slots is the stack space it asks for, ks is the sequence of constants,  *)
(* [type, v] with v the text of a string, the two words of a number or a   *)
(* child prototype.                                                        *)
(*                                                                         *)
(* Abstractions.  A ULEB128 byte holds GroupBits bits instead of 7, and a  *)
(* word WordBits instead of 32, so that short texts and small numbers      *)
(* reach every case; the byte that holds a count of slots, which may be    *)
(* larger, is one of those.  The counts of parameters are the bytes of     *)
(* head, an upvalue's index is one byte, and both ends have the same byte  *)
(* order.                                                                  *)
(***************************************************************************)
EXTENDS Integers, SequencesExt

CONSTANTS
    GroupBits,  \* bits in a byte of a ULEB128 number
    WordBits    \* bits in half a number

BCDUMP_HEAD1 == 27
BCDUMP_HEAD == <<84, 101, 97, 0>>   \* the rest of the signature, and the version
BCDUMP_F_STRIP == 2
BCDUMP_KGC_NUM == 0
BCDUMP_KGC_FUNC == 1
BCDUMP_KGC_STR == 5
PROTO_VARARG == 2

MaxUleb == 5
Group == 2 ^ GroupBits
Byte == 2 * Group
Word == 2 ^ WordBits

-----------------------------------------------------------------------------
(* Numbers                                                                 *)

\* bcwrite_wuleb128: low groups first, all but the last marked.
RECURSIVE bcwrite_wuleb128(_)
bcwrite_wuleb128(v) ==
    IF v < Group THEN <<v>> ELSE <<(v % Group) + Group>> \o bcwrite_wuleb128(v \div Group)

\* The bytes of the number s begins with; none if s ends before it.
UlebEnds(s) == {n \in DOMAIN s : s[n] < Group}
UlebLen(s) == IF UlebEnds(s) = {} THEN 0 ELSE Min(UlebEnds(s))

\* tea_buf_ruleb128
tea_buf_ruleb128(s) ==
    FoldRight(LAMBDA b, v : (b % Group) + v * Group, SubSeq(s, 1, UlebLen(s)), 0)

\* A half of a number is written as 1 + 2 * lo, one bit more than a word has: the
\* arithmetic drops the highest bit, and when it is set the last byte is written over
\* with the upper bits of lo.
LastBits == WordBits - GroupBits * (WordBits \div GroupBits)
\* Fault: the last byte is left as it is.
bcwrite_32(lo) == bcwrite_wuleb128(1 + ((2 * lo) % Word))
bcwrite_33(lo) ==
    LET high == lo >= Word \div 2
        u == bcwrite_wuleb128(1 + ((2 * lo) % (Word \div 2)) +
                              (IF high \/ (2 * lo) % Word >= Word \div 2 THEN Word \div 2 ELSE 0))
        mask == 2 ^ (LastBits - 1)
    IN  IF ~high THEN u
        ELSE [u EXCEPT ![Len(u)] = (@ % mask) + mask * (lo \div 2 ^ (WordBits - 2))]

\* bcread_uleb128_33: the lowest bit of the first byte is dropped.
bcread_uleb128_33(s) ==
    LET n == UlebLen(s)
    IN  IF n = 0 THEN 0
        ELSE (s[1] % Group) \div 2 + FoldRight(LAMBDA b, v : (b % Group) + v * Group, SubSeq(s, 2, n), 0) * (Group \div 2)

\* The length the writer expects of the bytes of n: tea_fls is the highest bit set.
tea_fls(n) == IF n = 0 THEN 0 ELSE CHOOSE b \in 0..31 : n \div 2 ^ b = 1
SizeBytes(n) == tea_fls(n) \div GroupBits + 1

-----------------------------------------------------------------------------
(* Writing                                                                 *)

Sized(s) == bcwrite_wuleb128(Len(s)) \o s

bcwrite_knum(v) == bcwrite_33(v[1]) \o bcwrite_wuleb128(v[2])

Constant(k) ==
    CASE k.type = BCDUMP_KGC_STR -> bcwrite_wuleb128(BCDUMP_KGC_STR + Len(k.v)) \o k.v
      [] k.type = BCDUMP_KGC_FUNC -> <<BCDUMP_KGC_FUNC>>
      [] k.type = BCDUMP_KGC_NUM -> <<BCDUMP_KGC_NUM>> \o bcwrite_knum(k.v)

bcwrite_kgc(ks) == FlattenSeq([i \in DOMAIN ks |-> Constant(ks[i])])

\* Lines of the source, and how many bytes they take.
Debug(pt) ==
    bcwrite_wuleb128(Len(pt.lines))
      \o (IF pt.lines = << >> THEN << >>
          ELSE bcwrite_wuleb128(pt.firstline) \o bcwrite_wuleb128(pt.numline))

\* A prototype without its children.  Of its flags only that it has children is
\* written, of its slots the lower byte.
Body(pt, strip) ==
    Sized(pt.name) \o pt.head \o <<pt.flags % PROTO_VARARG, pt.slots % Byte, Len(pt.uv)>>
      \o bcwrite_wuleb128(Len(pt.bc)) \o bcwrite_wuleb128(Len(pt.ks))
      \o (IF strip THEN << >> ELSE Debug(pt))
      \o pt.bc \o pt.uv \o bcwrite_kgc(pt.ks) \o (IF strip THEN << >> ELSE pt.lines)

\* Fault: the first child before the others.
RECURSIVE OrderForward(_)
OrderForward(pt) ==
    LET children == SelectSeq(pt.ks, LAMBDA k : k.type = BCDUMP_KGC_FUNC)
    IN  FlattenSeq([i \in DOMAIN children |-> OrderForward(children[i].v)]) \o <<pt>>

\* The order of prototypes: children first, the last child before the others.
RECURSIVE bcwrite_order(_)
bcwrite_order(pt) ==
    LET children == SelectSeq(Reverse(pt.ks), LAMBDA k : k.type = BCDUMP_KGC_FUNC)
    IN  FlattenSeq([i \in DOMAIN children |-> bcwrite_order(children[i].v)]) \o <<pt>>

\* The size is put in front once it is known: the room left for it is filled from the
\* byte where it must begin for the body to follow.
Filled(body, first) ==
    SubSeq([i \in 1..first |-> 0] \o bcwrite_wuleb128(Len(body)) \o body,
           first + 1, MaxUleb + Len(body))

bcwrite_proto(pt, strip) ==
    Filled(Body(pt, strip), MaxUleb - SizeBytes(Len(Body(pt, strip))))

bcwrite_module(names) ==
    bcwrite_wuleb128(Len(names)) \o FlattenSeq([i \in DOMAIN names |-> Sized(names[i])])

bcwrite_header(strip) ==
    <<BCDUMP_HEAD1>> \o BCDUMP_HEAD \o <<IF strip THEN BCDUMP_F_STRIP ELSE 0>>

-----------------------------------------------------------------------------
(* Reading: r.s is what is left, r.v what was read so far, field by field, *)
(* r.ks the constants, r.stack the prototypes without a parent, r.ok that  *)
(* nothing was missing, r.under that there was no prototype for a child.   *)

Reading(s, stack) ==
    [s |-> s, v |-> << >>, ks |-> << >>, stack |-> stack, ok |-> TRUE, under |-> FALSE]

Least(m, n) == IF m < n THEN m ELSE n
Skip(s, n) == SubSeq(s, n + 1, Len(s))

ReadUleb(r) ==
    [r EXCEPT !.v = Append(@, tea_buf_ruleb128(r.s)), !.s = Skip(@, UlebLen(r.s)),
              !.ok = @ /\ UlebLen(r.s) > 0]

\* bcread_mem, bcread_block
ReadBlock(r, n) ==
    [r EXCEPT !.v = Append(@, SubSeq(r.s, 1, Least(n, Len(r.s)))), !.s = Skip(@, n),
              !.ok = @ /\ n <= Len(r.s)]

\* A block as long as the number just read.
ReadCounted(r) == ReadBlock(r, Last(r.v))
ReadSized(r) == ReadCounted(ReadUleb(r))

Read33(r) ==
    [r EXCEPT !.v = Append(@, bcread_uleb128_33(r.s)), !.s = Skip(@, UlebLen(r.s)),
              !.ok = @ /\ UlebLen(r.s) > 0]

Add(r, type, v) == [r EXCEPT !.ks = Append(@, [type |-> type, v |-> v])]
AddText(r) == Add(r, BCDUMP_KGC_STR, Last(r.v))
AddNum(r) == Add(r, BCDUMP_KGC_NUM, <<Last(Front(r.v)), Last(r.v)>>)

\* A child is popped from the stack.  If there is none, that is an error.
AddChild(r) ==
    IF r.stack = << >> THEN [r EXCEPT !.under = TRUE]
    ELSE [Add(r, BCDUMP_KGC_FUNC, Last(r.stack)) EXCEPT !.stack = Front(@)]

\* The constant whose type was read.
ReadConstant(r) ==
    IF Last(r.v) >= BCDUMP_KGC_STR THEN AddText(ReadBlock(r, Last(r.v) - BCDUMP_KGC_STR))
    ELSE IF Last(r.v) = BCDUMP_KGC_NUM THEN AddNum(ReadUleb(Read33(r)))
    ELSE AddChild(r)

bcread_kgc(r, sizek) ==
    FoldLeft(LAMBDA q, i : IF q.ok /\ ~q.under THEN ReadConstant(ReadUleb(q)) ELSE q, r,
             [i \in 1..sizek |-> i])

\* The fields in the order they are read.
nName == 2
nHead == 3
nFlags == 4
nSlots == 5
nUv == 6
nBc == 7
nKs == 8
nDbg == 9
nFirst == 10
nLine == 11
nBcs == 12
nUvs == 13

ReadByte(r) == ReadBlock(r, 1)
ByteOf(s) == Last(<<0>> \o s)

ReadHead(r, headsize) ==
    ReadUleb(ReadUleb(ReadByte(ReadByte(ReadByte(ReadBlock(ReadSized(r), headsize))))))

ReadDebugSize(r, strip) == IF strip THEN [r EXCEPT !.v = Append(@, 0)] ELSE ReadUleb(r)
ReadLines(r) ==
    IF r.v[nDbg] = 0 THEN [r EXCEPT !.v = @ \o <<0, 0>>] ELSE ReadUleb(ReadUleb(r))

ReadCode(r) == ReadBlock(r, r.v[nBc])
ReadUpvals(r) == ReadBlock(r, ByteOf(r.v[nUv]))
ReadKs(r) == bcread_kgc(r, r.v[nKs])
ReadDebug(r) == IF r.under THEN r ELSE ReadBlock(r, r.v[nDbg])

Prototype(r) ==
    [name |-> r.v[nName], head |-> r.v[nHead], flags |-> ByteOf(r.v[nFlags]),
     slots |-> ByteOf(r.v[nSlots]), uv |-> r.v[nUvs], bc |-> r.v[nBcs], ks |-> r.ks,
     lines |-> Last(r.v), firstline |-> r.v[nFirst], numline |-> r.v[nLine]]

bcread_proto(r, headsize, strip) ==
    ReadDebug(ReadKs(ReadUpvals(ReadCode(ReadLines(ReadDebugSize(ReadHead(r, headsize), strip))))))
=============================================================================

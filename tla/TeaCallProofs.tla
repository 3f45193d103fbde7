---------------------------- MODULE TeaCallProofs ----------------------------
(***************************************************************************)
(* The C stack, the CallInfo array and the two stack limits agree, for any *)
(* limits and any depth, and calls nest as AbstractCalls says.             *)
(***************************************************************************)
EXTENDS TeaCall, TeaLemmas, SequenceTheorems

\* Frames: kinds, flags and places.
FramesOK ==
    /\ ci[1].kind = "host" /\ ci[1].base = 0
    /\ \A i \in 2..Len(ci) : ci[i].kind \in {"TEA", "C", "CM"}
    /\ \A i \in 1..Len(ci) : ci[i].calling => ci[i].kind = "TEA"
    /\ \A i \in 1..Len(ci)-1 : ci[i].base <= ci[i+1].base
    /\ ci[Len(ci)].base <= top

\* Those of the first n activations of a C stack that tea_vm_call counts.
Counted(cs, n) == {j \in 1..n : cs[j].via # "bytecode"}

\* What an activation of the C stack knows of the frame it was entered for.
ActivationOK(j) ==
    LET a == native[j] IN
      /\ a.at \in 2..Len(ci)
      /\ a.runs = "exec" <=> ci[a.at].kind = "TEA"
      /\ a.slot = ci[a.at].base
      /\ a.saved.ci = a.at - 1
      /\ a.saved.nccalls = Cardinality(Counted(native, j-1))
      /\ a.via = "pcall" => /\ ci[a.at-1].kind # "TEA"
                            /\ a.saved.base = BaseOf(ci[a.at-1])

\* The C stack and the CallInfo array.
StacksOK ==
    /\ \A j \in 1..Len(native) : ActivationOK(j)
    /\ \A j, k \in 1..Len(native) : j < k => native[j].at < native[k].at
    /\ \A i \in 2..Len(ci) : ci[i].kind = "TEA" =>
           (ci[i-1].calling <=> \A j \in 1..Len(native) : native[j].at # i)
    /\ \A i \in 2..Len(ci) : ci[i].kind # "TEA" => \E j \in 1..Len(native) : native[j].at = i
    /\ nccalls = Cardinality(Counted(native, Len(native)))

FrameInv == TypeOK /\ FramesOK /\ StacksOK /\ NativeBase

\* How high frames may reach: after tea_state_relimitstack, to the last slot, else
\* to the extra slots, MetaArgs of which a caller may have used.
Ceiling ==
    IF stackmax = stacksize - 1 THEN stacksize - 2 ELSE stacksize - 2 - Extra + MetaArgs

RoomInv ==
    /\ stackmax \in {stacksize - 1, stacksize - 1 - Extra}
    /\ stacksize >= StackStart + Extra
    /\ top <= Ceiling
    /\ \A i \in 2..Len(ci) : ci[i].limit <= Ceiling /\ ci[i].base < Ceiling
    /\ \A i \in 2..Len(ci)-1 : ci[i].kind = "TEA" => ci[i+1].base < ci[i].limit
    /\ ci[Len(ci)].kind = "TEA" => top <= ci[Len(ci)].limit

RoomConstants == 2 * MetaArgs <= Extra + 2 /\ StackStart >= 2

FrameType == [kind : {"host", "TEA", "C", "CM"}, base : Nat, limit : Nat, calling : BOOLEAN]
ActivationType == [runs : {"exec", "cfn"}, via : Vias, at : Nat, slot : Nat, saved : Saved]

-----------------------------------------------------------------------------
(* What the invariant says of a state                                      *)

\* What the types say of the sequences, element by element.
LEMMA TypesOK ==
    ASSUME TypeOK
    PROVE  /\ ci \in Seq(FrameType) /\ Len(ci) \in Nat /\ Len(ci) >= 1 /\ DOMAIN ci = 1..Len(ci)
           /\ native \in Seq(ActivationType) /\ Len(native) \in Nat
           /\ DOMAIN native = 1..Len(native)
           /\ \A i \in 1..Len(ci) :
                 /\ ci[i].kind \in {"host", "TEA", "C", "CM"}
                 /\ ci[i].base \in Nat /\ ci[i].limit \in Nat /\ ci[i].calling \in BOOLEAN
           /\ \A j \in 1..Len(native) :
                 /\ native[j].runs \in {"exec", "cfn"} /\ native[j].via \in Vias
                 /\ native[j].at \in Nat /\ native[j].slot \in Nat
                 /\ native[j].saved \in Saved
                 /\ native[j].saved.ci \in Nat /\ native[j].saved.base \in Nat
                 /\ native[j].saved.nccalls \in Nat
           /\ cisize \in Nat /\ base \in Nat /\ top \in Nat /\ stacksize \in Nat /\ nccalls \in Nat
           /\ stackmax \in Int
           /\ Frame = ci[Len(ci)]
           /\ native # <<>> => Last(native) = native[Len(native)] /\ Len(native) >= 1
           /\ native = <<>> <=> Len(native) = 0
<1>1. ci \in Seq(FrameType) /\ native \in Seq(ActivationType) /\ ci # <<>>
  BY DEF TypeOK, FrameType, ActivationType
<1>2. /\ Len(ci) \in Nat /\ Len(ci) >= 1 /\ DOMAIN ci = 1..Len(ci)
      /\ Len(native) \in Nat /\ DOMAIN native = 1..Len(native)
      /\ native = <<>> <=> Len(native) = 0
      /\ \A i \in 1..Len(ci) : ci[i] \in FrameType
      /\ \A j \in 1..Len(native) : native[j] \in ActivationType
  BY <1>1
<1>3. \A i \in 1..Len(ci) :
          /\ ci[i].kind \in {"host", "TEA", "C", "CM"}
          /\ ci[i].base \in Nat /\ ci[i].limit \in Nat /\ ci[i].calling \in BOOLEAN
  BY <1>2 DEF FrameType
<1>4. \A j \in 1..Len(native) :
          /\ native[j].runs \in {"exec", "cfn"} /\ native[j].via \in Vias
          /\ native[j].at \in Nat /\ native[j].slot \in Nat /\ native[j].saved \in Saved
  BY <1>2 DEF ActivationType
<1>5. \A r \in Saved : r.ci \in Nat /\ r.base \in Nat /\ r.nccalls \in Nat
  BY DEF Saved
<1>6. Frame = ci[Len(ci)] /\ (native # <<>> => Last(native) = native[Len(native)] /\ Len(native) >= 1)
  BY <1>2 DEF Frame, Last
<1> QED
  BY <1>1, <1>2, <1>3, <1>4, <1>5, <1>6 DEF TypeOK

\* The loop runs exactly when the last frame is one of a Teascript function; the
\* host has control when there is no other frame.
LEMMA WhoRuns ==
    ASSUME FrameInv
    PROVE  /\ InHost <=> Len(ci) = 1
           /\ ~exited => (InTea <=> Frame.kind = "TEA")
           /\ Len(native) >= 1 => native[Len(native)].at \in 2..Len(ci)
           /\ \A j \in 1..Len(native) : native[j].at <= native[Len(native)].at
           /\ \A i \in 2..Len(ci) : i > native[Len(native)].at => ci[i].kind = "TEA"
           /\ (Len(native) >= 1 /\ native[Len(native)].runs = "cfn") => native[Len(native)].at = Len(ci)
<1> DEFINE n == Len(native)
<1>1. /\ Len(ci) \in Nat /\ Len(ci) >= 1 /\ n \in Nat /\ Frame = ci[Len(ci)]
      /\ InHost <=> n = 0
      /\ \A i \in 1..Len(ci) : ci[i].calling \in BOOLEAN
      /\ \A j \in 1..n : native[j].runs \in {"exec", "cfn"} /\ native[j].at \in Nat
      /\ n >= 1 => Last(native) = native[n]
  BY TypesOK DEF FrameInv, InHost
<1> HIDE DEF n
<1>2. \A j \in 1..n : /\ native[j].at \in 2..Len(ci)
                      /\ native[j].runs = "exec" <=> ci[native[j].at].kind = "TEA"
  BY DEF FrameInv, StacksOK, ActivationOK, n
<1>3. InHost <=> Len(ci) = 1
  <2>1. ASSUME n = 0, Len(ci) >= 2 PROVE FALSE
    <3>1. ci[2].kind = "TEA" /\ ci[1].calling
      BY <1>1, <2>1 DEF FrameInv, StacksOK, n
    <3> QED
      BY <1>1, <3>1 DEF FrameInv, FramesOK
  <2> QED
    BY <1>1, <1>2, <2>1
<1>4. \A j \in 1..n : native[j].at <= native[n].at
  BY <1>1 DEF FrameInv, StacksOK, n
<1>5. \A i \in 2..Len(ci) : i > native[n].at => ci[i].kind = "TEA"
  <2> SUFFICES ASSUME NEW i \in 2..Len(ci), i > native[n].at PROVE ci[i].kind = "TEA"
    OBVIOUS
  <2>1. \A j \in 1..n : native[j].at # i
    <3>1. \A j \in 1..n : native[n].at \in Nat /\ native[j].at \in Nat
      BY <1>1
    <3> QED
      BY <1>1, <1>4, <3>1
  <2> QED
    BY <2>1 DEF FrameInv, StacksOK, n
<1>6. (n >= 1 /\ native[n].runs = "cfn") => native[n].at = Len(ci)
  <2> SUFFICES ASSUME n >= 1, native[n].runs = "cfn", native[n].at # Len(ci) PROVE FALSE
    OBVIOUS
  <2> DEFINE k == native[n].at
  <2>1. k \in 2..Len(ci) /\ k+1 \in 2..Len(ci) /\ k+1 > k /\ k + 1 - 1 = k /\ k \in 1..Len(ci)
        /\ ci[k].kind # "TEA" /\ n \in 1..n
    BY <1>1, <1>2
  <2>2. ci[k+1].kind = "TEA"
    BY <1>5, <2>1
  <2>3. \A j \in 1..n : native[j].at # k+1
    BY <1>1, <1>4, <2>1
  <2>4. ci[k].calling
    BY <2>1, <2>2, <2>3 DEF FrameInv, StacksOK, n
  <2> QED
    BY <2>1, <2>4 DEF FrameInv, FramesOK
<1>7. ~exited => (InTea <=> Frame.kind = "TEA")
  <2>1. CASE n = 0
    BY <1>1, <1>3, <2>1 DEF InTea, FrameInv, FramesOK
  <2>2. CASE n >= 1
    <3>1. n \in 1..n /\ native[n].at \in 2..Len(ci) /\ Len(ci) \in 2..Len(ci)
      BY <1>1, <1>2, <2>2
    <3>2. native[n].at = Len(ci) \/ Len(ci) > native[n].at
      BY <3>1
    <3>3. native[n].runs = "exec" <=> ci[Len(ci)].kind = "TEA"
      BY <1>1, <1>2, <1>5, <1>6, <2>2, <3>1, <3>2
    <3> QED
      BY <1>1, <2>2, <3>3 DEF InTea
  <2> QED
    BY <1>1, <2>1, <2>2
<1> QED
  BY <1>1, <1>2, <1>3, <1>4, <1>5, <1>6, <1>7 DEF n

\* One more activation counts for one if tea_vm_call made it.
LEMMA CountOne ==
    ASSUME NEW cs, NEW n \in Nat
    PROVE  /\ IsFiniteSet(Counted(cs, n)) /\ Cardinality(Counted(cs, n)) \in Nat
           /\ Cardinality(Counted(cs, n+1)) =
                 Cardinality(Counted(cs, n)) + (IF cs[n+1].via = "bytecode" THEN 0 ELSE 1)
<1>1. IsFiniteSet(Counted(cs, n)) /\ Cardinality(Counted(cs, n)) \in Nat
  <2>1. IsFiniteSet(1..n) /\ Counted(cs, n) \in SUBSET (1..n)
    BY FS_Interval DEF Counted
  <2>2. IsFiniteSet(Counted(cs, n))
    BY <2>1, FS_Subset
  <2> QED
    BY <2>2, FS_CardinalityType
<1>2. 1..(n+1) = (1..n) \cup {n+1} /\ n+1 \notin 1..n
  OBVIOUS
<1>3. CASE cs[n+1].via = "bytecode"
  <2>1. Counted(cs, n+1) = Counted(cs, n)
    BY <1>2, <1>3 DEF Counted
  <2> QED
    BY <1>1, <1>3, <2>1
<1>4. CASE cs[n+1].via # "bytecode"
  <2>1. Counted(cs, n+1) = Counted(cs, n) \cup {n+1} /\ n+1 \notin Counted(cs, n)
    BY <1>2, <1>4 DEF Counted
  <2>2. Cardinality(Counted(cs, n) \cup {n+1}) = Cardinality(Counted(cs, n)) + 1
    BY <1>1, <2>1, FS_AddElement
  <2> QED
    BY <1>1, <1>4, <2>1, <2>2
<1> QED
  BY <1>1, <1>3, <1>4

\* The number of counted activations depends on the activations alone.
LEMMA CountSame ==
    ASSUME NEW cs, NEW ds, NEW n \in Nat, \A j \in 1..n : cs[j] = ds[j]
    PROVE  Counted(cs, n) = Counted(ds, n)
BY DEF Counted

-----------------------------------------------------------------------------
(* Steps that leave frames or take them away                               *)

\* Only the stacks' heights and sizes change.
LEMMA HeightInv ==
    ASSUME FrameInv, UNCHANGED <<ci, base, nccalls, native, exited>>,
           top' \in Nat, ci[Len(ci)].base <= top',
           cisize' \in Nat, stacksize' \in Nat, stackmax' \in Int
    PROVE  FrameInv'
<1>1. TypeOK' /\ FramesOK' /\ NativeBase'
  BY DEF FrameInv, TypeOK, FramesOK, NativeBase, InNative, InTea, InHost, Frame
<1>2. StacksOK'
  <2>1. \A j \in 1..Len(native) : ActivationOK(j)'
    BY DEF FrameInv, StacksOK, ActivationOK, BaseOf
  <2>2. Cardinality(Counted(native, Len(native)))' = Cardinality(Counted(native, Len(native)))
    OBVIOUS
  <2> QED
    BY <2>1, <2>2 DEF FrameInv, StacksOK
<1> QED
  BY <1>1, <1>2 DEF FrameInv

\* The first m frames and the activations entered for them remain.
LEMMA CutInv ==
    ASSUME FrameInv, NEW m \in 1..Len(ci), NEW k \in 0..Len(native),
           ci' = SubSeq(ci, 1, m), native' = SubSeq(native, 1, k),
           \A j \in 1..Len(native) : native[j].at <= m <=> j <= k,
           top' \in Nat, ci[m].base <= top', base' = BaseOf(ci[m]),
           nccalls' = Cardinality(Counted(native, k)),
           cisize' \in Nat, stacksize' \in Nat, stackmax' \in Int, exited' \in BOOLEAN
    PROVE  FrameInv'
<1>1. /\ ci \in Seq(FrameType) /\ Len(ci) \in Nat /\ native \in Seq(ActivationType)
      /\ Len(native) \in Nat /\ m \in Nat /\ k \in Nat
      /\ \A j \in 1..Len(native) : native[j].at \in Nat /\ native[j].via \in Vias
      /\ \A i \in 1..Len(ci) : ci[i].base \in Nat
  BY TypesOK DEF FrameInv
<1>2. /\ ci' \in Seq(FrameType) /\ Len(ci') = m /\ ci' # <<>>
      /\ \A i \in 1..m : ci'[i] = ci[i]
      /\ native' \in Seq(ActivationType) /\ Len(native') = k
      /\ \A j \in 1..k : native'[j] = native[j]
  <2>1. /\ SubSeq(ci, 1, m) \in Seq(FrameType) /\ Len(SubSeq(ci, 1, m)) = m
        /\ \A i \in 1..m : SubSeq(ci, 1, m)[i] = ci[i]
    BY <1>1, PrefixOK
  <2>2. /\ SubSeq(native, 1, k) \in Seq(ActivationType) /\ Len(SubSeq(native, 1, k)) = k
        /\ \A j \in 1..k : SubSeq(native, 1, k)[j] = native[j]
    BY <1>1, PrefixOK
  <2>3. /\ ci' \in Seq(FrameType) /\ Len(ci') = m
        /\ \A i \in 1..m : ci'[i] = ci[i]
    BY <2>1
  <2>4. ci' # <<>>
    <3>1. m >= 1 /\ m # 0
      BY <1>1
    <3> QED
      BY <2>3, <3>1
  <2>5. /\ native' \in Seq(ActivationType) /\ Len(native') = k
        /\ \A j \in 1..k : native'[j] = native[j]
    BY <2>2
  <2> QED
    BY <2>3, <2>4, <2>5
<1>3. base' \in Nat /\ nccalls' \in Nat
  <2>1. ci[m].base \in Nat
    BY <1>1
  <2>2. base' \in Nat
    BY <2>1 DEF BaseOf
  <2>3. nccalls' \in Nat
    BY <1>1, CountOne
  <2> QED
    BY <2>2, <2>3
<1>4. TypeOK'
  BY <1>2, <1>3 DEF TypeOK, FrameType, ActivationType
<1>5. FramesOK'
  <2>1. /\ 1 \in 1..m /\ m \in 1..m /\ \A i \in 1..m : i \in 1..Len(ci)
        /\ \A i \in 2..m : i \in 2..Len(ci) /\ i \in 1..m
        /\ \A i \in 1..(m-1) : i \in 1..Len(ci)-1 /\ i \in 1..m /\ i+1 \in 1..m
    BY <1>1
  <2> QED
    BY <1>2, <2>1 DEF FrameInv, FramesOK
<1>6. \A j \in 1..k : j \in 1..Len(native) /\ native[j].at \in 2..m /\ native[j].at - 1 \in 1..m
                      /\ native[j].at \in 1..m
  BY <1>1 DEF FrameInv, StacksOK, ActivationOK
<1>7. \A j \in 1..k : ActivationOK(j)'
  <2> SUFFICES ASSUME NEW j \in 1..k PROVE ActivationOK(j)'
    OBVIOUS
  <2>1. j-1 \in Nat /\ \A i \in 1..(j-1) : native'[i] = native[i]
    BY <1>1, <1>2
  <2>2. Counted(native', j-1) = Counted(native, j-1)
    BY <2>1, CountSame
  <2>3. ActivationOK(j) /\ native'[j] = native[j]
    BY <1>2, <1>6 DEF FrameInv, StacksOK
  <2>4. /\ native[j].at \in 2..m /\ ci'[native[j].at] = ci[native[j].at]
        /\ ci'[native[j].at - 1] = ci[native[j].at - 1]
    BY <1>2, <1>6
  <2> QED
    BY <1>2, <2>2, <2>3, <2>4 DEF ActivationOK, BaseOf
<1>8. nccalls' = Cardinality(Counted(native', k))
  BY <1>1, <1>2, CountSame
<1>9. \A i \in 2..m : /\ i \in 2..Len(ci) /\ i \in 1..m /\ i-1 \in 1..m
                      /\ \A j \in 1..Len(native) : native[j].at = i => j \in 1..k
  BY <1>1
<1>10. StacksOK'
  <2>1. \A i, j \in 1..k : i < j => native'[i].at < native'[j].at
    BY <1>2, <1>6 DEF FrameInv, StacksOK
  <2>2. ASSUME NEW i \in 2..m, ci'[i].kind = "TEA"
        PROVE  ci'[i-1].calling <=> \A j \in 1..k : native'[j].at # i
    <3>1. i \in 2..Len(ci) /\ ci[i].kind = "TEA"
      BY <1>2, <1>9, <2>2
    <3>2. ci[i-1].calling <=> \A j \in 1..Len(native) : native[j].at # i
      BY <3>1 DEF FrameInv, StacksOK
    <3> QED
      BY <1>2, <1>6, <1>9, <3>2
  <2>3. ASSUME NEW i \in 2..m, ci'[i].kind # "TEA" PROVE \E j \in 1..k : native'[j].at = i
    <3>1. i \in 2..Len(ci) /\ ci[i].kind # "TEA"
      BY <1>2, <1>9, <2>3
    <3>2. PICK j \in 1..Len(native) : native[j].at = i
      BY <3>1 DEF FrameInv, StacksOK
    <3> QED
      BY <1>2, <1>9, <3>2
  <2>4. nccalls' = Cardinality(Counted(native', Len(native')))
    BY <1>2, <1>8
  <2>5. \A j \in 1..Len(native') : ActivationOK(j)'
    BY <1>2, <1>7
  <2>6. \A i, j \in 1..Len(native') : i < j => native'[i].at < native'[j].at
    BY <1>2, <2>1
  <2>7. \A i \in 2..Len(ci') : ci'[i].kind = "TEA" =>
            (ci'[i-1].calling <=> \A j \in 1..Len(native') : native'[j].at # i)
    BY <1>2, <2>2
  <2>8. \A i \in 2..Len(ci') : ci'[i].kind # "TEA" => \E j \in 1..Len(native') : native'[j].at = i
    BY <1>2, <2>3
  <2> QED
    BY <2>4, <2>5, <2>6, <2>7, <2>8 DEF StacksOK
<1>11. NativeBase'
  BY <1>1, <1>2 DEF NativeBase, Frame, Last
<1> QED
  BY <1>4, <1>5, <1>10, <1>11 DEF FrameInv

\* The first m frames remain, and the k activations entered for one of them.
Cut(m, k) ==
    /\ m \in 1..Len(ci) /\ k \in 0..Len(native)
    /\ ci' = SubSeq(ci, 1, m) /\ native' = SubSeq(native, 1, k)
    /\ \A j \in 1..Len(native) : native[j].at <= m <=> j <= k

\* BC_RETURN and the end of a native function.
LEMMA ReturnInv ==
    ASSUME FrameInv, Return PROVE FrameInv' /\ \E k \in 0..Len(native) : Cut(Len(ci)-1, k)
<1> DEFINE n == Len(native)
           m == Len(ci) - 1
<1>1. /\ ~exited /\ ~InHost
      /\ base' = BaseOf(ci[m]) /\ ci' = SubSeq(ci, 1, m) /\ top' = Frame.base + 1
      /\ native' = IF InTea /\ ci[m].calling THEN native ELSE SubSeq(native, 1, n-1)
      /\ nccalls' = nccalls - (IF ~(InTea /\ ci[m].calling) /\ Last(native).via # "bytecode"
                              THEN 1 ELSE 0)
      /\ UNCHANGED <<cisize, stacksize, stackmax, exited>>
  BY DEF Return
<1>2. /\ Len(ci) \in Nat /\ n \in Nat /\ Frame = ci[m+1] /\ Frame.base \in Nat
      /\ cisize \in Nat /\ stacksize \in Nat /\ stackmax \in Int /\ exited \in BOOLEAN
      /\ Len(ci) >= 2 /\ m \in 1..Len(ci) /\ m+1 = Len(ci) /\ n >= 1 /\ Last(native) = native[n]
      /\ \A j \in 1..n : native[j].at \in Nat /\ native[j].via \in Vias
      /\ native \in Seq(ActivationType) /\ ci[m].base \in Nat
  <2>1. Len(ci) \in Nat /\ Len(ci) # 1 /\ Len(ci) >= 1
    BY <1>1, WhoRuns, TypesOK DEF FrameInv
  <2>2. Len(ci) >= 2 /\ m \in 1..Len(ci) /\ m+1 = Len(ci) /\ Len(ci) \in 1..Len(ci)
    <3>1. \A x \in Nat : x # 1 /\ x >= 1 => x >= 2 /\ x-1 \in 1..x /\ x-1+1 = x /\ x \in 1..x
      OBVIOUS
    <3> QED
      BY <2>1, <3>1
  <2>3. n \in Nat /\ n >= 1 /\ Last(native) = native[n]
    BY <1>1, TypesOK DEF FrameInv, InHost
  <2>4. Frame = ci[m+1] /\ Frame.base \in Nat /\ ci[m].base \in Nat
    BY <2>2, TypesOK DEF FrameInv
  <2>5. /\ \A j \in 1..n : native[j].at \in Nat /\ native[j].via \in Vias
        /\ native \in Seq(ActivationType)
        /\ cisize \in Nat /\ stacksize \in Nat /\ stackmax \in Int
    BY TypesOK DEF FrameInv
  <2>6. exited \in BOOLEAN
    BY DEF FrameInv, TypeOK
  <2> QED
    BY <2>1, <2>2, <2>3, <2>4, <2>5, <2>6
<1>3. ci[m].base <= top' /\ top' \in Nat
  <2>1. ci[m].base <= ci[m+1].base
    BY <1>2 DEF FrameInv, FramesOK
  <2> QED
    BY <1>1, <1>2, <2>1
<1>4. /\ InTea <=> ci[m+1].kind = "TEA"
      /\ \A j \in 1..n : native[j].at <= native[n].at /\ native[j].at \in 2..(m+1)
      /\ native[n].at \in 2..(m+1) /\ m+1 \in 2..Len(ci) /\ m+1-1 = m
      /\ \A j \in 1..n : j < n => native[j].at < native[n].at
  <2>1. InTea <=> ci[m+1].kind = "TEA"
    BY <1>1, <1>2, WhoRuns
  <2>2. \A j \in 1..n : native[j].at <= native[n].at /\ native[j].at \in 2..(m+1)
    BY <1>2, WhoRuns DEF FrameInv, StacksOK, ActivationOK
  <2>3. \A j \in 1..n : j < n => native[j].at < native[n].at
    BY <1>2 DEF FrameInv, StacksOK
  <2>4. n \in 1..n
    BY <1>2
  <2>5. m+1 \in 2..Len(ci) /\ m+1-1 = m
    BY <1>2
  <2> QED
    BY <2>1, <2>2, <2>3, <2>4, <2>5
<1>5. nccalls = Cardinality(Counted(native, n))
  BY DEF FrameInv, StacksOK
<1>6. CASE InTea /\ ci[m].calling
  <2>1. \A j \in 1..n : native[j].at # m+1
    BY <1>4, <1>6 DEF FrameInv, StacksOK
  <2>2. \A j \in 1..n : native[j].at <= m
    BY <1>2, <1>4, <2>1
  <2>3. native' = SubSeq(native, 1, n) /\ nccalls' = Cardinality(Counted(native, n))
    BY <1>1, <1>2, <1>5, <1>6, CountOne
  <2>4. n \in 0..Len(native)
    BY <1>2
  <2>5. \A j \in 1..n : native[j].at <= m <=> j <= n
    BY <1>2, <2>2
  <2> HIDE DEF n, m
  <2>6. FrameInv'
    BY <1>1, <1>2, <1>3, <2>3, <2>4, <2>5, CutInv DEF n
  <2>7. Cut(m, n)
    BY <1>1, <1>2, <2>3, <2>4, <2>5 DEF Cut, n
  <2> QED
    BY <2>4, <2>6, <2>7 DEF m
<1>7. CASE ~(InTea /\ ci[m].calling)
  <2>1. \E j \in 1..n : native[j].at = m+1
    BY <1>4, <1>7 DEF FrameInv, StacksOK
  <2>2. native[n].at = m+1
    BY <1>2, <1>4, <2>1
  <2> DEFINE k == n-1
  <2>3. k \in Nat /\ k+1 = n /\ k \in 0..Len(native)
    BY <1>2
  <2>4. \A j \in 1..n : native[j].at <= m <=> j <= k
    BY <1>2, <1>4, <2>2, <2>3
  <2>5. nccalls' = Cardinality(Counted(native, k))
    <3>1. Cardinality(Counted(native, k+1)) =
             Cardinality(Counted(native, k)) + (IF native[k+1].via = "bytecode" THEN 0 ELSE 1)
          /\ Cardinality(Counted(native, k)) \in Nat
      BY <2>3, CountOne
    <3> HIDE DEF k
    <3> QED
      BY <1>1, <1>2, <1>5, <1>7, <2>3, <3>1
  <2>6. native' = SubSeq(native, 1, k)
    BY <1>1, <1>7
  <2> HIDE DEF n, m, k
  <2>7. FrameInv'
    BY <1>1, <1>2, <1>3, <2>3, <2>4, <2>5, <2>6, CutInv DEF n
  <2>8. Cut(m, k)
    BY <1>1, <1>2, <2>3, <2>4, <2>6 DEF Cut, n
  <2> QED
    BY <2>3, <2>7, <2>8 DEF m
<1> QED
  BY <1>6, <1>7

-----------------------------------------------------------------------------
(* Calls                                                                   *)

\* What vm_call does when neither check fails.
Entered(f, via, slot, t) ==
    /\ native' = Activations(f, via, slot)
    /\ nccalls' = nccalls + (IF via = "bytecode" THEN 0 ELSE 1)
    /\ cisize' = GrownCi
    /\ SetStackSize(GrownSize(t, f.slots))
    /\ ci' = Append([ci EXCEPT ![Len(ci)].calling = CallerFlag(f, via)], NewFrame(f, slot, t))
    /\ base' = CASE f.kind = "TEA" -> base
                 [] f.kind = "C" -> slot + 1
                 [] f.kind = "CM" -> slot
    /\ top' = t
    /\ UNCHANGED exited

\* The callee and its arguments are above the caller's frame, at the top.
CallSite(f, via, slot, t) ==
    /\ ~exited
    /\ f \in Callees /\ via \in Vias /\ slot \in Nat /\ t \in Nat
    /\ ci[Len(ci)].base <= slot /\ slot < t /\ slot < top /\ t <= top + MetaArgs
    /\ via = "bytecode" => InTea
    /\ via = "pcall" => ~InTea
    /\ ~InTea => t = top /\ base <= slot

\* A call that is refused, by either check.
Overflow(f, via, slot, t) ==
    \E n \in {cisize, GrownCi}, s \in {stacksize, GrownSize(t, f.slots)} :
        Fail(Activations(f, via, slot), n, s)

\* A call is entered or meets an overflow.
LEMMA EnterCases ==
    ASSUME NEW f, NEW via, NEW slot, NEW t, Enter(f, via, slot, t)
    PROVE  Entered(f, via, slot, t) \/ Overflow(f, via, slot, t)
BY DEF Enter, Entered, Overflow

\* The three ways to call are one.
LEMMA CallsAreSites ==
    ASSUME FrameInv,
           \/ \E f \in Callees, nargs \in 0..1 : BytecodeCall(f, nargs)
           \/ \E f \in Callees, pushed \in 0..MetaArgs : OperatorCall(f, pushed)
           \/ \E f \in Callees, nargs \in 0..1, via \in NativeVias : NativeCall(f, nargs, via)
    PROVE  \E f \in Callees, via \in Vias, slot, t \in Nat :
              CallSite(f, via, slot, t) /\ Enter(f, via, slot, t)
<1>1. /\ top \in Nat /\ base \in Nat /\ MetaArgs \in Nat /\ Frame = ci[Len(ci)]
      /\ Frame.base \in Nat /\ Len(ci) \in 1..Len(ci)
  <2>1. Len(ci) \in 1..Len(ci) /\ Frame = ci[Len(ci)] /\ top \in Nat /\ base \in Nat
    BY TypesOK DEF FrameInv
  <2> QED
    BY <2>1, TypesOK, CallConstantsOK DEF FrameInv
<1>2. InTea => ~exited
  BY DEF InTea
<1>3. InNative => ~exited /\ ~InTea /\ Frame.base <= base
  BY <1>1 DEF InNative, FrameInv, NativeBase, BaseOf
<1>4. ASSUME NEW f \in Callees, NEW nargs \in 0..1, BytecodeCall(f, nargs)
      PROVE  /\ top-nargs-1 \in Nat /\ Enter(f, "bytecode", top-nargs-1, top)
             /\ CallSite(f, "bytecode", top-nargs-1, top)
  BY <1>1, <1>2, <1>4 DEF BytecodeCall, CallSite, Vias
<1>5. ASSUME NEW f \in Callees, NEW pushed \in 0..MetaArgs, OperatorCall(f, pushed)
      PROVE  /\ top-1 \in Nat /\ top+pushed \in Nat /\ Enter(f, "call", top-1, top+pushed)
             /\ CallSite(f, "call", top-1, top+pushed)
  BY <1>1, <1>2, <1>5 DEF OperatorCall, CallSite, Vias
<1>6. ASSUME NEW f \in Callees, NEW nargs \in 0..1, NEW via \in NativeVias,
             NativeCall(f, nargs, via)
      PROVE  /\ top-nargs-1 \in Nat /\ via \in Vias /\ Enter(f, via, top-nargs-1, top)
             /\ CallSite(f, via, top-nargs-1, top)
  <2>1. via \in {"call", "pcall"}
    BY CallConstantsOK
  <2> QED
    BY <1>1, <1>3, <1>6, <2>1 DEF NativeCall, CallSite, Vias
<1>7. "bytecode" \in Vias /\ "call" \in Vias
  BY DEF Vias
<1> QED
  BY <1>1, <1>4, <1>5, <1>6, <1>7

\* The arrays after a call, place by place: m frames and n activations before it.
EnteredArrays(f, via, slot, t, m, n) ==
    /\ f.kind \in {"TEA", "C", "CM"} /\ f.slots \in Nat
    /\ ci' \in Seq(FrameType) /\ Len(ci') = m+1 /\ m >= 1
    /\ \A i \in 1..m : /\ i # m => ci'[i] = ci[i]
                       /\ ci'[i].kind = ci[i].kind /\ ci'[i].base = ci[i].base
                       /\ ci'[i].limit = ci[i].limit
    /\ ci'[m].calling = CallerFlag(f, via) /\ ci'[m+1] = NewFrame(f, slot, t)
    /\ native' \in Seq(ActivationType)
    /\ \A j \in 1..n : native'[j] = native[j]
    /\ f.kind = "TEA" /\ via = "bytecode" => native' = native
    /\ ~(f.kind = "TEA" /\ via = "bytecode") =>
          /\ Len(native') = n+1
          /\ native'[n+1].runs = IF f.kind = "TEA" THEN "exec" ELSE "cfn"
          /\ native'[n+1].via = via /\ native'[n+1].at = m+1 /\ native'[n+1].slot = slot
          /\ native'[n+1].saved = SavedState

\* Entering adds a frame and the activations of its native code, and nothing below changes.
LEMMA EnteredFrames ==
    ASSUME FrameInv, NEW f, NEW via, NEW slot, NEW t,
           CallSite(f, via, slot, t), Entered(f, via, slot, t),
           NEW m \in Nat, m = Len(ci), NEW n \in Nat, n = Len(native)
    PROVE  EnteredArrays(f, via, slot, t, m, n)
<1>1. f.kind \in {"TEA", "C", "CM"} /\ f.slots \in Nat
  BY CallConstantsOK DEF CallSite, Callees
<1>2. /\ ci \in Seq(FrameType) /\ m >= 1 /\ DOMAIN ci = 1..m /\ native \in Seq(ActivationType)
      /\ base \in Nat /\ nccalls \in Nat /\ Frame = ci[m]
      /\ \A i \in 1..m : ci[i].calling \in BOOLEAN
  BY TypesOK DEF FrameInv
<1>3. CallerFlag(f, via) \in BOOLEAN
  <2>1. Frame.calling \in BOOLEAN
    BY <1>2
  <2>2. CallerFlag(f, via) = (via = "bytecode") \/ CallerFlag(f, via) = Frame.calling
    BY DEF CallerFlag
  <2>3. (via = "bytecode") \in BOOLEAN
    OBVIOUS
  <2> QED
    BY <2>1, <2>2, <2>3
<1>4. NewFrame(f, slot, t) \in FrameType
  BY <1>1 DEF NewFrame, FrameType, CallSite
<1> DEFINE c == [ci EXCEPT ![m].calling = CallerFlag(f, via)]
<1>5. /\ c \in Seq(FrameType) /\ Len(c) = m
      /\ \A i \in 1..m : i # m => c[i] = ci[i]
      /\ c[m] = [ci[m] EXCEPT !.calling = CallerFlag(f, via)]
  <2>1. ci[m] \in FrameType
    BY <1>2
  <2>2. [ci[m] EXCEPT !.calling = CallerFlag(f, via)] \in FrameType
    BY <1>3, <2>1 DEF FrameType
  <2> QED
    BY <1>2, <2>1, <2>2
<1>6. /\ c[m].kind = ci[m].kind /\ c[m].base = ci[m].base /\ c[m].limit = ci[m].limit
      /\ c[m].calling = CallerFlag(f, via)
  <2>1. ci[m] \in FrameType
    BY <1>2
  <2> QED
    BY <1>5, <2>1 DEF FrameType
<1>7. ci' = Append(c, NewFrame(f, slot, t))
  BY DEF Entered
<1> HIDE DEF c
<1>8. /\ ci' \in Seq(FrameType) /\ Len(ci') = m+1
      /\ \A i \in 1..m : ci'[i] = c[i]
      /\ ci'[m+1] = NewFrame(f, slot, t)
  BY <1>4, <1>5, <1>7
<1>9. \A i \in 1..m : /\ i # m => ci'[i] = ci[i]
                      /\ ci'[i].kind = ci[i].kind /\ ci'[i].base = ci[i].base
                      /\ ci'[i].limit = ci[i].limit
  <2> SUFFICES ASSUME NEW i \in 1..m
               PROVE  /\ i # m => ci'[i] = ci[i]
                      /\ ci'[i].kind = ci[i].kind /\ ci'[i].base = ci[i].base
                      /\ ci'[i].limit = ci[i].limit
    OBVIOUS
  <2>1. CASE i = m
    BY <1>6, <1>8, <2>1
  <2>2. CASE i # m
    BY <1>5, <1>8, <2>2
  <2> QED
    BY <2>1, <2>2
<1>10. ci'[m].calling = CallerFlag(f, via)
  <2>1. m \in 1..m
    BY <1>2
  <2> QED
    BY <1>6, <1>8, <2>1
<1>11. CASE f.kind = "TEA" /\ via = "bytecode"
  BY <1>1, <1>2, <1>8, <1>9, <1>10, <1>11 DEF Entered, Activations, EnteredArrays
<1>12. CASE ~(f.kind = "TEA" /\ via = "bytecode")
  <2> DEFINE a == [runs |-> IF f.kind = "TEA" THEN "exec" ELSE "cfn", via |-> via,
                   at |-> m + 1, slot |-> slot, saved |-> SavedState]
  <2>1. a \in ActivationType
    BY <1>2 DEF ActivationType, CallSite, SavedState, Saved
  <2>2. native' = Append(native, a)
    BY <1>12 DEF Entered, Activations
  <2>3. /\ a.runs = IF f.kind = "TEA" THEN "exec" ELSE "cfn"
        /\ a.via = via /\ a.at = m+1 /\ a.slot = slot /\ a.saved = SavedState
    OBVIOUS
  <2> HIDE DEF a
  <2>4. /\ native' \in Seq(ActivationType) /\ Len(native') = n+1 /\ native'[n+1] = a
        /\ \A j \in 1..n : native'[j] = native[j]
    BY <1>2, <2>1, <2>2
  <2> QED
    BY <1>1, <1>2, <1>8, <1>9, <1>10, <1>12, <2>3, <2>4 DEF EnteredArrays
<1> QED
  BY <1>11, <1>12

\* The constants are numbers.
LEMMA ConstantsAreNat ==
    /\ MaxCalls \in Nat /\ MaxCCalls \in Nat /\ CiMin \in Nat /\ StackStart \in Nat
    /\ Extra \in Nat /\ MetaArgs \in Nat /\ MetaArgs <= Extra /\ MaxCalls >= 1 /\ StackStart >= 1
BY CallConstantsOK

\* What the arrays grow to is a number.
LEMMA SizeIsNat ==
    ASSUME FrameInv, NEW t \in Nat, NEW slots \in Nat
    PROVE  GrownSize(t, slots) \in Nat /\ GrownCi \in Nat
<1>1. stacksize \in Nat /\ cisize \in Nat /\ stackmax \in Int
  BY TypesOK DEF FrameInv
<1> QED
  BY <1>1, ConstantsAreNat DEF GrownSize, GrownCi

\* Entering a function keeps the frames consistent (vm_call, vm_precall).
LEMMA EnterInv ==
    ASSUME FrameInv, NEW f, NEW via, NEW slot, NEW t,
           CallSite(f, via, slot, t), Entered(f, via, slot, t)
    PROVE  FrameInv'
<1>1. PICK m \in Nat, n \in Nat : m = Len(ci) /\ n = Len(native)
  BY TypesOK DEF FrameInv
<1> DEFINE Fresh == ~(f.kind = "TEA" /\ via = "bytecode")
<1>2. /\ f.kind \in {"TEA", "C", "CM"} /\ f.slots \in Nat
      /\ ci' \in Seq(FrameType) /\ Len(ci') = m+1 /\ m >= 1
      /\ \A i \in 1..m : /\ i # m => ci'[i] = ci[i]
                         /\ ci'[i].kind = ci[i].kind /\ ci'[i].base = ci[i].base
                         /\ ci'[i].limit = ci[i].limit
      /\ ci'[m].calling = CallerFlag(f, via) /\ ci'[m+1] = NewFrame(f, slot, t)
      /\ native' \in Seq(ActivationType)
      /\ \A j \in 1..n : native'[j] = native[j]
      /\ ~Fresh => native' = native
      /\ Fresh => /\ Len(native') = n+1
                  /\ native'[n+1].runs = IF f.kind = "TEA" THEN "exec" ELSE "cfn"
                  /\ native'[n+1].via = via /\ native'[n+1].at = m+1
                  /\ native'[n+1].slot = slot /\ native'[n+1].saved = SavedState
  <2>1. EnteredArrays(f, via, slot, t, m, n)
    BY <1>1, EnteredFrames
  <2> QED
    BY <2>1 DEF EnteredArrays
<1> HIDE DEF Fresh
<1>3. /\ base \in Nat /\ nccalls \in Nat /\ Frame = ci[m] /\ stackmax \in Int
      /\ stacksize \in Nat /\ slot \in Nat /\ t \in Nat /\ slot < t
      /\ ~exited /\ exited' = exited /\ exited \in BOOLEAN /\ top' = t /\ via \in Vias
  BY <1>1, TypesOK DEF FrameInv, CallSite, Entered, TypeOK
<1>4. /\ ci'[m+1].kind = f.kind /\ ci'[m+1].base = slot /\ ci'[m+1].calling = FALSE
  BY <1>2 DEF NewFrame
<1>5. TypeOK'
  <2>1. GrownSize(t, f.slots) \in Nat /\ GrownCi \in Nat
    BY <1>2, <1>3, SizeIsNat
  <2>2. cisize' \in Nat /\ stacksize' \in Nat /\ stackmax' \in Int
    <3>1. cisize' = GrownCi /\ stacksize' = GrownSize(t, f.slots)
          /\ stackmax' = IF GrownSize(t, f.slots) = stacksize THEN stackmax
                         ELSE GrownSize(t, f.slots) - 1 - Extra
      BY DEF Entered, SetStackSize
    <3> QED
      BY <1>3, <2>1, <3>1, ConstantsAreNat
  <2>3. base' \in Nat /\ nccalls' \in Nat /\ exited' \in BOOLEAN
    <3>1. nccalls' = nccalls + (IF via = "bytecode" THEN 0 ELSE 1)
      BY DEF Entered
    <3>2. base' \in {base, slot + 1, slot}
      BY <1>2 DEF Entered
    <3> QED
      BY <1>3, <3>1, <3>2
  <2>4. ci' # <<>>
    BY <1>2
  <2> QED
    BY <1>2, <1>3, <2>2, <2>3, <2>4 DEF TypeOK, FrameType, ActivationType
<1>6. FramesOK'
  <2>1. /\ 1 \in 1..m /\ m \in 1..m /\ \A i \in 2..(m+1) : i \in 2..m \/ i = m+1
        /\ \A i \in 2..m : i \in 1..m
        /\ \A i \in 1..(m+1) : i \in 1..m \/ i = m+1
        /\ \A i \in 1..((m+1)-1) : i = m \/ (i \in 1..m-1 /\ i \in 1..m /\ i+1 \in 1..m)
    BY <1>2
  <2>2. ci'[1].kind = "host" /\ ci'[1].base = 0
    BY <1>2, <2>1 DEF FrameInv, FramesOK
  <2>3. \A i \in 2..Len(ci') : ci'[i].kind \in {"TEA", "C", "CM"}
    BY <1>1, <1>2, <1>4, <2>1 DEF FrameInv, FramesOK
  <2>4. ci'[m].calling => ci'[m].kind = "TEA"
    <3>1. CASE f.kind = "TEA"
      <4>1. ci'[m].calling => InTea
        BY <1>2, <3>1 DEF CallerFlag, CallSite
      <4>2. InTea => ci[m].kind = "TEA"
        BY <1>3, WhoRuns
      <4> QED
        BY <1>2, <2>1, <4>1, <4>2
    <3>2. CASE f.kind # "TEA"
      <4>1. ci'[m].calling = ci[m].calling
        BY <1>2, <1>3, <3>2 DEF CallerFlag
      <4>2. ci[m].calling => ci[m].kind = "TEA"
        BY <1>1, <2>1 DEF FrameInv, FramesOK
      <4> QED
        BY <1>2, <2>1, <4>1, <4>2
    <3> QED
      BY <3>1, <3>2
  <2>5. \A i \in 1..Len(ci') : ci'[i].calling => ci'[i].kind = "TEA"
    <3>1. \A i \in 1..m : i # m => (ci'[i].calling => ci'[i].kind = "TEA")
      BY <1>1, <1>2 DEF FrameInv, FramesOK
    <3> QED
      BY <1>2, <1>4, <2>1, <2>4, <3>1
  <2>6. \A i \in 1..Len(ci')-1 : ci'[i].base <= ci'[i+1].base
    <3>1. \A i \in 1..m-1 : ci[i].base <= ci[i+1].base
      BY <1>1 DEF FrameInv, FramesOK
    <3>2. ci[m].base <= slot
      BY <1>1 DEF CallSite
    <3> QED
      BY <1>2, <1>4, <2>1, <3>1, <3>2
  <2>7. ci'[Len(ci')].base <= top'
    BY <1>2, <1>3, <1>4
  <2> QED
    BY <2>2, <2>3, <2>5, <2>6, <2>7 DEF FramesOK
<1>7. \A j \in 1..n : /\ native[j].at \in 2..m /\ native[j].at \in 1..m
                      /\ native[j].at - 1 \in 1..m /\ native[j].at \in 2..(m+1)
  BY <1>1 DEF FrameInv, StacksOK, ActivationOK
<1>8. \A j \in 1..n : ActivationOK(j)'
  <2> SUFFICES ASSUME NEW j \in 1..n PROVE ActivationOK(j)'
    OBVIOUS
  <2>1. j-1 \in Nat /\ \A i \in 1..(j-1) : native'[i] = native[i]
    BY <1>2
  <2>2. Counted(native', j-1) = Counted(native, j-1)
    BY <2>1, CountSame
  <2>3. ActivationOK(j) /\ native'[j] = native[j]
    BY <1>1, <1>2 DEF FrameInv, StacksOK
  <2>4. /\ ci'[native[j].at].kind = ci[native[j].at].kind
        /\ ci'[native[j].at].base = ci[native[j].at].base
        /\ ci'[native[j].at - 1].kind = ci[native[j].at - 1].kind
        /\ ci'[native[j].at - 1].base = ci[native[j].at - 1].base
    BY <1>2, <1>7
  <2> QED
    BY <1>2, <1>7, <2>2, <2>3, <2>4 DEF ActivationOK, BaseOf
<1>9. nccalls = Cardinality(Counted(native, n)) /\ Counted(native', n) = Counted(native, n)
  <2>1. \A j \in 1..n : native'[j] = native[j]
    BY <1>2
  <2>2. Counted(native', n) = Counted(native, n)
    BY <2>1, CountSame
  <2> QED
    BY <1>1, <2>2 DEF FrameInv, StacksOK
<1>10. Fresh => ActivationOK(n+1)'
  <2> SUFFICES ASSUME Fresh PROVE ActivationOK(n+1)'
    OBVIOUS
  <2>1. m+1-1 = m /\ n+1-1 = n /\ m \in 1..m /\ m+1 \in 2..(m+1)
    BY <1>2
  <2>2. SavedState.ci = m /\ SavedState.base = base /\ SavedState.nccalls = nccalls
    BY <1>1 DEF SavedState
  <2>3. native'[n+1].runs = "exec" <=> f.kind = "TEA"
    BY <1>2
  <2>4. via = "pcall" => ci[m].kind # "TEA" /\ base = BaseOf(ci[m])
    <3>1. via = "pcall" => ~InTea
      BY DEF CallSite
    <3>2. ~InTea => ci[m].kind # "TEA"
      BY <1>3, WhoRuns
    <3>3. ~InTea => base = BaseOf(ci[m])
      BY <1>3 DEF FrameInv, NativeBase, InNative
    <3> QED
      BY <3>1, <3>2, <3>3
  <2>5. ci'[m].kind = ci[m].kind /\ BaseOf(ci'[m]) = BaseOf(ci[m])
    BY <1>2, <2>1 DEF BaseOf
  <2> QED
    BY <1>2, <1>4, <1>9, <2>1, <2>2, <2>3, <2>4, <2>5 DEF ActivationOK
<1>11. \/ Fresh /\ Len(native') = n+1
       \/ ~Fresh /\ Len(native') = n
  BY <1>1, <1>2
<1>12. StacksOK'
  <2>1. \A j \in 1..Len(native') : ActivationOK(j)'
    <3>1. \A j \in 1..(n+1) : j \in 1..n \/ j = n+1
      OBVIOUS
    <3> QED
      BY <1>8, <1>10, <1>11, <3>1
  <2>2. \A j, k \in 1..Len(native') : j < k => native'[j].at < native'[k].at
    <3>1. \A j, k \in 1..n : j < k => native[j].at < native[k].at
      BY <1>1 DEF FrameInv, StacksOK
    <3>2. \A j, k \in 1..(n+1) : j < k => j \in 1..n /\ (k \in 1..n \/ k = n+1)
      OBVIOUS
    <3>3. \A j \in 1..n : native[j].at < m+1
      BY <1>7
    <3> QED
      BY <1>2, <1>11, <3>1, <3>2, <3>3
  <2>3. \A j \in 1..Len(native') : j \in 1..n \/ (Fresh /\ j = n+1)
    BY <1>11
  <2>4. \A j \in 1..n : native'[j] = native[j] /\ native[j].at # m+1 /\ j \in 1..Len(native')
    BY <1>2, <1>7, <1>11
  <2>5. Fresh => n+1 \in 1..Len(native')
    BY <1>11
  <2>6. \A i \in 2..(m+1) : i = m+1 \/ (i \in 2..m /\ i \in 1..m /\ i-1 \in 1..m /\ i-1 # m /\ i # m+1)
    BY <1>2
  <2>7. ASSUME NEW i \in 2..m, ci'[i].kind = "TEA"
        PROVE  ci'[i-1].calling <=> \A j \in 1..Len(native') : native'[j].at # i
    <3>1. ci[i].kind = "TEA" /\ ci'[i-1] = ci[i-1] /\ i # m+1
      BY <1>2, <2>7
    <3>2. ci[i-1].calling <=> \A j \in 1..n : native[j].at # i
      BY <1>1, <3>1 DEF FrameInv, StacksOK
    <3> QED
      BY <1>2, <2>3, <2>4, <3>1, <3>2
  <2>8. ASSUME ci'[m+1].kind = "TEA"
        PROVE  ci'[m].calling <=> \A j \in 1..Len(native') : native'[j].at # m+1
    <3>1. ci'[m].calling <=> via = "bytecode"
      BY <1>2, <1>4, <2>8 DEF CallerFlag
    <3>2. Fresh <=> via # "bytecode"
      BY <1>4, <2>8 DEF Fresh
    <3> QED
      BY <1>2, <2>3, <2>4, <2>5, <3>1, <3>2
  <2>9. \A i \in 2..Len(ci') : ci'[i].kind = "TEA" =>
            (ci'[i-1].calling <=> \A j \in 1..Len(native') : native'[j].at # i)
    <3>1. m+1-1 = m
      OBVIOUS
    <3> QED
      BY <1>2, <2>6, <2>7, <2>8, <3>1
  <2>10. \A i \in 2..Len(ci') : ci'[i].kind # "TEA" => \E j \in 1..Len(native') : native'[j].at = i
    <3>1. \A i \in 2..m : ci[i].kind # "TEA" => \E j \in 1..n : native[j].at = i
      BY <1>1 DEF FrameInv, StacksOK
    <3>2. ci'[m+1].kind # "TEA" => Fresh
      BY <1>4 DEF Fresh
    <3> QED
      BY <1>2, <2>4, <2>5, <2>6, <3>1, <3>2
  <2>11. nccalls' = Cardinality(Counted(native', Len(native')))
    <3>1. CASE Fresh
      <4>1. Cardinality(Counted(native', n+1)) = Cardinality(Counted(native', n)) +
                (IF native'[n+1].via = "bytecode" THEN 0 ELSE 1)
        BY CountOne
      <4>2. nccalls' = nccalls + (IF via = "bytecode" THEN 0 ELSE 1)
        BY DEF Entered
      <4> QED
        BY <1>2, <1>9, <1>11, <3>1, <4>1, <4>2
    <3>2. CASE ~Fresh
      <4>1. nccalls' = nccalls
        BY <1>3, <3>2 DEF Entered, Fresh
      <4> QED
        BY <1>2, <1>9, <1>11, <3>2, <4>1
    <3> QED
      BY <3>1, <3>2
  <2> QED
    BY <2>1, <2>2, <2>9, <2>10, <2>11 DEF StacksOK
<1>13. NativeBase'
  <2>1. Frame' = ci'[m+1]
    BY <1>2 DEF Frame, Last
  <2>2. CASE f.kind = "TEA"
    <3>1. CASE Fresh
      <4>1. native' # <<>> /\ native'[Len(native')].runs = "exec"
        BY <1>2, <2>2, <3>1
      <4> QED
        BY <4>1 DEF NativeBase, InNative, InTea, InHost, Last
    <3>2. CASE ~Fresh
      <4>1. InTea /\ native' = native
        BY <1>2, <3>2 DEF CallSite, Fresh
      <4> QED
        BY <1>3, <4>1 DEF NativeBase, InNative, InTea, InHost
    <3> QED
      BY <3>1, <3>2
  <2>3. CASE f.kind = "C"
    BY <1>4, <2>1, <2>3 DEF NativeBase, BaseOf, Entered
  <2>4. CASE f.kind = "CM"
    <3>1. base' = slot
      BY <2>4 DEF Entered
    <3> QED
      BY <1>3, <1>4, <2>1, <2>4, <3>1 DEF NativeBase, BaseOf
  <2> QED
    BY <1>2, <2>2, <2>3, <2>4
<1> QED
  BY <1>5, <1>6, <1>12, <1>13 DEF FrameInv

-----------------------------------------------------------------------------
(* Errors                                                                  *)

\* No protected call: the panic function runs and the process ends.
Uncaught ==
    /\ \A j \in 1..Len(native) : native[j].via # "pcall"
    /\ exited' = TRUE
    /\ UNCHANGED <<ci, cisize, stackvars, nccalls, native>>

\* The innermost protected call is the activation at j.
Rewound(j, s) ==
    /\ j \in 1..Len(native) /\ native[j].via = "pcall"
    /\ \A k \in 1..Len(native) : native[k].via = "pcall" => k <= j
    /\ native' = SubSeq(native, 1, j-1) /\ ci' = SubSeq(ci, 1, native[j].saved.ci)
    /\ base' = native[j].saved.base /\ nccalls' = native[j].saved.nccalls
    /\ top' = native[j].slot + 1
    /\ stacksize' = s /\ stackmax' = s - 1 /\ cisize' \in Nat
    /\ UNCHANGED exited

\* The protected call itself is refused.
Refused(via, slot, s) ==
    /\ via = "pcall"
    /\ top' = slot + 1
    /\ stacksize' = s /\ stackmax' = s - 1 /\ cisize' \in Nat
    /\ UNCHANGED <<ci, base, nccalls, native, exited>>

\* The innermost protected call is the last activation entered by tea_pcall.
BackTo(cs, i, z, s) ==
    /\ native' = SubSeq(cs, 1, i-1) /\ ci' = SubSeq(ci, 1, cs[i].saved.ci)
    /\ base' = cs[i].saved.base /\ nccalls' = cs[i].saved.nccalls
    /\ top' = cs[i].slot + 1
    /\ stacksize' = s /\ stackmax' = s - 1
    /\ cisize' \in {MaxCalls, z}
    /\ UNCHANGED exited

\* An error goes to the protected call that is nearest on the C stack (tea_err_throw).
LEMMA Innermost ==
    ASSUME NEW cs, NEW n \in Nat, DOMAIN cs = 1..n, {i \in DOMAIN cs : cs[i].via = "pcall"} # {},
           NEW z, NEW s, Fail(cs, z, s)
    PROVE  \E i \in 1..n : /\ cs[i].via = "pcall"
                           /\ \A k \in 1..n : cs[k].via = "pcall" => k <= i
                           /\ BackTo(cs, i, z, s)
<1> DEFINE P == {i \in DOMAIN cs : cs[i].via = "pcall"}
           i == CHOOSE i \in P : \A j \in P : j <= i
<1>1. P \in SUBSET (0..n) /\ P # {}
  OBVIOUS
<1>2. \E x \in P : \A y \in P : y <= x
  <2> HIDE DEF P
  <2> QED
    BY <1>1, GreatestNatural
<1>3. i \in P /\ \A j \in P : j <= i
  <2> HIDE DEF P
  <2> QED
    BY <1>2
<1>4. i \in 1..n /\ cs[i].via = "pcall" /\ \A k \in 1..n : cs[k].via = "pcall" => k <= i
  <2>1. \A x \in P : x \in 1..n /\ cs[x].via = "pcall"
    OBVIOUS
  <2>2. \A x \in 1..n : cs[x].via = "pcall" => x \in P
    OBVIOUS
  <2> HIDE DEF P, i
  <2> QED
    BY <1>3, <2>1, <2>2
<1>5. BackTo(cs, i, z, s)
  <2>1. Fail(cs, z, s) <=>
          /\ native' = SubSeq(cs, 1, i-1) /\ ci' = SubSeq(ci, 1, cs[i].saved.ci)
          /\ base' = cs[i].saved.base /\ nccalls' = cs[i].saved.nccalls
          /\ top' = cs[i].slot + 1
          /\ stacksize' = s /\ stackmax' = s - 1
          /\ cisize' = IF z > MaxCalls /\ cs[i].saved.ci < MaxCalls THEN MaxCalls ELSE z
          /\ UNCHANGED exited
    BY <1>1 DEF Fail
  <2> HIDE DEF P, i
  <2> QED
    BY <2>1 DEF BackTo
<1> HIDE DEF P, i
<1> QED
  BY <1>4, <1>5

\* The front of an extended sequence is the front of the sequence.
LEMMA FrontOf ==
    ASSUME NEW S, NEW q \in Seq(S), NEW a \in S, NEW k \in 0..Len(q)
    PROVE  /\ SubSeq(Append(q, a), 1, k) = SubSeq(q, 1, k)
           /\ SubSeq(q, 1, Len(q)) = q
<1>1. Append(q, a) \in Seq(S) /\ Len(Append(q, a)) = Len(q) + 1 /\ Len(q) \in Nat
      /\ \A i \in 1..Len(q) : Append(q, a)[i] = q[i]
  OBVIOUS
<1> DEFINE r == Append(q, a)
<1> HIDE DEF r
<1>2. SubSeq(r, 1, k) \in Seq(S) /\ Len(SubSeq(r, 1, k)) = k
      /\ \A i \in 1..k : SubSeq(r, 1, k)[i] = r[i]
  <2>1. r \in Seq(S) /\ k \in 0..Len(r)
    BY <1>1 DEF r
  <2> QED
    BY <2>1, PrefixOK
<1>3. SubSeq(q, 1, k) \in Seq(S) /\ Len(SubSeq(q, 1, k)) = k
      /\ \A i \in 1..k : SubSeq(q, 1, k)[i] = q[i]
  BY PrefixOK
<1>4. SubSeq(q, 1, Len(q)) \in Seq(S) /\ Len(SubSeq(q, 1, Len(q))) = Len(q)
      /\ \A i \in 1..Len(q) : SubSeq(q, 1, Len(q))[i] = q[i]
  <2>1. Len(q) \in 0..Len(q)
    BY <1>1
  <2> QED
    BY <2>1, PrefixOK
<1>5. SubSeq(r, 1, k) = SubSeq(q, 1, k)
  <2>1. \A i \in 1..k : SubSeq(r, 1, k)[i] = SubSeq(q, 1, k)[i]
    BY <1>1, <1>2, <1>3 DEF r
  <2> QED
    BY <1>2, <1>3, <2>1, SeqEqual
<1>6. SubSeq(q, 1, Len(q)) = q
  BY <1>4, SeqEqual
<1> QED
  BY <1>5, <1>6 DEF r

\* An error is caught by an activation or ends the program.
LEMMA RaiseCases ==
    ASSUME FrameInv, NEW z \in Nat, NEW s, Fail(native, z, s)
    PROVE  Uncaught \/ \E j \in 1..Len(native) : Rewound(j, s)
<1>1. DOMAIN native = 1..Len(native) /\ Len(native) \in Nat
  BY TypesOK DEF FrameInv
<1>2. CASE {i \in DOMAIN native : native[i].via = "pcall"} = {}
  BY <1>1, <1>2 DEF Fail, Uncaught
<1>3. CASE {i \in DOMAIN native : native[i].via = "pcall"} # {}
  <2>1. PICK i \in 1..Len(native) :
              /\ native[i].via = "pcall"
              /\ \A k \in 1..Len(native) : native[k].via = "pcall" => k <= i
              /\ BackTo(native, i, z, s)
    BY <1>1, <1>3, Innermost
  <2> QED
    BY <2>1, ConstantsAreNat DEF Rewound, BackTo
<1> QED
  BY <1>2, <1>3

\* An overflow refuses the call, and its error is caught or ends the program.
LEMMA OverflowCases ==
    ASSUME FrameInv, NEW f, NEW via, NEW slot, NEW t,
           CallSite(f, via, slot, t), Overflow(f, via, slot, t)
    PROVE  \/ Uncaught
           \/ \E s \in {stacksize, GrownSize(t, f.slots)} :
                 Refused(via, slot, s) \/ \E j \in 1..Len(native) : Rewound(j, s)
<1>1. PICK z \in {cisize, GrownCi}, s \in {stacksize, GrownSize(t, f.slots)} :
          Fail(Activations(f, via, slot), z, s)
  BY DEF Overflow
<1>2. PICK n \in Nat : n = Len(native)
  BY TypesOK DEF FrameInv
<1>3. native \in Seq(ActivationType) /\ DOMAIN native = 1..n
  BY <1>2, TypesOK DEF FrameInv
<1>4. z \in Nat
  BY TypesOK, ConstantsAreNat DEF FrameInv, GrownCi
<1>5. CASE Activations(f, via, slot) = native
  BY <1>1, <1>4, <1>5, RaiseCases
<1> DEFINE a == [runs |-> IF f.kind = "TEA" THEN "exec" ELSE "cfn", via |-> via,
                 at |-> Len(ci) + 1, slot |-> slot, saved |-> SavedState]
           cs == Append(native, a)
<1>6. CASE Activations(f, via, slot) = cs
  <2>1. a \in ActivationType
    BY TypesOK DEF FrameInv, ActivationType, CallSite, SavedState, Saved
  <2>2. a.via = via /\ a.slot = slot /\ a.saved = SavedState
    OBVIOUS
  <2>3. SavedState.ci = Len(ci) /\ SavedState.base = base /\ SavedState.nccalls = nccalls
    BY DEF SavedState
  <2> HIDE DEF a
  <2>4. /\ cs \in Seq(ActivationType) /\ DOMAIN cs = 1..(n+1) /\ cs[n+1] = a
        /\ \A i \in 1..n : cs[i] = native[i] /\ i \in 1..(n+1)
    BY <1>2, <1>3, <2>1
  <2>5. \A k \in 0..n : SubSeq(cs, 1, k) = SubSeq(native, 1, k)
    BY <1>2, <1>3, <2>1, FrontOf
  <2>6. SubSeq(native, 1, n) = native /\ SubSeq(ci, 1, Len(ci)) = ci
    <3>1. 0 \in 0..Len(native) /\ ci \in Seq(FrameType) /\ 0 \in 0..Len(ci) /\ Len(ci) >= 1
          /\ ci[Len(ci)] \in FrameType
      BY <1>2, TypesOK DEF FrameInv
    <3>2. SubSeq(native, 1, n) = native
      BY <1>2, <1>3, <2>1, <3>1, FrontOf
    <3> QED
      BY <3>1, <3>2, FrontOf
  <2> HIDE DEF cs
  <2>7. CASE {i \in DOMAIN cs : cs[i].via = "pcall"} = {}
    BY <1>1, <1>2, <1>6, <2>4, <2>7 DEF Fail, Uncaught
  <2>8. CASE {i \in DOMAIN cs : cs[i].via = "pcall"} # {}
    <3>1. PICK i \in 1..(n+1) : /\ cs[i].via = "pcall"
                               /\ \A k \in 1..(n+1) : cs[k].via = "pcall" => k <= i
                               /\ BackTo(cs, i, z, s)
      BY <1>1, <1>6, <2>4, <2>8, Innermost
    <3>2. CASE i = n+1
      <4>1. n+1-1 = n
        OBVIOUS
      <4>2. cs[i].via = via /\ cs[i].slot = slot /\ cs[i].saved.ci = Len(ci)
            /\ cs[i].saved.base = base /\ cs[i].saved.nccalls = nccalls
        BY <2>2, <2>3, <2>4, <3>2
      <4>3. SubSeq(cs, 1, n) = native
        BY <2>5, <2>6
      <4>4. native' = native /\ ci' = ci
        BY <2>6, <3>1, <3>2, <4>1, <4>2, <4>3 DEF BackTo
      <4>5. Refused(via, slot, s)
        BY <1>4, <3>1, <4>2, <4>4, ConstantsAreNat DEF Refused, BackTo
      <4> QED
        BY <4>5
    <3>3. CASE i # n+1
      <4>1. i \in 1..n /\ i-1 \in 0..n
        BY <3>3
      <4>2. native[i].via = "pcall" /\ \A k \in 1..n : native[k].via = "pcall" => k <= i
        BY <2>4, <3>1, <4>1
      <4>3. BackTo(native, i, z, s)
        BY <2>4, <2>5, <3>1, <4>1 DEF BackTo
      <4> QED
        BY <1>2, <1>4, <4>1, <4>2, <4>3, ConstantsAreNat DEF Rewound, BackTo
    <3> QED
      BY <3>2, <3>3
  <2> QED
    BY <2>7, <2>8
<1> QED
  BY <1>5, <1>6 DEF Activations

\* Back to the innermost protected call: its caller is native code or the host.
LEMMA RewoundInv ==
    ASSUME FrameInv, NEW j, NEW s \in Nat, Rewound(j, s)
    PROVE  FrameInv' /\ Cut(native[j].at - 1, j-1)
<1>1. PICK n \in Nat : n = Len(native)
  BY TypesOK DEF FrameInv
<1>2. /\ j \in 1..n /\ j-1 \in Nat /\ j-1 \in 0..Len(native)
      /\ \A k \in 1..n : native[k].at \in Nat /\ native[k].slot \in Nat
      /\ exited \in BOOLEAN /\ Len(ci) \in Nat
  <2>1. j \in 1..n
    BY <1>1 DEF Rewound
  <2>2. \A k \in 1..n : native[k].at \in Nat /\ native[k].slot \in Nat
    BY <1>1, TypesOK DEF FrameInv
  <2>3. exited \in BOOLEAN
    BY DEF FrameInv, TypeOK
  <2>4. Len(ci) \in Nat
    BY TypesOK DEF FrameInv
  <2> QED
    BY <1>1, <2>1, <2>2, <2>3, <2>4
<1>3. ActivationOK(j)
  BY <1>1, <1>2 DEF FrameInv, StacksOK
<1> DEFINE m == native[j].saved.ci
<1>4. /\ m = native[j].at - 1 /\ m \in 1..Len(ci) /\ m+1 = native[j].at
      /\ m+1 \in 2..Len(ci) /\ m \in 1..Len(ci)-1
      /\ base' = BaseOf(ci[m]) /\ native[j].slot = ci[m+1].base
      /\ nccalls' = Cardinality(Counted(native, j-1))
  <2>1. /\ native[j].at \in 2..Len(ci) /\ m = native[j].at - 1
        /\ native[j].slot = ci[native[j].at].base
        /\ native[j].saved.nccalls = Cardinality(Counted(native, j-1))
        /\ native[j].via = "pcall" => native[j].saved.base = BaseOf(ci[native[j].at - 1])
    BY <1>3 DEF ActivationOK
  <2>2. /\ base' = native[j].saved.base /\ nccalls' = native[j].saved.nccalls
        /\ native[j].via = "pcall"
    BY DEF Rewound
  <2>3. m+1 = native[j].at /\ m \in 1..Len(ci)-1 /\ m \in 1..Len(ci)
    <3>1. \A x \in 2..Len(ci) : /\ (x-1)+1 = x
                               /\ x-1 \in 1..Len(ci)-1 /\ x-1 \in 1..Len(ci)
      BY <1>2
    <3> QED
      BY <2>1, <3>1
  <2> HIDE DEF m
  <2> QED
    BY <2>1, <2>2, <2>3
<1> HIDE DEF m
<1>5. \A k \in 1..n : native[k].at <= m <=> k <= j-1
  <2>1. \A k \in 1..n : k < j => native[k].at < native[j].at
    BY <1>1, <1>2 DEF FrameInv, StacksOK
  <2>2. \A k \in 1..n : j < k => native[j].at < native[k].at
    BY <1>1, <1>2 DEF FrameInv, StacksOK
  <2>3. m \in Nat /\ native[j].at = m+1
    BY <1>4
  <2>4. \A k \in 1..n : k < j <=> k <= j-1
    BY <1>2
  <2>5. \A k \in 1..n : k = j \/ k < j \/ j < k
    BY <1>2
  <2>6. ASSUME NEW k \in 1..n PROVE native[k].at <= m <=> k < j
    <3>1. native[k].at \in Nat
      BY <1>2
    <3>2. CASE k = j
      BY <1>2, <2>3, <3>2
    <3>3. CASE k < j
      BY <2>1, <2>3, <3>1, <3>3
    <3>4. CASE j < k
      BY <1>2, <2>2, <2>3, <3>1, <3>4
    <3> QED
      BY <2>5, <3>2, <3>3, <3>4
  <2> QED
    BY <2>4, <2>6
<1>6. ci[m].base <= top' /\ top' \in Nat
  <2>1. ci[m].base <= ci[m+1].base /\ ci[m].base \in Nat
    BY <1>4, TypesOK DEF FrameInv, FramesOK
  <2>2. top' = ci[m+1].base + 1 /\ ci[m+1].base \in Nat
    BY <1>2, <1>4, TypesOK DEF FrameInv, Rewound
  <2> QED
    BY <2>1, <2>2
<1>7. /\ ci' = SubSeq(ci, 1, m) /\ native' = SubSeq(native, 1, j-1)
      /\ cisize' \in Nat /\ stacksize' \in Nat /\ stackmax' \in Int /\ exited' \in BOOLEAN
  BY <1>2 DEF Rewound, m
<1>8. FrameInv'
  BY <1>1, <1>2, <1>4, <1>5, <1>6, <1>7, CutInv
<1>9. Cut(m, j-1)
  BY <1>1, <1>2, <1>4, <1>5, <1>7 DEF Cut
<1> QED
  BY <1>4, <1>8, <1>9

\* A call refused at its site keeps the frames consistent.
LEMMA RefusedInv ==
    ASSUME FrameInv, NEW f, NEW via, NEW slot, NEW t, NEW s \in Nat,
           CallSite(f, via, slot, t), Refused(via, slot, s)
    PROVE  FrameInv'
<1>1. ci[Len(ci)].base \in Nat
  BY TypesOK DEF FrameInv
<1>2. top' \in Nat /\ ci[Len(ci)].base <= top'
  BY <1>1 DEF CallSite, Refused
<1>3. /\ UNCHANGED <<ci, base, nccalls, native, exited>>
      /\ cisize' \in Nat /\ stacksize' \in Nat /\ stackmax' \in Int
  BY DEF Refused
<1> QED
  BY <1>2, <1>3, HeightInv

\* An error that nobody catches keeps the frames consistent.
LEMMA UncaughtInv == ASSUME FrameInv, Uncaught PROVE FrameInv'
<1>1. TypeOK'
  BY DEF FrameInv, TypeOK, Uncaught, stackvars
<1>2. FramesOK'
  BY DEF FrameInv, FramesOK, Uncaught, stackvars
<1>3. StacksOK'
  <2>1. \A j \in 1..Len(native) : ActivationOK(j)'
    BY DEF FrameInv, StacksOK, ActivationOK, BaseOf, Uncaught
  <2>2. nccalls' = nccalls /\ native' = native /\ ci' = ci
    BY DEF Uncaught
  <2>3. Cardinality(Counted(native', Len(native'))) = Cardinality(Counted(native, Len(native)))
    BY <2>2
  <2> QED
    BY <2>1, <2>2, <2>3 DEF FrameInv, StacksOK
<1>4. NativeBase'
  BY DEF NativeBase, InNative, Uncaught
<1> QED
  BY <1>1, <1>2, <1>3, <1>4 DEF FrameInv

-----------------------------------------------------------------------------
(* The arrays agree                                                        *)

\* Any call keeps the frames consistent.
LEMMA CallInv ==
    ASSUME FrameInv, NEW f, NEW via, NEW slot, NEW t,
           CallSite(f, via, slot, t), Enter(f, via, slot, t)
    PROVE  FrameInv'
<1>1. CASE Entered(f, via, slot, t)
  BY <1>1, EnterInv
<1>2. CASE Overflow(f, via, slot, t)
  <2>1. t \in Nat /\ f.slots \in Nat /\ stacksize \in Nat
    BY TypesOK, CallConstantsOK DEF CallSite, Callees, FrameInv
  <2>2. \A s \in {stacksize, GrownSize(t, f.slots)} : s \in Nat
    BY <2>1, SizeIsNat
  <2>3. ASSUME NEW s \in {stacksize, GrownSize(t, f.slots)}, Refused(via, slot, s)
        PROVE  FrameInv'
    BY <2>2, <2>3, RefusedInv
  <2>4. ASSUME NEW s \in {stacksize, GrownSize(t, f.slots)},
               NEW j \in 1..Len(native), Rewound(j, s)
        PROVE  FrameInv'
    BY <2>2, <2>4, RewoundInv
  <2> QED
    BY <1>2, <2>3, <2>4, OverflowCases, UncaughtInv
<1> QED
  BY <1>1, <1>2, EnterCases

\* Any error keeps the frames consistent.
LEMMA RaiseInv == ASSUME FrameInv, Raise PROVE FrameInv'
<1>1. cisize \in Nat /\ stacksize \in Nat
  BY TypesOK DEF FrameInv
<1>2. Uncaught \/ \E j \in 1..Len(native) : Rewound(j, stacksize)
  BY <1>1, RaiseCases DEF Raise
<1> QED
  BY <1>1, <1>2, RewoundInv, UncaughtInv

\* What native code pushes and pops keeps the frames consistent.
LEMMA PushPopInv == ASSUME FrameInv, Push \/ Pop PROVE FrameInv'
<1>1. /\ top \in Nat /\ base \in Nat /\ stacksize \in Nat /\ stackmax \in Int /\ cisize \in Nat
      /\ Frame = ci[Len(ci)] /\ Frame.base \in Nat /\ Len(ci) \in 1..Len(ci)
  <2>1. Len(ci) \in 1..Len(ci) /\ Frame = ci[Len(ci)]
    BY TypesOK DEF FrameInv
  <2> QED
    BY <2>1, TypesOK DEF FrameInv
<1>2. Frame.base <= top
  BY <1>1 DEF FrameInv, FramesOK
<1>3. InNative => Frame.base <= base
  BY <1>1 DEF FrameInv, NativeBase, BaseOf
<1>4. UNCHANGED <<ci, base, nccalls, native, exited>> /\ cisize' \in Nat
  BY <1>1 DEF Push, Pop
<1>5. top' \in Nat /\ Frame.base <= top'
  BY <1>1, <1>2, <1>3 DEF Push, Pop
<1>6. stacksize' \in Nat /\ stackmax' \in Int
  <2>1. CASE UNCHANGED <<stacksize, stackmax>>
    BY <1>1, <2>1
  <2>2. CASE SetStackSize(IF top + 1 >= stackmax THEN GrownSize(stackmax, 1) ELSE stacksize)
    <3>1. GrownSize(stackmax, 1) \in Nat
      BY <1>1, ConstantsAreNat DEF GrownSize
    <3> QED
      BY <1>1, <2>2, <3>1, ConstantsAreNat DEF SetStackSize
  <2> QED
    BY <2>1, <2>2 DEF Push, Pop
<1> QED
  BY <1>1, <1>4, <1>5, <1>6, HeightInv

\* The initial state has consistent frames.
LEMMA InitFrames == Init => FrameInv
<1> SUFFICES ASSUME Init PROVE FrameInv
  OBVIOUS
<1> DEFINE host == [kind |-> "host", base |-> 0, limit |-> 0, calling |-> FALSE]
<1>1. /\ ci = <<host>> /\ host \in FrameType /\ native = <<>> /\ top = 0 /\ base = 0
      /\ host.kind = "host" /\ host.base = 0 /\ host.calling = FALSE
  BY DEF Init, FrameType
<1> HIDE DEF host
<1>2. ci \in Seq(FrameType) /\ Len(ci) = 1 /\ ci[1] = host /\ ci # <<>>
      /\ native \in Seq(ActivationType) /\ Len(native) = 0
  BY <1>1
<1>3. TypeOK
  <2>1. cisize \in Nat /\ stacksize \in Nat /\ stackmax \in Int /\ nccalls \in Nat
        /\ exited \in BOOLEAN
    <3>1. /\ cisize = CiMin /\ stacksize = StackStart + Extra /\ stackmax = StackStart - 1
          /\ nccalls = 0 /\ exited = FALSE
      BY DEF Init
    <3>2. exited \in BOOLEAN
      BY <3>1
    <3>3. cisize \in Nat /\ stacksize \in Nat /\ stackmax \in Int /\ nccalls \in Nat
      <4>1. CiMin \in Nat /\ StackStart \in Nat /\ Extra \in Nat
        BY ConstantsAreNat
      <4> QED
        BY <3>1, <4>1
    <3> QED
      BY <3>2, <3>3
  <2> QED
    BY <1>1, <1>2, <2>1 DEF TypeOK, FrameType, ActivationType
<1>4. FramesOK
  BY <1>1, <1>2 DEF FramesOK
<1>5. StacksOK
  <2>1. Counted(native, Len(native)) = {}
    BY <1>2 DEF Counted
  <2>2. nccalls = Cardinality(Counted(native, Len(native)))
    BY <2>1, FS_EmptySet DEF Init
  <2> QED
    BY <1>2, <2>2 DEF StacksOK
<1>6. NativeBase
  BY <1>1, <1>2 DEF NativeBase, BaseOf, Frame, Last
<1> QED
  BY <1>3, <1>4, <1>5, <1>6 DEF FrameInv

\* Stuttering keeps the frames consistent.
LEMMA StutterInv == ASSUME FrameInv, UNCHANGED vars PROVE FrameInv'
<1>1. UNCHANGED <<ci, base, nccalls, native, exited>>
      /\ top' = top /\ cisize' = cisize /\ stacksize' = stacksize /\ stackmax' = stackmax
  BY DEF vars
<1>2. top \in Nat /\ cisize \in Nat /\ stacksize \in Nat /\ stackmax \in Int
  BY TypesOK DEF FrameInv
<1>3. ci[Len(ci)].base <= top
  BY DEF FrameInv, FramesOK
<1> QED
  BY <1>1, <1>2, <1>3, HeightInv

\* Every step keeps the frames consistent.
LEMMA NextInv == ASSUME FrameInv, [Next]_vars PROVE FrameInv'
<1> DEFINE Calling ==
      \/ \E f \in Callees, nargs \in 0..1 : BytecodeCall(f, nargs)
      \/ \E f \in Callees, pushed \in 0..MetaArgs : OperatorCall(f, pushed)
      \/ \E f \in Callees, nargs \in 0..1, via \in NativeVias : NativeCall(f, nargs, via)
<1>1. CASE Calling
  <2>1. PICK f \in Callees, via \in Vias, slot \in Nat, t \in Nat :
            CallSite(f, via, slot, t) /\ Enter(f, via, slot, t)
    BY <1>1, CallsAreSites
  <2> QED
    BY <2>1, CallInv
<1>2. CASE Push \/ Pop
  BY <1>2, PushPopInv
<1>3. CASE Return
  BY <1>3, ReturnInv
<1>4. CASE Raise
  BY <1>4, RaiseInv
<1>5. CASE Exited \/ UNCHANGED vars
  BY <1>5, StutterInv DEF Exited
<1> QED
  BY <1>1, <1>2, <1>3, <1>4, <1>5 DEF Next

\* The frames are consistent always.
LEMMA SpecFrames == Spec => []FrameInv
<1>1. Init => FrameInv
  BY InitFrames
<1>2. FrameInv /\ [Next]_vars => FrameInv'
  BY NextInv
<1> QED
  BY <1>1, <1>2, PTL DEF Spec

\* CStackMatches in the words of the invariant.
LEMMA FramesMean == FrameInv => CallsAgree
<1> SUFFICES ASSUME FrameInv PROVE CallsAgree
  OBVIOUS
<1>1. DOMAIN native = 1..Len(native)
  BY TypesOK DEF FrameInv
<1>2. \A i \in 2..Len(ci) : ci[i].kind = "TEA" =>
          (ci[i-1].calling <=> \A j \in DOMAIN native : native[j].at # i)
  BY <1>1 DEF FrameInv, StacksOK
<1>3. ASSUME NEW i \in 2..Len(ci), ci[i].kind \in {"C", "CM"}
      PROVE  \E j \in DOMAIN native : native[j].at = i /\ native[j].runs = "cfn"
  <2>1. PICK j \in 1..Len(native) : native[j].at = i
    BY <1>3 DEF FrameInv, StacksOK
  <2>2. ActivationOK(j)
    BY DEF FrameInv, StacksOK
  <2>3. native[j].runs \in {"exec", "cfn"}
    BY TypesOK DEF FrameInv
  <2> QED
    BY <1>1, <1>3, <2>1, <2>2, <2>3 DEF ActivationOK
<1>4. nccalls = Cardinality({i \in DOMAIN native : native[i].via # "bytecode"})
  BY <1>1 DEF FrameInv, StacksOK, Counted
<1> QED
  BY <1>2, <1>3, <1>4, WhoRuns DEF FrameInv, CallsAgree, CStackMatches

\* vm_execute and the frames it runs for never come apart: BC_RETURN leaves the loop
\* exactly when the frame that started it ends, T->nccalls counts the C calls and T->base
\* is native code's frame, whatever calls were made, refused or ended by an error.
THEOREM CallsAlwaysAgree == Spec => []CallsAgree
BY SpecFrames, FramesMean, PTL

-----------------------------------------------------------------------------
(* Room for operators                                                      *)

\* The stack does not shrink, and what fitted still fits.
SizeKept ==
    /\ stacksize' \in Nat /\ stacksize' >= stacksize
    /\ stackmax' \in {stacksize' - 1, stacksize' - 1 - Extra}
    /\ Ceiling' \in Int /\ Ceiling <= Ceiling'

\* Where the ceiling lies: at least the slots operators push below the end of the stack.
LEMMA CeilingOK ==
    ASSUME FrameInv, RoomInv, RoomConstants
    PROVE  /\ stacksize \in Nat /\ stackmax \in Int /\ Ceiling \in Int /\ Ceiling <= stacksize - 2
           /\ top \in Nat /\ top <= Ceiling /\ stacksize >= StackStart + Extra
           /\ stackmax \in {stacksize - 1, stacksize - 1 - Extra}
           /\ Ceiling >= stacksize - 2 - Extra + MetaArgs /\ stacksize > Extra
           /\ stackmax - 1 <= Ceiling
           /\ StackStart \in Nat /\ Extra \in Nat /\ MetaArgs \in Nat /\ MetaArgs <= Extra
<1>1. stacksize \in Nat /\ stackmax \in Int /\ top \in Nat
  BY TypesOK DEF FrameInv
<1> QED
  BY <1>1, ConstantsAreNat DEF Ceiling, RoomInv, RoomConstants

\* What checkstack finds or makes is enough, if no function declares about as many
\* slots as the stack has.
LEMMA GrowthOK ==
    ASSUME FrameInv, RoomInv, RoomConstants, NEW t \in Nat, NEW need \in Nat,
           t <= top + MetaArgs, need <= stacksize - Extra \/ need > stacksize,
           SetStackSize(GrownSize(t, need))
    PROVE  SizeKept /\ t + need <= Ceiling'
<1>1. PICK S \in Nat, M \in Int, C \in Int, h \in Nat, E \in Nat, A \in Nat :
          /\ S = stacksize /\ M = stackmax /\ C = Ceiling /\ h = top /\ E = Extra /\ A = MetaArgs
          /\ C <= S-2 /\ h <= C /\ S > E /\ M \in {S-1, S-1-E} /\ M-1 <= C /\ A <= E
  BY CeilingOK
<1>2. CASE M - t > need
  <2>1. stacksize' = S /\ stackmax' = M /\ Ceiling' = C
    BY <1>1, <1>2 DEF SetStackSize, GrownSize, Ceiling
  <2> QED
    BY <1>1, <1>2, <2>1 DEF SizeKept
<1>3. CASE ~(M - t > need)
  <2>1. PICK z \in Nat : /\ z = IF need <= S THEN 2 * S ELSE S + need + E
                        /\ GrownSize(t, need) = z
    BY <1>1, <1>3 DEF GrownSize
  <2>2. z >= S + S - 0 \/ z = S + need + E
    BY <2>1
  <2>3. z > S
    BY <1>1, <2>1
  <2>4. stacksize' = z /\ stackmax' = z - 1 - E
    BY <1>1, <2>1, <2>3 DEF SetStackSize
  <2>5. Ceiling' \in {z - 2, z - 2 - E + A} /\ Ceiling' >= z - 2 - E + A
    BY <1>1, <2>1, <2>4 DEF Ceiling
  <2>6. C <= z - 2 - E + A
    BY <1>1, <2>1
  <2>7. t + need <= z - 2 - E + A
    <3>1. CASE need <= S
      BY <1>1, <2>1, <3>1
    <3>2. CASE need > S
      BY <1>1, <2>1, <3>2
    <3> QED
      BY <1>1, <3>1, <3>2
  <2> QED
    BY <1>1, <2>1, <2>3, <2>4, <2>5, <2>6, <2>7 DEF SizeKept
<1> QED
  BY <1>2, <1>3

\* Frames go or stay as they are.
LEMMA RoomCut ==
    ASSUME FrameInv, FrameInv', RoomInv, RoomConstants, SizeKept,
           NEW m \in 1..Len(ci), Len(ci') = m, \A i \in 1..m : ci'[i] = ci[i],
           top' <= Ceiling', ci[m].kind = "TEA" => top' <= ci[m].limit
    PROVE  RoomInv'
<1>1. /\ Len(ci) \in Nat /\ m \in Nat
      /\ \A i \in 1..Len(ci) : ci[i].base \in Nat /\ ci[i].limit \in Nat
  BY TypesOK DEF FrameInv
<1>2. Ceiling \in Int /\ Ceiling' \in Int /\ Ceiling <= Ceiling'
      /\ stacksize \in Nat /\ stacksize' \in Nat /\ stacksize' >= stacksize
      /\ StackStart \in Nat /\ Extra \in Nat /\ stacksize >= StackStart + Extra
  <2>1. /\ Ceiling \in Int /\ stacksize \in Nat /\ stacksize >= StackStart + Extra
        /\ StackStart \in Nat /\ Extra \in Nat
    BY CeilingOK
  <2> QED
    BY <2>1 DEF SizeKept
<1>3. \A i \in 2..m : i \in 2..Len(ci) /\ i \in 1..Len(ci) /\ i \in 1..m
  BY <1>1
<1>4. \A i \in 2..m : ci'[i].limit <= Ceiling' /\ ci'[i].base < Ceiling'
  <2>1. \A i \in 2..Len(ci) : ci[i].limit <= Ceiling /\ ci[i].base < Ceiling
    BY DEF RoomInv
  <2> QED
    BY <1>1, <1>2, <1>3, <2>1
<1>5. \A i \in 2..m-1 : ci'[i].kind = "TEA" => ci'[i+1].base < ci'[i].limit
  <2>1. \A i \in 2..Len(ci)-1 : ci[i].kind = "TEA" => ci[i+1].base < ci[i].limit
    BY DEF RoomInv
  <2>2. \A i \in 2..m-1 : i \in 2..Len(ci)-1 /\ i \in 1..m /\ i+1 \in 1..m
    BY <1>1
  <2> QED
    BY <2>1, <2>2
<1>6. ci'[m].kind = "TEA" => top' <= ci'[m].limit
  <2>1. m \in 1..m
    BY <1>1
  <2> QED
    BY <2>1
<1>7. stacksize' >= StackStart + Extra /\ stackmax' \in {stacksize' - 1, stacksize' - 1 - Extra}
  <2>1. stacksize' >= StackStart + Extra
    BY <1>2
  <2>2. stackmax' \in {stacksize' - 1, stacksize' - 1 - Extra}
    BY DEF SizeKept
  <2> QED
    BY <2>1, <2>2
<1> QED
  BY <1>4, <1>5, <1>6, <1>7 DEF RoomInv

\* Entering a function leaves room for operators when sizes are apart.
LEMMA RoomEntered ==
    ASSUME FrameInv, FrameInv', RoomInv, RoomConstants, SizesApart,
           NEW f, NEW via, NEW slot, NEW t,
           CallSite(f, via, slot, t), Entered(f, via, slot, t)
    PROVE  RoomInv'
<1>1. PICK m \in Nat, n \in Nat : m = Len(ci) /\ n = Len(native)
  BY TypesOK DEF FrameInv
<1>2. EnteredArrays(f, via, slot, t, m, n)
  BY <1>1, EnteredFrames
<1>3. /\ f.slots \in Nat /\ t \in Nat /\ slot \in Nat /\ slot < t /\ slot < top /\ t <= top + MetaArgs
      /\ top' = t /\ SetStackSize(GrownSize(t, f.slots)) /\ f \in Callees
  BY <1>2 DEF EnteredArrays, CallSite, Entered
<1>4. f.slots <= stacksize - Extra \/ f.slots > stacksize
  <2>1. f.slots \in Slots \/ f.slots = StackStart
    BY <1>3 DEF Callees
  <2> QED
    BY <2>1, CeilingOK DEF SizesApart
<1>5. SizeKept /\ t + f.slots <= Ceiling'
  BY <1>3, <1>4, GrowthOK
<1>6. /\ Ceiling \in Int /\ Ceiling' \in Int /\ Ceiling <= Ceiling'
      /\ stacksize \in Nat /\ stacksize' \in Nat /\ stacksize' >= stacksize
      /\ StackStart \in Nat /\ Extra \in Nat /\ stacksize >= StackStart + Extra
      /\ top \in Nat /\ top <= Ceiling
  BY <1>5, CeilingOK DEF SizeKept
<1>7. /\ Len(ci') = m+1 /\ m >= 1
      /\ \A i \in 1..m : /\ ci'[i].kind = ci[i].kind /\ ci'[i].base = ci[i].base
                         /\ ci'[i].limit = ci[i].limit
      /\ \A i \in 1..m : ci[i].base \in Nat /\ ci[i].limit \in Nat
      /\ ci'[m+1].kind = f.kind /\ ci'[m+1].base = slot /\ ci'[m+1].limit = t + f.slots
  <2>1. \A i \in 1..m : ci[i].base \in Nat /\ ci[i].limit \in Nat
    BY <1>1, TypesOK DEF FrameInv
  <2>2. ci'[m+1] = NewFrame(f, slot, t)
    BY <1>2 DEF EnteredArrays
  <2>3. ci'[m+1].kind = f.kind /\ ci'[m+1].base = slot /\ ci'[m+1].limit = t + f.slots
    BY <2>2 DEF NewFrame
  <2> QED
    BY <1>2, <2>1, <2>3 DEF EnteredArrays
<1>8. \A i \in 2..m+1 : ci'[i].limit <= Ceiling' /\ ci'[i].base < Ceiling'
  <2>1. \A i \in 2..m : ci[i].limit <= Ceiling /\ ci[i].base < Ceiling
    BY <1>1 DEF RoomInv
  <2>2. \A i \in 2..m+1 : i = m+1 \/ (i \in 2..m /\ i \in 1..m)
    OBVIOUS
  <2>3. slot < Ceiling'
    BY <1>3, <1>6
  <2>4. ci'[m+1].limit <= Ceiling' /\ ci'[m+1].base < Ceiling'
    BY <1>5, <1>7, <2>3
  <2>5. ASSUME NEW i \in 2..m PROVE ci'[i].limit <= Ceiling' /\ ci'[i].base < Ceiling'
    <3>1. /\ i \in 1..m /\ ci[i].limit <= Ceiling /\ ci[i].base < Ceiling
          /\ ci[i].base \in Nat /\ ci[i].limit \in Nat
          /\ ci'[i].base = ci[i].base /\ ci'[i].limit = ci[i].limit
      BY <1>7, <2>1
    <3> QED
      BY <1>6, <3>1
  <2> QED
    BY <2>2, <2>4, <2>5
<1>9. \A i \in 2..(m+1)-1 : ci'[i].kind = "TEA" => ci'[i+1].base < ci'[i].limit
  <2>1. \A i \in 2..m-1 : ci[i].kind = "TEA" => ci[i+1].base < ci[i].limit
    BY <1>1 DEF RoomInv
  <2>2. \A i \in 2..(m+1)-1 : i \in 1..m /\ (i = m \/ (i \in 2..m-1 /\ i+1 \in 1..m))
    OBVIOUS
  <2>3. ci[m].kind = "TEA" => slot < ci[m].limit
    <3>1. ci[m].kind = "TEA" => top <= ci[m].limit
      BY <1>1 DEF RoomInv
    <3>2. m \in 1..m
      BY <1>7
    <3> QED
      BY <1>3, <1>6, <1>7, <3>1, <3>2
  <2> QED
    BY <1>7, <2>1, <2>2, <2>3
<1>10. top' <= ci'[m+1].limit /\ top' <= Ceiling'
  <2>1. ci'[m+1].limit = t + f.slots
    BY <1>7
  <2> QED
    BY <1>3, <1>5, <1>6, <2>1
<1>11. stacksize' >= StackStart + Extra /\ stackmax' \in {stacksize' - 1, stacksize' - 1 - Extra}
  <2>1. stacksize' >= StackStart + Extra
    BY <1>5, <1>6
  <2>2. stackmax' \in {stacksize' - 1, stacksize' - 1 - Extra}
    BY <1>5 DEF SizeKept
  <2> QED
    BY <2>1, <2>2
<1> QED
  BY <1>7, <1>8, <1>9, <1>10, <1>11 DEF RoomInv

\* tea_state_relimitstack gives all of the stack.
LEMMA RelimitOK ==
    ASSUME FrameInv, RoomInv, RoomConstants, NEW s \in Nat, s >= stacksize,
           stacksize' = s, stackmax' = s - 1
    PROVE  SizeKept
<1>1. PICK S \in Nat, C \in Int : S = stacksize /\ C = Ceiling /\ C <= S-2
  BY CeilingOK
<1>2. Ceiling' = s - 2
  BY DEF Ceiling
<1> QED
  BY <1>1, <1>2 DEF SizeKept

\* A caught error keeps the stack under its ceiling; the ceiling may come down.
LEMMA RoomRewound ==
    ASSUME FrameInv, FrameInv', RoomInv, RoomConstants,
           NEW j, NEW s \in Nat, s >= stacksize, Rewound(j, s)
    PROVE  RoomInv'
<1>1. /\ j \in 1..Len(native) /\ native[j].via = "pcall" /\ ci' = SubSeq(ci, 1, native[j].saved.ci)
      /\ top' = native[j].slot + 1 /\ stacksize' = s /\ stackmax' = s - 1
  BY DEF Rewound
<1>2. ActivationOK(j)
  BY <1>1 DEF FrameInv, StacksOK
<1>3. PICK n \in Nat, a \in 2..Len(ci) : n = Len(ci) /\ a = native[j].at
  BY <1>2, TypesOK DEF FrameInv, ActivationOK
<1> DEFINE m == a - 1
<1>4. /\ native[j].slot = ci[a].base /\ native[j].saved.ci = m /\ ci[m].kind # "TEA"
  BY <1>1, <1>2, <1>3 DEF ActivationOK
<1>5. m \in 1..n /\ m \in 0..n
  BY <1>3
<1>6. SizeKept
  BY <1>1, RelimitOK
<1>7. Len(ci') = m /\ \A i \in 1..m : ci'[i] = ci[i]
  <2> HIDE DEF m
  <2>1. ci \in Seq(FrameType)
    BY TypesOK DEF FrameInv
  <2> QED
    BY <1>1, <1>3, <1>4, <1>5, <2>1, PrefixOK
<1>8. top' <= Ceiling'
  <2>1. ci[a].base < Ceiling
    BY <1>3 DEF RoomInv
  <2>2. top' = ci[a].base + 1 /\ ci[a].base \in Nat
    <3>1. a \in 1..n
      BY <1>3
    <3> QED
      BY <1>1, <1>3, <1>4, <3>1, TypesOK DEF FrameInv
  <2>3. Ceiling \in Int /\ Ceiling' \in Int /\ Ceiling <= Ceiling'
    BY <1>6, CeilingOK DEF SizeKept
  <2> QED
    BY <2>1, <2>2, <2>3
<1> HIDE DEF m
<1> QED
  BY <1>3, <1>4, <1>5, <1>6, <1>7, <1>8, RoomCut

\* A refused call keeps the stack under its ceiling.
LEMMA RoomRefused ==
    ASSUME FrameInv, FrameInv', RoomInv, RoomConstants, NEW f, NEW via, NEW slot, NEW t,
           NEW s \in Nat, s >= stacksize, CallSite(f, via, slot, t), Refused(via, slot, s)
    PROVE  RoomInv'
<1>1. /\ ci' = ci /\ top' = slot + 1 /\ stacksize' = s /\ stackmax' = s - 1
      /\ slot \in Nat /\ slot < top /\ ~exited /\ ~InTea
  BY DEF Refused, CallSite
<1>2. Len(ci) \in 1..Len(ci) /\ Frame = ci[Len(ci)]
  BY TypesOK DEF FrameInv
<1>3. ci[Len(ci)].kind # "TEA"
  BY <1>1, <1>2, WhoRuns
<1>4. SizeKept
  BY <1>1, RelimitOK
<1>5. top' <= Ceiling'
  BY <1>1, <1>4, CeilingOK DEF SizeKept
<1> QED
  BY <1>1, <1>2, <1>3, <1>4, <1>5, RoomCut

\* A step that leaves the stack alone keeps the room.
LEMMA RoomSame ==
    ASSUME RoomInv, UNCHANGED <<ci, top, stacksize, stackmax>>
    PROVE  RoomInv'
BY DEF RoomInv, Ceiling

\* A return keeps the stack under its ceiling.
LEMMA RoomReturn ==
    ASSUME FrameInv, FrameInv', RoomInv, RoomConstants, Return
    PROVE  RoomInv'
<1>1. PICK n \in Nat : n = Len(ci) /\ n >= 2
  <2>1. Len(ci) \in Nat /\ Len(ci) >= 1 /\ Len(ci) # 1
    BY WhoRuns, TypesOK DEF FrameInv, Return
  <2>2. \A x \in Nat : x >= 1 /\ x # 1 => x >= 2
    OBVIOUS
  <2> QED
    BY <2>1, <2>2
<1>2. /\ ci' = SubSeq(ci, 1, n-1) /\ top' = ci[n].base + 1 /\ UNCHANGED <<stacksize, stackmax>>
      /\ n-1 \in 1..n /\ n-1 \in 0..n /\ n \in 2..n /\ n-1+1 = n
  BY <1>1, TypesOK DEF FrameInv, Return
<1>3. ci[n].base < Ceiling /\ ci[n].base \in Nat /\ ci[n-1].limit \in Nat
  <2>1. ci[n].base < Ceiling
    BY <1>1, <1>2 DEF RoomInv
  <2>2. n \in 1..n
    BY <1>2
  <2> QED
    BY <1>1, <1>2, <2>1, <2>2, TypesOK DEF FrameInv
<1>4. ci[n-1].kind = "TEA" => ci[n].base < ci[n-1].limit
  <2>1. \A i \in 2..n-1 : ci[i].kind = "TEA" => ci[i+1].base < ci[i].limit
    BY <1>1 DEF RoomInv
  <2>2. n-1 \in 2..n-1 \/ n-1 = 1
    BY <1>1
  <2>3. ci[1].kind # "TEA"
    BY DEF FrameInv, FramesOK
  <2> QED
    BY <1>2, <2>1, <2>2, <2>3
<1>5. SizeKept
  <2>1. Ceiling' = Ceiling
    BY <1>2 DEF Ceiling
  <2> QED
    BY <1>2, <2>1, CeilingOK DEF SizeKept
<1>6. Len(ci') = n-1 /\ \A i \in 1..n-1 : ci'[i] = ci[i]
  <2>1. ci \in Seq(FrameType)
    BY TypesOK DEF FrameInv
  <2> QED
    BY <1>1, <1>2, <2>1, PrefixOK
<1>7. top' <= Ceiling' /\ (ci[n-1].kind = "TEA" => top' <= ci[n-1].limit)
  <2>1. Ceiling' = Ceiling
    BY <1>2 DEF Ceiling
  <2>2. PICK b \in Nat, C \in Int, l \in Nat :
            b = ci[n].base /\ C = Ceiling /\ l = ci[n-1].limit /\ b < C
    BY <1>3, CeilingOK
  <2>3. top' = b+1 /\ Ceiling' = C
    BY <1>2, <2>1, <2>2
  <2> QED
    BY <1>4, <2>2, <2>3
<1> QED
  BY <1>1, <1>2, <1>5, <1>6, <1>7, RoomCut

\* A push, which checks or grows, keeps the stack under its ceiling.
LEMMA RoomPush ==
    ASSUME FrameInv, FrameInv', RoomInv, RoomConstants, Push
    PROVE  RoomInv'
<1>1. /\ Len(ci) \in Nat /\ Len(ci) >= 1 /\ Frame = ci[Len(ci)] /\ ci' = ci /\ top' = top + 1
      /\ Frame.limit \in Nat
  BY TypesOK DEF FrameInv, Push
<1>2. CASE InTea /\ top < Frame.limit /\ UNCHANGED <<stacksize, stackmax>>
  <2>1. Len(ci) # 1
    BY <1>2, WhoRuns DEF InTea
  <2>2. Len(ci) \in 2..Len(ci)
    <3>1. \A x \in Nat : x >= 1 /\ x # 1 => x \in 2..x
      OBVIOUS
    <3> QED
      BY <1>1, <2>1, <3>1
  <2>3. Frame.limit <= Ceiling /\ Ceiling' = Ceiling
    BY <1>1, <1>2, <2>2 DEF RoomInv, Ceiling
  <2>4. SizeKept
    BY <1>2, <2>3, CeilingOK DEF SizeKept
  <2>5. top' <= Ceiling' /\ top' <= ci[Len(ci)].limit
    <3>1. PICK h \in Nat, C \in Int, l \in Nat : h = top /\ C = Ceiling /\ l = Frame.limit
      BY <1>1, CeilingOK
    <3>2. h < l /\ l <= C /\ top' = h+1 /\ Ceiling' = C
      BY <1>1, <1>2, <2>3, <3>1
    <3> QED
      BY <1>1, <3>1, <3>2
  <2>6. Len(ci) \in 1..Len(ci)
    BY <1>1
  <2> QED
    BY <1>1, <2>4, <2>5, <2>6, RoomCut
<1>3. CASE /\ InNative
           /\ SetStackSize(IF top + 1 >= stackmax THEN GrownSize(stackmax, 1) ELSE stacksize)
  <2>1. PICK S \in Nat, M \in Int, C \in Int, h \in Nat, E \in Nat, A \in Nat :
            /\ S = stacksize /\ M = stackmax /\ C = Ceiling /\ h = top /\ E = Extra /\ A = MetaArgs
            /\ C <= S-2 /\ h <= C /\ S > E /\ M \in {S-1, S-1-E} /\ M-1 <= C /\ A <= E
    BY CeilingOK
  <2>2. SizeKept /\ top' <= Ceiling'
    <3>1. CASE h + 1 >= M
      <4>1. GrownSize(stackmax, 1) = 2 * S
        BY <2>1 DEF GrownSize
      <4>2. stacksize' = 2 * S /\ stackmax' = 2 * S - 1 - E
        BY <2>1, <3>1, <4>1, <1>3 DEF SetStackSize
      <4>3. Ceiling' \in {2*S - 2, 2*S - 2 - E + A} /\ Ceiling' >= 2*S - 2 - E + A
        BY <2>1, <4>2 DEF Ceiling
      <4>4. C <= 2*S - 2 - E + A /\ h + 1 <= 2*S - 2 - E + A
        BY <2>1
      <4> QED
        BY <1>1, <2>1, <4>2, <4>3, <4>4 DEF SizeKept
    <3>2. CASE ~(h + 1 >= M)
      <4>1. stacksize' = S /\ stackmax' = M
        BY <2>1, <3>2, <1>3 DEF SetStackSize
      <4>2. Ceiling' = C
        BY <2>1, <4>1 DEF Ceiling
      <4> QED
        BY <1>1, <2>1, <3>2, <4>1, <4>2 DEF SizeKept
    <3> QED
      BY <3>1, <3>2
  <2>3. ci[Len(ci)].kind # "TEA"
    BY <1>1, <1>3, WhoRuns DEF InNative
  <2>4. Len(ci) \in 1..Len(ci)
    BY <1>1
  <2> QED
    BY <1>1, <2>2, <2>3, <2>4, RoomCut
<1> QED
  BY <1>2, <1>3 DEF Push

\* A pop keeps the stack under its ceiling.
LEMMA RoomPop ==
    ASSUME FrameInv, FrameInv', RoomInv, RoomConstants, Pop
    PROVE  RoomInv'
<1>1. /\ Len(ci) \in 1..Len(ci) /\ ci' = ci /\ top' = top - 1 /\ UNCHANGED <<stacksize, stackmax>>
      /\ ci[Len(ci)].limit \in Nat
  <2>1. Len(ci) \in 1..Len(ci)
    BY TypesOK DEF FrameInv
  <2> QED
    BY <2>1, TypesOK DEF FrameInv, Pop
<1>2. Ceiling' = Ceiling
  BY <1>1 DEF Ceiling
<1>3. SizeKept /\ top' <= Ceiling'
  <2>1. PICK h \in Nat, C \in Int, S \in Nat :
            h = top /\ C = Ceiling /\ S = stacksize /\ h <= C /\ stackmax \in {S-1, S-1-Extra}
    BY CeilingOK
  <2>2. top' = h-1 /\ Ceiling' = C /\ stacksize' = S /\ stackmax' = stackmax
    BY <1>1, <1>2, <2>1
  <2> QED
    BY <2>1, <2>2 DEF SizeKept
<1>4. ci[Len(ci)].kind = "TEA" => top' <= ci[Len(ci)].limit
  BY <1>1, CeilingOK DEF RoomInv
<1> QED
  BY <1>1, <1>3, <1>4, RoomCut

\* Growing never shrinks the stack (tea_state_growstack).
LEMMA GrowthOnly ==
    ASSUME FrameInv, NEW t \in Nat, NEW need \in Nat
    PROVE  GrownSize(t, need) \in Nat /\ GrownSize(t, need) >= stacksize
<1>1. PICK S \in Nat, M \in Int, E \in Nat : S = stacksize /\ M = stackmax /\ E = Extra
  BY TypesOK, ConstantsAreNat DEF FrameInv
<1>2. GrownSize(t, need) \in {S, 2 * S, S + need + E}
  BY <1>1 DEF GrownSize
<1> QED
  BY <1>1, <1>2

\* Any call keeps the stack under its ceiling.
LEMMA RoomCall ==
    ASSUME FrameInv, FrameInv', RoomInv, RoomConstants, SizesApart,
           NEW f, NEW via, NEW slot, NEW t,
           CallSite(f, via, slot, t), Enter(f, via, slot, t)
    PROVE  RoomInv'
<1>1. CASE Entered(f, via, slot, t)
  BY <1>1, RoomEntered
<1>2. CASE Overflow(f, via, slot, t)
  <2>1. t \in Nat /\ f.slots \in Nat /\ stacksize \in Nat
    BY TypesOK, CallConstantsOK DEF CallSite, Callees, FrameInv
  <2>2. \A s \in {stacksize, GrownSize(t, f.slots)} : s \in Nat /\ s >= stacksize
    <3>1. GrownSize(t, f.slots) \in Nat /\ GrownSize(t, f.slots) >= stacksize
      BY <2>1, GrowthOnly
    <3> QED
      BY <2>1, <3>1
  <2>3. ASSUME NEW s \in {stacksize, GrownSize(t, f.slots)}, Refused(via, slot, s)
        PROVE  RoomInv'
    BY <2>2, <2>3, RoomRefused
  <2>4. ASSUME NEW s \in {stacksize, GrownSize(t, f.slots)},
               NEW j \in 1..Len(native), Rewound(j, s)
        PROVE  RoomInv'
    BY <2>2, <2>4, RoomRewound
  <2>5. Uncaught => RoomInv'
    BY RoomSame DEF Uncaught, stackvars
  <2> QED
    BY <1>2, <2>3, <2>4, <2>5, OverflowCases
<1> QED
  BY <1>1, <1>2, EnterCases

\* Any error keeps the stack under its ceiling.
LEMMA RoomRaise ==
    ASSUME FrameInv, FrameInv', RoomInv, RoomConstants, Raise
    PROVE  RoomInv'
<1>1. cisize \in Nat /\ stacksize \in Nat /\ stacksize >= stacksize
  BY TypesOK DEF FrameInv
<1>2. Uncaught \/ \E j \in 1..Len(native) : Rewound(j, stacksize)
  BY <1>1, RaiseCases DEF Raise
<1>3. Uncaught => RoomInv'
  BY RoomSame DEF Uncaught, stackvars
<1>4. ASSUME NEW j \in 1..Len(native), Rewound(j, stacksize) PROVE RoomInv'
  BY <1>1, <1>4, RoomRewound
<1> QED
  BY <1>2, <1>3, <1>4

\* Every step keeps the stack under its ceiling.
LEMMA RoomNext ==
    ASSUME FrameInv, FrameInv', RoomInv, RoomConstants, SizesApart, [Next]_vars
    PROVE  RoomInv'
<1> DEFINE Calling ==
      \/ \E f \in Callees, nargs \in 0..1 : BytecodeCall(f, nargs)
      \/ \E f \in Callees, pushed \in 0..MetaArgs : OperatorCall(f, pushed)
      \/ \E f \in Callees, nargs \in 0..1, via \in NativeVias : NativeCall(f, nargs, via)
<1>1. CASE Calling
  <2>1. PICK f \in Callees, via \in Vias, slot \in Nat, t \in Nat :
            CallSite(f, via, slot, t) /\ Enter(f, via, slot, t)
    BY <1>1, CallsAreSites
  <2> QED
    BY <2>1, RoomCall
<1>2. CASE Exited \/ UNCHANGED vars
  BY <1>2, RoomSame DEF Exited, vars
<1> QED
  BY <1>1, <1>2, RoomPush, RoomPop, RoomReturn, RoomRaise DEF Next

\* The first stack has room for operators.
LEMMA InitRoom == ASSUME RoomConstants PROVE Init => RoomInv
<1> SUFFICES ASSUME Init PROVE RoomInv
  OBVIOUS
<1>1. PICK S \in Nat, E \in Nat, A \in Nat : S = StackStart /\ E = Extra /\ A = MetaArgs /\ S >= 2 /\ A <= E
  BY ConstantsAreNat DEF RoomConstants
<1>2. stacksize = S + E /\ stackmax = S - 1 /\ top = 0
  BY <1>1 DEF Init
<1>3. Len(ci) = 1 /\ ci[1].kind = "host"
  BY DEF Init
<1>4. Ceiling \in {S + E - 2, S - 2 + A} /\ top <= Ceiling
  BY <1>1, <1>2 DEF Ceiling
<1>5. stacksize >= StackStart + Extra /\ stackmax \in {stacksize - 1, stacksize - 1 - Extra}
  BY <1>1, <1>2
<1> QED
  BY <1>3, <1>4, <1>5 DEF RoomInv

\* Where no method call can go wrong for lack of room.
LEMMA RoomMeans ==
    ASSUME FrameInv, RoomInv, RoomConstants PROVE OperatorRoomBeforeErrors
<1> SUFFICES ASSUME stackmax < stacksize - 1, InTea PROVE Frame.limit + MetaArgs <= stacksize
  BY DEF OperatorRoomBeforeErrors, OperatorRoom
<1>1. Len(ci) \in Nat /\ Len(ci) >= 1 /\ Len(ci) # 1 /\ Frame = ci[Len(ci)]
  BY WhoRuns, TypesOK DEF FrameInv, InTea
<1>2. Len(ci) \in 2..Len(ci) /\ Len(ci) \in 1..Len(ci)
  <2>1. \A x \in Nat : x >= 1 /\ x # 1 => x \in 2..x /\ x \in 1..x
    OBVIOUS
  <2> QED
    BY <1>1, <2>1
<1>3. PICK S \in Nat, E \in Nat, A \in Nat, l \in Nat :
          S = stacksize /\ E = Extra /\ A = MetaArgs /\ l = Frame.limit /\ 2 * A <= E + 2
  BY <1>1, <1>2, TypesOK, CeilingOK DEF FrameInv, RoomConstants
<1>4. Ceiling = S - 2 - E + A
  BY <1>3, CeilingOK DEF Ceiling
<1>5. l <= Ceiling
  BY <1>1, <1>2, <1>3 DEF RoomInv
<1> QED
  BY <1>3, <1>4, <1>5

\* An operator that calls a method has room for the values it pushes unchecked, until an
\* error is caught and the stack has not grown again, if no function declares about
\* as many slots as the stack has when it is called; for functions that do it is false.
THEOREM OperatorsHaveRoom ==
    ASSUME RoomConstants PROVE Spec /\ []SizesApart => []OperatorRoomBeforeErrors
<1>1. Init => RoomInv
  BY InitRoom
<1>2. FrameInv /\ FrameInv' /\ RoomInv /\ SizesApart /\ [Next]_vars => RoomInv'
  BY RoomNext
<1>3. FrameInv /\ RoomInv => OperatorRoomBeforeErrors
  BY RoomMeans
<1> QED
  BY <1>1, <1>2, <1>3, SpecFrames, PTL DEF Spec

-----------------------------------------------------------------------------
(* Calls nest                                                              *)

\* The frames of AbstractCalls: all but the host's.
Guarded(i) == \E j \in DOMAIN native : native[j].at = i /\ native[j].via = "pcall"
Abstract(i) == [slot |-> ci[i].base, protected |-> Guarded(i)]
Frames == [i \in 1..Len(ci)-1 |-> Abstract(i+1)]
AbstractType == [slot : Nat, protected : BOOLEAN]

FramesShape ==
    /\ Frames \in Seq(AbstractType) /\ Len(Frames) = Len(ci)-1
    /\ DOMAIN Frames = 1..Len(ci)-1
    /\ \A i \in 1..Len(ci)-1 : Frames[i] = Abstract(i+1)
    /\ \A i \in 1..Len(ci)-1 : /\ Frames[i].slot = ci[i+1].base
                              /\ Frames[i].protected = Guarded(i+1)

\* The abstract frames, one for each CallInfo but the first.
LEMMA FramesAre == FrameInv => FramesShape
<1> SUFFICES ASSUME FrameInv PROVE FramesShape
  OBVIOUS
<1>1. PICK n \in Nat : n = Len(ci) - 1
  <2>1. Len(ci) \in Nat /\ Len(ci) >= 1
    BY TypesOK DEF FrameInv
  <2> QED
    BY <2>1
<1>2. \A i \in 1..n : ci[i+1].base \in Nat
  BY <1>1, TypesOK DEF FrameInv
<1>3. \A i \in 1..n : Abstract(i+1) \in AbstractType
  BY <1>2 DEF Abstract, AbstractType, Guarded
<1>4. Frames = [i \in 1..n |-> Abstract(i+1)]
  BY <1>1 DEF Frames
<1>5. Frames \in Seq(AbstractType) /\ Len(Frames) = n /\ DOMAIN Frames = 1..n
      /\ \A i \in 1..n : Frames[i] = Abstract(i+1)
  BY <1>3, <1>4
<1>6. \A i \in 1..n : Abstract(i+1).slot = ci[i+1].base /\ Abstract(i+1).protected = Guarded(i+1)
  BY DEF Abstract
<1> QED
  BY <1>1, <1>5, <1>6 DEF FramesShape

\* Cutting the CallInfo array cuts the abstract frames at the same place.
LEMMA FramesCut ==
    ASSUME FrameInv, FrameInv', NEW m, NEW k, Cut(m, k)
    PROVE  Frames' = SubSeq(Frames, 1, m-1) /\ Len(ci') = m
<1>1. PICK n \in Nat : n = Len(ci) - 1
  <2>1. Len(ci) \in Nat /\ Len(ci) >= 1
    BY TypesOK DEF FrameInv
  <2> QED
    BY <2>1
<1>2. /\ m \in 1..n+1 /\ m-1 \in 0..n /\ k \in 0..Len(native) /\ Len(native) \in Nat
      /\ \A j \in 1..Len(native) : native[j].at <= m <=> j <= k
      /\ ci \in Seq(FrameType) /\ native \in Seq(ActivationType) /\ Len(ci) = n+1
      /\ \A i \in 1..Len(native) : native[i].at \in Nat
      /\ DOMAIN native = 1..Len(native)
  BY <1>1, TypesOK DEF FrameInv, Cut
<1>3. /\ Len(ci') = m /\ \A i \in 1..m : ci'[i] = ci[i]
      /\ Len(native') = k /\ \A j \in 1..k : native'[j] = native[j]
      /\ DOMAIN native' = 1..k
  <2>1. m \in 0..Len(ci)
    BY <1>2
  <2>2. /\ SubSeq(ci, 1, m) \in Seq(FrameType) /\ Len(SubSeq(ci, 1, m)) = m
        /\ \A i \in 1..m : SubSeq(ci, 1, m)[i] = ci[i]
    BY <1>2, <2>1, PrefixOK
  <2>3. /\ SubSeq(native, 1, k) \in Seq(ActivationType) /\ Len(SubSeq(native, 1, k)) = k
        /\ \A j \in 1..k : SubSeq(native, 1, k)[j] = native[j]
    BY <1>2, PrefixOK
  <2>4. ci' = SubSeq(ci, 1, m) /\ native' = SubSeq(native, 1, k)
    BY DEF Cut
  <2> QED
    BY <2>2, <2>3, <2>4
<1>4. ASSUME NEW i \in 2..m PROVE Guarded(i)' <=> Guarded(i)
  <2>1. \A j \in 1..k : j \in 1..Len(native)
    BY <1>2
  <2>2. ASSUME NEW j \in 1..Len(native), native[j].at = i PROVE j \in 1..k
    BY <1>2, <2>2
  <2> QED
    BY <1>2, <1>3, <2>1, <2>2 DEF Guarded
<1>5. ASSUME NEW i \in 2..m PROVE Abstract(i)' = Abstract(i)
  <2>1. ci'[i] = ci[i]
    BY <1>2, <1>3
  <2>2. Guarded(i)' = Guarded(i)
    BY <1>4 DEF Guarded
  <2> QED
    BY <2>1, <2>2 DEF Abstract
<1>6. /\ Frames' \in Seq(AbstractType) /\ Len(Frames') = m-1
      /\ \A i \in 1..m-1 : Frames'[i] = Abstract(i+1)'
  <2>1. FrameInv' => FramesShape'
    BY FramesAre, PTL
  <2> QED
    BY <1>3, <2>1 DEF FramesShape
<1>7. /\ Frames \in Seq(AbstractType) /\ Len(Frames) = n
      /\ \A i \in 1..n : Frames[i] = Abstract(i+1)
  BY <1>1, FramesAre DEF FramesShape
<1>8. /\ SubSeq(Frames, 1, m-1) \in Seq(AbstractType) /\ Len(SubSeq(Frames, 1, m-1)) = m-1
      /\ \A i \in 1..m-1 : SubSeq(Frames, 1, m-1)[i] = Frames[i]
  BY <1>2, <1>7, PrefixOK
<1>9. \A i \in 1..m-1 : Frames'[i] = SubSeq(Frames, 1, m-1)[i]
  <2>1. \A i \in 1..m-1 : i+1 \in 2..m /\ i \in 1..n
    BY <1>2
  <2> QED
    BY <1>5, <1>6, <1>7, <1>8, <2>1
<1> QED
  BY <1>3, <1>6, <1>8, <1>9, SeqEqual

\* The abstract frames depend on the CallInfo array and the C stack alone.
LEMMA FramesSame ==
    ASSUME UNCHANGED <<ci, native>> PROVE Frames' = Frames
BY DEF Frames, Abstract, Guarded

\* Entering a function pushes one abstract frame.
LEMMA FramesEntered ==
    ASSUME FrameInv, FrameInv', NEW f, NEW via, NEW slot, NEW t,
           CallSite(f, via, slot, t), Entered(f, via, slot, t)
    PROVE  Frames' = Append(Frames, [slot |-> slot, protected |-> via = "pcall"])
<1>1. PICK m \in Nat, n \in Nat : m = Len(ci) /\ n = Len(native) /\ m >= 1
  BY TypesOK DEF FrameInv
<1>2. EnteredArrays(f, via, slot, t, m, n)
  BY <1>1, EnteredFrames
<1>3. /\ Len(ci') = m+1 /\ \A i \in 1..m : ci'[i].base = ci[i].base
      /\ ci'[m+1] = NewFrame(f, slot, t)
      /\ \A j \in 1..n : native'[j] = native[j]
  BY <1>2 DEF EnteredArrays
<1>4. \A j \in 1..n : native[j].at \in 2..m /\ native[j].at # m+1
  BY <1>1 DEF FrameInv, StacksOK, ActivationOK
<1>5. DOMAIN native = 1..n /\ DOMAIN native' = 1..Len(native')
  <2>1. TypeOK' => native' \in Seq(ActivationType)
    BY DEF TypeOK, ActivationType
  <2> QED
    BY <1>1, <2>1, TypesOK DEF FrameInv
<1>6. \/ /\ Len(native') = n+1 /\ native'[n+1].at = m+1
         /\ native'[n+1].via = via
      \/ Len(native') = n /\ via = "bytecode"
  BY <1>1, <1>2 DEF EnteredArrays
<1>7. ASSUME NEW i \in 2..m PROVE Guarded(i)' <=> Guarded(i)
  <2>1. i # m+1
    OBVIOUS
  <2>2. ASSUME Guarded(i)' PROVE Guarded(i)
    <3>1. PICK j \in 1..Len(native') : native'[j].at = i /\ native'[j].via = "pcall"
      BY <1>5, <2>2 DEF Guarded
    <3>2. j \in 1..n
      BY <1>6, <2>1, <3>1
    <3> QED
      BY <1>3, <1>5, <3>1, <3>2 DEF Guarded
  <2>3. ASSUME Guarded(i) PROVE Guarded(i)'
    <3>1. PICK j \in 1..n : native[j].at = i /\ native[j].via = "pcall"
      BY <1>5, <2>3 DEF Guarded
    <3>2. j \in 1..Len(native')
      BY <1>6
    <3> QED
      BY <1>3, <1>5, <3>1, <3>2 DEF Guarded
  <2> QED
    BY <2>2, <2>3
<1>8. Guarded(m+1)' <=> via = "pcall"
  <2>1. ASSUME Guarded(m+1)' PROVE via = "pcall"
    <3>1. PICK j \in 1..Len(native') : native'[j].at = m+1 /\ native'[j].via = "pcall"
      BY <1>5, <2>1 DEF Guarded
    <3>2. j \notin 1..n
      BY <1>3, <1>4, <3>1
    <3>3. j = n+1 /\ Len(native') = n+1
      BY <1>6, <3>1, <3>2
    <3> QED
      BY <1>6, <3>1, <3>3
  <2>2. ASSUME via = "pcall" PROVE Guarded(m+1)'
    <3>1. Len(native') = n+1 /\ n+1 \in 1..Len(native')
      BY <1>6, <2>2
    <3> QED
      BY <1>5, <1>6, <2>2, <3>1 DEF Guarded
  <2> QED
    BY <2>1, <2>2
<1> DEFINE e == [slot |-> slot, protected |-> via = "pcall"]
<1>9. ASSUME NEW i \in 2..m PROVE Abstract(i)' = Abstract(i)
  <2>1. ci'[i].base = ci[i].base
    BY <1>3
  <2>2. Guarded(i)' = Guarded(i)
    BY <1>7 DEF Guarded
  <2> QED
    BY <2>1, <2>2 DEF Abstract
<1>10. Abstract(m+1)' = e
  <2>1. ci'[m+1].base = slot
    BY <1>3 DEF NewFrame
  <2>2. Guarded(m+1)' = (via = "pcall")
    BY <1>8 DEF Guarded
  <2> QED
    BY <2>1, <2>2 DEF Abstract
<1>11. e \in AbstractType
  BY DEF AbstractType, CallSite
<1> HIDE DEF e
<1>12. /\ Frames' \in Seq(AbstractType) /\ Len(Frames') = m
       /\ \A i \in 1..m : Frames'[i] = Abstract(i+1)'
  <2>1. FrameInv' => FramesShape'
    BY FramesAre, PTL
  <2> QED
    BY <1>1, <1>3, <2>1 DEF FramesShape
<1>13. /\ Frames \in Seq(AbstractType) /\ Len(Frames) = m-1
       /\ \A i \in 1..m-1 : Frames[i] = Abstract(i+1)
  BY <1>1, FramesAre DEF FramesShape
<1>14. /\ Append(Frames, e) \in Seq(AbstractType) /\ Len(Append(Frames, e)) = m
       /\ \A i \in 1..m : Append(Frames, e)[i] = IF i = m THEN e ELSE Frames[i]
  BY <1>1, <1>11, <1>13
<1>15. \A i \in 1..m : Frames'[i] = Append(Frames, e)[i]
  <2>1. \A i \in 1..m : i = m \/ (i+1 \in 2..m /\ i \in 1..m-1 /\ i # m)
    BY <1>1
  <2> QED
    BY <1>9, <1>10, <1>12, <1>13, <1>14, <2>1
<1> QED
  BY <1>12, <1>14, <1>15, SeqEqual DEF e

\* The abstract specification, written out.
LEMMA CallsForms ==
    /\ Calls!Floor = IF Frames = <<>> THEN 0 ELSE Frames[Len(Frames)].slot
    /\ Calls!vars = <<Frames, top, exited>>
    /\ Calls!Init <=> Frames = <<>> /\ top = 0 /\ exited = FALSE
    /\ Calls!Return <=> /\ Frames # <<>> /\ Frames' = SubSeq(Frames, 1, Len(Frames) - 1)
                       /\ top' = Frames[Len(Frames)].slot + 1 /\ UNCHANGED exited
BY DEF Calls!Floor, Calls!vars, Calls!Init, Calls!Return, Frames, Abstract, Guarded

\* The floor of the innermost call is its base.
LEMMA FloorIs == ASSUME FrameInv PROVE Calls!Floor = ci[Len(ci)].base
<1>1. PICK n \in Nat : n = Len(ci) - 1
  <2>1. Len(ci) \in Nat /\ Len(ci) >= 1
    BY TypesOK DEF FrameInv
  <2> QED
    BY <2>1
<1>2. /\ Frames \in Seq(AbstractType) /\ Len(Frames) = n /\ Len(ci) = n+1
      /\ \A i \in 1..n : Frames[i].slot = ci[i+1].base
  BY <1>1, FramesAre, TypesOK DEF FrameInv, FramesShape
<1>3. CASE n = 0
  <2>1. Frames = <<>>
    BY <1>2, <1>3
  <2>2. ci[1].base = 0
    BY DEF FrameInv, FramesOK
  <2> QED
    BY <1>2, <1>3, <2>1, <2>2, CallsForms
<1>4. CASE n # 0
  <2>1. Frames # <<>> /\ n \in 1..n
    BY <1>2, <1>4
  <2> QED
    BY <1>2, <2>1, CallsForms
<1> QED
  BY <1>3, <1>4

\* A step inside a function is an abstract local step.
LEMMA LocalStep ==
    ASSUME FrameInv, ~exited, UNCHANGED <<ci, native, exited>>,
           top' \in Nat, ci[Len(ci)].base <= top'
    PROVE  Calls!Next
<1>1. Frames' = Frames
  BY FramesSame
<1>2. ci[Len(ci)].base \in Nat
  BY TypesOK DEF FrameInv
<1>3. top' >= Calls!Floor
  BY <1>2, FloorIs
<1>4. Calls!Local
  BY <1>1, <1>3 DEF Calls!Local, Frames, Abstract, Guarded
<1> QED
  BY <1>4 DEF Calls!Next

\* Entering a function is an abstract call.
LEMMA EnteredStep ==
    ASSUME FrameInv, FrameInv', NEW f, NEW via, NEW slot, NEW t,
           CallSite(f, via, slot, t), Entered(f, via, slot, t)
    PROVE  Calls!Next
<1> DEFINE e == [slot |-> slot, protected |-> via = "pcall"]
<1>1. Frames' = Append(Frames, e)
  BY FramesEntered
<1>2. /\ slot \in Nat /\ t \in Nat /\ slot < t /\ slot < top /\ ~exited /\ exited' = exited
      /\ top' = t /\ ci[Len(ci)].base <= slot
  BY DEF CallSite, Entered
<1>3. ci[Len(ci)].base \in Nat /\ top \in Nat
  BY TypesOK DEF FrameInv
<1>4. slot \in Calls!Floor..top
  BY <1>2, <1>3, FloorIs
<1>5. Frames'[Len(Frames')].slot = slot
  <2>1. Frames \in Seq(AbstractType) /\ Len(Frames) \in Nat
    BY FramesAre DEF FramesShape
  <2>2. e.slot = slot /\ e \in AbstractType
    BY <1>2 DEF AbstractType
  <2> HIDE DEF e
  <2>3. Frames'[Len(Frames')] = e
    BY <1>1, <2>1, <2>2
  <2> QED
    BY <2>2, <2>3
<1>6. \E s \in Calls!Floor..top, p \in BOOLEAN :
          Frames' = Append(Frames, [slot |-> s, protected |-> p])
  <2>1. (via = "pcall") \in BOOLEAN
    OBVIOUS
  <2> QED
    BY <1>1, <1>4, <2>1
<1>7. /\ top' \in Nat /\ top' > Frames'[Len(Frames')].slot
  BY <1>2, <1>5
<1>8. Calls!Call
  BY <1>2, <1>6, <1>7 DEF Calls!Call, Frames, Abstract, Guarded
<1> QED
  BY <1>2, <1>8 DEF Calls!Next

\* Returning is an abstract return.
LEMMA ReturnStep == ASSUME FrameInv, FrameInv', Return PROVE Calls!Next
<1>1. PICK n \in Nat : n = Len(ci) - 1
  <2>1. Len(ci) \in Nat /\ Len(ci) >= 1
    BY TypesOK DEF FrameInv
  <2> QED
    BY <2>1
<1>2. PICK k \in 0..Len(native) : Cut(n, k)
  BY <1>1, ReturnInv
<1>3. /\ Frames \in Seq(AbstractType) /\ Len(Frames) = n /\ Len(ci) = n+1 /\ n # 0
      /\ \A i \in 1..n : Frames[i].slot = ci[i+1].base
  <2>1. /\ Frames \in Seq(AbstractType) /\ Len(Frames) = n
        /\ \A i \in 1..n : Frames[i].slot = ci[i+1].base
    BY <1>1, FramesAre DEF FramesShape
  <2>2. Len(ci) \in Nat /\ Len(ci) # 1
    BY WhoRuns, TypesOK DEF FrameInv, Return
  <2>3. Len(ci) = n+1 /\ n # 0
    BY <1>1, <2>2
  <2> QED
    BY <2>1, <2>3
<1>4. Frames' = SubSeq(Frames, 1, n-1)
  BY <1>2, FramesCut
<1>5. top' = ci[n+1].base + 1 /\ exited' = exited /\ ~exited
  BY <1>3, TypesOK DEF FrameInv, Return
<1>6. Frames # <<>> /\ n \in 1..n
  BY <1>3
<1>7. Calls!Return
  BY <1>3, <1>4, <1>5, <1>6, CallsForms
<1> QED
  BY <1>5, <1>7 DEF Calls!Next

\* An error that is caught is an abstract step to the protected call.
LEMMA RewoundStep ==
    ASSUME FrameInv, FrameInv', ~exited, NEW j, NEW s \in Nat, Rewound(j, s)
    PROVE  Calls!Next
<1>1. /\ j \in 1..Len(native) /\ native[j].via = "pcall" /\ top' = native[j].slot + 1
      /\ exited' = exited
      /\ \A k \in 1..Len(native) : native[k].via = "pcall" => k <= j
  BY DEF Rewound
<1>2. PICK n \in Nat : n = Len(ci) - 1
  <2>1. Len(ci) \in Nat /\ Len(ci) >= 1
    BY TypesOK DEF FrameInv
  <2> QED
    BY <2>1
<1>3. ActivationOK(j)
  BY <1>1 DEF FrameInv, StacksOK
<1>4. PICK i \in 1..n : i+1 = native[j].at
  <2>1. native[j].at \in 2..n+1
    BY <1>2, <1>3, TypesOK DEF FrameInv, ActivationOK
  <2>2. native[j].at - 1 \in 1..n /\ native[j].at - 1 + 1 = native[j].at
    BY <2>1
  <2> QED
    BY <2>2
<1>5. Frames' = SubSeq(Frames, 1, i-1)
  <2>1. Cut(native[j].at - 1, j-1)
    BY RewoundInv
  <2>2. native[j].at - 1 = i
    BY <1>4
  <2> QED
    BY <2>1, <2>2, FramesCut
<1>6. /\ DOMAIN Frames = 1..n /\ DOMAIN native = 1..Len(native) /\ Len(native) \in Nat
      /\ \A l \in 1..n : Frames[l].slot = ci[l+1].base /\ Frames[l].protected = Guarded(l+1)
  <2>1. DOMAIN native = 1..Len(native) /\ Len(native) \in Nat
    BY TypesOK DEF FrameInv
  <2> QED
    BY <1>2, <2>1, FramesAre DEF FramesShape
<1>7. Frames[i].protected /\ top' = Frames[i].slot + 1
  BY <1>1, <1>3, <1>4, <1>6 DEF Guarded, ActivationOK
<1>8. ASSUME NEW l \in 1..n, Frames[l].protected PROVE l <= i
  <2>1. PICK k \in 1..Len(native) : native[k].at = l+1 /\ native[k].via = "pcall"
    BY <1>6, <1>8 DEF Guarded
  <2>2. k <= j /\ (k < j => native[k].at < native[j].at)
    BY <1>1, <2>1 DEF FrameInv, StacksOK
  <2>3. k = j \/ k < j
    BY <1>1, <2>2
  <2> QED
    BY <1>4, <2>1, <2>2, <2>3
<1> DEFINE P == {l \in DOMAIN Frames : Frames[l].protected}
<1>9. i \in P /\ \A l \in P : l <= i
  BY <1>6, <1>7, <1>8
<1>10. Calls!Raise <=>
          IF P = {} THEN exited' = TRUE /\ UNCHANGED <<Frames, top>>
          ELSE /\ \E l \in P : /\ \A k \in P : k <= l
                              /\ Frames' = SubSeq(Frames, 1, l-1)
                              /\ top' = Frames[l].slot + 1
               /\ UNCHANGED exited
  BY DEF Calls!Raise, Frames, Abstract, Guarded
<1> HIDE DEF P
<1>11. Calls!Raise
  BY <1>1, <1>5, <1>7, <1>9, <1>10
<1> QED
  BY <1>11 DEF Calls!Next

\* An error that is not caught is the abstract exit.
LEMMA UncaughtStep == ASSUME FrameInv, ~exited, Uncaught PROVE Calls!Next
<1> DEFINE P == {l \in DOMAIN Frames : Frames[l].protected}
<1>1. DOMAIN native = 1..Len(native)
  BY TypesOK DEF FrameInv
<1>2. P = {}
  <2>1. \A l \in DOMAIN Frames : Frames[l].protected = Guarded(l+1)
    BY FramesAre DEF FramesShape
  <2>2. \A i : ~Guarded(i)
    BY <1>1 DEF Guarded, Uncaught
  <2> QED
    BY <2>1, <2>2
<1>3. Frames' = Frames /\ top' = top /\ exited' = TRUE
  BY FramesSame DEF Uncaught, stackvars
<1>4. Calls!Raise <=>
          IF P = {} THEN exited' = TRUE /\ UNCHANGED <<Frames, top>>
          ELSE /\ \E l \in P : /\ \A k \in P : k <= l
                              /\ Frames' = SubSeq(Frames, 1, l-1)
                              /\ top' = Frames[l].slot + 1
               /\ UNCHANGED exited
  BY DEF Calls!Raise, Frames, Abstract, Guarded
<1> HIDE DEF P
<1>5. Calls!Raise
  BY <1>2, <1>3, <1>4
<1> QED
  BY <1>5 DEF Calls!Next

\* Whatever a call does is an abstract step.
LEMMA CallStep ==
    ASSUME FrameInv, FrameInv', NEW f, NEW via, NEW slot, NEW t,
           CallSite(f, via, slot, t), Enter(f, via, slot, t)
    PROVE  Calls!Next
<1>1. CASE Entered(f, via, slot, t)
  BY <1>1, EnteredStep
<1>2. CASE Overflow(f, via, slot, t)
  <2>1. /\ t \in Nat /\ f.slots \in Nat /\ stacksize \in Nat /\ ~exited
        /\ slot \in Nat /\ ci[Len(ci)].base <= slot
    BY TypesOK, CallConstantsOK DEF CallSite, Callees, FrameInv
  <2>2. \A s \in {stacksize, GrownSize(t, f.slots)} : s \in Nat
    BY <2>1, SizeIsNat
  <2>3. ASSUME NEW s \in {stacksize, GrownSize(t, f.slots)}, Refused(via, slot, s)
        PROVE  Calls!Next
    <3>1. ci[Len(ci)].base \in Nat
      BY TypesOK DEF FrameInv
    <3>2. top' \in Nat /\ ci[Len(ci)].base <= top'
      BY <2>1, <2>3, <3>1 DEF Refused
    <3>3. UNCHANGED <<ci, native, exited>>
      BY <2>3 DEF Refused
    <3> QED
      BY <2>1, <3>2, <3>3, LocalStep
  <2>4. ASSUME NEW s \in {stacksize, GrownSize(t, f.slots)},
               NEW j \in 1..Len(native), Rewound(j, s)
        PROVE  Calls!Next
    BY <2>1, <2>2, <2>4, RewoundStep
  <2> QED
    BY <1>2, <2>1, <2>3, <2>4, OverflowCases, UncaughtStep
<1> QED
  BY <1>1, <1>2, EnterCases

\* Whatever an error does is an abstract step.
LEMMA RaiseStep == ASSUME FrameInv, FrameInv', Raise PROVE Calls!Next
<1>1. cisize \in Nat /\ stacksize \in Nat /\ ~exited
  BY TypesOK DEF FrameInv, Raise, InTea, InNative
<1>2. Uncaught \/ \E j \in 1..Len(native) : Rewound(j, stacksize)
  BY <1>1, RaiseCases DEF Raise
<1>3. ASSUME NEW j \in 1..Len(native), Rewound(j, stacksize) PROVE Calls!Next
  BY <1>1, <1>3, RewoundStep
<1> QED
  BY <1>1, <1>2, <1>3, UncaughtStep

\* Whatever native code pushes or pops is an abstract step.
LEMMA PushPopStep == ASSUME FrameInv, FrameInv', Push \/ Pop PROVE Calls!Next
<1>1. ~exited /\ UNCHANGED <<ci, native, exited>>
  BY DEF Push, Pop, InTea, InNative
<1>2. top' \in Nat /\ ci'[Len(ci')].base <= top'
  BY DEF FrameInv, FramesOK, TypeOK
<1> QED
  BY <1>1, <1>2, LocalStep

\* Every step is an abstract step or a stutter.
LEMMA StepCalls ==
    ASSUME FrameInv, FrameInv', [Next]_vars PROVE [Calls!Next]_(Calls!vars)
<1> DEFINE Calling ==
      \/ \E f \in Callees, nargs \in 0..1 : BytecodeCall(f, nargs)
      \/ \E f \in Callees, pushed \in 0..MetaArgs : OperatorCall(f, pushed)
      \/ \E f \in Callees, nargs \in 0..1, via \in NativeVias : NativeCall(f, nargs, via)
<1>1. CASE Calling
  <2>1. PICK f \in Callees, via \in Vias, slot \in Nat, t \in Nat :
            CallSite(f, via, slot, t) /\ Enter(f, via, slot, t)
    BY <1>1, CallsAreSites
  <2> QED
    BY <2>1, CallStep
<1>2. CASE Exited \/ UNCHANGED vars
  <2>1. UNCHANGED <<ci, native>> /\ top' = top /\ exited' = exited
    BY <1>2 DEF Exited, vars
  <2>2. UNCHANGED <<Frames, top, exited>>
    BY <2>1, FramesSame
  <2>3. UNCHANGED Calls!vars
    BY <2>2 DEF Calls!vars, Frames, Abstract, Guarded
  <2> QED
    BY <2>3
<1> QED
  BY <1>1, <1>2, PushPopStep, ReturnStep, RaiseStep DEF Next

\* The initial state is an abstract one.
LEMMA InitCalls == Init => Calls!Init
<1> SUFFICES ASSUME Init PROVE Calls!Init
  OBVIOUS
<1>1. Frames \in Seq(AbstractType) /\ Len(Frames) = Len(ci) - 1
  BY InitFrames, FramesAre DEF FramesShape
<1>2. Len(ci) = 1 /\ top = 0 /\ exited = FALSE
  BY DEF Init
<1>3. Frames = <<>>
  BY <1>1, <1>2
<1> QED
  BY <1>2, <1>3, CallsForms

\* Calls nest, whoever makes them: a callee leaves one value in its slot and never goes
\* below it, and an error resumes behind the innermost tea_pcall, one refused for the
\* depth of the stacks included, as AbstractCalls says.
THEOREM CallsNest == Spec => NestedCalls
<1>1. Init => Calls!Init
  BY InitCalls
<1>2. FrameInv /\ FrameInv' /\ [Next]_vars => [Calls!Next]_(Calls!vars)
  BY StepCalls
<1> QED
  BY <1>1, <1>2, SpecFrames, PTL DEF Spec, NestedCalls, Calls!Spec
=============================================================================

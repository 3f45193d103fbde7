-------------------------- MODULE TeaSharedProofs --------------------------
(***************************************************************************)
(* Proofs about what all code of a state shares: the modules loaded        *)
(* (TeaImport) and the interned strings (TeaStr).  The two models share no *)
(* variable; each theorem is about one of them.                            *)
(*                                                                         *)
(* Files run once, and an import statement binds the module it named       *)
(* unless it strayed.  Strings with the same contents are one object, and  *)
(* those in use are kept.                                                  *)
(***************************************************************************)
EXTENDS TeaImport, TeaStr, FiniteSetTheorems, TLAPS

-----------------------------------------------------------------------------
(* What the operations on the calls leave.                                 *)

\* Marking imports as strayed changes nothing else about the calls.
LEMMA StrayOK ==
    ASSUME NEW fs \in Seq(Frames), NEW m
    PROVE  /\ Stray(fs, m) \in Seq(Frames)
           /\ Len(Stray(fs, m)) = Len(fs)
           /\ DOMAIN Stray(fs, m) = DOMAIN fs
           /\ \A i \in DOMAIN fs :
                /\ Stray(fs, m)[i].module = fs[i].module
                /\ Stray(fs, m)[i].kind = fs[i].kind
                /\ Stray(fs, m)[i].importing = fs[i].importing
                /\ ~Stray(fs, m)[i].strayed =>
                       ~fs[i].strayed /\ fs[i].importing \in {None, m}
<1>1. \A i \in DOMAIN fs : fs[i] \in Frames
  OBVIOUS
<1>2. DOMAIN fs = 1..Len(fs) /\ Len(fs) \in Nat
  OBVIOUS
<1>3. ASSUME NEW i \in DOMAIN fs
      PROVE  /\ Stray(fs, m)[i] \in Frames
             /\ Stray(fs, m)[i].module = fs[i].module
             /\ Stray(fs, m)[i].kind = fs[i].kind
             /\ Stray(fs, m)[i].importing = fs[i].importing
             /\ ~Stray(fs, m)[i].strayed =>
                    ~fs[i].strayed /\ fs[i].importing \in {None, m}
  <2> DEFINE b == fs[i].strayed \/ fs[i].importing \notin {None, m}
  <2>1. Stray(fs, m)[i] = [fs[i] EXCEPT !.strayed = b]
    BY DEF Stray
  <2>2. b \in BOOLEAN /\ (~b => ~fs[i].strayed /\ fs[i].importing \in {None, m})
    OBVIOUS
  <2> HIDE DEF b
  <2> QED
    BY <1>1, <2>1, <2>2 DEF Frames
<1>4. Stray(fs, m) \in [1..Len(fs) -> Frames]
  BY <1>2, <1>3 DEF Stray
<1>5. Stray(fs, m) \in Seq(Frames) /\ Len(Stray(fs, m)) = Len(fs)
  BY <1>2, <1>4
<1> QED
  BY <1>2, <1>3, <1>4, <1>5

\* The innermost call is one of the calls.
LEMMA TopOK ==
    ASSUME TypeOK, frames # <<>>
    PROVE  /\ Len(frames) \in DOMAIN frames /\ Len(frames) >= 1
           /\ Top \in Frames
  BY DEF TypeOK, Top

\* The innermost call waits for an import; the others are as they were.
LEMMA WaitingOK ==
    ASSUME TypeOK, frames # <<>>, NEW p \in Module
    PROVE  /\ Waiting(p) \in Seq(Frames)
           /\ Len(Waiting(p)) = Len(frames)
           /\ Waiting(p)[Len(frames)].importing = p
           /\ \A i \in DOMAIN frames :
                /\ Waiting(p)[i].module = frames[i].module
                /\ Waiting(p)[i].kind = frames[i].kind
                /\ i # Len(frames) => Waiting(p)[i] = frames[i]
<1> DEFINE n == Len(frames)
           top == [frames[n] EXCEPT !.importing = p, !.strayed = FALSE]
<1>1. n \in DOMAIN frames /\ frames \in Seq(Frames) /\ frames[n] \in Frames
  BY TopOK DEF TypeOK, Top
<1>2. top \in Frames /\ top.importing = p /\ top.module = frames[n].module /\ top.kind = frames[n].kind
  BY <1>1 DEF Frames
<1>3. Waiting(p) = [frames EXCEPT ![n] = top]
  BY <1>1 DEF Waiting, Frames
<1> HIDE DEF top
<1> QED
  BY <1>1, <1>2, <1>3

\* A new call is well formed and waits for nothing.
LEMMA FrameOK ==
    ASSUME NEW m \in Module, NEW k \in Kinds, NEW p \in BOOLEAN
    PROVE  /\ Frame(m, k, p) \in Frames
           /\ Frame(m, k, p).module = m
           /\ Frame(m, k, p).kind = k
           /\ Frame(m, k, p).importing = None
BY DEF Frame, Frames

-----------------------------------------------------------------------------
(* What each way of changing the calls preserves.                          *)

Calls == frames \in Seq(Frames) /\ BodyAboveImport /\ LastOrStrayed

\* A call that is no body of an imported file begins.
LEMMA PushCalls ==
    ASSUME TypeOK, Calls, NEW g \in Frames,
           g.kind # "import", g.importing = None,
           frames' = Append(frames, g), last' = last
    PROVE  Calls'
<1>1. /\ frames' \in Seq(Frames)
      /\ Len(frames') = Len(frames) + 1
      /\ DOMAIN frames' = 1..Len(frames) + 1
      /\ DOMAIN frames = 1..Len(frames)
      /\ frames'[Len(frames) + 1] = g
      /\ \A i \in 1..Len(frames) : frames'[i] = frames[i]
      /\ Len(frames) \in Nat
  BY DEF TypeOK
<1>2. BodyAboveImport'
  BY <1>1 DEF Calls, BodyAboveImport
<1>3. LastOrStrayed'
  BY <1>1 DEF Calls, LastOrStrayed
<1> QED
  BY <1>1, <1>2, <1>3 DEF Calls

\* The innermost call, which waits for nothing, returns.
LEMMA ReturnCalls ==
    ASSUME TypeOK, Calls, Return
    PROVE  Calls'
<1> DEFINE n == Len(frames)
<1>1. /\ frames # <<>> /\ frames \in Seq(Frames)
      /\ frames[n].importing = None
      /\ frames' = SubSeq(frames, 1, n - 1)
      /\ last' = last
  BY DEF Return, Running, Top, Front, TypeOK
<1>1a. n \in Nat /\ n >= 1 /\ DOMAIN frames = 1..n
  BY <1>1
<1>2. /\ n \in Nat /\ n >= 1
      /\ frames' \in Seq(Frames)
      /\ Len(frames') = n - 1
      /\ DOMAIN frames' = 1..n-1
      /\ DOMAIN frames = 1..n
      /\ \A i \in 1..n-1 : frames'[i] = frames[i]
  <2>1. frames' = [i \in 1..n-1 |-> frames[i]]
    BY <1>1, <1>1a
  <2>2. \A i \in 1..n-1 : frames[i] \in Frames
    BY <1>1, <1>1a
  <2> QED
    BY <1>1a, <2>1, <2>2
<1>3. BodyAboveImport'
  BY <1>2 DEF Calls, BodyAboveImport
<1>4. LastOrStrayed'
  <2> SUFFICES ASSUME NEW i \in 1..n-1,
                      frames[i].importing # None, ~frames[i].strayed,
                      \A j \in i+1..n-1 : frames[j].importing = None
               PROVE  last = frames[i].importing
    BY <1>1, <1>2 DEF LastOrStrayed
  <2>1. \A j \in i+1..n : frames[j].importing = None
    BY <1>1, <1>2
  <2> QED
    BY <1>2, <2>1 DEF Calls, LastOrStrayed
<1> QED
  BY <1>2, <1>3, <1>4 DEF Calls

\* An error leaves imports that either named the module in last or have strayed.
LEMMA UnwindCalls ==
    ASSUME TypeOK, Calls, NEW m, Unwind(m), last' = m
    PROVE  Calls' /\ Len(frames') <= Len(frames)
<1>1. PICK c \in 0..Len(frames) : frames' = Stray(SubSeq(frames, 1, c - 1), m)
  BY DEF Unwind
<1> DEFINE fs == SubSeq(frames, 1, c - 1)
           n == IF c = 0 THEN 0 ELSE c - 1
<1>2. /\ Len(frames) \in Nat /\ n \in Nat /\ n <= Len(frames)
      /\ fs \in Seq(Frames) /\ Len(fs) = n /\ DOMAIN fs = 1..n
      /\ DOMAIN frames = 1..Len(frames)
      /\ \A i \in 1..n : fs[i] = frames[i]
  BY DEF TypeOK
<1> HIDE DEF fs, n
<1>3. /\ frames' \in Seq(Frames) /\ Len(frames') = n /\ DOMAIN frames' = 1..n
      /\ \A i \in 1..n :
            /\ frames'[i].module = frames[i].module
            /\ frames'[i].kind = frames[i].kind
            /\ frames'[i].importing = frames[i].importing
            /\ ~frames'[i].strayed => frames[i].importing \in {None, m}
  <2>1. frames' = Stray(fs, m)
    BY <1>1 DEF fs
  <2>2. \A i \in 1..n :
          /\ Stray(fs, m)[i].module = fs[i].module
          /\ Stray(fs, m)[i].kind = fs[i].kind
          /\ Stray(fs, m)[i].importing = fs[i].importing
          /\ ~Stray(fs, m)[i].strayed => fs[i].importing \in {None, m}
    BY <1>2, StrayOK
  <2>3. Stray(fs, m) \in Seq(Frames) /\ Len(Stray(fs, m)) = n /\ DOMAIN Stray(fs, m) = 1..n
    BY <1>2, StrayOK
  <2> QED
    BY <1>2, <2>1, <2>2, <2>3
<1>4. BodyAboveImport'
  BY <1>2, <1>3 DEF Calls, BodyAboveImport
<1>5. LastOrStrayed'
  BY <1>3 DEF LastOrStrayed
<1> QED
  BY <1>2, <1>3, <1>4, <1>5 DEF Calls

\* An import begins to wait for the module it has put in last.
LEMMA WaitCalls ==
    ASSUME TypeOK, Calls, frames # <<>>, NEW f \in Module,
           frames' = Waiting(f), last' = f
    PROVE  Calls'
<1> DEFINE n == Len(frames)
<1>1. /\ n \in Nat /\ n >= 1 /\ DOMAIN frames = 1..n
      /\ frames' \in Seq(Frames) /\ Len(frames') = n /\ DOMAIN frames' = 1..n
      /\ frames'[n].importing = f
      /\ \A i \in 1..n : frames'[i].module = frames[i].module /\ frames'[i].kind = frames[i].kind
      /\ \A i \in 1..n-1 : frames'[i] = frames[i]
  BY TopOK, WaitingOK DEF TypeOK
<1>2. BodyAboveImport'
  BY <1>1 DEF Calls, BodyAboveImport
<1>3. LastOrStrayed'
  BY <1>1, ConstantsOK DEF LastOrStrayed
<1> QED
  BY <1>1, <1>2, <1>3 DEF Calls

\* The same when the body of the file begins at once.
LEMMA WaitAndRunCalls ==
    ASSUME TypeOK, Calls, frames # <<>>, NEW f \in Module,
           NEW g \in Frames, g.module = f, g.kind = "import", g.importing = None,
           frames' = Append(Waiting(f), g), last' = f
    PROVE  Calls' /\ Len(frames') = Len(frames) + 1
<1> DEFINE n == Len(frames)
<1>1. /\ n \in Nat /\ n >= 1 /\ DOMAIN frames = 1..n
      /\ Waiting(f) \in Seq(Frames) /\ Len(Waiting(f)) = n
      /\ Waiting(f)[n].importing = f
      /\ \A i \in 1..n : Waiting(f)[i].module = frames[i].module /\ Waiting(f)[i].kind = frames[i].kind
      /\ \A i \in 1..n-1 : Waiting(f)[i] = frames[i]
  BY TopOK, WaitingOK DEF TypeOK
<1>2. /\ frames' \in Seq(Frames) /\ Len(frames') = n + 1 /\ DOMAIN frames' = 1..n+1
      /\ frames'[n + 1] = g
      /\ \A i \in 1..n : frames'[i] = Waiting(f)[i]
  BY <1>1
<1> HIDE DEF n
<1>3. BodyAboveImport'
  BY <1>1, <1>2 DEF Calls, BodyAboveImport
<1>4. LastOrStrayed'
  <2> SUFFICES ASSUME NEW i \in 1..n+1,
                      frames'[i].importing # None,
                      \A j \in i+1..n+1 : frames'[j].importing = None
               PROVE  f = frames'[i].importing
    BY <1>2 DEF LastOrStrayed
  <2>1. CASE i = n + 1
    BY <2>1, <1>2
  <2>2. CASE i = n
    BY <2>2, <1>1, <1>2
  <2>3. CASE i < n
    <3>1. frames'[n].importing = f
      BY <1>1, <1>2
    <3>2. n \in i+1..n+1
      BY <1>1, <2>3
    <3> QED
      BY <3>1, <3>2, ConstantsOK
  <2> QED
    BY <1>1, <2>1, <2>2, <2>3
<1> QED
  BY <1>2, <1>3, <1>4 DEF Calls, n

\* The last instruction of an import puts the importer's module back.  If the importer is
\* the body of a file, that is what the import below waits for.
LEMMA UseCalls ==
    ASSUME TypeOK, Calls, UseImport
    PROVE  Calls' /\ Len(frames') = Len(frames)
<1> DEFINE n == Len(frames)
           top == [frames[n] EXCEPT !.importing = None]
           done == [frames EXCEPT ![n] = top]
<1>1. /\ n \in Nat /\ n >= 1 /\ DOMAIN frames = 1..n
      /\ frames[n] \in Frames /\ frames \in Seq(Frames)
      /\ frames[n].importing # None
      /\ last' = frames[n].module
  BY TopOK DEF UseImport, ImportEnd, Top, TypeOK
<1>2. /\ top \in Frames /\ top.importing = None
      /\ top.module = frames[n].module /\ top.kind = frames[n].kind
  BY <1>1 DEF Frames
<1>3. frames' = IF frames[n].kind = "import" THEN done ELSE Stray(done, frames[n].module)
  BY <1>1 DEF UseImport, ImportEnd, Top, Frames
<1> HIDE DEF top, n
<1>4. /\ done \in Seq(Frames) /\ Len(done) = n /\ DOMAIN done = 1..n
      /\ done[n] = top
      /\ \A i \in 1..n-1 : done[i] = frames[i]
  <2>1. frames \in [1..n -> Frames]
    BY <1>1
  <2>2. done \in [1..n -> Frames]
    BY <1>1, <1>2, <2>1
  <2> QED
    BY <1>1, <1>2, <2>1, <2>2
<1> HIDE DEF done
<1>5. /\ frames' \in Seq(Frames) /\ Len(frames') = n /\ DOMAIN frames' = 1..n
      /\ frames'[n].importing = None
      /\ \A i \in 1..n :
            /\ frames'[i].module = frames[i].module
            /\ frames'[i].kind = frames[i].kind
            /\ i # n => frames'[i].importing = frames[i].importing
            /\ i # n /\ ~frames'[i].strayed =>
                  /\ ~frames[i].strayed
                  /\ frames[n].kind # "import" => frames[i].importing \in {None, last'}
  <2>1. CASE frames[n].kind = "import"
    <3>1. frames' = done
      BY <1>3, <2>1
    <3> QED
      BY <1>1, <1>2, <1>4, <2>1, <3>1
  <2>2. CASE frames[n].kind # "import"
    <3>1. frames' = Stray(done, last')
      BY <1>1, <1>3, <2>2
    <3>2. /\ frames' \in Seq(Frames) /\ Len(frames') = n /\ DOMAIN frames' = 1..n
          /\ \A i \in 1..n :
                /\ frames'[i].module = done[i].module
                /\ frames'[i].kind = done[i].kind
                /\ frames'[i].importing = done[i].importing
                /\ ~frames'[i].strayed => ~done[i].strayed /\ done[i].importing \in {None, last'}
      BY <1>4, <3>1, StrayOK
    <3>3. \A i \in 1..n : i # n => done[i] = frames[i]
      BY <1>1, <1>4
    <3>4. n \in 1..n
      BY <1>1
    <3> QED
      BY <1>2, <1>4, <3>2, <3>3, <3>4
  <2> QED
    BY <2>1, <2>2
<1>6. BodyAboveImport'
  BY <1>1, <1>5 DEF Calls, BodyAboveImport
<1>7. LastOrStrayed'
  <2> SUFFICES ASSUME NEW i \in 1..n,
                      frames'[i].importing # None, ~frames'[i].strayed,
                      \A j \in i+1..n : frames'[j].importing = None
               PROVE  last' = frames'[i].importing
    BY <1>5 DEF LastOrStrayed
  <2>1. i # n /\ frames[i].importing # None
    BY <1>5
  <2>2. CASE frames[n].kind # "import"
    BY <2>1, <2>2, <1>5
  <2>3. CASE frames[n].kind = "import"
    <3>1. n > 1 /\ frames[n-1].importing = frames[n].module
      BY <1>1, <2>3 DEF Calls, BodyAboveImport
    <3>2. frames'[n-1].importing # None
      <4>1. frames[n].module # None
        BY <1>1, ConstantsOK DEF Frames
      <4> QED
        BY <1>1, <1>5, <3>1, <4>1
    <3>3. i = n - 1
      BY <1>1, <2>1, <3>1, <3>2
    <3> QED
      BY <1>1, <1>5, <2>1, <3>1, <3>3
  <2> QED
    BY <2>2, <2>3
<1> QED
  BY <1>5, <1>6, <1>7 DEF Calls, n

-----------------------------------------------------------------------------
(* The invariant.                                                          *)

\* The invariant holds at first.
LEMMA InitImportInv == Init => ImportInv
<1> SUFFICES ASSUME Init PROVE ImportInv
  OBVIOUS
<1>1. TypeOK
  BY ConstantsOK DEF Init, TypeOK
<1> QED
  BY <1>1 DEF Init, ImportInv, RunOnlyCached, BodyRunsOnce, BodyAboveImport, LastOrStrayed

\* Steps that start no body of a file leave what is known of runs.
LEMMA RunsKept ==
    ASSUME ImportInv, cached \subseteq cached', runs' = runs
    PROVE  RunOnlyCached' /\ BodyRunsOnce'
BY DEF ImportInv, RunOnlyCached, BodyRunsOnce

\* The parts of ImportInv, as the lemmas above have them.
LEMMA Parts ==
    /\ ImportInv <=> TypeOK /\ RunOnlyCached /\ BodyRunsOnce /\ Calls
    /\ TypeOK' /\ RunOnlyCached' /\ BodyRunsOnce' /\ Calls' => ImportInv'
BY DEF ImportInv, Calls, TypeOK

\* Starting the script keeps the invariant.
LEMMA StartScriptInv == ASSUME ImportInv, StartScript PROVE ImportInv'
<1>1. TypeOK /\ Calls
  BY Parts
<1>2. CASE UNCHANGED <<frames, runs>>
  <2>1. TypeOK' /\ Calls'
    <3>1. /\ frames' = frames /\ last' = last /\ runs' = runs
          /\ UNCHANGED <<chunk, loaded, dead>> /\ cached' = cached \cup {Main}
      BY <1>2 DEF StartScript
    <3>2. Calls'
      BY <1>1, <3>1 DEF Calls, BodyAboveImport, LastOrStrayed
    <3>3. TypeOK'
      BY <1>1, <3>1, ConstantsOK DEF TypeOK, Module
    <3> QED
      BY <3>2, <3>3
  <2> QED
    BY <1>2, <2>1, RunsKept, Parts DEF StartScript
<1>3. CASE frames' = <<Frame(Main, "script", FALSE)>> /\ runs' = [runs EXCEPT ![Main] = @ + 1]
  <2>1. PICK g \in Frames : /\ g.kind = "script" /\ g.importing = None
                            /\ frames' = <<g>>
    <3>1. Main \in Module /\ "script" \in Kinds /\ FALSE \in BOOLEAN
      BY DEF Module, Kinds
    <3> QED
      BY <1>3, <3>1, FrameOK, Zenon
  <2>2. frames' = Append(frames, g) /\ last' = last /\ cached' = cached \cup {Main}
    BY <2>1 DEF StartScript
  <2>3. Calls'
    BY <1>1, <2>1, <2>2, PushCalls
  <2>4. TypeOK'
    <3>1. runs' \in [{Main} \cup Path -> Nat]
      BY <1>1, <1>3 DEF TypeOK
    <3>2. frames' \in Seq(Frames) /\ Len(frames') <= MaxFrames
      BY <2>1, <2>3, ConstantsOK DEF Calls
    <3> QED
      BY <1>1, <2>2, <3>1, <3>2, ConstantsOK DEF StartScript, TypeOK, Module
  <2>5. RunOnlyCached' /\ BodyRunsOnce'
    BY <1>1, <1>3, <2>2, ConstantsOK DEF ImportInv, RunOnlyCached, BodyRunsOnce, TypeOK
  <2> QED
    BY <2>3, <2>4, <2>5, Parts
<1> QED
  BY <1>2, <1>3 DEF StartScript

\* A call keeps the invariant.
LEMMA CallInv ==
    ASSUME ImportInv,
           (\E c \in Chunk : LoadString(c)) \/ (\E m \in Module, p \in BOOLEAN : Call(m, p))
    PROVE  ImportInv'
<1>1. TypeOK /\ Calls
  BY Parts
<1>2. PICK g \in Frames : g.kind # "import" /\ g.importing = None /\ frames' = Append(frames, g)
  <2>1. ASSUME NEW c \in Chunk, LoadString(c)
        PROVE  \E g \in Frames : g.kind # "import" /\ g.importing = None /\ frames' = Append(frames, g)
    <3>1. /\ c \in Module /\ "chunk" \in Kinds /\ "chunk" # "import" /\ FALSE \in BOOLEAN
          /\ frames' = Append(frames, Frame(c, "chunk", FALSE))
      BY <2>1 DEF LoadString, Module, Kinds
    <3> QED
      BY <3>1, FrameOK, Zenon
  <2>2. ASSUME NEW m \in Module, NEW p \in BOOLEAN, Call(m, p)
        PROVE  \E g \in Frames : g.kind # "import" /\ g.importing = None /\ frames' = Append(frames, g)
    BY <2>2, FrameOK DEF Call, Kinds
  <2> QED
    BY <2>1, <2>2
<1>3. /\ last' = last /\ cached' = cached /\ runs' = runs
      /\ Len(frames) < MaxFrames
      /\ loaded' \subseteq Chunk /\ loaded \subseteq loaded' /\ dead' = dead
      /\ chunk' \in loaded' \cup {None}
  BY <1>1 DEF LoadString, Call, TypeOK
<1>4. Calls'
  BY <1>1, <1>2, <1>3, PushCalls
<1>5. TypeOK'
  BY <1>1, <1>2, <1>3, <1>4, ConstantsOK DEF TypeOK, Calls
<1> QED
  BY <1>3, <1>4, <1>5, RunsKept, Parts

\* Leaving a function, in each way, keeps the invariant.
LEMMA LeaveInv == ASSUME ImportInv, Return \/ Fail \/ NotExported PROVE ImportInv'
<1>1. TypeOK /\ Calls
  BY Parts
<1>2. UNCHANGED <<cached, chunk, loaded, dead, last, runs>>
  BY DEF Return, Fail, NotExported
<1>3. Calls' /\ Len(frames') <= Len(frames)
  <2>1. CASE Return
    <3>1. Len(frames') <= Len(frames)
      BY <2>1, <1>1 DEF Return, Running, Front, TypeOK
    <3> QED
      BY <1>1, <2>1, <3>1, ReturnCalls
  <2>2. CASE Fail \/ NotExported
    BY <1>1, <1>2, <2>2, UnwindCalls DEF Fail, NotExported
  <2> QED
    BY <2>1, <2>2
<1>4. TypeOK'
  BY <1>1, <1>2, <1>3, ConstantsOK DEF TypeOK, Calls
<1> QED
  BY <1>2, <1>3, <1>4, RunsKept, Parts

\* An import of a module that is there keeps the invariant.
LEMMA ImportFoundInv ==
    ASSUME ImportInv,
           (\E f \in Path \cup Library : ImportCached(f)) \/ (\E n \in DOMAIN Resolve : ImportBuiltin(n))
    PROVE  ImportInv'
<1>1. TypeOK /\ Calls
  BY Parts
<1>2. PICK f \in Path \cup Library :
        /\ frames # <<>> /\ frames' = Waiting(f) /\ last' = f
        /\ cached \subseteq cached' /\ cached' \subseteq cached \cup {f}
        /\ UNCHANGED <<chunk, loaded, dead, runs>>
  <2>1. ASSUME NEW f \in Path \cup Library, ImportCached(f)
        PROVE  /\ frames # <<>> /\ frames' = Waiting(f) /\ last' = f
               /\ cached' = cached
               /\ UNCHANGED <<chunk, loaded, dead, runs>>
    BY <2>1 DEF ImportCached, MayImport, Running
  <2>2. ASSUME NEW n \in DOMAIN Resolve, ImportBuiltin(n)
        PROVE  /\ Resolve[n] \in Library
               /\ frames # <<>> /\ frames' = Waiting(Resolve[n]) /\ last' = Resolve[n]
               /\ cached' = cached \cup {Resolve[n]}
               /\ UNCHANGED <<chunk, loaded, dead, runs>>
    BY <2>2 DEF ImportBuiltin, Running, Library
  <2> QED
    BY <2>1, <2>2
<1>3. f \in Module
  BY DEF Module
<1>4. Calls'
  BY <1>1, <1>2, <1>3, WaitCalls
<1>5. Len(frames') = Len(frames)
  BY <1>1, <1>2, <1>3, WaitingOK
<1>6. TypeOK'
  BY <1>1, <1>2, <1>3, <1>4, <1>5, ConstantsOK DEF TypeOK, Calls
<1> QED
  BY <1>2, <1>4, <1>6, RunsKept, Parts

\* An import that loads a file keeps the invariant.
LEMMA ImportFileInv == ASSUME ImportInv, NEW f \in Path, ImportFile(f) PROVE ImportInv'
<1>1. TypeOK /\ Calls
  BY Parts
<1>2. /\ frames # <<>> /\ Len(frames) < MaxFrames /\ f \notin cached
      /\ cached' = cached \cup {f} /\ last' = f /\ runs' = [runs EXCEPT ![f] = @ + 1]
      /\ UNCHANGED <<chunk, loaded, dead>>
  BY DEF ImportFile, MayImport, Running
<1>3. f \in Module /\ "import" \in Kinds /\ FALSE \in BOOLEAN
  BY DEF Module, Kinds
<1>4. PICK g \in Frames : /\ g.module = f /\ g.kind = "import" /\ g.importing = None
                          /\ frames' = Append(Waiting(f), g)
  <2>1. frames' = Append(Waiting(f), Frame(f, "import", FALSE))
    BY DEF ImportFile
  <2> QED
    BY <1>3, <2>1, FrameOK, Zenon
<1>5. Calls' /\ Len(frames') = Len(frames) + 1
  BY <1>1, <1>2, <1>3, <1>4, WaitAndRunCalls
<1>6. TypeOK'
  <2>1. runs' \in [{Main} \cup Path -> Nat]
    BY <1>1, <1>2 DEF TypeOK
  <2> QED
    BY <1>1, <1>2, <1>3, <1>5, <2>1, ConstantsOK DEF TypeOK, Calls
<1>7. RunOnlyCached' /\ BodyRunsOnce'
  BY <1>1, <1>2 DEF ImportInv, RunOnlyCached, BodyRunsOnce, TypeOK
<1> QED
  BY <1>5, <1>6, <1>7, Parts

\* An import whose file does not compile keeps the invariant.
LEMMA ImportBrokenInv == ASSUME ImportInv, NEW f \in Path, ImportBroken(f) PROVE ImportInv'
<1>1. TypeOK /\ Calls /\ f \in Module
  BY Parts DEF Module
<1>2. /\ cached' = cached \cup {f} /\ last' = f /\ runs' = runs
      /\ UNCHANGED <<chunk, loaded, dead>> /\ Unwind(f)
  BY DEF ImportBroken
<1>3. Calls' /\ Len(frames') <= Len(frames)
  BY <1>1, <1>2, UnwindCalls
<1>4. TypeOK'
  BY <1>1, <1>2, <1>3, ConstantsOK DEF TypeOK, Calls
<1> QED
  BY <1>2, <1>3, <1>4, RunsKept, Parts

\* Using the imported module keeps the invariant.
LEMMA UseImportInv == ASSUME ImportInv, UseImport PROVE ImportInv'
<1>1. TypeOK /\ Calls
  BY Parts
<1>2. /\ last' \in Module
      /\ UNCHANGED <<cached, chunk, loaded, dead, runs>>
  BY <1>1, TopOK DEF UseImport, ImportEnd, Frames
<1>3. Calls' /\ Len(frames') = Len(frames)
  BY <1>1, UseCalls
<1>4. TypeOK'
  BY <1>1, <1>2, <1>3, ConstantsOK DEF TypeOK, Calls
<1> QED
  BY <1>2, <1>3, <1>4, RunsKept, Parts

\* Collecting a chunk and stuttering keep the invariant.
LEMMA RestInv ==
    ASSUME ImportInv, (\E c \in Chunk : Collect(c)) \/ UNCHANGED vars
    PROVE  ImportInv'
<1>1. TypeOK /\ Calls
  BY Parts
<1>2. /\ UNCHANGED <<cached, chunk, loaded, last, frames, runs>>
      /\ dead' \subseteq loaded
  BY <1>1 DEF Collect, TypeOK, vars
<1>3. TypeOK' /\ Calls'
  BY <1>1, <1>2 DEF TypeOK, Calls, BodyAboveImport, LastOrStrayed
<1> QED
  BY <1>2, <1>3, RunsKept, Parts

\* Every step keeps the invariant.
LEMMA NextImportInv == ASSUME ImportInv, [Next]_vars PROVE ImportInv'
BY StartScriptInv, CallInv, LeaveInv, ImportFoundInv, ImportFileInv, ImportBrokenInv,
   UseImportInv, RestInv DEF Next

\* The invariant holds always.
LEMMA SpecImportInv == Spec => []ImportInv
<1>1. ImportInv /\ [Next]_vars => ImportInv'
  BY NextImportInv
<1> QED
  BY <1>1, InitImportInv, PTL DEF Spec

-----------------------------------------------------------------------------
(* Theorems                                                                *)

\* The state is well formed: T->last_module is a module the program knows, and at most
\* MaxFrames calls run.
THEOREM TypeCorrect == Spec => []TypeOK
<1>1. ImportInv => TypeOK
  BY DEF ImportInv
<1> QED
  BY <1>1, SpecImportInv, PTL

\* However files import each other and whichever fail, none runs twice: tea_module_new
\* enters a module before its body runs and nothing takes it out.
THEOREM FilesRunOnce == Spec => []BodyRunsOnce
<1>1. ImportInv => BodyRunsOnce
  BY DEF ImportInv
<1> QED
  BY <1>1, SpecImportInv, PTL

\* For any number of files and any nesting of bodies, calls and errors, the instructions
\* that read T->last_module find the module their statement named, unless it strayed.
THEOREM ImportsBindWhatTheyName == Spec => []ImportGetsNamed
<1>1. ASSUME ImportInv PROVE ImportGetsNamed
  <2> SUFFICES ASSUME NEW f \in Module, frames # <<>>, Top.importing = f, ~Top.strayed
               PROVE  last = f
    BY DEF ImportGetsNamed
  <2>1. Len(frames) \in DOMAIN frames /\ Len(frames) \in Nat
    BY <1>1, TopOK DEF ImportInv, TypeOK
  <2> QED
    BY <1>1, <2>1, ConstantsOK DEF ImportInv, LastOrStrayed, Top
<1> QED
  BY <1>1, SpecImportInv, PTL

-----------------------------------------------------------------------------
(* Strings *)

\* The strings of a table, and its chains when it has m of them.
LiveOf(t) == {s \in Str : t.chars[s] # Null}
Chains(m) == [0..m-1 -> SUBSET Str]
AnyChains == UNION {Chains(m) : m \in Nat}

\* A table as a record.
Tables == [chars : [Str -> Content \cup {Null}], chain : AnyChains, size : Nat \ {0}, num : Nat]

\* Every string is in the chain of its hash value and in no other, and is counted.
Consistent(t) ==
    /\ t \in Tables
    /\ t.chain \in Chains(t.size)
    /\ \A i \in 0..t.size-1 : t.chain[i] = {s \in LiveOf(t) : Hash[t.chars[s]] % t.size = i}
    /\ t.num = Cardinality(LiveOf(t))

\* No two strings of a table have the same contents.
Distinct(t) == \A r, s \in LiveOf(t) : t.chars[r] = t.chars[s] => r = s

-----------------------------------------------------------------------------
(* What each operation does to a table                                     *)

\* A hash value selects a chain of a table of any size.
LEMMA HashInRange ==
    ASSUME NEW c \in Content, NEW m \in Nat \ {0}
    PROVE  Hash[c] % m \in 0..m-1
<1>1. Hash[c] \in Nat
  BY StrConstantsOK
<1> QED
  BY <1>1

\* The strings of a consistent table are those in its chains.
LEMMA LinkedIsLive ==
    ASSUME NEW t, Consistent(t)
    PROVE  Linked(t) = LiveOf(t)
<1>1. Linked(t) \subseteq LiveOf(t)
  BY DEF Linked, Consistent
<1>2. ASSUME NEW s \in LiveOf(t) PROVE s \in Linked(t)
  <2>1. t.size \in Nat \ {0} /\ t.chars[s] \in Content
    BY <1>2 DEF Consistent, Tables, LiveOf
  <2> DEFINE i == Hash[t.chars[s]] % t.size
  <2>2. i \in 0..t.size-1
    BY <2>1, HashInRange
  <2>3. s \in t.chain[i]
    BY <2>2 DEF Consistent
  <2> QED
    BY <2>2, <2>3 DEF Linked
<1> QED
  BY <1>1, <1>2

\* tea_str_resize keeps the table consistent, for any new size.
LEMMA ResizedConsistent ==
    ASSUME NEW t, Consistent(t), NEW m \in Nat \ {0}
    PROVE  /\ Consistent(Resized(t, m))
           /\ Resized(t, m).chars = t.chars
           /\ Resized(t, m).size = m
<1> DEFINE u == Resized(t, m)
           ch == [i \in 0..m-1 |-> {s \in Linked(t) : Hash[t.chars[s]] % m = i}]
<1>1. t \in Tables /\ t.num = Cardinality(LiveOf(t)) /\ Linked(t) = LiveOf(t)
  BY LinkedIsLive DEF Consistent
<1>2. ch \in Chains(m) /\ ch \in AnyChains
  BY <1>1 DEF Chains, AnyChains, LiveOf
<1>3. \A i \in 0..m-1 : ch[i] = {s \in LiveOf(t) : Hash[t.chars[s]] % m = i}
  BY <1>1
<1>4. u = [t EXCEPT !.size = m, !.chain = ch]
  BY DEF Resized
<1> HIDE DEF u, ch
<1>5. u \in Tables
  BY <1>1, <1>2, <1>4 DEF Tables
<1>6. u.chars = t.chars /\ u.chain = ch /\ u.size = m /\ u.num = t.num
  BY <1>1, <1>4 DEF Tables
<1>7. LiveOf(u) = LiveOf(t)
  BY <1>6 DEF LiveOf
<1>8. Consistent(u)
  BY <1>1, <1>2, <1>3, <1>5, <1>6, <1>7 DEF Consistent
<1> QED
  BY <1>6, <1>8 DEF u

\* str_alloc links a new string and counts it.
LEMMA AddedConsistent ==
    ASSUME NEW t, Consistent(t), NEW c \in Content, NEW s \in Str, t.chars[s] = Null
    PROVE  /\ Consistent(Added(t, c, s))
           /\ LiveOf(Added(t, c, s)) = LiveOf(t) \cup {s}
           /\ Added(t, c, s).chars = [t.chars EXCEPT ![s] = c]
           /\ Added(t, c, s).size = t.size
           /\ Added(t, c, s).num = t.num + 1
<1> DEFINE u == Added(t, c, s)
           h == Hash[c] % t.size
           ch == [t.chain EXCEPT ![h] = @ \cup {s}]
<1>1. /\ t \in Tables
      /\ t.chars \in [Str -> Content \cup {Null}]
      /\ t.chain \in Chains(t.size)
      /\ h \in 0..t.size-1
      /\ t.num = Cardinality(LiveOf(t))
      /\ t.size \in Nat
  BY HashInRange DEF Consistent, Tables
<1>2. c # Null
  BY StrConstantsOK
<1>3. ch \in Chains(t.size)
  BY <1>1 DEF Chains
<1>4. ch \in AnyChains
  BY <1>1, <1>3 DEF AnyChains
<1>5. /\ u.chars = [t.chars EXCEPT ![s] = c]
      /\ u.chain = ch
      /\ u.size = t.size
      /\ u.num = t.num + 1
  BY <1>1 DEF Added, Tables
<1>6. u \in Tables
  <2>1. u = [t EXCEPT !.chars = [t.chars EXCEPT ![s] = c], !.chain = ch, !.num = t.num + 1]
    BY <1>1 DEF Added, Tables
  <2>2. [t.chars EXCEPT ![s] = c] \in [Str -> Content \cup {Null}] /\ t.num + 1 \in Nat
    BY <1>1 DEF Tables
  <2> HIDE DEF u, ch
  <2> QED
    BY <1>1, <1>4, <2>1, <2>2 DEF Tables
<1>7. LiveOf(u) = LiveOf(t) \cup {s} /\ s \notin LiveOf(t)
  BY <1>1, <1>2, <1>5 DEF LiveOf
<1>8. ASSUME NEW i \in 0..u.size-1
      PROVE  u.chain[i] = {r \in LiveOf(u) : Hash[u.chars[r]] % u.size = i}
  <2>1. t.chain[i] = {r \in LiveOf(t) : Hash[t.chars[r]] % t.size = i}
    BY <1>5 DEF Consistent
  <2>2. \A r \in LiveOf(t) : u.chars[r] = t.chars[r]
    BY <1>1, <1>5, <1>7 DEF LiveOf
  <2>3. u.chars[s] = c
    BY <1>1, <1>5
  <2>4. u.chain[i] = IF i = h THEN t.chain[i] \cup {s} ELSE t.chain[i]
    BY <1>1, <1>5 DEF Chains
  <2> QED
    BY <1>5, <1>7, <2>1, <2>2, <2>3, <2>4
<1>9. u.num = Cardinality(LiveOf(u))
  <2>1. IsFiniteSet(LiveOf(t))
    BY StrConstantsOK, FS_Subset DEF LiveOf
  <2> QED
    BY <1>1, <1>5, <1>7, <2>1, FS_AddElement
<1>10. Consistent(u)
  BY <1>3, <1>5, <1>6, <1>8, <1>9 DEF Consistent
<1> QED
  BY <1>5, <1>7, <1>10

\* gc_sweep frees the strings that are not kept, and those only; the table may shrink.
LEMMA SweptConsistent ==
    ASSUME NEW t, Consistent(t), NEW keep
    PROVE  /\ Consistent(SweptOf(t, keep))
           /\ LiveOf(SweptOf(t, keep)) = LiveOf(t) \cap keep
           /\ \A s \in LiveOf(t) \cap keep : SweptOf(t, keep).chars[s] = t.chars[s]
<1> DEFINE gone == Linked(t) \ keep
           u == [t EXCEPT !.chars = [s \in Str |-> IF s \in gone THEN Null ELSE t.chars[s]],
                          !.chain = [i \in 0..t.size-1 |-> t.chain[i] \ gone],
                          !.num = @ - Cardinality(gone)]
<1>1. t \in Tables /\ Linked(t) = LiveOf(t) /\ t.chain \in Chains(t.size)
  BY LinkedIsLive DEF Consistent
<1>2. /\ u.chars = [s \in Str |-> IF s \in gone THEN Null ELSE t.chars[s]]
      /\ u.chain = [i \in 0..t.size-1 |-> t.chain[i] \ gone]
      /\ u.size = t.size
      /\ u.num = t.num - Cardinality(gone)
  BY <1>1 DEF Tables
<1> HIDE DEF u
<1>3. LiveOf(u) = LiveOf(t) \cap keep /\ LiveOf(u) = LiveOf(t) \ gone
  BY <1>1, <1>2 DEF LiveOf
<1>4. \A s \in LiveOf(u) : u.chars[s] = t.chars[s]
  BY <1>1, <1>2, <1>3 DEF LiveOf
<1>5. Consistent(u)
  <2>1. u.num = Cardinality(LiveOf(u)) /\ u.num \in Nat
    <3>1. IsFiniteSet(LiveOf(t)) /\ gone \subseteq LiveOf(t)
      BY <1>1, StrConstantsOK, FS_Subset DEF LiveOf
    <3>2. IsFiniteSet(gone) /\ Cardinality(LiveOf(t) \cap gone) = Cardinality(gone)
      <4>1. LiveOf(t) \cap gone = gone
        BY <3>1
      <4> QED
        BY <3>1, <4>1, FS_Subset
    <3>3. Cardinality(LiveOf(t) \ gone) = Cardinality(LiveOf(t)) - Cardinality(gone)
      BY <3>1, <3>2, FS_Difference
    <3>4. IsFiniteSet(LiveOf(u)) /\ Cardinality(LiveOf(u)) \in Nat
      BY <1>3, <3>1, FS_Subset, FS_CardinalityType
    <3> QED
      BY <1>2, <1>3, <3>3, <3>4 DEF Consistent
  <2>2. u.chain \in Chains(u.size)
    BY <1>1, <1>2 DEF Chains
  <2>3. u \in Tables
    <3>1. u.chars \in [Str -> Content \cup {Null}] /\ u.size \in Nat
      BY <1>1, <1>2 DEF Tables
    <3>2. u.chain \in AnyChains
      BY <2>2, <3>1 DEF AnyChains
    <3>3. u = [t EXCEPT !.chars = u.chars, !.chain = u.chain, !.num = u.num]
      BY <1>1, <1>2 DEF u
    <3> QED
      BY <1>1, <2>1, <3>1, <3>2, <3>3 DEF Tables
  <2>4. ASSUME NEW i \in 0..u.size-1
        PROVE  u.chain[i] = {r \in LiveOf(u) : Hash[u.chars[r]] % u.size = i}
    <3>1. t.chain[i] = {r \in LiveOf(t) : Hash[t.chars[r]] % t.size = i}
      BY <1>2 DEF Consistent
    <3>2. u.chain[i] = t.chain[i] \ gone
      BY <1>2
    <3> QED
      BY <1>2, <1>3, <1>4, <3>1, <3>2
  <2> QED
    BY <2>1, <2>2, <2>3, <2>4 DEF Consistent
<1>6. CASE u.num < u.size \div 4 /\ u.size > MinSize * 2
  <2>1. SweptOf(t, keep) = Resized(u, u.size \div 2)
    BY <1>6 DEF SweptOf, u
  <2>2. u.size \div 2 \in Nat \ {0}
    <3>1. u.size \in Nat /\ u.size > 2
      BY <1>5, <1>6, StrConstantsOK DEF Consistent, Tables
    <3> QED
      BY <3>1
  <2>3. Consistent(Resized(u, u.size \div 2)) /\ Resized(u, u.size \div 2).chars = u.chars
    BY <1>5, <2>2, ResizedConsistent
  <2> QED
    BY <1>3, <1>4, <2>1, <2>3 DEF LiveOf
<1>7. CASE ~(u.num < u.size \div 4 /\ u.size > MinSize * 2)
  <2>1. SweptOf(t, keep) = u
    BY <1>7 DEF SweptOf, u
  <2> QED
    BY <1>3, <1>4, <1>5, <2>1
<1> QED
  BY <1>6, <1>7

\* The search of tea_str_new finds every string with the contents looked for.
LEMMA SearchFindsAll ==
    ASSUME NEW t, Consistent(t), NEW c \in Content
    PROVE  Matches(t, c) = {s \in LiveOf(t) : t.chars[s] = c}
<1>1. t.size \in Nat \ {0} /\ Hash[c] % t.size \in 0..t.size-1
  BY HashInRange DEF Consistent, Tables
<1>2. t.chain[Hash[c] % t.size] = {s \in LiveOf(t) : Hash[t.chars[s]] % t.size = Hash[c] % t.size}
  BY <1>1 DEF Consistent
<1> QED
  BY <1>2 DEF Matches

\* The growth of the table after a string was added.
LEMMA EnlargedConsistent ==
    ASSUME NEW t, Consistent(t)
    PROVE  Consistent(Enlarged(t)) /\ Enlarged(t).chars = t.chars
<1>1. t.size \in Nat \ {0} /\ 2 * t.size \in Nat \ {0}
  BY DEF Consistent, Tables
<1> QED
  BY <1>1, ResizedConsistent DEF Enlarged

\* A collection keeps what is held, with its contents, and no two strings become equal;
\* where gc methods intern nothing it adds no string.
LEMMA CollectedConsistent ==
    ASSUME NEW t, Consistent(t), NEW u \in Collected(t)
    PROVE  /\ Consistent(u)
           /\ LiveOf(t) \cap held \subseteq LiveOf(u)
           /\ \A s \in LiveOf(t) \cap held : u.chars[s] = t.chars[s]
           /\ Distinct(t) => Distinct(u)
           /\ GcMethods = FALSE =>
                /\ LiveOf(u) \subseteq LiveOf(t)
                /\ \A s \in LiveOf(u) : u.chars[s] = t.chars[s]
<1> DEFINE v == SweptOf(t, held)
<1>1. /\ Consistent(v)
      /\ LiveOf(v) = LiveOf(t) \cap held
      /\ \A s \in LiveOf(v) : v.chars[s] = t.chars[s]
  BY SweptConsistent
<1>2. Distinct(t) => Distinct(v)
  BY <1>1 DEF Distinct
<1>3. CASE u = v
  BY <1>1, <1>2, <1>3
<1>4. CASE u # v
  <2>1. PICK c \in Content, s \in Str :
            /\ GcMethods
            /\ Matches(v, c) = {}
            /\ v.chars[s] = Null
            /\ u = Enlarged(Added(v, c, s))
    BY <1>4 DEF Collected
  <2> HIDE DEF v
  <2> DEFINE w == Added(v, c, s)
  <2>2. /\ Consistent(w)
        /\ LiveOf(w) = LiveOf(v) \cup {s}
        /\ w.chars = [v.chars EXCEPT ![s] = c]
    BY <1>1, <2>1, AddedConsistent
  <2>3. Consistent(u) /\ u.chars = w.chars
    BY <2>1, <2>2, EnlargedConsistent
  <2>4. LiveOf(u) = LiveOf(v) \cup {s} /\ s \notin LiveOf(v) /\ v.chars \in [Str -> Content \cup {Null}]
    BY <1>1, <2>1, <2>2, <2>3 DEF LiveOf, Consistent, Tables
  <2>5. u.chars[s] = c /\ \A r \in LiveOf(v) : u.chars[r] = v.chars[r]
    BY <2>2, <2>3, <2>4 DEF LiveOf
  <2>6. \A r \in LiveOf(v) : v.chars[r] # c
    BY <1>1, <2>1, SearchFindsAll
  <2>7. Distinct(t) => Distinct(u)
    BY <1>2, <2>4, <2>5, <2>6 DEF Distinct
  <2>8. GcMethods # FALSE
    BY <2>1
  <2> QED
    BY <1>1, <2>3, <2>4, <2>5, <2>7, <2>8
<1> QED
  BY <1>3, <1>4

\* str_alloc: whatever happens while the table grows it stays consistent and keeps what
\* was held; it keeps the new string too unless it grows and this starts a collection.
LEMMA GrownConsistent ==
    ASSUME NEW t, Consistent(t), NEW g \in GrownTabs(t)
    PROVE  /\ Consistent(g)
           /\ Distinct(t) => Distinct(g)
           /\ \A s \in LiveOf(t) \cap held : s \in LiveOf(g) /\ g.chars[s] = t.chars[s]
           /\ g.chars = t.chars \/ (GrowCollects /\ t.num > t.size)
<1>1. t.size \in Nat \ {0} /\ 2 * t.size \in Nat \ {0} /\ t.num \in Int
  BY FS_CardinalityType DEF Consistent, Tables
<1>2. CASE t.num <= t.size
  BY <1>2 DEF GrownTabs
<1>3. CASE ~(t.num <= t.size)
  <2>1. PICK u \in {t} \cup (IF GrowCollects THEN Collected(t) ELSE {}) : g = Resized(u, 2 * t.size)
    BY <1>3 DEF GrownTabs
  <2>2. /\ Consistent(u)
        /\ Distinct(t) => Distinct(u)
        /\ \A s \in LiveOf(t) \cap held : s \in LiveOf(u) /\ u.chars[s] = t.chars[s]
        /\ u = t \/ GrowCollects
    BY <2>1, CollectedConsistent
  <2>3. Consistent(g) /\ g.chars = u.chars
    BY <1>1, <2>1, <2>2, ResizedConsistent
  <2>4. LiveOf(g) = LiveOf(u)
    BY <2>3 DEF LiveOf
  <2>5. t.num > t.size
    BY <1>1, <1>3
  <2> QED
    BY <2>2, <2>3, <2>4, <2>5 DEF Distinct
<1> QED
  BY <1>2, <1>3

-----------------------------------------------------------------------------
(* Every step                                                              *)

\* The table of the program.
TabInd == Consistent(Tab) /\ held \subseteq Str /\ result \in Str \cup {Null}

\* The table as a record.
LEMMA TabFields ==
    /\ Tab.chars = chars /\ Tab.chain = chain /\ Tab.size = size /\ Tab.num = num
    /\ LiveOf(Tab) = Live
BY DEF Tab, LiveOf, Live

\* The table is sound at first.
LEMMA InitTab == StrInit => TabInd /\ Live = {}
<1> SUFFICES ASSUME StrInit PROVE TabInd /\ Live = {}
  OBVIOUS
<1>1. Live = {}
  BY DEF StrInit, Live
<1>2. size \in Nat \ {0} /\ chain \in Chains(size) /\ num = 0
  BY StrConstantsOK DEF StrInit, Chains
<1>3. chain \in AnyChains
  BY <1>2 DEF AnyChains
<1>4. Tab \in Tables
  BY <1>2, <1>3 DEF StrInit, Tab, Tables
<1>5. Cardinality({}) = 0
  BY FS_EmptySet
<1>6. \A i \in 0..size-1 : chain[i] = {s \in Live : Hash[chars[s]] % size = i}
  BY <1>1 DEF StrInit
<1>7. Consistent(Tab)
  BY <1>1, <1>2, <1>4, <1>5, <1>6, TabFields DEF Consistent
<1> QED
  BY <1>1, <1>7 DEF StrInit, TabInd

\* The table after a step is the record the step was computed with.
LEMMA TabBecomes ==
    ASSUME NEW t, Consistent(t), Becomes(t)
    PROVE  Consistent(Tab') /\ Live' = LiveOf(t) /\ chars' = t.chars
<1>1. /\ Tab'.chars = t.chars /\ Tab'.chain = t.chain /\ Tab'.size = t.size /\ Tab'.num = t.num
      /\ Tab' \in Tables
  BY DEF Becomes, Tab, Consistent, Tables
<1>2. LiveOf(Tab') = LiveOf(t) /\ Live' = LiveOf(t)
  BY <1>1 DEF LiveOf, Live, Tab
<1> QED
  BY <1>1, <1>2 DEF Consistent, Becomes

\* The next string made may find the table full, after the collection its memory needs
\* if it needs one.
Full == \E t \in {Tab} \cup Collected(Tab) : t.num >= t.size

\* tea_str_new loses and changes no string that was held. The string it returns is live
\* and has the contents asked for, unless the table was full and the allocation of a
\* larger one may collect; where gc methods intern nothing it is the only one with its
\* contents.
LEMMA NewStep ==
    ASSUME TabInd, NEW c \in Content, New(c)
    PROVE  /\ TabInd'
           /\ result' \in Str /\ held' = held \cup {result'}
           /\ \A s \in held \cap Live : s \in Live' /\ chars'[s] = chars[s]
           /\ \/ result' \in Live' /\ chars'[result'] = c
              \/ GrowCollects /\ Full
           /\ GcMethods = FALSE /\ Interned => Interned'
<1>1. Consistent(Tab) /\ held \subseteq Str
  BY DEF TabInd
<1>2. held' = held \cup {result'}
  BY DEF New
<1>3. CASE Matches(Tab, c) # {}
  <2>1. /\ result' \in Matches(Tab, c)
        /\ UNCHANGED table
    BY <1>3 DEF New
  <2>2. Matches(Tab, c) = {s \in Live : chars[s] = c}
    BY <1>1, SearchFindsAll, TabFields
  <2>3. UNCHANGED <<Tab, Live, chars>>
    BY <2>1 DEF table, Tab, Live
  <2>4. result' \in Live /\ chars[result'] = c /\ Live \subseteq Str
    BY <2>1, <2>2 DEF Live
  <2>5. TabInd'
    <3>1. Consistent(Tab')
      BY <1>1, <2>3
    <3> QED
      BY <1>1, <1>2, <2>4, <3>1 DEF TabInd
  <2> QED
    BY <1>2, <2>3, <2>4, <2>5 DEF Interned
<1>4. CASE Matches(Tab, c) = {}
  <2>0. PICK t \in {Tab} \cup Collected(Tab), s \in Str :
            /\ t.chars[s] = Null
            /\ \E g \in GrownTabs(Added(t, c, s)) : Becomes(g) /\ result' = s
    BY <1>4 DEF New
  <2>1. PICK g \in GrownTabs(Added(t, c, s)) : Becomes(g) /\ result' = s
    BY <2>0
  <2>2. /\ Consistent(t)
        /\ LiveOf(Tab) \cap held \subseteq LiveOf(t)
        /\ \A r \in LiveOf(Tab) \cap held : t.chars[r] = Tab.chars[r]
        /\ Distinct(Tab) => Distinct(t)
        /\ GcMethods = FALSE =>
             /\ LiveOf(t) \subseteq LiveOf(Tab)
             /\ \A r \in LiveOf(t) : t.chars[r] = Tab.chars[r]
    <3>1. CASE t = Tab
      BY <1>1, <3>1
    <3>2. CASE t \in Collected(Tab)
      BY <1>1, <3>2, CollectedConsistent
    <3> QED
      BY <2>0, <3>1, <3>2
  <2> DEFINE w == Added(t, c, s)
  <2>3. /\ Consistent(w)
        /\ LiveOf(w) = LiveOf(t) \cup {s}
        /\ w.chars = [t.chars EXCEPT ![s] = c]
        /\ t.chars \in [Str -> Content \cup {Null}]
    BY <2>0, <2>2, AddedConsistent DEF Consistent, Tables
  <2> HIDE DEF w
  <2>4. /\ Consistent(g)
        /\ Distinct(w) => Distinct(g)
        /\ \A r \in LiveOf(w) \cap held : r \in LiveOf(g) /\ g.chars[r] = w.chars[r]
        /\ g.chars = w.chars \/ (GrowCollects /\ w.num > w.size)
    BY <2>1, <2>3, GrownConsistent DEF w
  <2>5. Consistent(Tab') /\ Live' = LiveOf(g) /\ chars' = g.chars
    BY <2>1, <2>4, TabBecomes
  <2>6. TabInd'
    BY <1>1, <1>2, <2>1, <2>5 DEF TabInd
  <2>7. s \notin LiveOf(t) /\ w.chars[s] = c /\ \A r \in LiveOf(t) : w.chars[r] = t.chars[r]
    BY <2>0, <2>3 DEF LiveOf
  <2>8. \A r \in held \cap Live : r \in Live' /\ chars'[r] = chars[r]
    BY <2>2, <2>3, <2>4, <2>5, <2>7, TabFields
  <2>9. ASSUME GcMethods = FALSE, Interned
        PROVE  Interned'
    <3>1. Distinct(Tab)
      BY <2>9, TabFields DEF Interned, Distinct
    <3>2. \A r \in LiveOf(Tab) : Tab.chars[r] # c
      BY <1>1, <1>4, SearchFindsAll
    <3>3. Distinct(t) /\ \A r \in LiveOf(t) : t.chars[r] # c
      BY <2>2, <2>9, <3>1, <3>2
    <3>4. Distinct(w)
      BY <2>3, <2>7, <3>3 DEF Distinct
    <3> QED
      BY <2>4, <2>5, <3>4 DEF Distinct, Interned
  <2>10. CASE g.chars = w.chars
    <3>1. Live' = LiveOf(w) /\ chars' = w.chars
      BY <2>5, <2>10 DEF LiveOf
    <3>2. result' \in Live' /\ chars'[result'] = c
      BY <2>1, <2>3, <2>7, <3>1
    <3> QED
      BY <1>2, <2>1, <2>6, <2>8, <2>9, <3>2
  <2>11. CASE GrowCollects /\ w.num > w.size
    <3>1. w.num = t.num + 1 /\ w.size = t.size /\ t.num \in Int /\ t.size \in Int
      BY <2>2, FS_CardinalityType DEF w, Added, Consistent, Tables
    <3>2. Full
      BY <2>0, <2>11, <3>1 DEF Full
    <3> QED
      BY <1>2, <2>1, <2>6, <2>8, <2>9, <2>11, <3>2
  <2> QED
    BY <2>4, <2>10, <2>11
<1> QED
  BY <1>3, <1>4

\* A collection started by another allocation.
LEMMA CollectStep ==
    ASSUME TabInd, CollectStrings
    PROVE  /\ TabInd' /\ UNCHANGED held
           /\ \A s \in held \cap Live : s \in Live' /\ chars'[s] = chars[s]
           /\ Interned => Interned'
<1>1. Consistent(Tab) /\ UNCHANGED <<held, result>>
  BY DEF TabInd, CollectStrings
<1>2. PICK u \in Collected(Tab) : Becomes(u)
  BY DEF CollectStrings
<1>3. /\ Consistent(u)
      /\ LiveOf(Tab) \cap held \subseteq LiveOf(u)
      /\ \A s \in LiveOf(Tab) \cap held : u.chars[s] = Tab.chars[s]
      /\ Distinct(Tab) => Distinct(u)
  BY <1>1, CollectedConsistent
<1>4. Consistent(Tab') /\ Live' = LiveOf(u) /\ chars' = u.chars
  BY <1>2, <1>3, TabBecomes
<1>5. TabInd'
  BY <1>1, <1>4 DEF TabInd
<1>6. \A s \in held \cap Live : s \in Live' /\ chars'[s] = chars[s]
  BY <1>3, <1>4, TabFields
<1>7. Interned => Interned'
  BY <1>3, <1>4, TabFields DEF Interned, Distinct
<1> QED
  BY <1>1, <1>5, <1>6, <1>7

\* Dropping a reference and doing nothing leave the table alone.
LEMMA QuietStep ==
    ASSUME TabInd, (\E s \in held : Drop(s)) \/ UNCHANGED strvars
    PROVE  TabInd' /\ UNCHANGED table /\ UNCHANGED <<Live, chars>> /\ held' \subseteq held
<1>1. UNCHANGED table /\ held' \subseteq held /\ result' \in {result, Null}
  BY DEF Drop, strvars, table
<1>2. UNCHANGED <<Tab, Live, chars>>
  BY <1>1 DEF table, Tab, Live
<1>3. Consistent(Tab')
  BY <1>2 DEF TabInd
<1> QED
  BY <1>1, <1>2, <1>3 DEF TabInd

-----------------------------------------------------------------------------
(* The theorems                                                            *)

\* The table is sound always.
LEMMA SpecTab == StrSpec => []TabInd
<1>1. StrInit => TabInd
  BY InitTab
<1>2. TabInd /\ [StrNext]_strvars => TabInd'
  BY NewStep, CollectStep, QuietStep DEF StrNext
<1> QED
  BY <1>1, <1>2, PTL DEF StrSpec

\* StrTypeOK and TableConsistent in the words of the module.
LEMMA TabMeans == TabInd => StrTypeOK /\ TableConsistent
<1> SUFFICES ASSUME TabInd PROVE StrTypeOK /\ TableConsistent
  OBVIOUS
<1>1. /\ Consistent(Tab) /\ Tab \in Tables
      /\ chars \in [Str -> Content \cup {Null}]
      /\ size \in Nat \ {0} /\ chain \in Chains(size)
      /\ \A i \in 0..size-1 : chain[i] = {s \in Live : Hash[chars[s]] % size = i}
      /\ num = Cardinality(Live)
  BY TabFields DEF TabInd, Consistent, Tables
<1>2. num \in 0..Cardinality(Str)
  <2>1. Live \in SUBSET Str
    BY DEF Live
  <2>2. Cardinality(Live) <= Cardinality(Str) /\ IsFiniteSet(Live)
    BY <2>1, StrConstantsOK, FS_Subset
  <2>3. Cardinality(Live) \in Nat /\ Cardinality(Str) \in Nat
    BY <2>2, StrConstantsOK, FS_CardinalityType
  <2> QED
    BY <1>1, <2>2, <2>3
<1>3. StrTypeOK
  BY <1>1, <1>2 DEF StrTypeOK, TabInd, Chains
<1>4. Linked(Tab) = Live
  BY <1>1, LinkedIsLive, TabFields
<1>5. TableConsistent
  BY <1>1, <1>4 DEF TableConsistent
<1> QED
  BY <1>3, <1>5

\* Every live string is in the chain its hash value selects, in every size the table
\* has had, and the count is right, whatever gc methods and the growth of the table do.
THEOREM TableAlwaysConsistent == StrSpec => [](StrTypeOK /\ TableConsistent)
BY SpecTab, TabMeans, PTL

\* No step frees or changes a live string held before it, whatever gc methods and the
\* growth of the table do, and whatever became of other strings.
THEOREM HeldStringsAreConstant ==
    StrSpec => [][\A s \in held \cap Live : s \in Live' /\ chars'[s] = chars[s]]_strvars
<1>1. TabInd /\ [StrNext]_strvars =>
        [\A s \in held \cap Live : s \in Live' /\ chars'[s] = chars[s]]_strvars
  BY NewStep, CollectStep, QuietStep DEF StrNext
<1> QED
  BY <1>1, SpecTab, PTL DEF StrSpec

\* What is held after a step is live, was lost before it, or is the string tea_str_new
\* made when it found the table full and the allocation of a larger one may collect.
LosesOnlyTheNew ==
    \A s \in held' :
        \/ s \in Live'
        \/ s \in held /\ s \notin Live
        \/ s = result' /\ GrowCollects /\ Full

\* A string is lost while it is held in one place only, the growth of the table: it frees
\* no string but the one just linked (tea_str.c:110).
THEOREM HeldStringsAreKept == StrSpec => [][LosesOnlyTheNew]_strvars
<1>1. ASSUME TabInd, StrNext, NEW s \in held'
      PROVE  s \in Live' \/ (s \in held /\ s \notin Live) \/ (s = result' /\ GrowCollects /\ Full)
  <2>1. CASE \E c \in Content : New(c)
    BY <1>1, <2>1, NewStep
  <2>2. CASE CollectStrings
    BY <1>1, <2>2, CollectStep
  <2>3. CASE \E r \in held : Drop(r)
    BY <1>1, <2>3, QuietStep
  <2> QED
    BY <1>1, <2>1, <2>2, <2>3 DEF StrNext
<1>2. TabInd /\ [StrNext]_strvars =>
        [LosesOnlyTheNew]_strvars
  BY <1>1 DEF LosesOnlyTheNew, strvars, Live
<1> QED
  BY <1>2, SpecTab, PTL DEF StrSpec

\* Two strings never have the same contents, if gc methods intern nothing: the search
\* made before the allocation still holds after it.
THEOREM EqualStringsAreOne ==
    ASSUME GcMethods = FALSE PROVE StrSpec => []Interned
<1>1. StrInit => Interned
  BY InitTab DEF Interned
<1>2. TabInd /\ Interned /\ [StrNext]_strvars => Interned'
  <2> SUFFICES ASSUME TabInd, Interned, [StrNext]_strvars PROVE Interned'
    OBVIOUS
  <2>1. CASE UNCHANGED <<Live, chars>>
    BY <2>1 DEF Interned
  <2> QED
    BY <2>1, NewStep, CollectStep, QuietStep DEF StrNext
<1> QED
  BY <1>1, <1>2, SpecTab, PTL DEF StrSpec
=============================================================================

------------------------------- MODULE TeaGC -------------------------------
(***************************************************************************)
(* The tracing collector of tea_gc.c: mark the roots, drain the gray       *)
(* stack, move unreachable userdata that have a gc method to the mmudata   *)
(* queue, mark what the queue reaches, sweep, then run the gc methods as   *)
(* ordinary calls of the interpreter, which may allocate, collect again or *)
(* raise an error.  tea_close runs the same queue for the last time.       *)
(*                                                                         *)
(* Abstractions.  Every object has two outgoing references, a and b.       *)
(* The value stack stands for all the roots (stack, frames, registry,      *)
(* globals, modules, class roots): the program pushes, pops and copies     *)
(* references there.  The LIFO order of the gray stack is left open.       *)
(***************************************************************************)
EXTENDS Integers, Sequences, Functions

CONSTANTS
    Obj,          \* addresses an object can be allocated at
    Null,         \* no object: nil, a number, a boolean, a NULL pointer
    MaxStack,     \* bound: height of the value stack
    Kinds,        \* kinds of object the program allocates
    HiddenSlots,  \* kinds whose slot b the collector ignores and the program fills
    GcMethods,    \* may the class of a userdata define gc: a set of answers
    BodyRuns      \* do gc methods allocate and touch the heap

AllKinds == {"list", "class", "udata", "func"}

ASSUME ConstantsOK ==
    /\ Null \notin Obj
    /\ MaxStack \in Nat \ {0}
    /\ Kinds \subseteq AllKinds
    /\ HiddenSlots \subseteq AllKinds \ {"list"}
    /\ GcMethods \subseteq BOOLEAN
    /\ BodyRuns \in BOOLEAN

VARIABLES
    kind,     \* kind[o]: "free" or what lives at address o
    ref,      \* ref[o]: the two references object o holds
    gcm,      \* gcm[o]: the class of userdata o has a gc method
    black,    \* objects with mark bit 1 set
    fin,      \* objects with TEA_GC_FINALIZED set
    gray,     \* gc.gray_stack
    rootud,   \* gc.rootud, newest first
    mmudata,  \* gc.mmudata, next to finalize first
    stack,    \* the value stack, T->stack .. T->top - 1
    frames,   \* for each running tea_gc_finalize_udata, its reserved slot
    phase,    \* what the one thread of the state is doing
    closing,  \* tea_close has been entered
    nfin      \* history: gc calls on the object at o, counted up to 2

heap == <<kind, ref, gcm>>
marks == <<black, fin, gray>>
lists == <<rootud, mmudata>>
calls == <<stack, frames>>
vars == <<kind, ref, gcm, black, fin, gray, rootud, mmudata, stack, frames,
          phase, closing, nfin>>

NoRefs == [a |-> Null, b |-> Null]
Phases == {"run", "trace", "trace2", "finalize", "freeall", "closed"}

Live == {o \in Obj : kind[o] # "free"}

\* What an object really refers to.
Children(o) == {ref[o].a, ref[o].b} \ {Null}

\* Fault: gc_blacken marks the first reference of an object only.
TracedFirst(o) == {ref[o].a} \ {Null}

\* What gc_blacken marks.  In a method table entry that holds a getter (a)
\* and a setter (b) only the getter is marked; the user values of a userdata
\* (b) and the module of a function (b) are not visited at all.
Traced(o) ==
    (IF \/ kind[o] = "class" /\ ref[o].a # Null
        \/ kind[o] \in {"udata", "func"} \cap HiddenSlots
     THEN {ref[o].a}
     ELSE {ref[o].a, ref[o].b}) \ {Null}

\* Fault: gc_markobj without its NULL test.
MarkableOrNull(S) == {o \in S : o \notin black \cup fin}

\* gc_markobj skips NULL and anything with a mark bit, FINALIZED included.
Markable(S) == {o \in S \ {Null} : o \notin black \cup fin}

\* The members of s that are in A, in order.
Only(s, A) ==
    LET front[i \in 0..Len(s)] ==
            IF i = 0 THEN <<>>
            ELSE IF s[i] \in A THEN Append(front[i-1], s[i]) ELSE front[i-1]
    IN front[Len(s)]

-----------------------------------------------------------------------------
TypeOK ==
    /\ kind \in [Obj -> Kinds \cup {"free"}]
    /\ ref \in [Obj -> [a : Obj \cup {Null}, b : Obj \cup {Null}]]
    /\ gcm \in [Obj -> BOOLEAN]
    /\ black \subseteq Obj
    /\ fin \subseteq Obj
    /\ gray \subseteq Obj
    /\ rootud \in Seq(Obj)
    /\ mmudata \in Seq(Obj)
    /\ stack \in Seq(Obj \cup {Null})
    /\ frames \in Seq(Nat)
    /\ phase \in Phases
    /\ closing \in BOOLEAN
    /\ nfin \in [Obj -> 0..2]

Init ==
    /\ kind = [o \in Obj |-> "free"]
    /\ ref = [o \in Obj |-> NoRefs]
    /\ gcm = [o \in Obj |-> FALSE]
    /\ black = {}
    /\ fin = {}
    /\ gray = {}
    /\ rootud = <<>>
    /\ mmudata = <<>>
    /\ stack = <<>>
    /\ frames = <<>>
    /\ phase = "run"
    /\ closing = FALSE
    /\ nfin = [o \in Obj |-> 0]

-----------------------------------------------------------------------------
(* The program: interpreter and API calls between two collections.         *)

InFinalizer == frames # <<>>
Floor == IF InFinalizer THEN frames[Len(frames)] ELSE 0

\* The program has control, and the code running is free to use the heap.
Running == phase = "run" /\ (InFinalizer => BodyRuns)

\* tea_mem_newgco / tea_udata_new link the object, the caller roots it.
New(o, k, g) ==
    /\ Running
    /\ kind[o] = "free"
    /\ Len(stack) < MaxStack
    /\ kind' = [kind EXCEPT ![o] = k]
    /\ ref' = [ref EXCEPT ![o] = NoRefs]
    /\ gcm' = [gcm EXCEPT ![o] = k = "udata" /\ g]
    /\ nfin' = [nfin EXCEPT ![o] = 0]
    /\ rootud' = IF k = "udata" THEN <<o>> \o rootud ELSE rootud
    /\ black' = black \ {o}
    /\ fin' = fin \ {o}
    /\ stack' = Append(stack, o)
    /\ UNCHANGED <<gray, mmudata, frames, phase, closing>>

\* A slot of a live object is assigned from the stack.
StoreOK(o, f) ==
    \/ f = "a" /\ (kind[o] = "class" /\ "class" \notin HiddenSlots => ref[o].b = Null)
    \/ f = "b" /\ (kind[o] = "class" /\ "class" \notin HiddenSlots => ref[o].a = Null)

Store(i, f, j) ==
    /\ Running
    /\ stack[i] # Null
    /\ StoreOK(stack[i], f)
    /\ ref' = [ref EXCEPT ![stack[i]][f] = stack[j]]
    /\ UNCHANGED <<kind, gcm, marks, lists, calls, phase, closing, nfin>>

Load(i, f) ==
    /\ Running
    /\ stack[i] # Null
    /\ Len(stack) < MaxStack
    /\ stack' = Append(stack, ref[stack[i]][f])
    /\ UNCHANGED <<heap, marks, lists, frames, phase, closing, nfin>>

\* A local variable or a register of the running function is overwritten.
Copy(i, j) ==
    /\ Running
    /\ i > Floor
    /\ stack' = [stack EXCEPT ![i] = stack[j]]
    /\ UNCHANGED <<heap, marks, lists, frames, phase, closing, nfin>>

Pop ==
    /\ Running
    /\ Len(stack) > Floor
    /\ stack' = SubSeq(stack, 1, Len(stack) - 1)
    /\ UNCHANGED <<heap, marks, lists, frames, phase, closing, nfin>>

\* Entering tea_gc_finalize_udata: one slot is reserved above the stack s.
\* With nothing queued the loop ends at once and the program goes on.
EnterFinalize(s, fr, queue) ==
    IF queue = <<>> /\ ~closing'
    THEN stack' = s /\ frames' = fr /\ phase' = "run"
    ELSE /\ stack' = Append(s, Null)
         /\ frames' = Append(fr, Len(s) + 1)
         /\ phase' = "finalize"

\* tea_err_throw: longjmp to a protected call made when the stack had h
\* values; the finalizer loops above it are abandoned, their queue stays.  In
\* tea_close the outermost protected call (h = 0) enters the loop again.
Throw(h) ==
    /\ phase = "run"
    /\ h < Len(stack)
    /\ closing' = closing
    /\ IF closing /\ h = 0
       THEN EnterFinalize(<<>>, <<>>, mmudata)
       ELSE /\ stack' = SubSeq(stack, 1, h)
            /\ frames' = Only(frames, 1..h)
            /\ phase' = phase
    /\ UNCHANGED <<heap, marks, lists, nfin>>

-----------------------------------------------------------------------------
(* tea_gc_collect, entered from any allocation.                            *)

\* Fault: gc_mark_roots stops one slot below T->top.
MarkRootsBelowTop ==
    /\ Running
    /\ stack # <<>>
    /\ LET new == Markable(Range(SubSeq(stack, 1, Len(stack) - 1))) IN
         /\ black' = black \cup new
         /\ gray' = new
    /\ phase' = "trace"
    /\ UNCHANGED <<heap, fin, lists, calls, closing, nfin>>

\* gc_mark_roots
MarkRoots ==
    /\ Running
    /\ Len(stack) <= MaxStack
    /\ LET new == Markable(Range(stack)) IN
         /\ black' = black \cup new
         /\ gray' = new
    /\ phase' = "trace"
    /\ UNCHANGED <<heap, fin, lists, calls, closing, nfin>>

\* One turn of gc_trace_references.
Trace(o) ==
    /\ phase \in {"trace", "trace2"}
    /\ o \in gray
    /\ LET new == Markable(Traced(o)) IN
         /\ black' = black \cup new
         /\ gray' = (gray \ {o}) \cup new
    /\ UNCHANGED <<heap, fin, lists, calls, phase, closing, nfin>>

\* Fault of the separation: all unmarked userdata are flagged and none queued.
SeparateFlagsAll ==
    /\ UNCHANGED <<rootud, mmudata>>
    /\ fin' = fin \cup (Range(rootud) \ black)

\* tea_gc_separateudata: an unmarked userdata with a gc method moves to the
\* front of the queue, one without is only flagged.
SeparateUdata ==
    LET unmarked == Range(rootud) \ (black \cup fin)
        need == {o \in unmarked : gcm[o]}
    IN  /\ rootud' = Only(rootud, Range(rootud) \ need)
        /\ mmudata' = Only(rootud, need) \o mmudata
        /\ fin' = fin \cup (unmarked \ need)

\* Fault: what the queued userdata refer to is not marked.
MarkQueueOnly(q, f) == black' = black \ Range(q) /\ gray' = {}

\* gc_mark_mmudata: in queue order, each queued userdata loses its marks and is
\* blackened; one referred to from itself or from a later one is marked again.
MarkQueue(q, f) ==
    LET hits(i) == Traced(q[i]) \ f
        hit == UNION {hits(i) : i \in DOMAIN q}
        again == {o \in hit : \E j \in DOMAIN q : q[j] = o /\ \E i \in j..Len(q) : o \in hits(i)}
    IN  /\ black' = (black \cup hit) \ (Range(q) \ again)
        /\ gray' = (hit \ black) \cup again

Separate ==
    /\ phase = "trace"
    /\ gray = {}
    /\ SeparateUdata
    /\ MarkQueue(mmudata', fin')
    /\ phase' = "trace2"
    /\ UNCHANGED <<heap, calls, closing, nfin>>

\* Fault: the list of lists is not swept.
SweptButLists == {o \in Live \ Range(mmudata) : kind[o] # "list"}

\* gc_sweep of the userdata list, the string table and the object list, which
\* are all the live objects but the queued ones.
Swept == Live \ Range(mmudata)
Dead == Swept \ (black \cup fin)

Sweep ==
    /\ phase = "trace2"
    /\ gray = {}
    /\ kind' = [o \in Obj |-> IF o \in Dead THEN "free" ELSE kind[o]]
    /\ ref' = [o \in Obj |-> IF o \in Dead THEN NoRefs ELSE ref[o]]
    /\ gcm' = [o \in Obj |-> gcm[o] /\ o \notin Dead]
    /\ nfin' = [o \in Obj |-> IF o \in Dead THEN 0 ELSE nfin[o]]
    /\ rootud' = Only(rootud, Range(rootud) \ Dead)
    /\ black' = black \ Swept
    /\ fin' = fin \ Swept
    /\ closing' = closing
    /\ EnterFinalize(stack, frames, mmudata)
    /\ UNCHANGED <<gray, mmudata>>

-----------------------------------------------------------------------------
(* tea_gc_finalize_udata                                                   *)

\* Fault: the userdata is linked behind the queue instead of into rootud.
RelinkInQueue ==
    /\ mmudata' = Append(Tail(mmudata), Head(mmudata))
    /\ UNCHANGED rootud

\* The first queued userdata goes back to rootud.
Relink ==
    /\ mmudata' = Tail(mmudata)
    /\ rootud' = <<Head(mmudata)>> \o rootud

\* One turn: the userdata is relinked, stored in the reserved slot and flagged,
\* and its gc method is called with it as the receiver.
FinalizeNext ==
    /\ phase = "finalize"
    /\ mmudata # <<>>
    /\ Relink
    /\ LET ud == Head(mmudata) IN
         /\ stack' = Append([stack EXCEPT ![Floor] = ud], ud)
         /\ black' = black \ {ud}
         /\ fin' = fin \cup {ud}
         /\ nfin' = [nfin EXCEPT ![ud] = IF @ < 2 THEN @ + 1 ELSE 2]
    /\ phase' = "run"
    /\ UNCHANGED <<heap, gray, frames, closing>>

\* The gc method returns; its result is dropped with the rest of its stack.
FinalizerReturn ==
    /\ phase = "run"
    /\ InFinalizer
    /\ stack' = SubSeq(stack, 1, Floor)
    /\ phase' = "finalize"
    /\ UNCHANGED <<heap, marks, lists, frames, closing, nfin>>

FinalizeDone ==
    /\ phase = "finalize"
    /\ mmudata = <<>>
    /\ stack' = SubSeq(stack, 1, Floor - 1)
    /\ frames' = SubSeq(frames, 1, Len(frames) - 1)
    /\ phase' = IF closing /\ Len(frames) = 1 THEN "freeall" ELSE "run"
    /\ UNCHANGED <<heap, marks, lists, closing, nfin>>

-----------------------------------------------------------------------------
(* tea_close and tea_gc_freeall                                            *)

\* Every userdata not yet flagged is queued, reachable or not, the stack is
\* emptied and the queue is run in a protected call.
Close ==
    /\ phase = "run"
    /\ ~closing
    /\ ~InFinalizer
    /\ closing' = TRUE
    /\ SeparateUdata
    /\ EnterFinalize(<<>>, <<>>, mmudata')
    /\ UNCHANGED <<heap, black, gray, nfin>>

FreeAll ==
    /\ phase = "freeall"
    /\ kind' = [o \in Obj |-> "free"]
    /\ ref' = [o \in Obj |-> NoRefs]
    /\ gcm' = [o \in Obj |-> FALSE]
    /\ nfin' = [o \in Obj |-> 0]
    /\ rootud' = <<>>
    /\ black' = {}
    /\ fin' = {}
    /\ phase' = "closed"
    /\ UNCHANGED <<gray, mmudata, calls, closing>>

\* tea_close has returned: nothing happens any more.
Closed == phase = "closed" /\ UNCHANGED vars

-----------------------------------------------------------------------------
Program ==
    \/ \E o \in Obj, k \in Kinds, g \in GcMethods : New(o, k, g)
    \/ \E i, j \in DOMAIN stack, f \in {"a", "b"} : Store(i, f, j)
    \/ \E i \in DOMAIN stack, f \in {"a", "b"} : Load(i, f)
    \/ \E i, j \in DOMAIN stack : Copy(i, j)
    \/ Pop
    \/ \E h \in 0..Len(stack) : Throw(h)

Collector ==
    \/ \E o \in Obj : Trace(o)
    \/ Separate
    \/ Sweep
    \/ FinalizeNext
    \/ FinalizeDone
    \/ FreeAll

Next ==
    \/ Program
    \/ MarkRoots
    \/ Collector
    \/ FinalizerReturn
    \/ Close
    \/ Closed

Spec == Init /\ [][Next]_vars

\* The collector is a loop of the only thread, so its steps are taken; a gc
\* method is assumed to return (or to raise) in the end.
FairSpec ==
    /\ Spec
    /\ WF_vars(Collector)
    /\ WF_vars(FinalizerReturn)

-----------------------------------------------------------------------------
(* Properties                                                              *)

ClosedSet(G) == \A o \in G : Children(o) \subseteq G
Roots == Range(stack) \ {Null}

\* Following references from the roots never meets freed memory, in any phase
\* of a collection: what tea_gc_collect frees, the program cannot reach.
HeapSafe == \E G \in SUBSET Live : Roots \subseteq G /\ ClosedSet(G)

\* The collector sets marks on, and stacks, live objects only: gc_markobj never
\* writes to freed memory.
CollectorTouchesLive == black \cup fin \cup gray \subseteq Live

\* While gc_trace_references runs, an object that is marked and no longer on
\* the gray stack refers only to objects that are marked, flagged or queued.
TriColor ==
    phase \in {"trace", "trace2"} =>
        \A o \in black \ gray :
            (phase = "trace" => o \notin Range(mmudata)) =>
                Traced(o) \subseteq black \cup fin \cup Range(mmudata)

\* A collection keeps nothing it could free: apart from userdata, an object that
\* survives gc_sweep is reachable from the roots or from the queue.
KeepsOnlyReachable ==
    [][Sweep => \A G \in SUBSET Obj :
            Roots \cup Range(mmudata) \subseteq G /\ ClosedSet(G) =>
                {o \in Live : kind'[o] # "free" /\ kind[o] # "udata"} \subseteq G]_vars

\* Every live userdata is linked exactly once, in rootud or in mmudata: moving it
\* to the queue and back, with errors and nested collections in between, neither
\* loses it (it would never be freed) nor links it twice (it would be freed twice).
UdataListed ==
    LET all == rootud \o mmudata
    IN  /\ \A i, j \in DOMAIN all : all[i] = all[j] => i = j
        /\ Range(all) = {o \in Live : kind[o] = "udata"}

\* Whatever a queued userdata that has not been finalized yet refers to, directly
\* or through objects that have not been finalized either, is live: after
\* gc_mark_mmudata the gc method finds what it is about to use.
FirstCallSound ==
    LET first == {o \in Range(mmudata) : nfin[o] = 0}
    IN  \E G \in SUBSET Live :
            /\ first \subseteq G
            /\ \A o \in G : nfin[o] = 0 => Children(o) \subseteq G

\* The queue of userdata to finalize is sound: nothing is lost, and what is called is whole.
QueueSound == UdataListed /\ FirstCallSound

Finalizable(o) == kind[o] = "udata" /\ gcm[o]

\* A userdata whose class has a gc method is not freed before the method was
\* called, and not while it is queued.  tea_close queues all it finds, and what
\* leaves the queue was called: only userdata that gc methods make while the
\* state closes are freed without ("lost userdata finalizers").
FinalizedBeforeFreed ==
    [][ /\ \A o \in Obj : Finalizable(o) /\ kind'[o] = "free" =>
              o \notin Range(mmudata) /\ (nfin[o] >= 1 \/ phase = "freeall")
        /\ \A o \in Obj : Finalizable(o) /\ ~closing /\ closing' =>
              nfin[o] >= 1 \/ o \in Range(mmudata')
        /\ \A o \in Range(mmudata) \ Range(mmudata') : nfin'[o] >= 1 ]_vars

\* tea_close ends: errors raised by gc methods make it start the queue again,
\* each time with one userdata less.  Only collections add to the queue again: it
\* ends unless gc methods collect for ever.
CloseTerminates == closing ~> phase \in {"closed", "trace"}

\* tea_gc_separateudata does not "bother with" userdata that were finalized: a
\* gc method is called once per userdata.
FinalizedOnce == \A o \in Obj : nfin[o] <= 1

\* tea_gc_finalize_udata keeps "a reference to it" in the reserved slot: the
\* userdata being finalized and all it refers to stay live during the call.
ReceiverSound ==
    phase = "run" /\ InFinalizer =>
        \E G \in SUBSET Live : {stack[Floor]} \subseteq G /\ ClosedSet(G)

-----------------------------------------------------------------------------
(* The inductive invariant behind HeapSafe, for programs whose userdata have *)
(* no gc method.                                                             *)

\* G is closed under the references gc_blacken follows.
TracedSet(G) == \A o \in G : Traced(o) \subseteq G

\* What a collection marks: the roots and all that gc_blacken gets to from them.
Reached == {o \in Obj : \A G \in SUBSET Obj : Roots \subseteq G /\ TracedSet(G) => o \in G}

\* What the program asks of its heap when a collection starts: a reference the collector
\* does not follow (a user value of a userdata, the module of a function, the setter
\* beside a getter) leads from what is reached to what is reached on another path too.
HiddenReached == phase = "trace" => ClosedSet(Reached)

\* Nothing is queued, and tea_gc_finalize_udata runs only inside tea_close.
QueueIdle ==
    /\ mmudata = <<>>
    /\ \A o \in Obj : ~gcm[o]
    /\ IF phase = "finalize" THEN frames = <<1>> /\ stack = <<Null>> ELSE frames = <<>>
    /\ closing <=> phase \in {"finalize", "freeall", "closed"}
    /\ phase \in {"freeall", "closed"} => stack = <<>>

\* Outside a collection nothing carries mark bit 1; before the separation nothing
\* is flagged; after it the marked objects refer only to marked objects, and
\* every userdata is marked or flagged, never both.
MarksOK ==
    /\ gray \subseteq black
    /\ phase \notin {"trace", "trace2"} => black = {}
    /\ phase \in {"run", "trace"} => fin = {}
    /\ phase = "trace2" => /\ gray = {}
                           /\ ClosedSet(black)  \* by HiddenReached
                           /\ fin \cap black = {}
                           /\ Range(rootud) \subseteq black \cup fin

\* The linked userdata are live, and only they are flagged.
UdataOK ==
    /\ \A o \in Range(rootud) : kind[o] = "udata"
    /\ fin \subseteq Range(rootud)

\* No method table entry holds two accessors.
OneAccessor == \A o \in Obj : kind[o] = "class" => ref[o].a = Null \/ ref[o].b = Null

\* A collection has marked the roots, and nothing but what they reach.
MarkedReachable ==
    phase \in {"trace", "trace2"} =>
        /\ Roots \subseteq black
        /\ \A G \in SUBSET Obj : Roots \subseteq G /\ TracedSet(G) => black \subseteq G

IndInv ==
    /\ TypeOK
    /\ QueueIdle
    /\ MarksOK
    /\ UdataOK
    /\ HeapSafe
    /\ TriColor
    /\ MarkedReachable

=============================================================================

----------------------------- MODULE TeaImport -----------------------------
(* Modules and import statements (tea_import.c, tea_obj.c, tea_load.c and  *)
(* the import instructions of tea_vm.c).                                   *)
(*                                                                         *)
(* A module is entered in T->modules before its body runs, so that modules *)
(* can import each other.  An import statement is several instructions:    *)
(* the first runs the body and leaves the module in T->last_module, which  *)
(* the others read.  The body and all that it calls run in between.        *)
(*                                                                         *)
(* A module that the collector freed stays in dead; the actions that read  *)
(* it are not taken: behaviours are followed up to the first such use.     *)
EXTENDS Naturals, Sequences, SequencesExt

CONSTANTS
    Main,       \* the script, under the name the host gave it
    Path,       \* the files that imports find, by their resolved paths
    Resolve,    \* for a name without quotes, the built-in module it finds
    Chunk,      \* the modules of loaded strings, all named "?<load>"
    MaxFrames,  \* how deep calls nest
    MaxRuns,    \* how often the host runs the script
    None

Library == {Resolve[n] : n \in DOMAIN Resolve}
Module == {Main} \cup Path \cup Library \cup Chunk

ASSUME ConstantsOK ==
    /\ Main \notin Path
    /\ Chunk \cap ({Main} \cup Path \cup Library) = {}
    /\ None \notin Module
    /\ MaxFrames \in Nat \ {0}

VARIABLES
    cached,     \* T->modules, without the entry for "?<load>"
    chunk,      \* the module T->modules has for "?<load>"
    loaded,     \* the modules of loaded strings so far
    dead,       \* those of them that were collected
    last,       \* T->last_module
    frames,     \* the calls that are running, the innermost last
    runs        \* how often the body of a file was started

vars == <<cached, chunk, loaded, dead, last, frames, runs>>

Kinds == {"script", "import", "chunk", "function"}

\* importing is the module an import statement of this call named, until its last
\* instruction; strayed: while its body ran, code that is no body of an
\* imported file left another module in last.
Frame(m, k, p) == [module |-> m, kind |-> k, protected |-> p,
                   importing |-> None, strayed |-> FALSE]

Frames == [module : Module, kind : Kinds, protected : BOOLEAN,
           importing : Module \cup {None}, strayed : BOOLEAN]

TypeOK ==
    /\ cached \subseteq Module \ Chunk
    /\ chunk \in loaded \cup {None}
    /\ loaded \subseteq Chunk /\ dead \subseteq loaded
    /\ last \in Module \cup {None}
    /\ frames \in Seq(Frames)
    /\ Len(frames) <= MaxFrames
    /\ runs \in [{Main} \cup Path -> Nat]

Init ==
    /\ cached = {} /\ chunk = None /\ loaded = {} /\ dead = {}
    /\ last = None
    /\ frames = <<>>
    /\ runs = [f \in {Main} \cup Path |-> 0]

-----------------------------------------------------------------------------
Top == frames[Len(frames)]

\* A call that may execute its next statement.
Running == frames # <<>> /\ Top.importing = None

Waiting(p) == [frames EXCEPT ![Len(frames)].importing = p,
                             ![Len(frames)].strayed = FALSE]

\* The imports among fs that wait for another module than m.
Stray(fs, m) ==
    [i \in DOMAIN fs |->
        [fs[i] EXCEPT !.strayed = @ \/ fs[i].importing \notin {None, m}]]

\* An error cuts the calls from the innermost protected one on, or all.
Unwind(m) ==
    \E c \in 0..Len(frames) :
        /\ c > 0 => frames[c].protected
        /\ \A i \in c+1..Len(frames) : ~frames[i].protected
        /\ frames' = Stray(SubSeq(frames, 1, c - 1), m)

-----------------------------------------------------------------------------
\* The host loads the script and runs it, once or (a prompt) repeatedly.  When the
\* script has an error in it, its module was entered all the same.
StartScript ==
    /\ frames = <<>> /\ last \notin dead
    /\ runs[Main] < MaxRuns
    /\ cached' = cached \cup {Main}
    /\ \/ frames' = <<Frame(Main, "script", FALSE)>> /\ runs' = [runs EXCEPT ![Main] = @ + 1]
       \/ UNCHANGED <<frames, runs>>
    /\ UNCHANGED <<chunk, loaded, dead, last>>

\* A string is loaded and called.  Each gets a module of its own, under the same name.
LoadString(c) ==
    /\ Running /\ Len(frames) < MaxFrames
    /\ c \notin loaded /\ last \notin dead
    /\ chunk' = c /\ loaded' = loaded \cup {c}
    /\ frames' = Append(frames, Frame(c, "chunk", FALSE))
    /\ UNCHANGED <<cached, dead, last, runs>>

\* Fault: nothing limits how deep calls nest.
CallUnlimited(m, p) ==
    /\ Running
    /\ m \in (cached \cup loaded) \ Library
    /\ frames' = Append(frames, Frame(m, "function", p))
    /\ UNCHANGED <<cached, chunk, loaded, dead, last, runs>>

\* A function of any module is called, directly or by pcall.
Call(m, p) ==
    /\ Running /\ Len(frames) < MaxFrames
    /\ m \in (cached \cup loaded) \ Library
    /\ frames' = Append(frames, Frame(m, "function", p))
    /\ UNCHANGED <<cached, chunk, loaded, dead, last, runs>>

\* The innermost call returns; an import that waited for it can go on.
Return ==
    /\ Running
    /\ frames' = Front(frames)
    /\ UNCHANGED <<cached, chunk, loaded, dead, last, runs>>

\* An error, also that of an import that finds no file.
Fail ==
    /\ Running
    /\ Unwind(last)
    /\ UNCHANGED <<cached, chunk, loaded, dead, last, runs>>

-----------------------------------------------------------------------------
\* A file is searched from the directory of the module that imports it.
MayImport == Running /\ Top.module \notin dead

\* The first instruction of an import: the module is there already.
ImportCached(f) ==
    /\ MayImport
    /\ f \in cached
    /\ last' = f
    /\ frames' = Waiting(f)
    /\ UNCHANGED <<cached, chunk, loaded, dead, runs>>

\* Fault: the module is not entered before its body runs.
ImportFileUncached(f) ==
    /\ MayImport /\ Len(frames) < MaxFrames
    /\ f \notin cached
    /\ last' = f
    /\ frames' = Append(Waiting(f), Frame(f, "import", FALSE))
    /\ runs' = [runs EXCEPT ![f] = @ + 1]
    /\ UNCHANGED <<cached, chunk, loaded, dead>>

\* The file is loaded and its body called.
ImportFile(f) ==
    /\ MayImport /\ Len(frames) < MaxFrames
    /\ f \notin cached
    /\ cached' = cached \cup {f}
    /\ last' = f
    /\ frames' = Append(Waiting(f), Frame(f, "import", FALSE))
    /\ runs' = [runs EXCEPT ![f] = @ + 1]
    /\ UNCHANGED <<chunk, loaded, dead>>

\* The file has a syntax error.
ImportBroken(f) ==
    /\ MayImport
    /\ f \notin cached
    /\ cached' = cached \cup {f}
    /\ last' = f
    /\ Unwind(f)
    /\ UNCHANGED <<chunk, loaded, dead, runs>>

\* A native function makes a built-in module, or finds the one it made before.
ImportBuiltin(n) ==
    /\ Running
    /\ n \notin cached
    /\ cached' = cached \cup {Resolve[n]}
    /\ last' = Resolve[n]
    /\ frames' = Waiting(Resolve[n])
    /\ UNCHANGED <<chunk, loaded, dead, runs>>

\* Fault: the last instruction of an import leaves T->last_module alone.
ImportEndForgets ==
    /\ last' = last
    /\ frames' = LET done == [frames EXCEPT ![Len(frames)].importing = None]
                 IN  IF Top.kind = "import" THEN done ELSE Stray(done, Top.module)

\* The last instruction makes the importer's module the last one again.
ImportEnd ==
    /\ last' = Top.module
    /\ frames' = LET done == [frames EXCEPT ![Len(frames)].importing = None]
                 IN  IF Top.kind = "import" THEN done ELSE Stray(done, Top.module)

\* The body has returned; the importer binds the module, or a name it exports.
UseImport ==
    /\ frames # <<>> /\ Top.importing # None
    /\ ImportEnd
    /\ UNCHANGED <<cached, chunk, loaded, dead, runs>>

\* The module that is looked at does not export the name the importer wants.
NotExported ==
    /\ frames # <<>> /\ Top.importing # None /\ last \notin dead
    /\ Unwind(last)
    /\ UNCHANGED <<cached, chunk, loaded, dead, last, runs>>

\* The collector finds modules only through T->modules: not through T->last_module and
\* not through the functions of the module, which may be running.
Collect(c) ==
    /\ c \in loaded \ (dead \cup {chunk})
    /\ dead' = dead \cup {c}
    /\ UNCHANGED <<cached, chunk, loaded, last, frames, runs>>

Next ==
    \/ StartScript
    \/ \E c \in Chunk : LoadString(c) \/ Collect(c)
    \/ \E m \in Module, p \in BOOLEAN : Call(m, p)
    \/ Return
    \/ Fail
    \/ \E f \in Path \cup Library : ImportCached(f)
    \/ \E f \in Path : ImportFile(f) \/ ImportBroken(f)
    \/ \E n \in DOMAIN Resolve : ImportBuiltin(n)
    \/ UseImport
    \/ NotExported

Spec == Init /\ [][Next]_vars

-----------------------------------------------------------------------------
\* A file that several modules import runs once (shared_import.tea), also when they
\* import each other and when its first run failed.
BodyRunsOnce == \A f \in Path : runs[f] <= 1

\* When the instructions that follow the first read T->last_module, it is the module
\* the statement named, whatever its body imported, unless a function or
\* a loaded string did the importing or an error was caught on the way.
ImportGetsNamed ==
    \A f \in Module :
        frames # <<>> /\ Top.importing = f /\ ~Top.strayed => last = f

-----------------------------------------------------------------------------
(* The inductive invariant behind BodyRunsOnce and ImportGetsNamed.        *)

\* A file that is not in the module table was never run.
RunOnlyCached == \A f \in Path : f \notin cached => runs[f] = 0

\* The body of a file runs directly above the import that waits for it.
BodyAboveImport ==
    \A i \in DOMAIN frames : frames[i].kind = "import" =>
        i > 1 /\ frames[i-1].importing = frames[i].module

\* When no call above an import waits for another one, T->last_module is the module
\* it named, or the import is known to have strayed.
LastOrStrayed ==
    \A i \in DOMAIN frames :
        /\ frames[i].importing # None /\ ~frames[i].strayed
        /\ \A j \in i+1..Len(frames) : frames[j].importing = None
        => last = frames[i].importing

ImportInv ==
    /\ TypeOK
    /\ RunOnlyCached
    /\ BodyRunsOnce
    /\ BodyAboveImport
    /\ LastOrStrayed

-----------------------------------------------------------------------------
\* The same without the exception.
ImportAlwaysGetsNamed ==
    \A f \in Module : frames # <<>> /\ Top.importing = f => last = f

\* The modules the interpreter may look at exist: T->last_module, "last cached module"
\* (tea_obj.h:444), of which tea_loadx reads the name, and those of running functions.
ModulesInUseLive == dead \cap ({last} \cup {f.module : f \in Range(frames)}) = {}

=============================================================================

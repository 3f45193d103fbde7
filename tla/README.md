# Teascript: models and proofs of the virtual machine

This directory describes the Teascript implementation (C, `src/src/`) in TLA+:
modules that follow the code, TLC configurations that check them on small
instances, and TLAPS proofs that hold for instances of any size.

Run `tlc -config X.cfg M` and `tlapm M.tla` in this directory. `PROJECT.json` lists
the runs, says which lines of the source each definition stands for, and lists
the hazards the properties are aimed at.

## The system

Teascript is a small dynamic language with classes, closures and modules. A
source file goes through the lexer and a one-pass parser that emits bytecode;
`vm_execute` runs it on a value stack; native libraries and the host program use
the C API, which can call back into the interpreter. There is one thread per
state. What makes the virtual machine hard is not concurrency but re-entrancy:

* any allocation may start a collection, a collection calls the `gc` methods of
  userdata, and these are ordinary calls, which allocate, collect, grow the
  stack, change any object and raise errors inside the caller's allocation;
* operators, attribute accesses, iterators and `tea_call` enter `vm_execute` again,
  so there are two stacks, the C stack and the CallInfo array, and an error
  (`longjmp`) cuts both at once;
* the value stack, maps, tables and vectors move when they grow, so pointers into
  them go stale across anything that may allocate or call.

| component | files | state | operations | what makes it correct |
|---|---|---|---|---|
| garbage collector | `tea_gc.c`, `tea_udata.c` | object lists, mark bits, gray stack, `rootud`, `mmudata` | allocate, collect, finalize, close | frees only what is unreachable; every gc method runs before its userdata is freed; close ends |
| calls, stack, errors | `tea_state.c`, `tea_err.c`, `tea_vm.c`, `tea_api.c` | CallInfo array, value stack and limits, `nccalls`, C stack | calls from bytecode, operators and native code, return, throw | the two stacks agree; limits hold; callers get back what they had |
| closures | `tea_func.c` | open upvalues, closed values | find, close, move with the stack | a captured variable is one variable |
| maps | `tea_map.c`, `lib_map.c` | entries, size, count | set, delete, clear, traverse | a dictionary; loops miss nothing |
| tables | `tea_tab.c`, `tea_meta.c` | entries with accessor flags | set, delete, merge | a dictionary; searches end; subclasses inherit all |
| strings | `tea_str.c` | intern table | create, resize, sweep | equal strings are one object; a new string is not freed |
| attributes | `tea_meta.c`, `tea_vm.c` | none of their own | get, set, delete, call an attribute | calling an attribute is reading it and calling the result; what is stored is read |
| C API, lists | `tea_api.c`, `tea_lib.c`, `tea_list.c`, `lib_list.c` | the frame of the native function, items | push, pop, index, call; the methods of lists | each method is an operation on a sequence, whatever the functions it calls do to the list |
| allocator, buffers | `tea_gc.c`, `tea_buf.c` | byte count, threshold, vectors | grow, shrink | the count is exact; no block is used after it moved |
| imports | `tea_import.c`, `tea_obj.c`, `tea_load.c` | `T->modules`, `last_module` | import a file or a built-in module, load a string | a module's body runs once; importers get the module they named; modules in use are not freed |
| parser, interpreter loop | `tea_parse.c`, `tea_bc.h`, `tea_vm.c` | scopes, locals, loops, code; stack and place in the code | one action per construct; one per kind of instruction | whichever way the code runs, the stack holds the variables in scope and the statements run in the order of the text |
| lexer | `tea_lex.c` | current character, block of input, open braces, line | setup, next token | the tokens are the text, in whatever blocks it comes |
| bytecode files, loading | `tea_bcwrite.c`, `tea_bcread.c`, `tea_load.c` | writer status; input block, stack of prototypes | dump, load | what is loaded is what was dumped; nothing is read behind the input |
| numbers, libraries, command line | `tea_str*.c`, `lib_*.c`, `tea.c` | little | pure functions, input and output | conversions are inverse to each other |

How they interact: the parser produces the prototypes the interpreter runs; the
interpreter and the API use maps, tables, lists and strings; all of these
allocate, and the allocator calls the collector, which calls the interpreter.
The collector takes its roots from the value stack, the frames and the open
upvalues. Errors cross everything up to the nearest `tea_pcall`.

## Modules

### TeaGC: the collector

| model | code |
|---|---|
| `kind`, `ref` | the objects; each has two references, which stand for fields, elements, upvalues |
| `black`, `fin` | mark bit 1 and `TEA_GC_FINALIZED` of `gch.marked` |
| `gray`, `rootud`, `mmudata` | `T->gc.gray_stack`, `T->gc.rootud`, `T->gc.mmudata` |
| `stack`, `frames` | the value stack; the slots `tea_gc_finalize_udata` reserved in it |
| `phase` | where the thread is: program, first or second trace, finalizer loop, freeing all |
| `New`, `Store`, `Load`, `Copy`, `Pop`, `Throw` | what the program does between collections |
| `MarkRoots` ... `Sweep` | the phases of `tea_gc_collect` |
| `EnterFinalize`, `FinalizeNext`, `FinalizerReturn`, `FinalizeDone` | `tea_gc_finalize_udata`, a gc method being the program again |
| `Close`, `FreeAll` | `tea_close`, `tea_gc_freeall` |

A collection may start whenever the program runs: the byte threshold is not in
this model. All roots are kept in the value stack, as the code treats them alike.
`HiddenSlots` turns on what `gc_blacken` does not visit. The gray stack is a set:
no property depends on its order.

### TeaCall: calls, stack limits, errors; AbstractCalls

`ci`, `cisize`, `base`, `top`, `stacksize`, `stackmax`, `nccalls` are the fields of
`tea_State`, values left out. `native` is the C stack: one record for each
activation of `vm_execute` or of a native function, with what a protected call
saved. `Enter` is `tea_vm_call` and `vm_call` with their three overflow checks,
`Fail` is `tea_err_throw` up to the recovery in `tea_vm_pcall`. `AbstractCalls` is the
caller's view: calls nest, a return or a caught error puts one value in the
callee's slot and changes nothing below it. `NestedCalls` says TeaCall implements it.

### TeaUpval: closures; CapturedVariables

`open` is `T->open_upvalues`, `location` and `closed` are the fields of an upvalue, an
address being an allocation of the stack and a slot. `CapturedVariables` has no
upvalues: a variable is a cell with a set of names (a local, closures).
`SharedVariables` says TeaUpval implements it.

### OpenAddressing, TeaMap, TeaTab; Dictionary

`OpenAddressing` is the probing that `map_find_entry` and `tab_findkey` share, and
rehashing; `Searchable`, `Once` and `Reached` say which arrays a search works in. `TeaMap` adds load limits, deletion with shrinking, and the traversals
by index and by key, with the program changing the map between two steps.
`TeaTab` is the table of names, with accessors and inheritance. `Dictionary` is the
finite function both implement, operation by operation.

### TeaAttr: attributes

Over the tables of TeaTab: an instance (`attrs`) and its class, with methods, getters, setters
and methods for unknown names, or the methods of a builtin type. An access comes to an outcome, the
function it calls and what it calls it on, as `tea_meta_getattr`, `tea_meta_setattr` and
`vm_invoke` choose it; functions that are called leave the tables alone. `vm_invoke` repeats
what reading and `vm_precall` do, in one instruction: `InvokeIsGetThenCall` compares the two.

### TeaStr: string interning

The chained table, one atomic step per `tea_str_new`; inside it a collection may
sweep and shrink the table. `GcMethods` and `GrowCollects` switch on what such a
collection can do in the middle of `str_alloc`.

### TeaImport: modules

`cached` and `chunk` are `T->modules` (all loaded strings are named `?<load>`, so the table
has the last one only), `last` is `T->last_module`, `frames` the calls, each with the
module its function belongs to and the import statement it waits in. Between the
first instruction of an import and the ones that read `T->last_module` the model runs any
code: bodies that import each other, functions of other modules, loaded
strings, errors with and without a `pcall`. What modules export is left out.

### TeaOps, TeaExpr, TeaCode: parser and interpreter loop; SourceFlow

`TeaOps` is the instruction table of `tea_bc.h` and, apart from it, what the loop in `vm_execute`
does to the stack. `TeaExpr` is what each function for an expression emits. `TeaCode` parses a
program and then runs one of its functions:

| model | code |
|---|---|
| `fs` | the chain of `FuncState`s: `locals`, `depth`, `loops`, `code`, `slots` (`max_slots`), `uvs` |
| `ctl` in `fs` | the parser's own call stack: the constructs it is inside of |
| `modvars` | `ls->vstack` |
| `parse_if`, `ParseElse`, `EndIf` ... | a function of the parser, cut where it parses a block |
| `prog`, `pc`, `stack`, `open` | a finished function, `ip`, the stack above `base`, the slots of open upvalues |
| `Compute` ... `Return` | the instructions, those that do the same to the stack together |

A value is the number of the statement that pushed it. A condition goes either way, except that
of a loop without one. The text of the function is kept beside its code; `SourceFlow` says from
the text alone which statement may follow which, with no jumps in it. In a statement an
expression is one instruction that pushes a value; what expressions emit is looked at in programs
that are one expression with another one as its operands (`parse_eval`). Left out are optional
parameters, values, numbering of constants, the number of locals and jumps being limited by
a byte, `export`, arrow functions and operator methods, which are functions under other names.

### TeaApi, TeaLib: lists by way of the C API; SequenceMethods

`TeaApi` has an operator for each function of the C API that the methods of lists use: from a
frame, its upvalues and the lists to the same afterwards. Beside the result it records
whether an error was raised (`fails`), a precondition was broken (`misused`) or a slot behind
the items of a list was touched (`strays`). `TeaLib` composes them, in the order `lib_list.c` calls
them:

| model | code |
|---|---|
| `api` | the frame of the running method and the lists |
| `job` | the method and its C variables; for `sort` the bounds and the ranges `auxsort` has to come back to |
| `past` | what the method began with, and what the functions it called answered |
| `CallSimple`, `CallPlus`, `CallSlice` | methods that call nobody, in one step |
| `CallLoop`, `Turn`, `UseAnswer`, `Finish` | `map`, `filter`, `find`, `reduce`, `foreach`, cut at each call of the program's function |
| `CallSort`, `CompareByCall`, `CompareNumbers`, `UseComparison` | `auxsort`, cut at each comparison |
| `CallIter`, `NextItem`, `EndBody` | a `for` loop over a list |
| `ChangeList`, `AnswerCall`, `RaiseInCall` | the function called: it gives the lists any contents, and returns anything or raises |

`SequenceMethods` says, in terms of sequences alone, what the methods that call nobody promise; `MC_TeaLib`
compares the two (`MethodsAreSequenceOps`). Sizes and bounds are as the conversions of C leave them: a
negative size of `List(n, x)` is a size too large (`IsSize`), a negative end of a slice is the length. A slice
whose step is 0 is left out, since `tea_list_slice` never comes to its end.

### BytecodeFormat, TeaBytecode, TeaLex, TeaLoad: files

`BytecodeFormat` is the format: numbers in groups of bits, prototypes written children first. `TeaBytecode`
writes a prototype section by section through a callback that may fail, may lose the end of the
file, and reads it in blocks: `in.avail` is what lies between `ls->p` and `ls->pe`, and reading
more than that sets `in.over`. A child for which the stack holds no prototype (`under`) is an error of its own. The
two fields the format cuts, the flags and the number of slots, are fields of the prototype: what
`LoadsWhatWasDumped` promises is the prototype with both cut (`Kept`). `TeaLex` is the lexer: `ls.i` is the place of `ls->c` in the text, `ls.braces`
the counters that tell whether `}` ends an expression in a string, `ls.stray` that the
character behind a block was looked at. `TeaLoad` composes the two as `tea_load.c` does: what begins with
the signature goes to the reader of bytecode, all else, a dump without its beginning
too, to the lexer, unless the caller asked for the other kind.

### TeaLemmas and the modules of proofs

`TeaGCProofs`, `TeaCallProofs`, `TeaUpvalProofs`, `TeaMapProofs`, `TeaTabProofs` (which covers TeaAttr too),
and `TeaLibProofs` extend the module they are named after; `TeaSharedProofs` extends TeaImport and TeaStr, which
share no variable. `TeaLemmas` holds what
several of them need: numbers, sequences, finite sets, recursion over a range of numbers, and what
searching, writing, marking with a tombstone and rehashing do to an array with open addressing.

## Runs

Every run bounds the instance by its constants alone, except `gc_methods`, where behaviours are followed
up to the first use of freed memory: it happens in the code (see below), and what follows is undefined. A property that is a conjunction of named
parts (`CallsAgree`, `QueueSound`, `OpenListSound`, `TableSound`, `CodeSound`, `TabIsDictionary`, `SortWorks`, `ApiKept`)
puts the type invariant of its module together with what the other properties rest on.

| run | question | bounds, and why they are enough |
|---|---|---|
| `gc_heap` | does a collection free what the program can reach, or keep what it cannot? | 3 objects with 2 references, 2 stack slots, all kinds: cycles, sharing and an object reached only through another; proved for every size below |
| `gc_methods` | are gc methods called before the memory goes, whatever they do, and does `tea_close` end? | 2 objects, lists and userdata with gc methods, and 2 stack slots: two queued userdata that refer to each other, or one that refers to a list; gc methods allocate, store, collect inside the collection that called them, and raise, so the queue is restarted with a rest |
| `call_nesting` | do errors, returns and stack growth leave the callers what they had? | 4 frames, 3 C calls, so operator in native in operator, and overflow of each of the three limits inside each; functions of 3 and 9 slots, so that the stack doubles and grows by what is needed; `Extra` and `MetaArgs` as in the code (5 slots behind the limit, of which an operator takes up to 3) |
| `upval_shared` | is a captured variable one variable? | 3 closures, 3 upvalues, 2 frames, 3 slots: two variables open at once, one of them shared, one closed by a return or error |
| `map_dict` | is a map a dictionary, and does a loop over a changing map miss nothing? | 7 keys in 4 colliding chains: the array grows from 2 to 16 entries and shrinks again, with tombstones in every position |
| `tab_dict` | are attributes and methods dictionaries, and do the ways to use an attribute agree? | 4 names in 3 chains; attributes, a class, a class with its superclass, an instance with its class, a builtin type, as five kinds of instance; two of the names are those of the methods for unknown names |
| `str_interning` | are equal strings one object? | 6 strings, 5 contents in 3 chains: two growths and two shrinkings of the table, also inside one allocation |
| `import_modules` | does an import statement get its module? | 2 files, the script, 2 loaded strings, 4 calls: a cycle of imports with a function call or an error inside |
| `code_flow` | does the code do what the text says, with the stack as the parser believes it to be? | 2 names, functions within the script, up to 6 simple statements (`name`, `break`, `continue`, a function expression), 3 of `var`, `while`, `for` or 2 of the others, and mixtures (`Weights`): a captured loop variable with a `break` behind it, a `break` in a switch in a loop, a method in a subclass; every expression as operand of every other |
| `lib_lists` | are the methods of lists operations on sequences, also when the functions they call change the list? | every list of up to 3 items of 3 kinds, another list, 7 kinds of arguments; functions leave up to 2 items; lists of up to 5 numbers are sorted, so that `auxsort` partitions twice and comes back, with one answer that contradicts the order |
| `load` | is what is loaded what was dumped, and are the tokens the text? | functions three levels deep, numbers around every bit that is treated specially, blocks of 1 and 4 bytes and whole files, cut anywhere; every text of up to 5 characters of ten alphabets (and longer ones of comments and nested strings), in blocks of 2 and whole. 3 bits in a group instead of 7, 8 in a word instead of 32, so that short texts have lengths of two groups |

The limits of the code (`TEA_MAX_CALLS`, `TEA_MAX_CCALLS`, the first sizes of the
arrays) are constants of the models. Symmetry is used where the permuted values are
addresses, which no definition compares otherwise than by equality, and, in `map_dict`,
for keys with the same hash value; no run with symmetry checks liveness.

Deadlock is checked in all runs but two: in `import_modules` a script may just end, and in
`code_flow` a function returns.

### Disagreements

`gc_accessor` shows that the code does not do what its comment says: a getter and a
setter of one name share an entry, and `gc_marktab` marks one
of them; the other is freed and called later (`HeapSafe`, `tea_gc.c:65`).

More configurations and properties show what the runs above leave out or make an exception for.
TLC finds each violated. Where there is no configuration of its own, put the property in the place of
those of the configuration named, with the change of constants:

| configuration | module | property | what happens |
|---|---|---|---|
| `gc_finalized_once` | MC_TeaGC | `FinalizedOnce` | a collection clears `TEA_GC_FINALIZED`; a userdata its gc method kept is finalized again |
| `gc_methods`, no `CONSTRAINT` | MC_TeaGC | `CollectorTouchesLive` | a collection started by a gc method does not trace flagged userdata; what they refer to is freed under them |
| `gc_receiver` | MC_TeaGC | `ReceiverSound` | the same for the userdata whose gc method is running |
| `gc_methods`, `Obj <- Obj3`, `GcMethods = {TRUE, FALSE}` | MC_TeaGC | `QueueSound` | a userdata without a gc method is flagged as if it had been finalized (`tea_gc.c:244`), and `gc_markobj` passes over what is flagged: it stays, but what it refers to is freed, even if the gc method of a queued userdata is about to read it there |
| `call_nesting`, `Slots = {8}`, `MaxHeight = 10` | MC_TeaCall | `OperatorRoom` | after a caught error the limit of the stack includes the slots reserved for operators, which push without a check (`tea_state.c:93`) |
| `call_nesting`, `MaxCCalls = 4`, `CiMin = 4`, `StackStart = 4`, `Extra = 2`, `MetaArgs = 2`, `NativeVias = {"call"}`, `Slots = {1, 6, 12}`, `MaxHeight = 10` | MC_TeaCall | `OperatorRoomBeforeErrors` | `tea_state_growstack` compares the slots of the function with the size of the stack, not with what is free, and then doubles the size (`tea_state.c:107`): a function that declares as many slots as the stack has (45 at first, then 90, ...), or up to 4 fewer, and is called near its top leaves less than the slots reserved for operators |
| `call_nesting` | MC_TeaCall | `RefusedOnlyWhenDeep` | the CallInfo array doubles beyond its limit, so after a caught overflow calls are refused below it (`tea_state.c:83`) |
| `tab_dict` | MC_TeaTab | `InheritsAll` | copying the methods to a subclass drops the flags of getters and setters, so a getter becomes a method there; `InheritsMethods`, in `TabIsDictionary`, says what is inherited all the same |
| `tab_dict` | MC_TeaTab | `BuiltinsStay` | `vm_invoke` writes the result of a getter over the getter, in the table of the type (`tea_vm.c:222`) |
| `upval_shared`, `GcMoves = TRUE` | MC_TeaUpval | `OpenListSound` | the address of a slot is computed before an allocation whose gc methods move the stack |
| `str_interning`, `GcMethods = TRUE` | MC_TeaStr | `Interned` | a gc method interns the string that `tea_str_new` is about to add |
| `str_interning`, `GrowCollects = TRUE` | MC_TeaStr | `TableSound` | the table grows after the new string was linked, and the collection this starts frees it |
| `import_modules` | MC_TeaImport | `ImportAlwaysGetsNamed` | a function called by a module's body imports something, and its own module stays in `T->last_module` |
| `import_modules` | MC_TeaImport | `ModulesInUseLive` | neither functions nor `T->last_module` keep their module alive; a loaded string's goes when the next string is loaded |
| `code_flow` | MC_TeaCode | `StackWithinSlots` | `max_slots` ("Stack max size", `tea_parse.c:118`) is the sum of the effects of all instructions, not the greatest depth |
| `code_spread` | MC_TeaCode | `StackIsScope` | in `f(...a, ...b)` each `BC_SPREAD` stores the count of arguments from its own list only |
| `code_getter` | MC_TeaCode | `FetchesCode` | the body of a getter gets no return; without one in the text it runs on behind its code |
| `code_import` | MC_TeaCode | `FetchesCode` | the table gives `IMPORTVAR` two bytes of operands and it has one, so `loop_end` takes the number of a constant for a `break` and writes over the code behind it |
| `lib_lists` | MC_TeaLib | `StaysInList` | an index is compared to the unsigned length minus one: in an empty list every index passes (`lib_list.c:128`) |
| `lib_lists`, `MaxLies = 5` | MC_TeaLib | `SortKeepsApi` | when the comparator contradicts the order several times, both indices of `auxsort` run over an end of the list, where `tea_get_item` pushes nothing, and `tea_pop(T, 3)` takes the comparator and the receiver from the frame (`lib_list.c:289`; an exception of `ApiKept`) |
| `lib_lists`, `MaxLies = 5` | MC_TeaLib | `AlwaysComparesItems` | when the comparator contradicts the order, `auxsort` runs over the ends of its range and compares with what happens to be in the slot behind, the comparator itself (`lib_list.c:274`) |
| `load` | MC_TeaLoad | `LooksAtNext` | the lookahead tests `p > pe`, so behind the last character of a block it takes what is in memory (`tea_lex.c:62`; the comment before it: "Lookahead one character and backtrack") |
| `load` | MC_TeaLoad | `CommentsNest` | in a comment a star or slash that begins no pair is skipped with the character behind it, so `/***/` does not end (`tea_lex.c:478`) |
| `load` | MC_TeaLoad | `ReturnsCounted` | a `\r` of its own in a comment is no line break; everywhere else it is |
| `lib_lists` | MC_TeaLib | `SlicesFromEnd` | the signed end of a slice is compared to the unsigned length, so that a negative one is cut to the length and never counts from the end of the list: `list[0:-1]` has all items, and the branch at `tea_list.c:119` is never taken (`tea_list.c:115`) |
| `load` | MC_TeaLoad | `TakesTheSame` | that a function is variadic is not dumped (`tea_bcwrite.c:141`): loaded, it takes other arguments |
| `load` | MC_TeaLoad | `AsksForItsSlots` | `max_slots` has 16 bits and is often above 255; a byte of it is written (`tea_bcwrite.c:142`) and read (`tea_bcread.c:299`), so that a loaded function makes sure of too little stack when it is called (`tea_vm.c:84`) |
| `load` | MC_TeaLoad | `NeverOverreads` | only the length of a name is asked for, not the name (`tea_bcread.c:351`) |
| `load` | MC_TeaLoad | `SuccessIsComplete` | the status of writing the header is overwritten by that of the module (`tea_bcwrite.c:219`) |

Two more were met on the way. The comment of `tea_char.c:9` counts the characters from 128 on
among the identifiers, the table does not. `BC_SUPER` takes a method of a superclass that is a C function
for a missing one (`tea_vm.c:512`).

### Fairness

Only `CloseTerminates`, in `gc_methods`, needs it. `FairSpec` says that the collector goes on (it is a loop of the only
thread) and that a gc method that was called returns or raises; nothing is assumed
about the program, which need not close, allocate or end. A gc method that collects can have others called
inside it, and userdata it creates then are finalized in their turn; so `tea_close` ends unless collections go on
for ever, and this is what `CloseTerminates` says.

## Proofs

### The collector

`TeaGCProofs` proves, for any number of objects, any stack and any history, of programs whose classes of userdata
have no gc method (`GcMethods \subseteq {FALSE}`), whichever slots the collector overlooks (any `HiddenSlots`):

| theorem | statement |
|---|---|
| `HeapSafety` | `Spec /\ []HiddenReached => []HeapSafe`: nothing reachable was freed, in no phase of a collection |
| `TriColorInvariant` | `Spec /\ []HiddenReached => []TriColor`: what a traced object refers to, as far as the collector follows it, is marked |
| `MarksOnLiveObjects` | `Spec /\ []HiddenReached => []CollectorTouchesLive`: the collector writes to live objects only |
| `SweepIsPrecise` | `Spec /\ []HiddenReached => KeepsOnlyReachable`: what survives was reachable |
| `NothingHidden` | `Spec => []HiddenReached` if `HiddenSlots = {}`, with any gc methods; so `HeapSafetyNothingHidden` says `Spec => []HeapSafe` of these programs |

`HiddenReached` speaks of the heap when a collection starts, not of marks. `gc_blacken` overlooks three kinds of
references: the user values of a userdata (`tea_gc.c:83`), the module of a function (`tea_gc.c:141`) and the
setter that shares an entry with a getter (`tea_gc.c:65`). What such a reference of a reached object leads to must
be reached otherwise: a module through `T->modules`, which is a root (`tea_gc.c:209`), a user value through a global. A program
that breaks this loses what it still refers to (`gc_accessor`); with `HiddenSlots = {"udata", "class", "func"}` and
`HiddenReached` for a `CONSTRAINT`, TLC finds `IndInv` to hold in `gc_heap`, and without the constraint `HeapSafe` false.

The first four rest on `IndInv`. `HeapSafe` alone is not inductive, for three reasons. `gc_sweep` frees
what is not marked, so it must be known that everything reachable is marked: at the
end of tracing the marked set contains the roots (`MarkedReachable`) and is closed under
references (kept in `MarksOK` until the sweep). The
next collection starts right only if the last one left no mark behind, and `Markable`
skips flagged userdata, so flags must be absent while tracing (`MarksOK`) and on linked
userdata only (`UdataOK`). And what `gc_blacken` follows is only part of the references of an object: an empty gray stack
gives a marked set that is closed under that part (`TriColor`), and since it is in every such set around the roots
(the second half of `MarkedReachable`) it is `Reached`, which `HiddenReached` says is closed under the others too. `QueueIdle` says what the
absence of gc methods gives: an empty queue, in `tea_close` too.
Each action has a lemma that it preserves `IndInv`; `NextInd` and `SpecInd` put them together. `NothingHidden` needs that
no entry holds two accessors (`OneAccessor`), which `StoreOK` keeps where none is to.
TLC finds `IndInv` to hold in `gc_heap` with `INVARIANTS IndInv`.

For all programs, whatever their gc methods do and whatever the collector overlooks, so with no assumption
on the constants but `ConstantsOK`:

| theorem | statement |
|---|---|
| `TypeCorrect` | `Spec => []TypeOK` |
| `UdataAlwaysListed` | `Spec => []UdataListed`: every live userdata is in `rootud` or in `mmudata`, once |
| `FinalizersRunFirst` | `Spec => FinalizedBeforeFreed`: a userdata with a gc method is not freed before the method was called, nor while it is queued; `tea_close` queues every one that is left |
| `RootsSurvive` | `Spec => RootsKept`: a sweep frees nothing the program holds in a root |

They rest on `QueueInv`. The two lists, as sets, are the live userdata (`ListsOK`). That a sweep frees none of them,
before its gc method or at all, needs that each has a mark or a flag when it begins, and that none was left marked by
the collection before, or `tea_gc_separateudata` would pass over it; and for `tea_close`, that the flagged userdata it
passes over were finalized if they have a gc method (`FlagsOK`). What a gc method does in between is the program
again, with a floor in the stack, so `FramesOK` says where the reserved slots of the loops that are running lie,
one above the other, also after an error has cut some of them off. `RootsSurvive` needs besides that between marking
and sweep every root is marked, flagged or queued (`RootsSeen`). `Only`, the filter behind the separation, the sweep and
the frames an error leaves, is recursive: `OnlyOK` says what it returns.

And for programs all of whose userdata have gc methods and that use no reference the collector overlooks: no user values, no function
whose module is known to it only, no getter and setter of one name (`AllFinalized`, that is `GcMethods \subseteq {TRUE}` and `HiddenSlots = {}`):

| theorem | statement |
|---|---|
| `QueueAlwaysSound` | `Spec /\ []NoDangling => []QueueSound`: the lists are sound, and what a queued userdata refers to, directly or through objects not finalized yet, is live when its gc method is called |

`NoDangling` says that the roots are live: behaviours are followed up to the first use of freed memory, as `gc_methods` does.
Since `RootsSurvive`, a root can dangle only because the program reads a reference of an object that was
finalized before, the case of `gc_receiver`. The invariant is `WholeInv`: an object that was not finalized refers
to live objects only (`FreshWhole`), and during a collection what was visited refers to marked, flagged or queued ones;
the queue counts as visited from the separation on, not before (`VisitedOK`). That flagged means finalized (`HeapOK`) is where
`AllFinalized` comes in: with classes without gc methods it is false, and so is the theorem (see "Disagreements").

### Imports

`TeaSharedProofs` assumes only that the names of modules are distinct and that at least one
call may run (`ConstantsOK`):

| theorem | statement |
|---|---|
| `TypeCorrect` | `Spec => []TypeOK` |
| `FilesRunOnce` | `Spec => []BodyRunsOnce`, for any number of files |
| `ImportsBindWhatTheyName` | `Spec => []ImportGetsNamed`, for any nesting of bodies, calls and errors |

`ImportGetsNamed` speaks of the innermost call only. To keep it when that call returns or
fails, `LastOrStrayed` says the same of every import above which no call waits for
another one. An importing body puts its own module back, and that this is the module the
import below it waits for is `BodyAboveImport`. `BodyRunsOnce` needs `RunOnlyCached`: a file that is
not in the table was never run. The lemmas `PushCalls` to `UseCalls` treat each way of changing
the calls, the lemmas after them each action.

### Strings

`TeaSharedProofs`, for any number of strings, contents and hash values and any smallest size:

| theorem | statement | assumes |
|---|---|---|
| `TableAlwaysConsistent` | every live string is in the chain of its hash value and in no other, and `num` counts them | nothing |
| `HeldStringsAreConstant` | no step frees or changes a live string that was held before it | nothing |
| `HeldStringsAreKept` | `Spec => [][LosesOnlyTheNew]`: what is held after a step is live, or was lost before, or is the string `tea_str_new` made when it found the table full, and growing may collect | nothing |
| `EqualStringsAreOne` | `Spec => []Interned` | `GcMethods = FALSE` |

What `HeldStringsAreKept` excepts happens in the code: the string is linked before the table grows and is no root
yet (`tea_str.c:110`). `TableSound`, which the run checks with `GrowCollects = FALSE`, is false otherwise, and so is
`Interned` without the assumption of `EqualStringsAreOne`: both are under Disagreements. The table is taken as one record, so that each helper of TeaStr has a lemma of its own
saying that it keeps `Consistent`, in whatever order `tea_str_new` calls them. `EqualStringsAreOne`
needs `Consistent`: the search looks into one chain only.

### Closures

`TeaUpvalProofs`, for any number of closures, upvalues and frames and any height of the stack, assumes
`GcMoves = FALSE`, without which both are false (see Disagreements):

| theorem | statement |
|---|---|
| `OpenListIsSound` | `Spec => []OpenListSound`: the list is strictly descending and points into the stack as it is allocated now |
| `UpvaluesAreVariables` | `Spec => SharedVariables`: TeaUpval implements CapturedVariables |

The invariant `UpvalInv` adds that an upvalue off the list is its own place, and that no frame
begins below the first slot. For the second theorem, a name (a slot, or a closure that captured something) has
a place (`Key`: a slot, or a closed upvalue) and a value, and the abstract cells are the classes of names
with one place (`CellsRepresented`). So what a step does to the cells follows from what it does to
places: `AbstractAssign`, `AbstractCapture`, `AbstractDrop`, `AbstractReplace` are the ways to
change the classes, and each action is one of them or two in a row.

### Calls

`TeaCallProofs`, for any limits, first sizes, functions, depth, errors and refused calls:

| theorem | statement | assumes |
|---|---|---|
| `CallsAlwaysAgree` | `Spec => []CallsAgree`: the C stack and the CallInfo array tell the same story | nothing |
| `CallsNest` | `Spec => NestedCalls`: TeaCall implements AbstractCalls | nothing |
| `OperatorsHaveRoom` | `Spec /\ []SizesApart => []OperatorRoomBeforeErrors` | `RoomConstants` |

`BC_RETURN` decides by a flag of the caller's frame whether to leave `vm_execute`. That it leaves
the right activation needs a relation between each activation on the C stack and its frame, not
only for the innermost: the flag of a frame is set exactly when the frame above it
has no activation of its own, and what a protected call saved is the frame below its own
(`StacksOK`). `FrameInv` keeps this for whatever place an error cuts both stacks at.
A number that counts C calls is the cardinality of a set of activations (`Counted`), so that
cutting them is set arithmetic.

`OperatorsHaveRoom` says of each frame how high it may reach (`Ceiling`), which comes down when
`tea_state_relimitstack` has taken the reserved slots away and the stack grows again. `RoomConstants` (what an operator pushes, twice, fits
into the reserved slots and 2: 6 and 7 in the code) is what the code has. `SizesApart` is about the
program: no function declares as many slots as the stack has when it is called, or up to `Extra - 1`
fewer. The compiler does not see to it; without it the property is false.

### Maps

`TeaMapProofs`, for any keys, values, hash values and load limits, if the smallest array has two
entries at least and an array grows beyond three quarters at the latest (8 and 3/4 in the code):

| theorem | statement |
|---|---|
| `ProbingAlwaysFinds` | `Spec => []ProbingFinds`: a search ends, at the key or at a free entry if the key is not there |
| `MapImplementsDictionary` | `Spec => MapIsDictionary` |
| `NextAlwaysVisitsAll` | `Spec => []NextVisitsAll`: traversal by key returns every key, in the order of the array |
| `LoopsComplete` | `Spec => LoopComplete`: a loop returns each key that stays exactly once |

`MapInv` says that the array is `Searchable` (each key once, and reached from its hash value over used
or deleted entries only), that the count is right and that an array is never full. That the count is right matters: only with it is there an
empty or deleted entry to find, and room in the array the entries move to. Rehashing is a recursive
function of the array. `RecursiveSequence` gives its values, `LeastNatural` takes the first place
where it would go wrong, and `RehashOK` says what it returns. `LoopsComplete` has an invariant of its own,
`LoopOK`: the watched key was returned once if the loop is past its entry, and not yet otherwise.

### Tables and attributes

`TeaTabProofs`, under the same conditions for the array, for any names, values and tables:

| theorem | statement |
|---|---|
| `SearchesEnd` | `Spec => []SearchEnds` |
| `TabsAreDictionaries` | `Spec => TabIsDictionary` |
| `SetIsRead` | `Spec => ReadsWhatWasSet` |
| `InvokeAlwaysGetThenCall` | `Spec => []InvokeIsGetThenCall` |

A table does not count its keys: deleting leaves the count as it is, and a search for an empty entry
relies on it. `TabInv` says it is the number of entries that are not empty, tombstones included, and less
than the size, so an empty entry is always there for `tab_findkey` to stop at. It says too that the
attributes of an instance have no accessors, on which reading back rests. A subclass' table is
a copy made entry by entry (`MergedOK`, an argument like that of rehashing). `InvokeAlwaysGetThenCall` needs
no invariant: it compares the two ways branch by branch, for any tables.

### Lists

`TeaLibProofs`, for any values and arguments, lists of any length and any answers of the functions called, with
no assumption but that values of different kinds differ (`ApiConstantsOK`) and that the list sorted, the other list and
the new one are three:

| theorem | statement |
|---|---|
| `LibInvariant` | `Spec => []LibInv`: at each call and answer the frame and the upvalues hold what the method takes them for |
| `LoopsHaveResults` | `Spec => []LoopResults`: `map`, `filter`, `find`, `foreach`, `reduce` and a loop over the list |
| `ItemsAreCalledWith` | `Spec => CalledWithItems`: which function is called, and with which item |
| `ListsAreSorted` | `Spec => []SortWorks`: the items stay whatever the comparator answers, and end up in order, each comparison being one of items, if it does not contradict the order |
| `CallsKeepApi` | `Spec => []CallersKeepApi`, a part of `ApiKept`: a loop that the list was not shortened under has broken no precondition of the API and touched nothing behind the items, the error it ends with included; nor has a sort of an unchanged list, but for preconditions under a comparator that contradicts the order |

A method finds its values by their index on a frame that it, and the calls it makes, push to and
pop from; so `LibInv` says which slot holds what at each place where it waits for an answer.
For loops: the receiver, the function, what is being made and the last answer (`LoopFrame`), the count of answers
(`LoopCounts`) and, as long as nobody changes the list, that what is being made is made of the items gone over (`LoopMakes`).
When the function adds to the list, the frame holds all the same; when it takes items away, nothing is promised.

`auxsort` is cut at its five places of comparison. `SortFrame` says which items lie where at each (`SortSlots`), and
how its indices lie in its range (`SortBounds`). Its recursion is a sequence of ranges to come back to, which are apart, and
two items out of order are in one of them (`Ordered`): so when none is left the list is in
order. What the comparisons so far have shown of the current range is `SortKnows`; after a partition it gives
that the pivot is where it belongs. This needs a comparator that keeps to the order. Without it
there remains that the items are a permutation of what they were (`SortItems`) and that the frame is known at each comparison: where
an index has run over an end of the list, `tea_get_item` has pushed nothing and the frame is one slot shorter than `auxsort` believes
(`Own`), so that the comparator lies where an item should (`AlwaysComparesItems` under "Disagreements"). The three slots popped when
the indices have crossed then include the comparator, and the next comparison finds an item in its place (`Lost`): it cannot be called, and an
error ends the sort. If both indices have run over an end they include the receiver too, and what follows breaks the API (`SortKeepsApi`); that the
sort never gets from there to another call is part of what is proved.

The model stops a method that has broken a precondition (`After`), so that `LibInv`, which speaks of the places where a method goes on, says
nothing of one. `CallersKeepApi` speaks of every state, those stopped in too, and is proved beside it: `LoopsKeepApi` follows the
failing paths of each loop's steps, where an error is raised and values are pushed and popped all the same, and `Tidy`, a conjunct of
`SortItems`, those of sort.
TLC finds the parts of `LibInv` to hold in `lib_lists`, and with `MaxLies = 5`, `Key = {0, 1}`, `MaxSort = 4`, `MaxLen = 1`, `MaxChange = 0`.

### What is only model-checked

Not proved: liveness (`CloseTerminates`) and `ENABLED`, which
the prover does not handle; what TeaCode compiles (`CodeSound`, `StackIsScope`), since the state at run time depends on all that was
emitted before; TeaBytecode, TeaLex and TeaLoad, which are recursive over texts and trees. The library's
induction theorems cannot be used with the installed provers. What takes their place in `TeaLemmas` does for
a loop over the entries of an array, by its least counterexample; it does not for recursion over a
structure.

Of TeaLib `MethodsAreSequenceOps` and the rest of `ApiKept` are left to TLC: the methods that call nobody are loops over an
operator (`For`), about which a lemma would have an operator for its parameter, and `flatten` descends
into lists that may contain each other, where the model is defined only as far as the lists of the run are nested.

## Not modelled

* Arithmetic, comparison, formatting and scanning of numbers, string functions, file and
  time functions: pure functions or the C library. Of the lexer hexadecimal numbers, signed exponents,
  the escapes `\x`, `\u` and `\U`, and which names are reserved.
* The precedence of operators: TeaCode begins where the parser knows which
  construct it reads, and the other models allow every program.
* Buffers (`tea_buf.c`), `join` of lists, and the byte count of the allocator. A temporary buffer that a
  collection shrinks while it grows (`tea_buf.c:22`), a list or a copied map that grows while gc methods
  run (`tea_list.c:56`, `tea_map.c:240`), `m.update(m)` (`tea_map.c:291`), a traversal of a map that has been
  emptied (`tea_map.c:303`), the nested collection of a shrinking string table (`tea_gc.c:379`) and the stack pointer kept
  over an allocation (`tea_state.c:52`) are hazards no property covers.
* A header mark of three bytes split over two blocks (`tea_lex.c:790`), and the byte order of dumps: the reader swaps, the models
  have one order.
* Upvalues of native closures that several calls share, static methods, attributes of modules, indexing, `export`,
  optional parameters, arrow functions.
* `userdata` values, class hierarchies and values of variables, except as objects and
  references.
* Hash functions: any assignment of hash values may be given to the models; the
  instances choose colliding ones.
* Failure of `malloc`: `tea_err_mem` is an error like others in TeaCall, but an allocation that
  fails half way through a growth is not.
* Error messages, stack traces and the command line.

## Plan

What is left are proofs, in this order:

1. TeaLib: `MethodsAreSequenceOps` method by method, each loop with an invariant of its own.
2. TeaCode: `StackIsScope` for the parser alone, that the slots it assigns are those of the locals in scope.

An allocator module (byte count, threshold, buffers and vectors that move) would be the next model; it
would cover most of the hazards named under "Not modelled".

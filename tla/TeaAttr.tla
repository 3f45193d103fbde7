------------------------------ MODULE TeaAttr ------------------------------
(***************************************************************************)
(* Attributes of an instance whose class has methods, getters and setters  *)
(* (tea_meta.c, vm_invoke): what reading, setting, deleting and calling a  *)
(* name comes to, over the tables of TeaTab.  The class may itself define  *)
(* methods for names it does not know.                                     *)
(*                                                                         *)
(* An access comes to an outcome, not to a value: which function is called *)
(* and what it is called on.  Functions called here leave the tables alone.*)
(***************************************************************************)
EXTENDS TeaTab

CONSTANTS
    MMGetattr, MMSetattr,  \* names of the methods for unknown names
    Number                 \* bound: what a getter returns

ASSUME AttrConstantsOK == {MMGetattr, MMSetattr} \subseteq Key /\ Number \in Value

EntryAt(t, k) == tabs[t].entries[Find(tabs[t].entries, tabs[t].size, k).at]
Knows(t, k) == Holds(tabs[t], k)

\* tea_tab_getx: the function for the way of access asked for, if there is one, else the
\* other; old is what was asked for.
tea_tab_getx(t, k, old) ==
    LET e == EntryAt(t, k)
    IN  IF old \in e.flags THEN (IF old = "set" THEN e.set ELSE e.val)
        ELSE IF e.flags = {"set"} THEN e.set ELSE e.val

Flags(t, k) == EntryAt(t, k).flags

\* What an access does: the function it calls, and with what.
Outcome(does, fn) == [does |-> does, fn |-> fn]

\* Fault: the class comes before the instance.
ClassFirst(k) ==
    IF Knows("class", k)
    THEN Outcome(IF "get" \in Flags("class", k) THEN "getter" ELSE "method", tea_tab_getx("class", k, "get"))
    ELSE IF Knows("attrs", k) THEN Outcome("value", EntryAt("attrs", k).val)
    ELSE IF Knows("class", MMGetattr) THEN Outcome("getattr", EntryAt("class", MMGetattr).val)
    ELSE Outcome("error", Nil)

tea_meta_getattr(k) ==
    IF Knows("attrs", k) THEN Outcome("value", EntryAt("attrs", k).val)
    ELSE IF Knows("class", k)
    THEN Outcome(IF "get" \in Flags("class", k) THEN "getter" ELSE "method", tea_tab_getx("class", k, "get"))
    ELSE IF Knows("class", MMGetattr) THEN Outcome("getattr", EntryAt("class", MMGetattr).val)
    ELSE Outcome("error", Nil)

HasSetter(k) == Knows("class", k) /\ "set" \in Flags("class", k)

tea_meta_setattr(k, v) ==
    IF HasSetter(k) THEN Outcome("setter", tea_tab_getx("class", k, "set"))
    ELSE IF Knows("class", MMSetattr) THEN Outcome("setattr", EntryAt("class", MMSetattr).val)
    ELSE Outcome("stored", v)

\* A call: of fn itself or of what fn returns when it is called as a getter or for an
\* unknown name, with the object in the place of the callee or without.
Call(how, fn, on) == [how |-> how, fn |-> fn, on |-> on]

\* Calling what a value on the stack is: a bound method puts its receiver in its place.
vm_precall(got) ==
    CASE got.does = "value" -> Call("itself", got.fn, "callee")
      [] got.does = "method" -> Call("itself", got.fn, "object")
      [] got.does \in {"getter", "getattr"} -> Call(got.does, got.fn, "callee")
      [] got.does = "error" -> Call("error", Nil, "callee")

\* Fault: the kinds of methods are not told apart.
InvokePlain(k) ==
    IF Knows("attrs", k) THEN Call("itself", EntryAt("attrs", k).val, "callee")
    ELSE IF Knows("class", k) THEN Call("itself", EntryAt("class", k).val, "object")
    ELSE IF Knows("class", MMGetattr) THEN Call("getattr", EntryAt("class", MMGetattr).val, "callee")
    ELSE Call("error", Nil, "callee")

\* BC_INVOKE on an instance: no method is bound on the way.
vm_invoke(k) ==
    IF Knows("attrs", k) THEN Call("itself", EntryAt("attrs", k).val, "callee")
    ELSE IF Knows("class", k) /\ "get" \in Flags("class", k)
    THEN Call("getter", tea_tab_getx("class", k, "get"), "callee")
    ELSE IF Knows("class", k) THEN Call("itself", tea_tab_getx("class", k, "get"), "object")
    ELSE IF Knows("class", MMGetattr) THEN Call("getattr", EntryAt("class", MMGetattr).val, "callee")
    ELSE Call("error", Nil, "callee")

-----------------------------------------------------------------------------

\* Only an attribute that no setter takes is stored.
SetInstance(k, v) ==
    /\ tea_meta_setattr(k, v).does = "stored"
    /\ SetAttr(k, v)

\* A value of a builtin type: the result of a getter replaces the getter.
InvokeBuiltin(k) ==
    /\ Knows("builtin", k)
    /\ "get" \in Flags("builtin", k)
    /\ tabs' = [tabs EXCEPT !["builtin"].entries[Find(tabs["builtin"].entries, tabs["builtin"].size, k).at].val = Number]
    /\ UNCHANGED names

Next ==
    \/ /\ "attrs" \in Tables
       /\ \E k \in names["attrs"] :
             \/ DelAttr(k)
             \/ \E v \in Values["attr"] :
                   IF "class" \in Tables THEN SetInstance(k, v) ELSE SetAttr(k, v)
    \/ \E t \in Tables \ {"attrs"}, f \in Kinds :
          \E k \in names[t], v \in Values[f] : Method(t, k, f, v)
    \/ {"class", "super"} \subseteq Tables /\ Inherit
    \/ "builtin" \in Tables /\ \E k \in names["builtin"] : InvokeBuiltin(k)

Spec == Init /\ [][Next]_vars

-----------------------------------------------------------------------------
(* Properties                                                              *)

Instance == {"attrs", "class"} \subseteq Tables

\* Calling an attribute does what reading it and calling the result does, although
\* BC_INVOKE looks it up by itself and binds nothing.
InvokeIsGetThenCall == Instance => \A k \in Key : vm_invoke(k) = vm_precall(tea_meta_getattr(k))

\* What is stored is what is read: the attribute hides whatever the class has under its
\* name, a getter without a setter too, and every other name reads as before.
ReadsWhatWasSet ==
    [][Instance /\ (\A t \in Tables \ {"attrs"} : tabs'[t] = tabs[t]) =>
          \E k \in names["attrs"] :
             /\ \/ DelAttr(k)
                \/ \E v \in Values["attr"] :
                      SetInstance(k, v) /\ tea_meta_getattr(k)' = Outcome("value", v)
             /\ \A other \in Key \ {k} : tea_meta_getattr(other)' = tea_meta_getattr(other)]_tabs

\* Calling a method of a builtin type leaves the type as it is.
BuiltinsStay ==
    []["builtin" \in Tables /\ tabs' # tabs => \E k \in Key, f \in Kinds, v \in Value :
          Method("builtin", k, f, v)]_tabs
=============================================================================

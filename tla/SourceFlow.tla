----------------------------- MODULE SourceFlow -----------------------------
(* In which order the statements of a function may run, read off its text.  *)
(*                                                                          *)
(* A text t is the sequence of its statements, each with its kind, the       *)
(* statement and the block of it that it stands in (statement 0 is the       *)
(* function), and how many blocks it has itself.  Statements of kind "simple"*)
(* and the jumps break, continue and return are what can be seen to run.     *)
EXTENDS Integers, Sequences, FiniteSetsExt

LoopKinds == {"forever", "while", "do", "for", "forin"}
Jumps == {"break", "continue", "return"}
LeafKinds == {"simple"} \cup Jumps

Children(t, s, b) == {c \in DOMAIN t : t[c].up = s /\ t[c].block = b}

\* Points: a statement, the condition of a loop, the end of a block.
At(s) == <<"at", s, 0>>
Condition(s) == <<"condition", s, 0>>
EndOf(s, b) == <<"end", s, b>>

Earliest(cs, otherwise) == IF cs = {} THEN otherwise ELSE At(Min(cs))
Block(t, s, b) == Earliest(Children(t, s, b), EndOf(s, b))
Behind(t, s) ==
    Earliest({c \in Children(t, t[s].up, t[s].block) : c > s}, EndOf(t[s].up, t[s].block))

\* The innermost loop around s; the statement 0 is around all.
Around(t, s) ==
    LET out[n \in 0..s] == IF n = 0 THEN {} ELSE {n} \cup out[t[n].up]
    IN  out[t[s].up]
LoopOf(t, s) == Max({n \in Around(t, s) : t[n].kind \in LoopKinds})

FromStatement(t, s) ==
    LET k == t[s].kind
    IN  CASE k = "return" -> {}
          [] k = "break" -> {Behind(t, LoopOf(t, s))}
          [] k = "continue" -> {Condition(LoopOf(t, s))}
          [] k = "simple" -> {Behind(t, s)}
          [] k = "do" -> {Block(t, s, 1)}
          [] k \in LoopKinds \ {"do"} -> {Condition(s)}
          [] OTHER -> {Block(t, s, b) : b \in 1..t[s].blocks}

Follow(t, p) ==
    LET s == p[2]
    IN  CASE p[1] = "at" -> FromStatement(t, s)
          [] p[1] = "condition" ->
                {Block(t, s, 1)} \cup (IF t[s].kind = "forever" THEN {} ELSE {Behind(t, s)})
          [] p[1] = "end" /\ s = 0 -> {}
          [] p[1] = "end" /\ s # 0 ->
                IF t[s].kind \in LoopKinds THEN {Condition(s)} ELSE {Behind(t, s)}

Visible(t, p) == p = EndOf(0, 1) \/ (p[1] = "at" /\ t[p[2]].kind \in LeafKinds)

\* The statements that may be the next to be seen after s, and 0 when the function
\* may come to its end; after 0, those that may be the first.
Next(t, s) ==
    LET start == IF s = 0 THEN {Block(t, 0, 1)} ELSE Follow(t, At(s))
        reach[n \in 0..4 * Len(t) + 2] ==
            IF n = 0 THEN start
            ELSE LET r == reach[n - 1]
                 IN  r \cup UNION {Follow(t, p) : p \in {q \in r : ~Visible(t, q)}}
    IN  {IF p[1] = "end" THEN 0 ELSE p[2] :
            p \in {q \in reach[4 * Len(t) + 2] : Visible(t, q)}}
=============================================================================

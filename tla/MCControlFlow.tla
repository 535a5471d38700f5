---------------------------- MODULE MCControlFlow ---------------------------
(***************************************************************************)
(* Descriptions for TLC: every construct of simple parts, in every context *)
(* of one or two constructs.                                               *)
(***************************************************************************)
EXTENDS ControlFlowReference

Stmt == [kind |-> "stmt"]
Jumps == {[kind |-> k] : k \in {"break", "continue", "return"}}
SeqOf(items) == [kind |-> "seq", items |-> items]
Empty == SeqOf(<<>>)
If(t, e) == [kind |-> "if", then_arm |-> t, else_arm |-> e]
For(tested, init, body, step) ==
    [kind |-> "for", tested |-> tested, init |-> init, body |-> body, step |-> step]
DoWhile(body) == [kind |-> "do while", body |-> body]
Try(body, catch, finally) == [kind |-> "try", body |-> body, catch |-> catch, finally |-> finally]

Simple == {Stmt, Empty} \cup Jumps
Optional == {Absent} \cup Simple

Constructs ==
    {SeqOf(<<a, b>>) : a \in Simple, b \in Simple}
    \cup {If(t, e) : t \in Simple, e \in Optional}
    \cup {For(tested, init, body, step) :
            tested \in BOOLEAN, init \in {Absent, Stmt}, body \in Simple, step \in {Absent, Stmt, Empty}}
    \cup {DoWhile(body) : body \in Simple}
    \cup {Try(body, catch, finally) : body \in Simple, catch \in Optional, finally \in Optional}

(* The contexts in which a construct stands. *)
Contexts(s) ==
    {SeqOf(<<Stmt, s, Stmt>>), SeqOf(<<If(s, Absent), Stmt>>), If(Stmt, s), DoWhile(s),
     Try(s, Stmt, Absent), Try(s, Absent, Stmt), Try(Stmt, s, Stmt), Try(Stmt, Absent, s)}
    \cup {For(tested, Absent, s, step) : tested \in BOOLEAN, step \in {Absent, Stmt}}
    \cup {For(tested, s, Stmt, Absent) : tested \in BOOLEAN}

(* Constructs of which a block is emitted first that control does not enter  *)
(* first: the condition of a loop that is left before, the handler of a part *)
(* without blocks.                                                           *)
RECURSIVE Blind(_)
Blind(s) ==
    CASE s.kind = "seq" -> \E n \in DOMAIN s.items : Blind(s.items[n])
      [] s.kind = "if" -> Blind(s.then_arm) \/ Blind(s.else_arm)
      [] s.kind \in {"for", "do while", "try"} ->
            LET parts == IF s.kind = "for" THEN {s.init, s.body, s.step}
                         ELSE IF s.kind = "try" THEN {s.body, s.catch, s.finally} ELSE {s.body}
            IN  \/ Blocks(s, <<>>) # {} /\ FlowOf(s, <<>>, TRUE).first \notin Blocks(s, <<>>)
                \/ /\ s.kind = "try" /\ Blocks(s.catch, <<>>) # {}
                   /\ FlowOf(s.body, <<>>, TRUE).first \notin Blocks(s.body, <<>>)
                \/ \E t \in parts : Blind(t)
      [] OTHER -> FALSE

InContext(S) == UNION {Contexts(s) : s \in S}

(* For two contexts: what may be left early, and what may throw. *)
FewConstructs ==
    {SeqOf(<<Stmt, a>>) : a \in Jumps} \cup {If(t, Absent) : t \in Simple}
    \cup {For(tested, Absent, Stmt, step) : tested \in BOOLEAN, step \in {Absent, Stmt}}
    \cup {Try(Stmt, catch, finally) : catch \in Optional, finally \in {Absent, Stmt}}

EveryProgram == Constructs \cup InContext(Constructs) \cup InContext(InContext(FewConstructs))

OrdinaryPrograms == {s \in EveryProgram : ~Blind(s)}

(* for (;;) { try { } catch { h } s } and for (;;) { do { break } while (d) s } *)
BlindBodies ==
    {For(FALSE, Absent, SeqOf(<<s, Stmt>>), Absent) :
        s \in {Try(Empty, Stmt, Absent), DoWhile([kind |-> "break"])}}
=============================================================================

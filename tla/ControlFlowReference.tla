------------------------ MODULE ControlFlowReference ------------------------
(***************************************************************************)
(* What the descriptions of control flow mean, told by structure and       *)
(* without a frontier: the place where control arrives first, and from     *)
(* each block the places where it may go next.  A place is a block, named  *)
(* by its path, or a way of leaving the construct.  The exceptional edges  *)
(* are those that the documentation of ControlFlowSpec::Try announces: a   *)
(* throw from every block of the protected part, jumps that pass by a      *)
(* cleanup, and a cleanup that continues onward.                           *)
(***************************************************************************)
EXTENDS ControlFlowLowering, Integers

Normal == <<-1>>       \* the construct is done
BreakOut == <<-2>>
ContinueOut == <<-3>>
Stuck == <<-4>>        \* a loop without a block

Flow(first, edgeSet) == [first |-> first, edges |-> edgeSet]
Passing == Flow(Normal, {})
Single(path) == Flow(path, {<<path, Normal>>})

(* The flow with one way of leaving it led to a place. *)
Led(flow, way, place) ==
    LET to(x) == IF x = way THEN place ELSE x
    IN  Flow(to(flow.first), {<<e[1], to(e[2])>> : e \in flow.edges})

LedLoop(flow, again) == Led(Led(Led(flow, Normal, again), ContinueOut, again), BreakOut, Normal)

With(flow, more) == [flow EXCEPT !.edges = @ \cup more]

RECURSIVE Blocks(_, _)
(* The blocks of a construct: its statements and conditions. *)
Blocks(s, path) ==
    LET sub(t, n) == Blocks(t, Append(path, n))
    IN  CASE s.kind = "stmt" -> {path}
          [] s.kind = "seq" -> UNION {sub(s.items[n], n) : n \in DOMAIN s.items}
          [] s.kind = "if" -> {path} \cup sub(s.then_arm, 1) \cup sub(s.else_arm, 2)
          [] s.kind = "for" -> (IF s.tested THEN {path} ELSE {})
                               \cup sub(s.init, 1) \cup sub(s.body, 2) \cup sub(s.step, 3)
          [] s.kind = "do while" -> {path} \cup sub(s.body, 1)
          [] s.kind = "try" -> sub(s.body, 1) \cup sub(s.catch, 2) \cup sub(s.finally, 3)
          [] OTHER -> {}

RECURSIVE FlowOf(_, _, _), FlowOfItems(_, _, _, _)

(* An absent part passes; a jump outside of loops does too. *)
FlowOf(s, path, inLoop) ==
    LET sub(t, n, loop) == FlowOf(t, Append(path, n), loop)
    IN  CASE s.kind = "absent" -> Passing
          [] s.kind = "stmt" -> Single(path)
          [] s.kind = "break" -> IF inLoop THEN Flow(BreakOut, {}) ELSE Passing
          [] s.kind = "continue" -> IF inLoop THEN Flow(ContinueOut, {}) ELSE Passing
          [] s.kind = "return" -> Flow(ExitNode, {})
          [] s.kind = "seq" -> FlowOfItems(s.items, 1, path, inLoop)
          [] s.kind = "if" ->
                LET yes == sub(s.then_arm, 1, inLoop)
                    no == sub(s.else_arm, 2, inLoop)
                IN  Flow(path, {<<path, yes.first>>, <<path, no.first>>} \cup yes.edges \cup no.edges)
          [] s.kind = "for" /\ s.tested ->
                LET init == Led(sub(s.init, 1, inLoop), Normal, path)
                    step == LedLoop(sub(s.step, 3, TRUE), path)
                    body == LedLoop(sub(s.body, 2, TRUE), step.first)
                IN  Flow(init.first,
                         {<<path, body.first>>, <<path, Normal>>} \cup init.edges \cup body.edges \cup step.edges)
          [] s.kind = "for" /\ ~s.tested ->
                LET bare == sub(s.body, 2, TRUE)
                    post == sub(s.step, 3, TRUE)
                    passes(flow) == flow.first \in {Normal, ContinueOut}
                    start == IF ~passes(bare) THEN bare.first
                             ELSE IF ~passes(post) THEN post.first ELSE Stuck
                    step == LedLoop(post, start)
                    body == LedLoop(bare, IF passes(post) THEN start ELSE post.first)
                    loop == Led(Flow(start, body.edges \cup step.edges), BreakOut, Normal)
                    init == Led(sub(s.init, 1, inLoop), Normal, loop.first)
                IN  Flow(init.first, init.edges \cup loop.edges)
          [] s.kind = "do while" ->
                LET body == LedLoop(sub(s.body, 1, TRUE), path)
                IN  With(body, {<<path, body.first>>, <<path, Normal>>})
          [] s.kind = "try" ->
                LET cleanup == sub(s.finally, 3, inLoop)
                    handler == Led(sub(s.catch, 2, inLoop), Normal, cleanup.first)
                    body == Led(sub(s.body, 1, inLoop), Normal, cleanup.first)
                    uncaught == IF Present(s.finally) THEN cleanup.first ELSE ExitNode
                    thrown == IF Present(s.catch) THEN handler.first ELSE uncaught
                IN  Flow(body.first,
                         body.edges \cup handler.edges \cup cleanup.edges
                         \cup {<<b, thrown>> : b \in Blocks(s.body, Append(path, 1))}
                         \cup {<<b, uncaught>> : b \in Blocks(s.catch, Append(path, 2))})

(* The items from the n-th on. *)
FlowOfItems(items, n, path, inLoop) ==
    IF n > Len(items) THEN Passing
    ELSE LET rest == FlowOfItems(items, n + 1, path, inLoop)
         IN  With(Led(FlowOf(items[n], Append(path, n), inLoop), Normal, rest.first), rest.edges)

-----------------------------------------------------------------------------
RECURSIVE Grown(_, _)
Grown(places, relation) ==
    LET more == {e[2] : e \in {f \in relation : f[1] \in places}} \ places
    IN  IF more = {} THEN places ELSE Grown(places \cup more, relation)

(* The edges that control may follow from the entry on. *)
Live(relation, from) ==
    LET places == Grown({from}, relation) IN {e \in relation : e[1] \in places}

(* A block from which control runs into a loop without a block stays there. *)
Meaning ==
    LET flow == Led(FlowOf(program, <<>>, FALSE), Normal, ExitNode)
        all == {<<EntryNode, flow.first>>} \cup flow.edges
    IN  Live({<<e[1], IF e[2] = Stuck THEN e[1] ELSE e[2]>> : e \in all}, EntryNode)

Lowered == {<<Payload(e[1]), Payload(e[2])>> : e \in Live(edges, Entry)}

(* The graph is well formed, has the edges of the description's meaning and  *)
(* no others, as far as control reaches: no flow is lost, none is invented.  *)
GraphIsMeaning == TypeOK /\ (sealed => Lowered = Meaning)

(* "the loop-back targets the body entry": what a loop goes back to is what  *)
(* it would run first.  Stated as above, of every description.               *)
LoopBackToBodyEntry == sealed => Meaning \subseteq Lowered
=============================================================================

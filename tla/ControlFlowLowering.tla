------------------------ MODULE ControlFlowLowering -------------------------
(***************************************************************************)
(* build_from_blocks of hoonarqube-dataflow: a structured description of   *)
(* control flow (ControlFlowSpec) becomes a graph.  emit_spec works        *)
(* through a stack of actions; the builder keeps the frontier, the blocks  *)
(* whose outgoing flow is not yet known, and wires it into the next block. *)
(*                                                                         *)
(* A description is a record with a kind; an absent part is Absent.  A     *)
(* node of it is named by the path that leads to it, and a block carries   *)
(* as its payload the path of the node that it was made for.  Lists of     *)
(* blocks are sets, since add_edge ignores an edge that is there already.  *)
(***************************************************************************)
EXTENDS Naturals, Sequences

CONSTANT Programs     \* the descriptions lowered

Absent == [kind |-> "absent"]
Present(s) == s # Absent

VARIABLES
    program,    \* the description
    stack,      \* actions: the next one first
    edges,      \* of the graph, as pairs of blocks
    payload,    \* what each block was made for, block 0 first
    frontier,
    loops,      \* LoopContexts: the innermost first
    sealed      \* finish was called

vars == <<program, stack, edges, payload, frontier, loops, sealed>>

Entry == 0
Exit == 1
EntryNode == <<0>>
ExitNode == <<0, 0>>

next_block_id == Len(payload)
Payload(block) == payload[block + 1]

Emit(spec, path) == [do |-> "spec", spec |-> spec, path |-> path]

Init ==
    /\ program \in Programs
    /\ stack = <<Emit(program, <<>>)>>
    /\ edges = {}
    /\ payload = <<EntryNode, ExitNode>>
    /\ frontier = {Entry}
    /\ loops = <<>>
    /\ sealed = FALSE

-----------------------------------------------------------------------------
Top == Head(stack)
Doing(what) == stack # <<>> /\ Top.do = what

(* The action on top is replaced by others. *)
Continue_with(actions) == stack' = actions \o Tail(stack)

To(sources, target) == {<<s, target>> : s \in sources}

(* A block after the frontier becomes the frontier. *)
PushBlock(path) ==
    /\ edges' = edges \cup To(frontier, next_block_id)
    /\ payload' = Append(payload, path)
    /\ frontier' = {next_block_id}

NewLoop == [breaks |-> {}, continues |-> {}]

(* schedule_spec, also of an item of a sequence unless nothing leads to it. *)
Scheduling(kind) ==
    /\ Doing("spec") \/ (Doing("reachable") /\ frontier # {})
    /\ Top.spec.kind = kind
    /\ UNCHANGED <<program, sealed>>

Child(part, n) == Emit(part, Append(Top.path, n))

SkipUnreachable ==
    /\ Doing("reachable") /\ frontier = {}
    /\ Continue_with(<<>>)
    /\ UNCHANGED <<program, edges, payload, frontier, loops, sealed>>

EmitStmt ==
    /\ Scheduling("stmt")
    /\ PushBlock(Top.path)
    /\ Continue_with(<<>>)
    /\ UNCHANGED loops

EmitSeq ==
    /\ Scheduling("seq")
    /\ Continue_with([n \in DOMAIN Top.spec.items |->
                        [Child(Top.spec.items[n], n) EXCEPT !.do = "reachable"]])
    /\ UNCHANGED <<edges, payload, frontier, loops>>

EmitIf ==
    /\ Scheduling("if")
    /\ PushBlock(Top.path)
    /\ Continue_with(<<Child(Top.spec.then_arm, 1),
                       [do |-> "if then", spec |-> Top.spec, path |-> Top.path, condition |-> next_block_id]>>)
    /\ UNCHANGED loops

EmitFor ==
    LET start == [do |-> "start for", spec |-> Top.spec, path |-> Top.path]
    IN  /\ Scheduling("for")
        /\ Continue_with(IF Present(Top.spec.init) THEN <<Child(Top.spec.init, 1), start>> ELSE <<start>>)
        /\ UNCHANGED <<edges, payload, frontier, loops>>

EmitDoWhile ==
    /\ Scheduling("do while")
    /\ loops' = <<NewLoop>> \o loops
    /\ Continue_with(<<Child(Top.spec.body, 1),
                       [do |-> "do while", path |-> Top.path, hint |-> next_block_id]>>)
    /\ UNCHANGED <<edges, payload, frontier>>

(* A break or a continue outside of any loop does nothing. *)
EmitJump(kind, sources) ==
    /\ Scheduling(kind)
    /\ IF loops = <<>> THEN UNCHANGED <<loops, frontier>>
       ELSE /\ loops' = [loops EXCEPT ![1] = sources]
            /\ frontier' = {}
    /\ Continue_with(<<>>)
    /\ UNCHANGED <<edges, payload>>

EmitBreak == EmitJump("break", [loops[1] EXCEPT !.breaks = @ \cup frontier])
EmitContinue == EmitJump("continue", [loops[1] EXCEPT !.continues = @ \cup frontier])

EmitReturn ==
    /\ Scheduling("return")
    /\ edges' = edges \cup To(frontier, Exit)
    /\ frontier' = {}
    /\ Continue_with(<<>>)
    /\ UNCHANGED <<payload, loops>>

EmitTry ==
    /\ Scheduling("try")
    /\ Continue_with(<<Child(Top.spec.body, 1),
                       [do |-> "try body", spec |-> Top.spec, path |-> Top.path, start |-> next_block_id]>>)
    /\ UNCHANGED <<edges, payload, frontier, loops>>

-----------------------------------------------------------------------------
(* The actions that follow a part of a construct. *)
Following(what) == Doing(what) /\ UNCHANGED <<program, sealed>>

FinishIfThen ==
    /\ Following("if then")
    /\ IF Present(Top.spec.else_arm)
       THEN /\ frontier' = {Top.condition}
            /\ Continue_with(<<Child(Top.spec.else_arm, 2), [do |-> "if else", sources |-> frontier]>>)
       ELSE /\ frontier' = frontier \cup {Top.condition}
            /\ Continue_with(<<>>)
    /\ UNCHANGED <<edges, payload, loops>>

FinishIfElse ==
    /\ Following("if else")
    /\ frontier' = frontier \cup Top.sources
    /\ Continue_with(<<>>)
    /\ UNCHANGED <<edges, payload, loops>>

(* With a condition the header is a block; without one the loop goes back to *)
(* the first block emitted for its body, known by its number.                *)
StartTestedFor ==
    /\ Following("start for") /\ Top.spec.tested
    /\ PushBlock(Top.path)
    /\ loops' = <<NewLoop>> \o loops
    /\ Continue_with(<<Child(Top.spec.body, 2),
                       [do |-> "tested body", spec |-> Top.spec, path |-> Top.path, header |-> next_block_id]>>)

StartEndlessFor ==
    /\ Following("start for") /\ ~Top.spec.tested
    /\ loops' = <<NewLoop>> \o loops
    /\ Continue_with(<<Child(Top.spec.body, 2),
                       [do |-> "endless body", spec |-> Top.spec, path |-> Top.path, hint |-> next_block_id]>>)
    /\ UNCHANGED <<edges, payload, frontier>>

FinishTestedBody ==
    /\ Following("tested body")
    /\ IF Present(Top.spec.step)
       THEN /\ loops' = [loops EXCEPT ![1].continues = {}]
            /\ Continue_with(<<Child(Top.spec.step, 3),
                               [do |-> "tested step", header |-> Top.header, hint |-> next_block_id,
                                continues |-> loops[1].continues]>>)
            /\ UNCHANGED <<edges, frontier>>
       ELSE /\ edges' = edges \cup To(frontier \cup loops[1].continues, Top.header)
            /\ frontier' = loops[1].breaks \cup {Top.header}
            /\ loops' = Tail(loops)
            /\ Continue_with(<<>>)
    /\ UNCHANGED payload

(* The block that a hint announced, if any was emitted since. *)
EntrySince(hint, otherwise) == IF next_block_id # hint THEN hint ELSE otherwise

(* Mutant: a continue goes back to the header past the step. *)
FinishTestedStepSkipped ==
    /\ Following("tested step")
    /\ edges' = edges \cup To(frontier \cup loops[1].continues \cup Top.continues, Top.header)
    /\ frontier' = loops[1].breaks \cup {Top.header}
    /\ loops' = Tail(loops)
    /\ Continue_with(<<>>)
    /\ UNCHANGED payload

FinishTestedStep ==
    /\ Following("tested step")
    /\ edges' = edges \cup To(frontier \cup loops[1].continues, Top.header)
                      \cup To(Top.continues, EntrySince(Top.hint, Top.header))
    /\ frontier' = loops[1].breaks \cup {Top.header}
    /\ loops' = Tail(loops)
    /\ Continue_with(<<>>)
    /\ UNCHANGED payload

(* wire_loop_sources: without a block to go to, a source goes to itself.     *)
(* The exit, to which no loop goes back, stands for no block.                *)
Nowhere == Exit
Wire(sources, target) == IF target = Nowhere THEN {<<s, s>> : s \in sources} ELSE To(sources, target)

FinishEndlessBody ==
    LET entry == EntrySince(Top.hint, Nowhere)
    IN  /\ Following("endless body")
        /\ IF Present(Top.spec.step)
           THEN /\ loops' = [loops EXCEPT ![1].continues = {}]
                /\ Continue_with(<<Child(Top.spec.step, 3),
                                   [do |-> "endless step", entry |-> entry, hint |-> next_block_id,
                                    continues |-> loops[1].continues]>>)
                /\ UNCHANGED <<edges, frontier>>
           ELSE /\ edges' = edges \cup Wire(frontier \cup loops[1].continues, entry)
                /\ frontier' = loops[1].breaks
                /\ loops' = Tail(loops)
                /\ Continue_with(<<>>)
        /\ UNCHANGED payload

FinishEndlessStep ==
    LET step == EntrySince(Top.hint, Nowhere)
        target == IF Top.entry # Nowhere THEN Top.entry ELSE step
    IN  /\ Following("endless step")
        /\ edges' = edges \cup Wire(frontier \cup loops[1].continues, target)
                          \cup Wire(Top.continues, IF step # Nowhere THEN step ELSE Top.entry)
        /\ frontier' = loops[1].breaks
        /\ loops' = Tail(loops)
        /\ Continue_with(<<>>)
        /\ UNCHANGED payload

FinishDoWhile ==
    LET header == next_block_id
    IN  /\ Following("do while")
        /\ payload' = Append(payload, Top.path)
        /\ edges' = edges \cup To(frontier \cup loops[1].continues, header)
                          \cup {<<header, EntrySince(Top.hint, header)>>}
        /\ frontier' = loops[1].breaks \cup {header}
        /\ loops' = Tail(loops)
        /\ Continue_with(<<>>)

(* Every block emitted for the protected part may throw: to the handler, or  *)
(* to the cleanup, or out of the function.                                   *)
EmittedSince(start) == start .. next_block_id - 1

FinishTryBody ==
    LET thrown == EmittedSince(Top.start)
    IN  /\ Following("try body")
        /\ IF Present(Top.spec.catch)
           THEN /\ frontier' = thrown
                /\ Continue_with(<<Child(Top.spec.catch, 2),
                                   [do |-> "try catch", spec |-> Top.spec, path |-> Top.path,
                                    start |-> next_block_id, sources |-> frontier]>>)
                /\ UNCHANGED edges
           ELSE IF Present(Top.spec.finally)
           THEN /\ frontier' = frontier \cup thrown
                /\ Continue_with(<<Child(Top.spec.finally, 3)>>)
                /\ UNCHANGED edges
           ELSE /\ edges' = edges \cup To(thrown, Exit)
                /\ Continue_with(<<>>)
                /\ UNCHANGED frontier
        /\ UNCHANGED <<payload, loops>>

FinishTryCatch ==
    LET thrown == EmittedSince(Top.start)
    IN  /\ Following("try catch")
        /\ IF Present(Top.spec.finally)
           THEN /\ frontier' = Top.sources \cup frontier \cup thrown
                /\ Continue_with(<<Child(Top.spec.finally, 3)>>)
                /\ UNCHANGED edges
           ELSE /\ frontier' = Top.sources \cup frontier
                /\ edges' = edges \cup To(thrown, Exit)
                /\ Continue_with(<<>>)
        /\ UNCHANGED <<payload, loops>>

(* finish *)
Seal ==
    /\ stack = <<>> /\ ~sealed
    /\ edges' = edges \cup To(frontier, Exit)
    /\ frontier' = {}
    /\ sealed' = TRUE
    /\ UNCHANGED <<program, stack, payload, loops>>

Sealed == sealed /\ UNCHANGED vars

Next ==
    \/ SkipUnreachable \/ EmitStmt \/ EmitSeq \/ EmitIf \/ EmitFor \/ EmitDoWhile
    \/ EmitBreak \/ EmitContinue \/ EmitReturn \/ EmitTry
    \/ FinishIfThen \/ FinishIfElse \/ StartTestedFor \/ StartEndlessFor
    \/ FinishTestedBody \/ FinishTestedStep \/ FinishEndlessBody \/ FinishEndlessStep
    \/ FinishDoWhile \/ FinishTryBody \/ FinishTryCatch \/ Seal \/ Sealed

Spec == Init /\ [][Next]_vars

-----------------------------------------------------------------------------
(* Blocks are numbered without gaps, edges join blocks, nothing leaves the   *)
(* exit or enters the entry, and the loop contexts are gone in the end.      *)
TypeOK ==
    /\ edges \subseteq (0 .. next_block_id - 1) \X (0 .. next_block_id - 1)
    /\ frontier \subseteq 0 .. next_block_id - 1
    /\ \A e \in edges : e[1] # Exit
    /\ \A e \in edges : e[2] # Entry \/ e[1] = Entry
    /\ stack = <<>> => loops = <<>>
=============================================================================

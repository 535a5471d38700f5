--------------------------- MODULE CfgDominators ----------------------------
(***************************************************************************)
(* Cfg::dominators: the blocks that the entry reaches in reverse post      *)
(* order, the immediate dominators by iteration over that order, and the   *)
(* intervals of a walk through their tree, which answer the questions.     *)
(* Successors, predecessors and children are taken in any order.           *)
(***************************************************************************)
EXTENDS CfgPaths, FiniteSets, Naturals, Sequences

CONSTANTS
    Blocks,
    Entry,
    Graphs,    \* the graphs considered
    None

VARIABLES
    succs,      \* the graph
    phase,      \* "order", "idoms", "intervals", "done"
    walk,       \* frames [block, rest] of a walk, the innermost first
    order,      \* reverse_post_order
    idoms,
    at,         \* position in the order
    changed,
    rest,       \* the predecessors still to consider of the block at this position
    candidate,  \* finger_a, while two predecessors are intersected
    finger,     \* finger_b, None at other times
    clock, preorder, postorder

search == <<walk, order>>
iteration == <<idoms, at, changed, rest, candidate, finger>>
intervals == <<clock, preorder, postorder>>
vars == <<succs, phase, search, iteration, intervals>>

Nowhere == [b \in Blocks |-> None]

Init ==
    /\ succs \in Graphs
    /\ phase = "order"
    /\ walk = <<[block |-> Entry, rest |-> succs[Entry]]>>
    /\ order = <<>>
    /\ idoms = Nowhere
    /\ at = 2 /\ changed = FALSE /\ rest = {} /\ candidate = None /\ finger = None
    /\ clock = 0 /\ preorder = Nowhere /\ postorder = Nowhere

-----------------------------------------------------------------------------
(* reverse_post_order_from_entry *)
Visited == {walk[i].block : i \in DOMAIN walk} \cup {order[i] : i \in DOMAIN order}

Visit(next) ==
    /\ phase = "order"
    /\ walk # <<>> /\ next \in Head(walk).rest
    /\ LET frame == [Head(walk) EXCEPT !.rest = @ \ {next}]
       IN  walk' = (IF next \in Visited THEN <<>> ELSE <<[block |-> next, rest |-> succs[next]]>>)
                   \o <<frame>> \o Tail(walk)
    /\ UNCHANGED <<succs, phase, order, iteration, intervals>>

Leave ==
    /\ phase = "order"
    /\ walk # <<>> /\ Head(walk).rest = {}
    /\ order' = <<Head(walk).block>> \o order
    /\ walk' = Tail(walk)
    /\ UNCHANGED <<succs, phase, iteration, intervals>>

Position(block) == CHOOSE i \in DOMAIN order : order[i] = block
Reachable == {order[i] : i \in DOMAIN order}

(* The predecessors of the block at position i that have an idom already. *)
Considered(i, doms) ==
    IF i \in DOMAIN order THEN {p \in Preds(order[i], succs) : doms[p] # None} ELSE {}

OrderDone ==
    /\ phase = "order" /\ walk = <<>>
    /\ phase' = "idoms"
    /\ idoms' = [idoms EXCEPT ![Entry] = Entry]
    /\ rest' = Considered(2, idoms')
    /\ UNCHANGED <<succs, search, at, changed, candidate, finger, intervals>>

-----------------------------------------------------------------------------
(* compute_idoms *)

(* The first predecessor is the candidate, each other one is intersected     *)
(* with it.                                                                  *)
Consider(p) ==
    /\ phase = "idoms" /\ p \in rest /\ finger = None
    /\ IF candidate = None THEN candidate' = p /\ UNCHANGED finger
       ELSE finger' = p /\ UNCHANGED candidate
    /\ rest' = rest \ {p}
    /\ UNCHANGED <<succs, phase, search, idoms, at, changed, intervals>>

(* intersect: of two fingers the one further on in the order goes up the     *)
(* tree until they meet.                                                     *)
ClimbA ==
    /\ phase = "idoms" /\ finger # None /\ candidate # finger
    /\ Position(candidate) > Position(finger)
    /\ candidate' = idoms[candidate]
    /\ UNCHANGED <<succs, phase, search, idoms, at, changed, rest, finger, intervals>>

ClimbB ==
    /\ phase = "idoms" /\ finger # None /\ candidate # finger
    /\ Position(finger) > Position(candidate)
    /\ finger' = idoms[finger]
    /\ UNCHANGED <<succs, phase, search, idoms, at, changed, rest, candidate, intervals>>

Meet ==
    /\ phase = "idoms" /\ finger # None /\ candidate = finger
    /\ finger' = None
    /\ UNCHANGED <<succs, phase, search, idoms, at, changed, rest, candidate, intervals>>

(* Mutant: every block that has an idom counts as changed. *)
AssignAlwaysChanged ==
    LET block == order[at]
    IN  /\ phase = "idoms" /\ at \in DOMAIN order /\ rest = {} /\ finger = None
        /\ idoms' = [idoms EXCEPT ![block] = candidate]
        /\ changed' = (changed \/ candidate # None)
        /\ at' = at + 1
        /\ candidate' = None
        /\ rest' = Considered(at + 1, idoms')
        /\ UNCHANGED <<succs, phase, search, finger, intervals>>

(* The candidate is the block's idom; on to the next block. *)
Assign ==
    LET block == order[at]
    IN  /\ phase = "idoms" /\ at \in DOMAIN order /\ rest = {} /\ finger = None
        /\ idoms' = [idoms EXCEPT ![block] = candidate]
        /\ changed' = (changed \/ candidate # idoms[block])
        /\ at' = at + 1
        /\ candidate' = None
        /\ rest' = Considered(at + 1, idoms')
        /\ UNCHANGED <<succs, phase, search, finger, intervals>>

Again ==
    /\ phase = "idoms" /\ at \notin DOMAIN order /\ changed
    /\ at' = 2 /\ changed' = FALSE
    /\ rest' = Considered(2, idoms)
    /\ UNCHANGED <<succs, phase, search, idoms, candidate, finger, intervals>>

(* dominator_children *)
Children(block) == {b \in Blocks \ {Entry} : idoms[b] = block}

(* Mutant: the first round is taken for enough. *)
IdomsDoneAtOnce ==
    /\ phase = "idoms" /\ at \notin DOMAIN order
    /\ phase' = "intervals"
    /\ walk' = <<[block |-> Entry, rest |-> Children(Entry)]>>
    /\ preorder' = [preorder EXCEPT ![Entry] = clock]
    /\ clock' = clock + 1
    /\ UNCHANGED <<succs, order, iteration, postorder>>

IdomsDone ==
    /\ phase = "idoms" /\ at \notin DOMAIN order /\ ~changed
    /\ phase' = "intervals"
    /\ walk' = <<[block |-> Entry, rest |-> Children(Entry)]>>
    /\ preorder' = [preorder EXCEPT ![Entry] = clock]
    /\ clock' = clock + 1
    /\ UNCHANGED <<succs, order, iteration, postorder>>

-----------------------------------------------------------------------------
(* dominator_intervals *)
Descend(child) ==
    /\ phase = "intervals"
    /\ walk # <<>> /\ child \in Head(walk).rest
    /\ walk' = <<[block |-> child, rest |-> Children(child)], [Head(walk) EXCEPT !.rest = @ \ {child}]>>
               \o Tail(walk)
    /\ preorder' = [preorder EXCEPT ![child] = clock]
    /\ clock' = clock + 1
    /\ UNCHANGED <<succs, phase, order, iteration, postorder>>

Ascend ==
    /\ phase = "intervals"
    /\ walk # <<>> /\ Head(walk).rest = {}
    /\ postorder' = [postorder EXCEPT ![Head(walk).block] = clock]
    /\ clock' = clock + 1
    /\ walk' = Tail(walk)
    /\ UNCHANGED <<succs, phase, order, iteration, preorder>>

IntervalsDone ==
    /\ phase = "intervals" /\ walk = <<>>
    /\ phase' = "done"
    /\ UNCHANGED <<succs, search, iteration, intervals>>

Stop == phase = "done" /\ UNCHANGED vars

Step ==
    \/ \E b \in Blocks : Visit(b) \/ Consider(b) \/ Descend(b)
    \/ Leave \/ OrderDone \/ ClimbA \/ ClimbB \/ Meet \/ Assign \/ Again \/ IdomsDone \/ Ascend \/ IntervalsDone

Next == Step \/ Stop

Spec == Init /\ [][Next]_vars /\ WF_vars(Step)

-----------------------------------------------------------------------------
(* Dominators::strictly_dominates and immediate_dominator *)
strictly_dominates(a, b) ==
    /\ a # b
    /\ a \in Reachable /\ b \in Reachable
    /\ preorder[a] < preorder[b] /\ postorder[b] < postorder[a]

immediate_dominator(block) == IF block = Entry THEN None ELSE idoms[block]

TypeOK ==
    /\ succs \in [Blocks -> SUBSET Blocks]
    /\ phase \in {"order", "idoms", "intervals", "done"}
    /\ \A i \in DOMAIN walk : walk[i].block \in Blocks /\ walk[i].rest \subseteq Blocks
    /\ order \in Seq(Blocks) /\ \A i, j \in DOMAIN order : order[i] = order[j] => i = j
    /\ idoms \in [Blocks -> Blocks \cup {None}]
    /\ rest \subseteq Blocks /\ {candidate, finger} \subseteq Blocks \cup {None}
    /\ clock <= 2 * Cardinality(Blocks)

(* Every processed block but the entry has its idom before it in the order,  *)
(* and that one is processed too: the fingers always find an idom to go to   *)
(* ("processed node has an idom") and always meet.                           *)
FingersMeet ==
    /\ \A b \in Blocks \ {Entry} : idoms[b] # None =>
          /\ {b, idoms[b]} \subseteq Reachable
          /\ Position(idoms[b]) < Position(b)
          /\ idoms[idoms[b]] # None
    /\ finger # None => idoms[candidate] # None /\ idoms[finger] # None

(* The iteration only ever errs on one side: a true dominator of a block     *)
(* also dominates, or is, the idom the block has at the moment.              *)
IdomsBelowDominators ==
    phase = "idoms" =>
        \A b \in Blocks \ {Entry} : idoms[b] # None =>
            \A a \in Blocks : StrictlyDominates(Entry, a, b, succs) =>
                a = idoms[b] \/ StrictlyDominates(Entry, a, idoms[b], succs)

(* The answers are those of the definition: "every path from the entry to b  *)
(* passes through a", and the immediate dominator is the closest one.        *)
DominatorsCorrect ==
    phase = "done" =>
        \A a, b \in Blocks :
            /\ strictly_dominates(a, b) <=> StrictlyDominates(Entry, a, b, succs)
            /\ immediate_dominator(b) = a <=>
                  /\ StrictlyDominates(Entry, a, b, succs)
                  /\ \A c \in Blocks : StrictlyDominates(Entry, c, b, succs) =>
                        c = a \/ StrictlyDominates(Entry, c, a, succs)
=============================================================================

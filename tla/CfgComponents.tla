--------------------------- MODULE CfgComponents ----------------------------
(***************************************************************************)
(* Cfg::scc_labels and blocks_on_cycles: a walk forward notes the order in *)
(* which blocks are finished, then the latest finished block without a     *)
(* label gives a new one to all that lead to it and have none.             *)
(* Blocks, successors and predecessors are taken in any order.             *)
(***************************************************************************)
EXTENDS CfgPaths, FiniteSets, Naturals, Sequences

CONSTANTS
    Blocks,
    Graphs,    \* the graphs considered
    None

VARIABLES
    succs,      \* the graph
    walk,       \* frames [block, rest], the innermost first
    finished,   \* finish_order, the latest first
    at,         \* position in it, once all are finished
    labels,
    label,      \* the next label
    stack       \* labelled blocks whose predecessors are still to be looked at

vars == <<succs, walk, finished, at, labels, label, stack>>

Init ==
    /\ succs \in Graphs
    /\ walk = <<>> /\ finished = <<>>
    /\ at = 0
    /\ labels = [b \in Blocks |-> None]
    /\ label = 0
    /\ stack = {}

-----------------------------------------------------------------------------
(* scc_finish_order *)
Visited == {walk[i].block : i \in DOMAIN walk} \cup {finished[i] : i \in DOMAIN finished}

Frame(block) == [block |-> block, rest |-> succs[block]]

Start(block) ==
    /\ at = 0 /\ walk = <<>>
    /\ block \notin Visited
    /\ walk' = <<Frame(block)>>
    /\ UNCHANGED <<succs, finished, at, labels, label, stack>>

Visit(next) ==
    /\ walk # <<>> /\ next \in Head(walk).rest
    /\ walk' = (IF next \in Visited THEN <<>> ELSE <<Frame(next)>>)
               \o <<[Head(walk) EXCEPT !.rest = @ \ {next}]>> \o Tail(walk)
    /\ UNCHANGED <<succs, finished, at, labels, label, stack>>

(* Mutant: the earliest finished block comes first. *)
LeaveEarliest ==
    /\ walk # <<>> /\ Head(walk).rest = {}
    /\ finished' = Append(finished, Head(walk).block)
    /\ walk' = Tail(walk)
    /\ UNCHANGED <<succs, at, labels, label, stack>>

Leave ==
    /\ walk # <<>> /\ Head(walk).rest = {}
    /\ finished' = <<Head(walk).block>> \o finished
    /\ walk' = Tail(walk)
    /\ UNCHANGED <<succs, at, labels, label, stack>>

AllFinished ==
    /\ at = 0 /\ walk = <<>> /\ Visited = Blocks
    /\ at' = 1
    /\ UNCHANGED <<succs, walk, finished, labels, label, stack>>

-----------------------------------------------------------------------------
(* scc_labels and label_reverse_component *)
Labelled(S) == [b \in Blocks |-> IF b \in S THEN label ELSE labels[b]]

NewComponent ==
    /\ at \in DOMAIN finished /\ stack = {}
    /\ labels[finished[at]] = None
    /\ labels' = Labelled({finished[at]})
    /\ stack' = {finished[at]}
    /\ UNCHANGED <<succs, walk, finished, at, label>>

Grow(node) ==
    LET new == {b \in Preds(node, succs) : labels[b] = None}
    IN  /\ node \in stack
        /\ labels' = Labelled(new)
        /\ stack' = (stack \ {node}) \cup new
        /\ UNCHANGED <<succs, walk, finished, at, label>>

(* On to the next block, past those with a label. *)
Advance ==
    /\ at \in DOMAIN finished /\ stack = {}
    /\ labels[finished[at]] # None
    /\ label' = IF labels[finished[at]] = label THEN label + 1 ELSE label
    /\ at' = at + 1
    /\ UNCHANGED <<succs, walk, finished, labels, stack>>

Done == at > Len(finished) /\ at > 0

Stop == Done /\ UNCHANGED vars

Step ==
    \/ \E b \in Blocks : Start(b) \/ Visit(b) \/ Grow(b)
    \/ Leave \/ AllFinished \/ NewComponent \/ Advance

Next == Step \/ Stop

Spec == Init /\ [][Next]_vars /\ WF_vars(Step)

-----------------------------------------------------------------------------
(* blocks_on_cycles *)
Size(l) == Cardinality({b \in Blocks : labels[b] = l})

blocks_on_cycles == {b \in Blocks : b \in succs[b] \/ Size(labels[b]) > 1}

(* Labels are given in order, and each is the label of some block. *)
TypeOK ==
    /\ succs \in [Blocks -> SUBSET Blocks]
    /\ finished \in Seq(Blocks) /\ \A i, j \in DOMAIN finished : finished[i] = finished[j] => i = j
    /\ stack \subseteq Blocks
    /\ \A b \in Blocks : labels[b] = None \/ labels[b] <= label
    /\ \A l \in 0 .. label : l < label => Size(l) > 0

(* While labels are given, a component that is done is a whole one, and its  *)
(* blocks lie on cycles together.                                            *)
ComponentsWhole ==
    \A a, b \in Blocks :
        labels[a] # None /\ stack = {} => (labels[a] = labels[b] <=> Together(a, b, succs))

(* In the end every block has a label, and the blocks on cycles are those    *)
(* from which a way leads back.                                              *)
CyclesFound ==
    Done => /\ \A b \in Blocks : labels[b] # None
            /\ blocks_on_cycles = {b \in Blocks : OnCycle(b, succs)}
=============================================================================

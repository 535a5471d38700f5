------------------------------- MODULE MCCfg --------------------------------
(***************************************************************************)
(* One call on a control flow graph for TLC: a search, its dominators, its *)
(* components, or a sequence of changes to it.  What belongs to the other  *)
(* calls stays as it is before a call.                                     *)
(***************************************************************************)
EXTENDS CfgReachability, TLC

CONSTANTS None, MaxPayloads, MaxEdges

(* A graph has finitely many blocks, and no label or block is None. *)
ASSUME GraphAssumption == IsFiniteSet(Blocks) /\ None \notin Nat \cup Blocks

VARIABLES
    call,
    phase, walk, order, idoms, at, changed, considered, candidate, finger, clock, preorder, postorder,
    steps, finished, place, labels, label, grown,
    payloads, successors, predecessors, entry, exit, appended

dominators_vars == <<phase, walk, order, idoms, at, changed, considered, candidate, finger, clock, preorder, postorder>>
components_vars == <<steps, finished, place, labels, label, grown>>
editing_vars == <<payloads, successors, predecessors, entry, exit, appended>>
all_vars == <<vars, call, dominators_vars, components_vars, editing_vars>>

Dominators == INSTANCE CfgDominators WITH rest <- considered
Components == INSTANCE CfgComponents WITH walk <- steps, at <- place, stack <- grown
Editing == INSTANCE CfgEditing WITH succs <- successors, preds <- predecessors

-----------------------------------------------------------------------------
(* Lists are taken in any order, so blocks are alike, but for the entry if   *)
(* it matters: it is enough to look at graphs whose blocks are sorted in     *)
(* some way.                                                                 *)
Weight(b, g) == 25 * Cardinality(g[b]) + 5 * Cardinality(Preds(b, g)) + (IF b \in g[b] THEN 1 ELSE 0)
Sorted(g, S) == \A a, b \in S : a < b => Weight(a, g) <= Weight(b, g)

EveryGraph == {g \in [Blocks -> SUBSET Blocks] : Sorted(g, Blocks \ {Entry})}

(* Without loops of one block, which change no dominator. *)
DominatorGraphs == {g \in EveryGraph : \A b \in Blocks : b \notin g[b]}

(* Conditions and statements: two successors at most. *)
BinaryGraphs == {g \in EveryGraph : \A b \in Blocks : Cardinality(g[b]) <= 2}

NoGraph == [b \in Blocks |-> {}]
GraphsOf ==
    [reachable_from_entry |-> BinaryGraphs,
     dominators |-> DominatorGraphs,
     scc_labels |-> {g \in BinaryGraphs : Sorted(g, Blocks)},
     editing |-> {NoGraph}]

MCInit ==
    /\ call \in DOMAIN GraphsOf
    /\ succs \in GraphsOf[call]
    /\ Init /\ Dominators!Init /\ Components!Init /\ Editing!Init

Search ==
    /\ call = "reachable_from_entry"
    /\ Pop \/ \E next \in Blocks : LookAt(next)
    /\ UNCHANGED <<call, dominators_vars, components_vars, editing_vars>>

FindDominators ==
    /\ call = "dominators"
    /\ Dominators!Step
    /\ UNCHANGED <<call, seen, stack, rest, components_vars, editing_vars>>

LabelComponents ==
    /\ call = "scc_labels"
    /\ Components!Step
    /\ UNCHANGED <<call, seen, stack, rest, dominators_vars, editing_vars>>

Change ==
    /\ call = "editing"
    /\ Editing!Next
    /\ UNCHANGED <<call, vars, dominators_vars, components_vars>>

CallEnded ==
    \/ call = "reachable_from_entry" /\ Done
    \/ call = "dominators" /\ phase = "done"
    \/ call = "scc_labels" /\ Components!Done

MCNext ==
    \/ Search \/ FindDominators \/ LabelComponents \/ Change
    \/ CallEnded /\ UNCHANGED all_vars

MCSpec == MCInit /\ [][MCNext]_all_vars /\ WF_all_vars(Search \/ FindDominators \/ LabelComponents)

-----------------------------------------------------------------------------
(* dominators() answers as the definition of dominators does; until then the *)
(* two fingers of an intersection always meet and the iteration errs on one  *)
(* side only.                                                                *)
DominatorsCorrect ==
    /\ Dominators!TypeOK
    /\ Dominators!FingersMeet
    /\ Dominators!IdomsBelowDominators
    /\ Dominators!DominatorsCorrect

(* scc_labels() gives a whole component one label before it goes on, and     *)
(* blocks_on_cycles() finds the blocks from which a way leads back.          *)
ComponentsCorrect == Components!TypeOK /\ Components!ComponentsWhole /\ Components!CyclesFound

(* After any changes successor and predecessor lists mirror each other, and  *)
(* entry and exit are blocks 0 and 1: pruning, which may shift every other   *)
(* number, shifts neither, against cfg.rs:242 on the exit.                   *)
EdgesMirrored == Editing!TypeOK

(* into_reachable_subgraph() keeps edges, ways, dominators and cycles of the *)
(* blocks that can be reached, and nothing else.                             *)
PruneKeepsMeaning == [][Editing!PruneKeeps]_editing_vars

(* Searches and iterations end, on cycles and in irreducible graphs too. *)
CallsEnd == call # "editing" => <>CallEnded
=============================================================================

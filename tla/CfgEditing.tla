----------------------------- MODULE CfgEditing -----------------------------
(***************************************************************************)
(* The graph itself: Cfg keeps its edges twice, as successor and as        *)
(* predecessor lists, which add_edge and remove_edge change together and   *)
(* into_reachable_subgraph renumbers.  Blocks are numbered from zero, and  *)
(* each carries a payload of its own.  That reachable_from_entry computes  *)
(* Reach is what CfgReachability is about.                                 *)
(***************************************************************************)
EXTENDS CfgPaths, Naturals, Sequences, FiniteSets, SequencesExt

CONSTANTS
    MaxPayloads,   \* bound: blocks ever appended
    MaxEdges       \* bound: edges at a time

VARIABLES payloads, succs, preds, entry, exit, appended

vars == <<payloads, succs, preds, entry, exit, appended>>

blocks == 0 .. Len(payloads) - 1
edge_count == Cardinality(UNION {{b} \X ToSet(succs[b]) : b \in blocks})

(* disconnected *)
Init ==
    /\ payloads = <<1, 2>>
    /\ succs = [b \in 0 .. 1 |-> <<>>] /\ preds = succs
    /\ entry = 0 /\ exit = 1
    /\ appended = 2

-----------------------------------------------------------------------------
(* Mutant: the predecessor is listed for an edge that was there already. *)
AddEdgeTwice(from, to) ==
    /\ edge_count < MaxEdges
    /\ succs' = [succs EXCEPT ![from] = IF Contains(@, to) THEN @ ELSE Append(@, to)]
    /\ preds' = [preds EXCEPT ![to] = Append(@, from)]
    /\ UNCHANGED <<payloads, entry, exit, appended>>

AddEdge(from, to) ==
    /\ edge_count < MaxEdges
    /\ ~Contains(succs[from], to)
    /\ succs' = [succs EXCEPT ![from] = Append(@, to)]
    /\ preds' = [preds EXCEPT ![to] = Append(@, from)]
    /\ UNCHANGED <<payloads, entry, exit, appended>>

RemoveEdge(from, to) ==
    /\ Contains(succs[from], to)
    /\ succs' = [succs EXCEPT ![from] = RemoveFirst(@, to)]
    /\ preds' = [preds EXCEPT ![to] = RemoveFirst(@, from)]
    /\ UNCHANGED <<payloads, entry, exit, appended>>

AppendNode ==
    /\ appended < MaxPayloads
    /\ payloads' = Append(payloads, appended + 1)
    /\ succs' = [b \in 0 .. Len(payloads) |-> IF b \in blocks THEN succs[b] ELSE <<>>]
    /\ preds' = [b \in 0 .. Len(payloads) |-> IF b \in blocks THEN preds[b] ELSE <<>>]
    /\ appended' = appended + 1
    /\ UNCHANGED <<entry, exit>>

-----------------------------------------------------------------------------
Graph == [b \in blocks |-> ToSet(succs[b])]

(* Mutant: blocks that do not lead to the exit are dropped too. *)
KeptToExit == {b \in Reach(entry, Graph) : exit \in Reach(b, Graph)} \cup {entry, exit}

Kept == Reach(entry, Graph) \cup {exit}

(* How many numbers of a set come before x, and the one that n come before. *)
Rank(x, S) == Cardinality({y \in S : y < x})
Ranked(n, S) == CHOOSE x \in S : Rank(x, S) = n

(* The number of a kept block after the others are dropped, and the block    *)
(* that will have a number.                                                  *)
Renumbered(b) == Rank(b, Kept)
WithNumber(n) == Ranked(n, Kept)

(* filter_map of a list with the new numbers: the order of its kept blocks   *)
(* stays as it is.                                                           *)
RenumberedList(list) ==
    LET kept == {i \in DOMAIN list : list[i] \in Kept}
    IN  [n \in 1 .. Cardinality(kept) |-> Renumbered(list[Ranked(n - 1, kept)])]

(* into_reachable_subgraph *)
Prune ==
    LET numbers == 0 .. Cardinality(Kept) - 1
    IN  /\ payloads' = [i \in 1 .. Cardinality(Kept) |-> payloads[WithNumber(i - 1) + 1]]
        /\ succs' = [n \in numbers |-> RenumberedList(succs[WithNumber(n)])]
        /\ preds' = [n \in numbers |-> RenumberedList(preds[WithNumber(n)])]
        /\ entry' = Renumbered(entry)
        /\ exit' = Renumbered(exit)
        /\ UNCHANGED appended

Next ==
    \/ \E a, b \in blocks : AddEdge(a, b) \/ RemoveEdge(a, b)
    \/ AppendNode \/ Prune

Spec == Init /\ [][Next]_vars

-----------------------------------------------------------------------------
(* "Edge sets are deduplicated and mirrored between successor and            *)
(* predecessor lists", and "Blocks 0 and 1 are always the entry and the      *)
(* exit" (cfg.rs:29): also after blocks were dropped.  The comment of        *)
(* into_reachable_subgraph says that "the exit's id may shift when           *)
(* unreachable blocks preceded it" (cfg.rs:242); it does not, since only the *)
(* entry, which is kept, has a number below it.                              *)
TypeOK ==
    /\ DOMAIN succs = blocks /\ DOMAIN preds = blocks
    /\ \A a \in blocks : IsInjective(succs[a]) /\ IsInjective(preds[a])
    /\ \A a \in blocks : ToSet(succs[a]) \cup ToSet(preds[a]) \subseteq blocks
    /\ \A a, b \in blocks : Contains(succs[a], b) <=> Contains(preds[b], a)
    /\ entry = 0 /\ exit = 1

(* What an analysis would say of the blocks that can be reached, told by     *)
(* their payloads: edges, ways, dominators and cycles.                       *)
ByPayload(S) == {payloads[b + 1] : b \in S}
Live == Reach(entry, Graph)
Told ==
    [p \in ByPayload(Live) |->
        LET b == CHOOSE c \in blocks : payloads[c + 1] = p
        IN  [next |-> ByPayload(Graph[b]),
             ways |-> ByPayload(Reach(b, Graph)),
             dominators |-> ByPayload({a \in blocks : StrictlyDominates(entry, a, b, Graph)}),
             cyclic |-> OnCycle(b, Graph)]]

(* Pruning drops what cannot be reached and nothing else: what there is to   *)
(* say of the rest stays the same, all of the rest but the exit can be       *)
(* reached, and pruning again would change nothing.                          *)
PruneKeeps ==
    Prune => Told' = Told /\ (blocks \ {exit} \subseteq Live)' /\ (Kept = blocks)'
=============================================================================

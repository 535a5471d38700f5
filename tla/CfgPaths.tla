------------------------------ MODULE CfgPaths ------------------------------
(***************************************************************************)
(* What the algorithms of hoonarqube-dataflow's Cfg are to compute, stated *)
(* without an algorithm.  A graph maps each block to the set of its        *)
(* successors.                                                             *)
(***************************************************************************)

Closed(S, graph) == \A b \in S : graph[b] \subseteq S

(* The blocks on paths from a block: the least closed set that has it. *)
Reach(from, graph) ==
    {b \in DOMAIN graph : \A S \in SUBSET DOMAIN graph : from \in S /\ Closed(S, graph) => b \in S}

Preds(block, graph) == {b \in DOMAIN graph : block \in graph[b]}

(* The graph without the ways through a block. *)
Avoiding(block, graph) == [b \in DOMAIN graph |-> IF b = block THEN {} ELSE graph[b]]

(* Every path from the entry to b passes through a. *)
StrictlyDominates(entry, a, b, graph) ==
    /\ a # b
    /\ b \in Reach(entry, graph)
    /\ b \notin Reach(entry, Avoiding(a, graph))

(* Two blocks lie on a cycle together. *)
Together(a, b, graph) == b \in Reach(a, graph) /\ a \in Reach(b, graph)

OnCycle(a, graph) == \E b \in graph[a] : a \in Reach(b, graph)
=============================================================================

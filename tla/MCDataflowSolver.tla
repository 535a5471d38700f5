-------------------------- MODULE MCDataflowSolver --------------------------
(* The calls that are model checked.                                         *)
EXTENDS DataflowSolver, FiniteSets

CONSTANTS
    b1, b2,
    Inner   \* the blocks that are neither entry nor exit

(* The graphs of a builder: no edge leaves the exit or enters the entry.     *)
(* The inner blocks are alike, so one order of their out-degrees is enough.  *)
OutDegree(b, g) == Cardinality({e \in g : e[1] = b})
FlowGraphs ==
    {g \in SUBSET {e \in Blocks \X Blocks : e[1] # Exit /\ e[2] # Entry} :
        OutDegree(b1, g) <= OutDegree(b2, g)}

GenKill(gen, kill) == [x \in SUBSET Facts |-> (x \ kill) \cup gen]

Pass == GenKill({}, {})

(* Inner blocks generate, kill or pass on each fact, entry and exit pass. *)
InnerTransfers ==
    {[b \in Blocks |-> IF b \in Inner THEN t[b] ELSE Pass] :
        t \in [Inner -> {GenKill(g, k) : g \in SUBSET Facts, k \in SUBSET Facts}]}
=============================================================================

----------------------------- MODULE MCFixApply -----------------------------
(***************************************************************************)
(* The processes and files that are model checked.  Inodes are alike: new  *)
(* files take the least of those that are free.                            *)
(***************************************************************************)
EXTENDS FixApply

InUse == Nodes \ Free

MCInit == Init /\ \A n \in InUse, m \in Free : n < m

MCNext == Next /\ \A n \in Free \ Free', m \in Free : n <= m

MCSpec == MCInit /\ [][MCNext]_vars /\ Fairness
=============================================================================
